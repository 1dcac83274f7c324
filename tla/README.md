# Mistle: sandbox instances and delivery queues, in TLA+

Mistle runs agents in sandboxes. The data plane starts, watches, stops, resumes
and deletes them, and its parts run in different processes that share a
PostgreSQL row, a Valkey record and a workflow engine. The control plane
delivers triggers and webhook events to the agents, through queues whose
processors are workflows themselves. This directory models both: who may change
the state of a sandbox instance, and of a delivery queue, in which order the
changes can meet, and what has to be true whatever the order.

Paths below are relative to the repository root (`src/`).

## The system

### Components, their state and their operations

| Component | Keeps | Operations |
|---|---|---|
| lifecycle rules (`packages/sandbox-lifecycle`) | nothing; pure | `transitionSandboxLifecycle`, the stop and reconciliation policies |
| data-plane API (`apps/data-plane-api`) | `sandbox_instances` (status, deleted_at, provider id), `sandbox_instance_deadlines` | apply a runtime report, put and delete a deadline, request a stop, resume, reconcile or delete, read an instance |
| data-plane gateway (`apps/data-plane-gateway`) | per process: sockets, the current bootstrap peer, one operation queue per sandbox; shared in Valkey: attachment and readiness records with a TTL | attach and detach a tunnel, renew its lease, forward readiness, health and keepalive messages, touch the idle deadline for a presence, terminate an attachment |
| data-plane worker (`apps/data-plane-worker/openworkflow`) | durable step results (the engine's) | start, resume, stop, reconcile, delete and deadline workflows; usage events |
| sandbox providers (`packages/sandbox`, external services) | the compute | inspect, start, resume, stop, destroy |
| usage aggregation (`apps/data-plane-api/.../sandbox-usage`) | usage events | intervals per compute generation |
| snapshot materialisation (worker) | a snapshot sandbox | build, capture, clean up |
| sandboxd and runtimes (in the compute) | the agent's processes | connect a tunnel, say ready or busy |
| trigger delivery (`apps/control-plane-worker/openworkflow/handle-trigger-*`) | trigger runs, per conversation a queue of tasks, a processor row and a route to a sandbox | a workflow per trigger run that enqueues a task and starts the processor; a workflow per generation of the processor that delivers |
| association delivery (`.../handle-integration-webhook-event`, `.../handle-provider-resource-association-delivery`) | webhook events, per association a queue of deliveries and a processor row | a workflow per event; a workflow per generation of the processor |
| rest of the control plane (`apps/control-plane-api`, `-worker`) | profiles, integrations, schedules | rows of their own; asks the data plane for sandboxes |
| dashboard, CLI, integrations | views, definitions | user interface, request translation |

### How they interact

```
 user / control plane ── requests ──► API ── enqueue ──► workflow engine ──► workers
                                       ▲ │                                     │
          reports, deadlines ──────────┘ └── row, deadlines (PostgreSQL) ──────┤
 sandbox ══ bootstrap tunnel ══► gateway nodes ── attachment, readiness ───────┤
    ▲                             (Valkey, TTL 30 s)       read, terminate ◄───┤
    └───────────────────────── compute ◄── provider ◄─── inspect, stop, ... ───┘
```

A bootstrap tunnel carries an *owner lease*. Attaching it writes the
attachment, reports to the API and arms the *idle deadline* (300 s, moved by
presence and keepalives). Losing it gives the attachment up, clears the idle
deadline, reports the detach and arms the *disconnect deadline* (60 s). A
deadline has a *generation*; its workflow run compares lease and generation with
the stored row before it stops (idle) or reconciles (disconnect) the sandbox.
Stops and reconciliations check the attachment again before each of their
effects: these checks are called fences below.

Both delivery queues have one *processor* per conversation or association, a row
that is idle or running with a *generation*. Whoever enqueues an item makes an
idle processor running with the next generation and creates that generation's
workflow run; whoever finds it running relies on the run that is there. The run
looks for the first waiting item in source order, claims it in a second statement,
delivers it, looks again, and makes the row idle when it finds none left.

### What is hard

- The status column has many writers that read, decide and write in separate
  statements, in several processes.
- The gateway's queue orders the operations of one process only, and the
  attachment is read and written by separate Valkey commands.
- Stopping a compute brings its tunnel down, so a stop triggers the disconnect
  path that may stop the same sandbox.
- Workflow steps are retried after failures and after the death of a worker,
  with what they had done left in place.
- What a run saw at the provider is stale when it acts on it.
- Nothing but an armed deadline with an enqueued run ever looks at a sandbox
  that its user has forgotten.
- A compute exists before its id is recorded, and a read of an instance writes
  what it inferred from an inspection that is over.
- A queue's row says that a run is at work. It may be wrong about that after a
  failed or unacknowledged call, a dead worker, or a run that goes idle while an
  item arrives.
- The first waiting item is selected before it is claimed, and an earlier one may
  arrive in between.
- A payload that was handed to an agent cannot be taken back, and the step that
  handed it over may be executed again.

`PROJECT.json` lists these places one by one, with the line at which each bites
and the properties that would notice it going wrong.

### What makes each component correct

- *Status column*: the services behave as if every event were applied at one
  instant by the rule table; a terminal status is left only by a restart.
- *Gateway*: once it is quiet, row and deadlines agree with the session that
  owns the tunnel; every closed tunnel is followed up.
- *Deadlines*: a run can tell whether the deadline it was enqueued for is still
  the stored one.
- *Workflows*: a stop, a startup and a deletion end; stopped means that no
  compute runs; terminal rows stay terminal; every live sandbox is watched; no
  compute is left that nothing knows of; the usage interval is open exactly while
  the compute runs.
- *Delivery queues*: items are taken one at a time, each the first in source order
  when it was looked for, and end once; none is handed over twice; a running processor has somebody serving it;
  what was claimed comes to an end; runs, events and tasks agree on how it ended.

## Modules

| Module | Models |
|---|---|
| `SandboxLifecycle` | statuses, events, the rule table, the policies read off a status |
| `LifecycleRegister` | abstract: one operation that takes a row of the rule table at one instant or refuses |
| `ApplyLifecycleEvent` | `applySandboxLifecycleEvent` (worker) and `applySandboxRuntimeLifecycleEvent` (API), a step per SQL statement, any callers, deletion at any time |
| `SandboxRow` | the shared state of one instance: row, attachment, readiness, deadlines, enqueued runs; putting and deleting deadlines |
| `GatewayTunnel` | sessions, peers and lifecycle coordinators of the gateway nodes; an action per awaited call; failing calls and crashes |
| `TunnelOwnership` | `GatewayTunnel` on its own, with a sandbox that connects and disconnects |
| `WorkerRuns` | durable runs, attempts, dying workers, the row lock; the provider's compute |
| `StartWorkflow`, `StopWorkflow`, `ReconcileWorkflow`, `ResumeWorkflow`, `DeleteWorkflow` | the steps of each workflow |
| `InstanceRead` | `getSandboxInstance`: read, inspect, repair the row |
| `DeadlineWorkflow` | taking a due run up and checking it, then stop or reconcile |
| `SandboxInstance` | all of it together, with the API's requests and the gateway's terminate route |
| `MCSandboxInstance` | symmetry of the workers |
| `SerialQueue` | abstract: items enqueued in any order; the first of those waiting is picked, then taken, one at a time, and finished once |
| `TriggerDelivery` | trigger runs, tasks, processor, delivery runs and the route of one conversation |
| `AssociationDelivery` | webhook events, deliveries, processor and delivery runs of one association |
| `ApplyLifecycleEventProofs`, `TunnelOwnershipProofs`, `SandboxInstanceProofs`, `TriggerDeliveryProofs`, `AssociationDeliveryProofs` | theorems and proofs about the module they are named for |
| `GatewayTunnelProofs` | what every step of the gateway preserves, for the two modules that contain it |
| `OneNodeGatewayProofs` | likewise what every step of a gateway of one node preserves |
| `SandboxWatchProofs` | that a live sandbox is watched: a theorem of `SandboxInstance` that takes a proof of its own |

Definitions whose comment starts with "Mutant:" are deliberately broken
variants of the definition that follows them. `PROJECT.json` pairs each with
the property that TLC finds violated when it takes the definition's place.

### From code to state and actions

*Status and row.* `status`, `deleted` and `provider` are the columns `status`,
`deleted_at` (is it set) and `provider_sandbox_id` (is it set).
`ApplyLifecycleEvent` shows that read and conditional UPDATE act at one instant,
so the larger modules apply an event in one step. The transactions with
`SELECT ... FOR UPDATE` that mark an instance stopped or failed are two steps,
because they read the attachment over the network in between; `RowLocked` keeps
every other writer of the row out until the commit.

*Leases.* A lease is the number of the connection that carries it; the code uses
random identifiers and compares them for equality only. The numbering is used by
`Connect` and by properties.

*Gateway.* `session[l].activation` is the progress of
`activateBootstrapAttachment`, `line[n]` the promise chain of
`SandboxDeadlineLifecycleCoordinator`, its head the operation under way and
`step` the call it awaits. A rejected call ends the operation and the chain goes
on (`CallFails`). A process talks to Valkey over one connection, so commands of
one process keep their order (`Flushed`, `AllFlushed`); commands of different
processes do not.

*Workers.* `run[w]` is a workflow run that a worker executes; `pc` names the
call it makes next. `Throw` starts the durable step over while attempts are
left. The first step of a stop or reconcile run, and the whole deadline run, is
one durable step of several calls; the steps in `OwnSteps` are durable on their
own.

*Start and read.* `StartWorkflow` has the start run's durable steps; a step that
is out of attempts leads to `undo` when a compute was allocated and to
`undo_mark` otherwise. `Beginnings` says whether an instance begins running, or
pending with its start run just taken up. A setup check is a start that goes on
at `setup_request`; which kind an instance is, is chosen when it is running. The
row is there before the run looks for it, as `ensureSandboxInstance` inserts it
otherwise. `NotActivated` keeps tunnels away until the run gets to activating
the runtime, a little before its credentials exist. A read is modelled as a run
of three calls that is never repeated; it occupies one of the `Workers`, which
bounds how many things happen at once.

*Provider.* `compute` is what the provider would report now, in the five
dispositions the policies distinguish. `StopLeaves` says what a stop may leave
behind, `Losses` what may happen to a compute that nobody stopped,
`DestroyFails` whether the undo of a startup may fail to destroy.

*Queues.* Trigger runs and events are numbered by the rank of their source order
key, so `<=` on numbers is the order of the keys; they arrive in any order. `handoff`
and `hook` are the workflows that enqueue, `delivery` (triggers) and `run`
(associations) the processor's runs, by generation; `pc` is the next durable
step, or the next call where a step makes several that others can see. A claim is
two of these, as in the code: `ClaimOrResume` and `Claim` select the first waiting
item, without a lock on it, and `TakeTask` and `Take` update it if it is still
waiting. Going idle is two likewise (`CheckEmpty`, `SetIdle`). A worker that dies
between the two statements has changed nothing, and its run starts the step over as
if it had not begun. An association's claim and its going idle hold the lock of the
processor's row from the first to the second (`RowLocked`), for which an event that
inserts a delivery does not wait. `tries` counts attempts as the step's retry policy does (`AttemptsOf`, `At`). What no
later step reads is reset, so that states do not differ in it.

*Mishaps.* `Mishaps` are the kinds of failure of a queue's environment:
a call that fails before (`throw`) or after (`late`) it took effect, a worker
that dies with the step's result not stored (`died`), a sandbox that fails
(`broken`), a refusal that is not retried (`rejected`). Three kinds last: they
leave the processor's row and its run in disagreement, and nothing in the code
notices. `unacknowledged`: the engine created a run although the call failed, so
the row is made idle and a second generation works beside the first. `idle_lost`:
the run that made the row idle does not learn of it and goes on. `abandoned`: a
worker died, or a second call failed, between making the row running and creating
the run. Serial delivery is claimed while the first two have not happened
(`Orderly`), that a running row is served while none has; that nothing is
delivered twice is claimed in every case.

### Abstractions

- *Due times.* A run may be taken up at any time after it was enqueued, and a
  put may or may not repeat the due time stored. One fact about time is kept:
  the attachment's TTL (30 s) is shorter than the disconnect grace (60 s) and
  the idle timeout (300 s), so when a run comes due the earlier sessions of its
  node are closed and their records have expired (`Gone`, used by
  `DeadlineDue`). It rests on `runtime-state/durations.ts` and on a clock that
  is not seconds off.
- *A deletion's attempts.* The delete run throws while an instance without a
  provider id starts up. `DeleteLoad` assumes that its attempts, which back off,
  are not used up before the API, whose next statement it is, stamps the row.
- *What an event or trigger asks for*, that is which triggers and associations
  match and what is rendered, is a nondeterministic choice, the same one in each
  attempt.
- *Startup failure evidence* is a nondeterministic choice in the reconciliation.
- *Second looks.* `markSandboxInstanceRunning` and `markSandboxInstanceStarting`
  read the status again after their transaction and throw if it has moved on;
  `StartMarkRunning`, `ResumeEvent` and `ResumeGuardedEvent` leave this second read
  out. The throw leads to where the event leads that finds the status moved on before
  it, which is modelled: a readiness report may make the row running first, and a
  detach move it.
- *A stop request that lost a race* reads the status again and claims the stop from
  whatever startup status it now finds. `RequestStop` asks for a status in which a
  user may stop. That a stop is under way on an instance that was starting up is
  reached through the reconciliation.
- *Docker's `restarting`* is a container that counts as active for the stop policies
  and as stopped for a read (`Verdict`). No container is given a restart policy.
- *The terminate route* is one step; it closes a socket and clears a record, and
  the detach that follows is the coordinator's.
- *Calls of a worker's step that fail* are not enumerated one by one; dying
  workers stop a step at every one of its calls. A worker that dies after the
  last call of a step, before the result is stored, is modelled where the next
  step depends on that result (the usage event).
- *Usage* is one flag: whether the latest interval is open.

## Runs

TLC with two workers; every passing run ends in a few minutes.

| Run | Question | Instance |
|---|---|---|
| `apply_lifecycle_event` | Do read, conditional UPDATE and second read implement `LifecycleRegister`, and are terminal statuses left only for a restart? | two callers, every event and report, every initial status |
| `tunnel_one_node` | Does a quiet gateway agree with its tunnel (`AttachedIsNotReconnecting`, `OwnerHasIdleDeadline`), does a generation name one lease, is a closed tunnel always followed up (`ClosedTunnelArmsDisconnect`)? | two connections, one touch, one failing call, one crash; 382,912 states |
| `instance_watched` | Can a live sandbox, or a row in a startup status, fall out of everybody's sight? | a running instance and a second connection, or a start run (session or setup check) and its first; readiness and health reports, both deadlines, two workers, no retries; 963,238 states |
| `instance_user_stop` | Does a user's stop end, and is a lost compute noticed, while the instance is read? | two stops or reads, one connection, idle and disconnect runs, loss at any time, one retry; 208,681 states |
| `instance_delete` | Does a start or resume end, whatever becomes of its tunnel, its runtime and its compute, is the compute of a deleted instance destroyed for good, and is none left behind unrecorded? | a start, and a deletion or a resume at any point; one tunnel that opens and closes, readiness reports, a compute that stops by itself, idle and disconnect runs, two runs at a time; 409,121 states |
| `instance_faults` | Do terminal rows stay terminal, and does stopped mean down, when a worker dies, a call or a destroy fails or the provider answers anything? | running and starting instances, a stop, reconcile, delete or read request, one dying worker, one failing call; 835,682 states |
| `trigger_delivery` | Are payloads delivered one at a time, each the first when it was looked for and none behind a later one, once, to the sandbox the route names, and does every claimed task end with its run finished? | two trigger runs, three generations, three sandboxes, two attempts, any two mishaps; 628,909 states |
| `association_delivery` | The same of deliveries to an association; are events handled completely or left to be taken up again, and do retired runs end? | two events, three generations, two attempts, any two mishaps; 468,098 states |

`tunnel_one_node` and `apply_lifecycle_event` ask about one component,
`instance_*` about their composition.

Four claims of the documentation, of comments or of tests do not hold of the code,
each shown by a run of its own:

| Run | What TLC shows | The claim |
|---|---|---|
| `tunnel_overwrite` | a renewal that read its own attachment writes it again over a newer session's | "stale sessions cannot overwrite newer ones" (`sandbox-runtime-attachment-store.ts`) |
| `instance_usage_open` | a stop by the deadline workflow leaves the usage interval open | "should also record the matching Terminal sandbox usage event" (`CONTEXT.md`) |
| `instance_stop_resume` | a second stop run that saw a stopped compute before a resume marks the row stopped over an active compute | "marks the sandbox stopped only when the provider runtime is resumably stopped" (`stop-provider-policy.test.ts`) |
| `trigger_lost_wakeup` | with nothing failing, a run that found no task makes the processor idle after a second trigger run enqueued its task and was told that the processor is running: the task waits for a trigger that may never come | "keeps the processor running while active tasks still exist" (`trigger-conversation-delivery-persistence.integration.test.ts`) |

`StoppedComputeIsDown` holds in `instance_watched` and `instance_faults`, which
have no resume, and fails in `instance_stop_resume`, which has one: that is the
finding. A read that inspected a stopped compute before a whole resume does the
same; the reads of the passing runs meet no resume.

`StoppingEnds` is checked without a resume too. With one, an idle run that inspected
an active compute may claim the stop over the row that the resume has just made
starting; if the compute was lost meanwhile, the run's last fence finds its lease gone,
the resume's undo leaves the status stopping alone, and the row stays there until the
user stops it again.

`StartupEnds` and `StartupSettles` except one state, a sandbox whose tunnel was attached
again after its startup and that has not said that it is ready (`AwaitsReadiness`): the
row is then initializing with no run in charge of it, for as long as the tunnel is up
and the sandbox says nothing, since an idle run throws on that status.
`instance_watched` reaches it, and without the exception `StartupSettles` fails there;
`instance_delete`, with its single tunnel, does not. A tunnel that is replaced while
the start or resume still waits is not among the runs, as two tunnels and two workers
are too many for liveness: `StartupEnds` was checked for it on the instance of
`instance_delete` with `MaxLease = 2`, `MaxConnects = 2`, one worker and a resume as
the only request (509,305 states), where it holds.

The association queue locks the processor's row while it looks for deliveries.
That does not close the same window: an event inserts its delivery after that
look, finds the row still running, and does not wait for the lock.

### Bounds and why they are enough

- `MaxLease = 2`: every race of tunnels is between an old and a new session. One
  is enough where the question is about runs and requests only.
- `MaxConnects = 1`: one tunnel connects, to replace the one that is up or as the
  first of a start.
- `Messages`: which reports about a session occur: all, but readiness only in
  `instance_delete`. `MaxLine = 0` means that none is sent: so in
  `instance_user_stop`, `instance_faults`, `instance_usage_open` and
  `instance_stop_resume`, in which no health report changes the row and no startup
  succeeds but a resume that finds the readiness of the session before it. What
  readiness and health reports can do is checked in `tunnel_one_node` and
  `instance_watched`, and for startups in `instance_delete`.
- `Losses`: a compute that stops by itself in `instance_delete`, one that is gone in
  `instance_user_stop`, none elsewhere.
- `Workers = {w1, w2}`: two runs at a time. A third would repeat the race of two,
  as runs share no state but the row, the attachment and the compute.
- `MaxTries`: 0 where the question is about what is left when attempts run out,
  1 where a retry has to succeed. The code's policies allow more; each retry
  starts the same step over.
- `MaxLine`: how many operations wait before a message adds another one. Closing
  a socket and attaching are never held back by it.
- `MaxTouches`, `MaxFaults`, `MaxCrashes`, `MaxDeaths`, `MaxRequests`: how often
  the environment acts in all. The proofs hold for every value of these bounds.
- `MaxRun = MaxEvent = 2`: the order of two items is what can go wrong.
  `MaxGeneration = 3`: a processor, its successor, and one more that the two
  mishaps can bring about. `MaxSandbox = 3`: the first, and one replacement for
  each mishap. `Attempts = 2`: a step that is attempted again and one that is
  not.
- `MaxMishaps = 2`: a failure, and one while the first is being dealt with.
- Two gateway nodes make the state space of the composition too large; what is
  proved about the gateway holds for any set of nodes.

Runs disable the deadlock check where the system may really stop: all sockets
closed, all runs over, no budget left.

### Fairness and why the code justifies it

- An event loop gets to every queued promise (`CoordinatorStep`, `SessionStep`).
- A Valkey record that nobody renews expires (`AttachmentExpires`).
- Workers poll the engine for due runs and go on with those they have
  (`DeadlineDue`, `WorkflowStep`); a due run is not lost, as the engine keeps it
  in its database.
- A compute that is stopping stops (`ComputeStops`): the provider's part.
- The socket of a compute that is gone, or one a newer connection replaced, is
  closed: the health monitor terminates it after missed pongs, and a lost lease
  closes it.
- A deletion that enqueued its run goes on to stamp the row (`StampDeleted`).
- The engine gets to every run of a delivery queue that is waiting
  (`HandoffStep`, `DeliveryStep`, `HookStep`, `RunStep`): it keeps runs in its
  database and takes one up whose worker died.

Nothing is assumed of the sandbox, of users, or of failures. A failing API call
or a crash in the middle of a detach defeats the liveness properties: no other
node takes the detach over. `ClosedTunnelArmsDisconnect` therefore excepts
behaviours with a failure, and the liveness runs of `SandboxInstance` have none.
The two agreement properties of the quiet gateway except a failed call (an attach
that could not arm its deadline is given up and logged) but not a crash.

## Proofs

`tlapm` checks every proof to the last leaf.

*`ApplyLifecycleEventProofs`*, for any nonempty set of callers:

- `TypeCorrect`. The inductive invariant adds what `ReadRow` guarantees of a call
  about to write (`CallWellFormed`): it holds a row of the rule table that starts at
  the status it read. Without that nothing is known of what `Swap` writes.
- `TerminalRestarts`: `stopped` and `failed` are left only for `starting`, or
  `stopped` for `failed`, whatever the interleaving.
- `RegisterImplemented`: every step maps to a step of `LifecycleRegister` or to a
  stutter. A call takes effect at the UPDATE that matches, at the read that finds
  the event applied, or at the second read.

*`GatewayTunnelProofs`*, *`OneNodeGatewayProofs`* and *`TunnelOwnershipProofs`*, for any
nonempty set of nodes and any number of leases, renewals, failing calls and crashes:

- `TypeCorrect`. `TypeOK` is not inductive: an operation past its start arms or
  clears a deadline for its lease, so that lease must not be null. `OpRecords`
  adds that; only a presence touch that has not read the attachment yet names
  none.
- `GenerationsUnambiguous`: a run's generation is at most the stored one, and
  equal only when the lease is the same. `computeNextGeneration` keeps the
  generation only for the same lease of an armed deadline, which is what the
  lemmas `NextDeadlineOK`, `PutOK`, `PutUnqueuedOK` and `DeleteOK` establish.
- `AttachedIsNotReconnectingHolds` and `OwnerHasIdleDeadlineHolds`, for one node
  (`OneNode`; with two nodes both are false, see the hazards). `AgreeInv` says
  what holds before everything has settled. A session is `Settled` when it is
  open, the peer, and its attach was completed. `StatusPart` and `IdlePart` say
  that status and idle deadline agree with it, and what the attach or touch under
  way relies on. Their steps need that no detach waits while a session is settled
  (`NoDetach`), which `LinkPart` yields: leases connect in their order
  (`ConnectPart`), their attachments are written in that order (`UpsertPart`, from
  the order of one node's Valkey commands), nothing that waits behind an attach is
  about an older lease (`QueuePart`), and a renewal of the peer writes what is
  there already (`WritePart`).

*`SandboxInstanceProofs`*, the composition, for any number of nodes, leases, runs
at once, requests, attempts, failing calls, crashes and deaths:

- `TypeCorrect` and `GenerationsUnambiguous`, as above with the worker and the
  user's requests added.
- `TerminalOnlyResumesHolds`, the action property, with no hypothesis.
- `ActiveComputeIsKnownHolds`, provided that the provider does not fail to destroy
  a compute (`~DestroyFails`): the undo of a startup destroys the compute and goes
  on whether or not that worked.
- `StoppedComputeIsDownHolds`, under `StopsForGood`: nobody resumes, and a compute
  that was asked to stop is not active afterwards. Both are needed. The run
  `instance_stop_resume` shows what a resume does to the property, and the failed
  setup of a start run marks the row without inspecting the compute again.

The inductive invariant `Inv` says what a run knows from the step it is at, and
why that cannot have become stale:

| Part | Says | Needed because |
|---|---|---|
| `TypePart`, `RecordPart` | domains; a run that terminates a tunnel has a lease; a loaded row was not terminal; a read about to write disagrees with the row it read | the steps use what earlier steps noted in the run |
| `LockPart` | while a transaction holds the row's lock the row is not terminal | the commit writes `stopped` or `failed` without looking again |
| `StartPart` | there is one start run; until it persists its compute, no other run has found one in the row, and before it allocates there is none | otherwise an allocation could bring a compute back that another run knows to be gone |
| `BeyondPart` | what a read or a deletion found gone is still gone | it turns `stopped` into `failed`, or forgets the provider id, later |
| `KnownPart` | a compute that may run again is recorded or in the hands of the start run | `ActiveComputeIsKnown` speaks of the states without runs only |
| `DownPart` | a run about to record a stop has seen a compute that is still down | likewise `StoppedComputeIsDown` |

Each workflow step is first shown to have the effect `RunEffect`: what it may do
to the row, to the compute and to its own run. The parts of the invariant then
follow from that effect once, and not for each of the fifty steps. Everything
else (gateway, sandbox, requests, deadlines coming due, the provider) has the much
smaller `OutsideEffect`.

*`SandboxWatchProofs`*, the composition again, for any number of leases, runs at once,
requests, touches, attempts and deaths:

- `LiveSandboxIsWatchedHolds`, under `Undisturbed`: one gateway node, none of whose
  calls fails and which does not die, and nobody resumes or deletes the instance.
  Stops, reconciliations, reads, lost computes, dying workers and everything a
  tunnel does are unrestricted. All but one of the conditions are needed, as TLC
  shows on small variants of `instance_watched`. A failing call or a crash in a
  detach leaves no deadline behind. With two nodes a renewal of the replaced
  session may write its attachment over the newer one's (as in `tunnel_overwrite`),
  and the newer one's disconnect run then leaves the instance alone. A resume finds
  the attachment and the readiness of the session before the stop (see the hazards)
  and ends while that session is still open, its idle deadline cleared. A deletion
  disturbs nothing in the variants that TLC finished; it is left out because what
  becomes of a deleted instance is the question of `DeletedIsDestroyed`.

The property speaks of the states in which everything has settled. What leads up to
them is `WatchInv`, on top of `Inv`, the generations and `AgreeInv`:

| Part | Says | Needed because |
|---|---|---|
| `PeerPart` | the newest tunnel, while it is open, is the node's peer | then `AgreeInv` says that its idle deadline is armed |
| `ClosedPart` | once the newest tunnel is closed, its detach waits or has armed the disconnect deadline, unless the instance has ended | nothing older may disarm it: no detach is half done, no peer is left |
| `LandPart`, `HeadPart` | what is attached, touched or detached is a session whose attachment was written, and so were all before it | an attachment, once passed, does not come back |
| `JobPart` | an armed deadline has its run; a disconnect run is for a closed lease | a deadline without a run watches nothing |
| `FirstPart`, `BeginPart` | before any tunnel connected, the start run has yet to succeed or to mark the instance failed | no deadline is armed in a startup before that |
| `DonePart` | a deadline run that was taken up is under way, failed, or had a reason to leave the instance alone: a deadline that is another one by now, an instance that has ended, for an idle run a session that is no longer the attached one, for a disconnect run a newer tunnel | the run of the newest tunnel's deadline has none of these reasons |
| `GonePart` | a disconnect run found nothing attached, and finds nothing until a newer tunnel connects | otherwise it might leave the instance alone because of an attachment that is about to lapse; this is where the timing of `Gone` comes in |

`Onward` collects what any step does to the reasons of `DonePart` (a reason that
holds goes on holding) and `Fate` what a step does to a deadline run (it goes on, or
ends for a reason). Each step of the gateway is shown to be `Onward`, each step of a
run to have a `Fate`; `DoneKept` and `GoneKept` put the two together.

*`TriggerDeliveryProofs`* and *`AssociationDeliveryProofs`*, for any number of
runs, events, tasks, generations, attempts and mishaps:

- `TypeCorrect`, `DeliveredOnceHolds` and `RunningIsServedHolds` of both;
  `FinishedTaskHasFinishedRunHolds`, `OneProcessorHolds`, `BoundToItsSandboxHolds`
  and `InSourceOrderHolds` of conversations; `HandledEventHolds` and
  `GivenUpIsSettledHolds` of associations.
- `DeliversSeriallyHolds` of both: every step maps to a step of `SerialQueue` or to
  a stutter. Source order is decided when a claim selects its item: the SELECT is
  `Pick`, the UPDATE `Take`, and an earlier item may be enqueued between the two,
  which the order of `SerialQueue` then does not include. Such a task of a
  conversation is ignored if the later one is completed (`InSourceOrder`); such a
  delivery of an association is made after it.

`DeliveredOnce` rests on `ClaimPart` (associations) and `SubmitPart`
(conversations): a run submits what its own generation has claimed, and a claim is
not taken over; nothing is needed of the order of the queue. `GenerationPart` says
that a generation which was not handed out has no run. `OrderPart` holds as long as
`Orderly` does, that is until a run is created that its creator takes for not
created or, for conversations, a row is made idle unnoticed: then one workflow at
most is starting a run, what is being delivered was claimed by the run of the row's
generation, and a run about to take a selected item or to make the row idle has left
nothing half delivered (`HandsFree`).
The refinement and the order of deliveries rest on it, and those properties make
the same exception. `RunningIsServed` is part of the invariant as it stands.
`EventPart` (associations) and `FinishPart`, `AheadOfMark` and `RoutePart`
(conversations) relate the step a run is at to the rows it has written by then.

The assumptions are the named ones of the modules: nonempty sets, natural bounds,
and the ranges of the constants that say what a provider or a user may do.

Model-checked only: all liveness properties (fairness is outside the prover's
reach), and `StartupSettles`. Every other safety property that a passing run checks
is proved.

## Not modelled

- *A second compute.* A worker that dies after the provider created a compute and
  before the engine stored the step creates another one when it starts over. The
  model has one compute per instance, so this leak is out of its sight; so is a
  compute whose destruction the undo of a startup failed to bring about, beyond
  `instance_faults`, which checks the row and not the leak.
- *Usage aggregation* (usage is one flag), *snapshot materialisation*, *schedule
  dispatch*, *resource sync*.
- Which triggers and associations a webhook event matches; rendering; the agent's
  side of a conversation. Releasing an association delivery for retry, which
  nothing calls. A trigger run's failure-marking call that fails itself.
- Frames between tunnel peers, PTY and egress, draining of a gateway; the
  forwarding readiness of a node (one that cannot forward refuses or stops renewing
  attachments, so the record of an open session may also expire for that reason).
- Keepalive messages that report no activity: they touch no deadline.
- The control-plane API, integration definitions, dashboard and CLI; providers and
  `sandboxd` except for what they do to the modelled state. These are most of the
  repository's lines: request handlers on rows of their own, translations of
  external APIs, generated clients and user interface, with no protocol between
  actors to check.
- The idle stop of the API's stop route, which nothing calls.

## Plan

1. *Rules and the status protocol* — `SandboxLifecycle`, `LifecycleRegister`,
   `ApplyLifecycleEvent` and their proofs: done.
2. *Deadlines and tunnels* — `SandboxRow`, `GatewayTunnel`, `TunnelOwnership`;
   type invariant, generations and the agreement of the quiet gateway of one node
   proved: done.
3. *Runs and their composition* — `WorkerRuns`, the six workflows, reads that
   write, `SandboxInstance`: done; type invariant, `TerminalOnlyResumes`,
   `ActiveComputeIsKnown` and `StoppedComputeIsDown` proved.
4. *Delivery queues* — `SerialQueue`, `TriggerDelivery`, `AssociationDelivery`:
   done; all safety properties and both refinements proved.
5. *More proofs* — `LiveSandboxIsWatched` from the invariant of the queue that
   the agreement of the quiet gateway rests on: done. With deletions: open.
6. *Usage aggregation* — intervals from events as a function, checked against a
   reference definition over all short event sequences; the one flag of
   `WorkerRuns` replaced by the events.
7. *Schedule dispatch* and *snapshot materialisation*.
