--------------------------- MODULE TriggerDelivery ---------------------------
(***************************************************************************)
(* The control plane's delivery of trigger runs to one conversation. Each  *)
(* trigger run has a workflow that enqueues a delivery task and makes sure *)
(* that the conversation's processor is running; the processor is a second *)
(* workflow, one run of it per generation, that takes the tasks in source  *)
(* order, delivers them to the agent and goes idle when it finds none.     *)
(*                                                                         *)
(* The number of a trigger run, and of its task, is the rank of its source *)
(* order key: runs may arrive in any order. The steps of a workflow are    *)
(* durable: one that throws is attempted again, and one whose worker dies  *)
(* before its result is stored is executed again.                          *)
(***************************************************************************)
EXTENDS Naturals

CONSTANTS
  MaxRun,          \* bound: how many trigger runs the conversation gets
  MaxGeneration,   \* bound: how many generations of its processor
  MaxSandbox,      \* bound: how many sandboxes are started for it
  Attempts,        \* attempts of a durable step that may be retried
  Mishaps,         \* the kinds of things that go wrong
  MaxMishaps       \* bound: how many of them happen

\* throw: a call fails and has done nothing. died, late: a delivery step has done
\* its work, but its worker dies before the result is stored, or the call fails
\* all the same. idle_lost: one of these two, for the step that makes the
\* processor idle. abandoned: a worker dies in the handoff step, or the processor
\* that step made running is neither started nor made idle again. unacknowledged:
\* a workflow run is created, but the call that creates it fails. broken: a
\* sandbox fails.
MishapKinds == {"throw", "died", "late", "idle_lost", "abandoned",
                "unacknowledged", "broken"}

\* The ones after which a processor's row and its run no longer agree.
Lasting == {"idle_lost", "abandoned", "unacknowledged"}

ASSUME DeliveryAssumption ==
  /\ MaxRun \in Nat /\ MaxGeneration \in Nat /\ MaxSandbox \in Nat
  /\ Attempts \in Nat \ {0}
  /\ Mishaps \subseteq MishapKinds /\ MaxMishaps \in Nat

VARIABLES
  triggerRun,  \* trigger_runs.status
  handoff,     \* the workflow of each trigger run
  task,        \* trigger_conversation_delivery_tasks
  processor,   \* trigger_conversation_delivery_processors
  delivery,    \* delivery[g]: the delivery workflow run of generation g
  highWater,   \* trigger_conversations.last_processed_source_order_key
  route,       \* trigger_conversation_routes
  submitted,   \* history: which generation gave each payload to which sandbox
  sandboxes,   \* how many sandboxes were started, and which of them failed
  mishaps      \* how many mishaps are left, and which lasting ones happened

vars == <<triggerRun, handoff, task, processor, delivery, highWater, route,
          submitted, sandboxes, mishaps>>

\* What only a delivery changes.
providerVars == <<highWater, route, submitted, sandboxes>>

Runs == 1 .. MaxRun
Generations == 1 .. MaxGeneration
None == 0

RunStatuses == {"queued", "running", "completed", "failed", "ignored"}
TerminalRun == {"completed", "failed", "ignored"}
TaskStatuses == {"none", "queued", "claimed", "delivering", "completed",
                 "failed", "ignored"}
Active == {"claimed", "delivering"}
Unfinished == {"queued"} \cup Active
Final == {"completed", "failed", "ignored"}

\* enqueue, ensure, start and set_idle are one durable step.
HandoffSteps == {"transition", "prepare", "enqueue", "ensure", "start",
                 "set_idle", "mark_failed", "done", "failed"}

\* claim and take are one durable step, check and set_idle another; the others are
\* one each.
TriedSteps == {"prepare", "sandbox", "begin", "route", "provider", "persist",
               "complete_run", "complete_task"}
DeliverySteps == TriedSteps \cup
  {"none", "claim", "take", "check", "set_idle", "action", "ignore_run",
   "ignore_task", "fail_run", "fail_task", "returned", "failed"}

\* BEGIN_PAYLOAD_DELIVERY, LOAD_OR_CREATE_ROUTE and PERSIST_PROVIDER_DELIVERY
\* are attempted once.
AttemptsOf(step) ==
  IF step \in {"begin", "route", "persist"} THEN 1 ELSE Attempts

TypeOK ==
  /\ triggerRun \in [Runs -> RunStatuses]
  /\ handoff \in [Runs -> [pc : HandoffSteps, retry : {"prepare", "enqueue"},
                           tries : 1 .. Attempts, generation : 0 .. MaxGeneration]]
  /\ task \in [Runs -> [status : TaskStatuses, generation : 0 .. MaxGeneration]]
  /\ processor \in [status : {"none", "idle", "running"},
                    generation : 0 .. MaxGeneration]
  /\ delivery \in [Generations -> [pc : DeliverySteps, task : Runs \cup {None},
                                   tries : 1 .. Attempts, seen : 0 .. MaxSandbox,
                                   sandbox : 0 .. MaxSandbox, reuse : BOOLEAN]]
  /\ highWater \in Runs \cup {None}
  /\ route \in [sandbox : 0 .. MaxSandbox, conversation : BOOLEAN]
  /\ submitted \in [Runs -> SUBSET (Generations \X (1 .. MaxSandbox))]
  /\ sandboxes \in [started : 0 .. MaxSandbox, failed : SUBSET (1 .. MaxSandbox)]
  /\ mishaps \in [left : 0 .. MaxMishaps, lasting : SUBSET Lasting]

\* A run at a step that needs nothing of the ones before it.
Fresh(pc) == [pc |-> pc, task |-> None, tries |-> Attempts, seen |-> None,
              sandbox |-> None, reuse |-> FALSE]

Init ==
  /\ triggerRun = [r \in Runs |-> "queued"]
  /\ handoff = [r \in Runs |-> [pc |-> "transition", retry |-> "prepare",
                                tries |-> Attempts, generation |-> 0]]
  /\ task = [r \in Runs |-> [status |-> "none", generation |-> 0]]
  /\ processor = [status |-> "none", generation |-> 0]
  /\ delivery = [g \in Generations |-> Fresh("none")]
  /\ highWater = None
  /\ route = [sandbox |-> None, conversation |-> FALSE]
  /\ submitted = [r \in Runs |-> {}]
  /\ sandboxes = [started |-> 0, failed |-> {}]
  /\ mishaps = [left |-> MaxMishaps, lasting |-> {}]

Mishap(kind) ==
  /\ kind \in Mishaps /\ mishaps.left > 0
  /\ mishaps' = [left |-> mishaps.left - 1,
                 lasting |-> mishaps.lasting \cup ({kind} \cap Lasting)]

-----------------------------------------------------------------------------
(* The workflow of a trigger run. *)

\* What a later step does not need is forgotten.
Goto(r, pc) ==
  handoff' = [handoff EXCEPT
    ![r].pc = pc,
    ![r].tries = IF pc \in {"done", "failed"} THEN 1 ELSE @,
    ![r].generation = IF pc = "set_idle" THEN @ ELSE 0]

\* transitionTriggerRunToRunning.
TransitionToRunning(r) ==
  /\ handoff[r].pc = "transition"
  /\ triggerRun' = [triggerRun EXCEPT
                      ![r] = IF @ = "queued" THEN "running" ELSE @]
  /\ Goto(r, IF triggerRun[r] \in TerminalRun THEN "done" ELSE "prepare")
  /\ UNCHANGED <<task, processor, delivery, providerVars, mishaps>>

\* prepareTriggerRun: the conversation is claimed and what was rendered is
\* stored with the run; a retry finds both.
PrepareRun(r) ==
  /\ handoff[r].pc = "prepare"
  /\ handoff' = [handoff EXCEPT ![r].pc = "enqueue", ![r].retry = "enqueue",
                                ![r].tries = Attempts]
  /\ UNCHANGED <<triggerRun, task, processor, delivery, providerVars,
                 mishaps>>

\* enqueueTriggerConversationDeliveryTask: INSERT ... ON CONFLICT DO NOTHING.
Enqueue(r) ==
  /\ handoff[r].pc = "enqueue"
  /\ task' = [task EXCEPT ![r].status = IF @ = "none" THEN "queued" ELSE @]
  /\ Goto(r, "ensure")
  /\ UNCHANGED <<triggerRun, processor, delivery, providerVars, mishaps>>

\* Mutant: a running processor is given a new generation.
EnsureRestarts(r) ==
  /\ handoff[r].pc = "ensure"
  /\ processor.generation < MaxGeneration
  /\ processor' = [status |-> "running", generation |-> processor.generation + 1]
  /\ handoff' = [handoff EXCEPT ![r].pc = "start",
                   ![r].generation = processor.generation + 1]
  /\ UNCHANGED <<triggerRun, task, delivery, providerVars, mishaps>>

\* ensureTriggerConversationDeliveryProcessor: INSERT generation 1, or UPDATE an
\* idle row, or else find it running, which ends the step.
EnsureProcessor(r) ==
  /\ handoff[r].pc = "ensure"
  /\ IF processor.status = "running"
     THEN /\ Goto(r, "done")
          /\ UNCHANGED processor
     ELSE /\ processor.generation < MaxGeneration
          /\ processor' = [status |-> "running",
                           generation |-> processor.generation + 1]
          /\ handoff' = [handoff EXCEPT ![r].pc = "start",
                           ![r].generation = processor.generation + 1]
  /\ UNCHANGED <<triggerRun, task, delivery, providerVars, mishaps>>

\* openWorkflow.runWorkflow with an idempotency key per generation.
RunOf(g) ==
  IF delivery[g].pc = "none"
  THEN [delivery EXCEPT ![g] = Fresh("claim")]
  ELSE delivery

StartProcessor(r) ==
  /\ handoff[r].pc = "start"
  /\ delivery' = RunOf(handoff[r].generation)
  /\ Goto(r, "done")
  /\ UNCHANGED <<triggerRun, task, processor, providerVars, mishaps>>

\* The call throws: the run was not created or, unacknowledged, it was.
StartFails(r) ==
  /\ handoff[r].pc = "start"
  /\ \/ Mishap("throw") /\ UNCHANGED delivery
     \/ Mishap("unacknowledged") /\ delivery' = RunOf(handoff[r].generation)
  /\ Goto(r, "set_idle")
  /\ UNCHANGED <<triggerRun, task, processor, providerVars>>

\* setTriggerConversationDeliveryProcessorIdle for generation g.
IdleFor(g) == processor.status = "running" /\ processor.generation = g

\* Mutant: the processor stays running.
UndoNothing(r) ==
  /\ handoff[r].pc = "set_idle"
  /\ Goto(r, "mark_failed")
  /\ UNCHANGED <<triggerRun, task, processor, delivery, providerVars, mishaps>>

\* The processor that could not be started is idle again, and the error is
\* thrown on.
UndoStart(r) ==
  /\ handoff[r].pc = "set_idle"
  /\ processor' = [processor EXCEPT
       !.status = IF IdleFor(handoff[r].generation) THEN "idle" ELSE @]
  /\ Goto(r, "mark_failed")
  /\ UNCHANGED <<triggerRun, task, delivery, providerVars, mishaps>>

\* A call of the prepare or the handoff step throws.
HandoffThrows(r) ==
  /\ handoff[r].pc \in {"prepare", "enqueue", "ensure"}
  /\ Mishap("throw")
  /\ Goto(r, "mark_failed")
  /\ UNCHANGED <<triggerRun, task, processor, delivery, providerVars>>

\* updateTriggerRunTerminalState: a run is finished only from running.
Finished(r, status) ==
  [triggerRun EXCEPT ![r] = IF @ = "running" THEN status ELSE @]

\* Whatever step threw, and whether or not it will be attempted again, the run
\* is marked failed and the error thrown on to the engine, which repeats the
\* step while it has attempts left.
MarkRunFailed(r) ==
  /\ handoff[r].pc = "mark_failed"
  /\ triggerRun' = Finished(r, "failed")
  /\ IF handoff[r].tries > 1
     THEN handoff' = [handoff EXCEPT ![r].pc = handoff[r].retry, ![r].tries = @ - 1]
     ELSE Goto(r, "failed")
  /\ UNCHANGED <<task, processor, delivery, providerVars, mishaps>>

\* A worker dies in the handoff step, which starts over; or the call that made the
\* processor running, or the one that makes it idle again, fails.
HandoffAbandons(r) ==
  /\ Mishap("abandoned")
  /\ \/ handoff[r].pc \in {"ensure", "start", "set_idle"} /\ Goto(r, "enqueue")
     \/ handoff[r].pc \in {"start", "set_idle"} /\ Goto(r, "mark_failed")
  /\ UNCHANGED <<triggerRun, task, processor, delivery, providerVars>>

HandoffStep(r) ==
  \/ TransitionToRunning(r) \/ PrepareRun(r) \/ Enqueue(r)
  \/ EnsureProcessor(r) \/ StartProcessor(r) \/ UndoStart(r)
  \/ MarkRunFailed(r)

HandoffMishap(r) == StartFails(r) \/ HandoffThrows(r) \/ HandoffAbandons(r)

-----------------------------------------------------------------------------
(* The delivery workflow of generation g. *)

At(d, pc) == [d EXCEPT !.pc = pc, !.tries = AttemptsOf(pc)]

\* A step that only needs to know which task it is about.
For(d, pc) == [Fresh(pc) EXCEPT !.task = d.task]

\* Where the step starts that d is in.
StepStart(d) ==
  CASE d.pc = "take" -> [d EXCEPT !.pc = "claim", !.task = None]
    [] d.pc = "set_idle" -> [d EXCEPT !.pc = "check"]
    [] OTHER -> d

\* Mutant: one attempt too many.
ThrownOnceMore(d) ==
  IF d.tries >= 1 THEN [StepStart(d) EXCEPT !.tries = @ - 1]
  ELSE IF d.pc \in TriedSteps THEN For(d, "fail_run")
  ELSE Fresh("failed")

\* A step that throws is attempted again from its start. One without attempts
\* left fails the task, or the whole run when it is not part of a delivery.
Thrown(d) ==
  IF d.tries > 1 THEN [StepStart(d) EXCEPT !.tries = @ - 1]
  ELSE IF d.pc \in TriedSteps THEN For(d, "fail_run")
  ELSE Fresh("failed")

Throws(g) ==
  /\ delivery' = [delivery EXCEPT ![g] = Thrown(@)]
  /\ UNCHANGED mishaps

\* A step that had an effect: its result is stored and the run goes on at pc, or
\* the worker dies first and the step is executed again, or the call fails.
Stored(g, next) ==
  \/ delivery' = [delivery EXCEPT ![g] = next] /\ UNCHANGED mishaps
  \/ Mishap("died") /\ delivery' = [delivery EXCEPT ![g] = StepStart(@)]
  \/ Mishap("late") /\ delivery' = [delivery EXCEPT ![g] = Thrown(@)]

\* A step without an effect on anything modelled.
GoesOn(g, next) ==
  delivery' = [delivery EXCEPT ![g] = next] /\ UNCHANGED mishaps

\* A call fails before it had an effect.
CallThrows(g) ==
  /\ delivery[g].pc \notin {"none", "returned", "failed"}
  /\ Mishap("throw")
  /\ delivery' = [delivery EXCEPT ![g] = Thrown(@)]
  /\ UNCHANGED <<triggerRun, handoff, task, processor, providerVars>>

IsActive(t, g) == task[t].status \in Active /\ task[t].generation = g

\* Mutant: the last in source order.
LastOf(S) == CHOOSE t \in S : \A u \in S : t >= u

\* The first in source order.
FirstOf(S) == CHOOSE t \in S : \A u \in S : t <= u

Queued == {t \in Runs : task[t].status = "queued"}

\* A run that has a claimed task goes on with it. Otherwise it looks which task
\* comes first of those queued, and is ready to take it, or finds none.
ClaimFrom(g, mine, queued) ==
  /\ delivery[g].pc = "claim"
  /\ \/ \E t \in mine : GoesOn(g, For([task |-> t], "action"))
     \/ /\ mine = {} /\ queued # {}
        /\ GoesOn(g, [delivery[g] EXCEPT !.pc = "take", !.task = FirstOf(queued)])
     \/ mine = {} /\ queued = {} /\ GoesOn(g, Fresh("check"))
  /\ UNCHANGED <<triggerRun, handoff, task, processor, providerVars>>

\* Mutant: a task that is claimed already is not resumed.
ClaimWithoutResume(g) == ClaimFrom(g, {}, Queued)

\* claimOrResumeTriggerConversationDeliveryTask: the task this generation has
\* already claimed, or else the first that is queued, which
\* claimNextTriggerConversationDeliveryTask selects without a lock ...
ClaimOrResume(g) == ClaimFrom(g, {t \in Runs : IsActive(t, g)}, Queued)

\* Mutant: the UPDATE takes the task whatever its status is by now.
TakeAnyhow(g) ==
  /\ delivery[g].pc = "take"
  /\ task' = [task EXCEPT
                ![delivery[g].task] = [status |-> "claimed", generation |-> g]]
  /\ Stored(g, For(delivery[g], "action"))
  /\ UNCHANGED <<triggerRun, handoff, processor, providerVars>>

\* ... and claims in a second statement, if it is still queued. An earlier one may
\* have been enqueued meanwhile. When another run was quicker it has found none.
\* (A worker that dies between the two might as well not have looked.)
TakeTask(g) ==
  LET t == delivery[g].task IN
  /\ delivery[g].pc = "take"
  /\ IF task[t].status = "queued"
     THEN /\ task' = [task EXCEPT ![t] = [status |-> "claimed", generation |-> g]]
          /\ Stored(g, For(delivery[g], "action"))
     ELSE GoesOn(g, Fresh("check")) /\ UNCHANGED task
  /\ UNCHANGED <<triggerRun, handoff, processor, providerVars>>

\* idleTriggerConversationDeliveryProcessorIfEmpty reads whether any task is
\* unfinished, without a lock ...
CheckEmpty(g) ==
  /\ delivery[g].pc = "check"
  /\ GoesOn(g, IF \E t \in Runs : task[t].status \in Unfinished
               THEN Fresh("claim")
               ELSE [delivery[g] EXCEPT !.pc = "set_idle"])
  /\ UNCHANGED <<triggerRun, handoff, task, processor, providerVars>>

\* ... and updates the processor. The run ends when that changed the row.
SetIdle(g) ==
  /\ delivery[g].pc = "set_idle"
  /\ IF IdleFor(g)
     THEN /\ processor' = [processor EXCEPT !.status = "idle"]
          /\ \/ GoesOn(g, Fresh("returned"))
             \/ /\ Mishap("idle_lost")
                /\ \/ delivery' = [delivery EXCEPT ![g].pc = "check"]
                   \/ delivery' = [delivery EXCEPT ![g] = Thrown(@)]
     ELSE GoesOn(g, Fresh("claim")) /\ UNCHANGED processor
  /\ UNCHANGED <<triggerRun, handoff, task, providerVars>>

\* Mutant: the high-water mark is not looked at.
ActionAlwaysDeliver(g) ==
  /\ delivery[g].pc = "action"
  /\ IF IsActive(delivery[g].task, g)
     THEN GoesOn(g, For(delivery[g], "prepare"))
     ELSE Throws(g)
  /\ UNCHANGED <<triggerRun, handoff, task, processor, providerVars>>

\* resolveTriggerConversationDeliveryTaskAction: a task at or behind the
\* conversation's high-water mark is ignored.
ResolveAction(g) ==
  LET d == delivery[g] IN
  /\ d.pc = "action"
  /\ IF IsActive(d.task, g)
     THEN GoesOn(g, For(d, IF d.task <= highWater THEN "ignore_run" ELSE "prepare"))
     ELSE Throws(g)
  /\ UNCHANGED <<triggerRun, handoff, task, processor, providerVars>>

\* markTriggerRunIgnored, markTriggerRunCompleted and markTriggerRunFailed, each
\* before the task is finished likewise.
RunStatusAt == [ignore_run |-> "ignored", complete_run |-> "completed",
                fail_run |-> "failed"]
TaskStepAfter == [ignore_run |-> "ignore_task", complete_run |-> "complete_task",
                  fail_run |-> "fail_task"]

\* Mutant: the run of an ignored task is not finished.
MarkRunUnlessIgnored(g) ==
  LET d == delivery[g] IN
  /\ d.pc \in DOMAIN RunStatusAt
  /\ triggerRun' = IF d.pc = "ignore_run" THEN triggerRun
                   ELSE Finished(d.task, RunStatusAt[d.pc])
  /\ Stored(g, For(d, TaskStepAfter[d.pc]))
  /\ UNCHANGED <<handoff, task, processor, providerVars>>

MarkRun(g) ==
  LET d == delivery[g] IN
  /\ d.pc \in DOMAIN RunStatusAt
  /\ triggerRun' = Finished(d.task, RunStatusAt[d.pc])
  /\ Stored(g, For(d, TaskStepAfter[d.pc]))
  /\ UNCHANGED <<handoff, task, processor, providerVars>>

\* finalizeTriggerConversationDeliveryTask throws unless the task is active.
TaskStatusAt == [ignore_task |-> "ignored", complete_task |-> "completed",
                 fail_task |-> "failed"]

FinalizeTask(g) ==
  LET d == delivery[g]
      t == d.task IN
  /\ d.pc \in DOMAIN TaskStatusAt
  /\ IF IsActive(t, g)
     THEN /\ task' = [task EXCEPT ![t].status = TaskStatusAt[d.pc]]
          /\ highWater' = IF d.pc = "complete_task" THEN t ELSE highWater
          /\ Stored(g, Fresh("claim"))
     ELSE Throws(g) /\ UNCHANGED <<task, highWater>>
  /\ UNCHANGED <<triggerRun, handoff, processor, route, submitted, sandboxes>>

\* prepareTriggerRun finds what the handoff stored, then
\* resolveTriggerConversationDeliveryRoute reads the route. Both may find that
\* the run cannot be delivered any more, which is not retried.
PrepareDelivery(g) ==
  LET d == delivery[g] IN
  /\ d.pc = "prepare"
  /\ \/ GoesOn(g, At([d EXCEPT !.seen = route.sandbox], "sandbox"))
     \/ Mishap("throw") /\ delivery' = [delivery EXCEPT ![g] = For(d, "fail_run")]
  /\ UNCHANGED <<triggerRun, handoff, task, processor, providerVars>>

\* Mutant: the route keeps the sandbox that failed.
NotRebound(s) == route

\* recoverTriggerConversationSandbox: the route is bound to the new sandbox and
\* forgets its provider conversation.
Rebound(s) == [sandbox |-> s, conversation |-> FALSE]

\* ensureConversationDeliverySandbox: keep the route's sandbox, or start one when
\* there is none or it has failed; then the route is rebound. Only a running
\* trigger run may start a sandbox.
EnsureSandbox(g) ==
  LET d == delivery[g]
      new == sandboxes.started + 1
      recover == d.seen # None IN
  /\ d.pc = "sandbox"
  /\ IF d.seen # None /\ d.seen \notin sandboxes.failed
     THEN /\ GoesOn(g, At([d EXCEPT !.sandbox = d.seen, !.seen = None], "begin"))
          /\ UNCHANGED <<route, sandboxes>>
     ELSE IF triggerRun[d.task] # "running"
     THEN Throws(g) /\ UNCHANGED <<route, sandboxes>>
     ELSE /\ new <= MaxSandbox
          /\ sandboxes' = [sandboxes EXCEPT !.started = new]
          /\ \/ /\ route' = IF recover THEN Rebound(new) ELSE route
                /\ Stored(g, At([d EXCEPT !.sandbox = new, !.seen = None], "begin"))
             \/ /\ recover /\ UNCHANGED route
                /\ \/ Mishap("died") /\ UNCHANGED delivery
                   \/ /\ Mishap("late")
                      /\ delivery' = [delivery EXCEPT ![g] = Thrown(@)]
  /\ UNCHANGED <<triggerRun, handoff, task, processor, highWater, submitted>>

\* beginConversationTriggerPayloadDelivery refuses a task that is delivering
\* already: its first delivery was interrupted.
BeginDelivery(g) ==
  LET d == delivery[g]
      t == d.task IN
  /\ d.pc = "begin"
  /\ IF task[t] = [status |-> "claimed", generation |-> g]
     THEN /\ task' = [task EXCEPT ![t].status = "delivering"]
          /\ Stored(g, At(d, "route"))
     ELSE Throws(g) /\ UNCHANGED task
  /\ UNCHANGED <<triggerRun, handoff, processor, providerVars>>

\* loadOrCreateTriggerConversationDeliveryRoute.
LoadRoute(g) ==
  LET d == delivery[g] IN
  /\ d.pc = "route"
  /\ IF route.sandbox = None
     THEN /\ route' = [sandbox |-> d.sandbox, conversation |-> FALSE]
          /\ Stored(g, At([d EXCEPT !.reuse = FALSE], "provider"))
     ELSE /\ UNCHANGED route
          /\ IF route.sandbox = d.sandbox
             THEN GoesOn(g, At([d EXCEPT !.reuse = route.conversation], "provider"))
             ELSE Throws(g)
  /\ UNCHANGED <<triggerRun, handoff, task, processor, highWater, submitted,
                 sandboxes>>

\* Create the provider conversation unless the route has one, inspect and resume
\* it, submit the payload under the task's idempotency key. Each waits for a
\* connection to the sandbox first, which a failed one never gives.
Provider(g) ==
  LET d == delivery[g] IN
  /\ d.pc = "provider"
  /\ IF d.sandbox \in sandboxes.failed
     THEN Throws(g) /\ UNCHANGED submitted
     ELSE /\ submitted' = [submitted EXCEPT ![d.task] = @ \cup {<<g, d.sandbox>>}]
          /\ Stored(g, At(d, "persist"))
  /\ UNCHANGED <<triggerRun, handoff, task, processor, highWater, route, sandboxes>>

\* persistConversationProviderDeliveryResult. The title is seeded afterwards; no
\* error of that is thrown on.
Persist(g) ==
  LET d == delivery[g] IN
  /\ d.pc = "persist"
  /\ route' = IF d.reuse THEN route
              ELSE [sandbox |-> d.sandbox, conversation |-> TRUE]
  /\ Stored(g, For(d, "complete_run"))
  /\ UNCHANGED <<triggerRun, handoff, task, processor, highWater, submitted,
                 sandboxes>>

DeliveryStep(g) ==
  \/ ClaimOrResume(g) \/ TakeTask(g) \/ CheckEmpty(g) \/ SetIdle(g)
  \/ ResolveAction(g) \/ MarkRun(g) \/ FinalizeTask(g) \/ PrepareDelivery(g)
  \/ EnsureSandbox(g) \/ BeginDelivery(g) \/ LoadRoute(g) \/ Provider(g)
  \/ Persist(g)

\* A sandbox that was started fails.
SandboxFails ==
  /\ \E s \in 1 .. sandboxes.started :
       /\ s \notin sandboxes.failed
       /\ sandboxes' = [sandboxes EXCEPT !.failed = @ \cup {s}]
  /\ Mishap("broken")
  /\ UNCHANGED <<triggerRun, handoff, task, processor, delivery, highWater,
                 route, submitted>>

Next ==
  \/ \E r \in Runs : HandoffStep(r) \/ HandoffMishap(r)
  \/ \E g \in Generations : DeliveryStep(g) \/ CallThrows(g)
  \/ SandboxFails

Spec == Init /\ [][Next]_vars

\* The workflow engine gets to every run that is waiting.
Fairness ==
  /\ \A r \in Runs : WF_vars(HandoffStep(r))
  /\ \A g \in Generations : WF_vars(DeliveryStep(g))

FairSpec == Spec /\ Fairness

-----------------------------------------------------------------------------
(* Properties. *)

Live(g) == delivery[g].pc \notin {"none", "returned", "failed"}

\* Neither of the two mishaps after which a run of the processor goes on though
\* its generation has been retired.
Orderly == mishaps.lasting \cap {"unacknowledged", "idle_lost"} = {}

\* One processor at a time: whatever else fails, dies or is retried, a delivery
\* run that has not ended is that of the processor's current generation and the
\* processor is running, so no two runs deliver to the conversation side by side.
\* ensureTriggerConversationDeliveryProcessor hands out a generation only over an
\* idle row, which the run before it leaves as its last act.
OneProcessor ==
  Orderly => \A g \in Generations : Live(g) => IdleFor(g)

\* A running processor is served: its run has not ended, or a handoff is about to
\* create it or to undo the start, unless that run has failed for good or the
\* worker of a handoff died. EnsureProcessor sends every other trigger run away
\* on the strength of this.
RunningIsServed ==
  processor.status = "running" =>
    LET g == processor.generation IN
    \/ Live(g) \/ delivery[g].pc = "failed"
    \/ \E r \in Runs : /\ handoff[r].pc \in {"start", "set_idle"}
                      /\ handoff[r].generation = g
    \/ mishaps.lasting # {}

\* A payload is given to one sandbox by one processor, however many processors
\* there are: beginConversationTriggerPayloadDelivery and the generation of the
\* claim see to it that an interrupted delivery fails rather than starts anew.
DeliveredOnce ==
  \A r \in Runs : \A x, y \in submitted[r] : x = y

ItemOf == [none |-> "absent", queued |-> "waiting", claimed |-> "taken",
           delivering |-> "taken", completed |-> "finished",
           failed |-> "finished", ignored |-> "finished"]

\* A run has selected the task and is about to claim it.
Selected(r) == \E g \in Generations : delivery[g].pc = "take" /\ delivery[g].task = r

TaskItem ==
  [r \in Runs |-> IF task[r].status = "queued" /\ Selected(r) THEN "picked"
                  ELSE ItemOf[task[r].status]]

Queue == INSTANCE SerialQueue WITH Items <- Runs, item <- TaskItem

\* The tasks of a conversation are a serial queue: they are claimed one at a time,
\* each the first in source order of those waiting when the claim selected it, and
\* end once, however the statements and steps that claim, deliver and finalize them
\* interleave with the arrival of others, are interrupted and repeated.
DeliversSerially == [][Orderly' => [Queue!Next]_TaskItem]_vars

\* Payloads are delivered in source order: none is submitted once a later one has
\* been completed, although trigger runs may be handed over in any order and the
\* high-water mark is assigned, not raised, by finalize.
InSourceOrder ==
  [][Orderly' => /\ highWater' >= highWater
                 /\ \A r \in Runs : submitted'[r] # submitted[r] => r > highWater]_vars

\* A task is finished only after its trigger run: the run's status is never left
\* behind at running, at whichever of the two steps the worker dies.
FinishedTaskHasFinishedRun ==
  \A r \in Runs : task[r].status \in Final => triggerRun[r] \in TerminalRun

\* From the moment it has an ensured sandbox a delivery finds the route free or
\* bound to that sandbox, through failed sandboxes and their replacement: the
\* sandbox mismatch of resolveTriggerConversationRouteBindingAction is out of
\* reach.
BoundToItsSandbox ==
  Orderly => \A g \in Generations :
    /\ delivery[g].pc \in {"begin", "route"} =>
         route.sandbox \in {None, delivery[g].sandbox}
    /\ delivery[g].pc \in {"provider", "persist"} =>
         route.sandbox = delivery[g].sandbox

\* A task a processor has claimed comes to an end, unless the processor's run
\* fails for good: a run that dies between claim and finalize resumes it.
ClaimedTaskEnds ==
  \A r \in Runs : task[r].status \in Active ~>
    \/ task[r].status \in Final
    \/ \E g \in Generations : IsActive(r, g) /\ delivery[g].pc = "failed"

\* No task is left behind: when every trigger run has been handed over and no
\* processor is at work, every task has been finished.
NoTaskStranded ==
  (/\ \A r \in Runs : handoff[r].pc \in {"done", "failed"}
   /\ \A g \in Generations : ~Live(g))
    => \A r \in Runs : task[r].status \notin Unfinished
=============================================================================
