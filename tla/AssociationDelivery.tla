------------------------- MODULE AssociationDelivery -------------------------
(***************************************************************************)
(* The control plane's handling of webhook events that concern a provider  *)
(* resource associated with a sandbox. Each event has a workflow that      *)
(* enqueues a delivery for the association, requests whatever else the     *)
(* event asks for, and makes sure that the association's processor runs;   *)
(* the processor is a second workflow, one run of it per generation.       *)
(*                                                                         *)
(* The number of an event, and of its delivery, is the rank of its source  *)
(* order key.                                                              *)
(***************************************************************************)
EXTENDS Naturals

CONSTANTS
  MaxEvent,        \* bound: how many webhook events concern the association
  MaxGeneration,   \* bound: how many generations of its processor
  Attempts,        \* attempts of a durable step that may be retried
  Mishaps,         \* the kinds of things that go wrong
  MaxMishaps       \* bound: how many of them happen

\* throw: a call fails and has done nothing. died, late: a call has done its work,
\* but the worker dies before the step's result is stored, or the call fails all
\* the same. rejected: a delivery fails for a reason that is not retried.
\* abandoned: a worker dies in the one step of an event's workflow, or the
\* processor that step made running is neither started nor made idle again.
\* unacknowledged: a workflow run is created, but the call that creates it fails.
MishapKinds == {"throw", "died", "late", "rejected", "abandoned",
                "unacknowledged"}

\* The ones after which a processor's row and its run no longer agree.
Lasting == {"abandoned", "unacknowledged"}

ASSUME AssociationAssumption ==
  /\ MaxEvent \in Nat /\ MaxGeneration \in Nat
  /\ Attempts \in Nat \ {0}
  /\ Mishaps \subseteq MishapKinds /\ MaxMishaps \in Nat

VARIABLES
  event,       \* integration_webhook_events.status
  hook,        \* the workflow of each event
  requested,   \* were the event's resource syncs and trigger runs requested?
  delivery,    \* provider_resource_association_deliveries
  processor,   \* provider_resource_association_delivery_processors
  run,         \* run[g]: the delivery workflow run of generation g
  submitted,   \* history: the generations that submitted each delivery
  mishaps      \* how many mishaps are left, and which lasting ones happened

vars == <<event, hook, requested, delivery, processor, run, submitted, mishaps>>

Events == 1 .. MaxEvent
Generations == 1 .. MaxGeneration
None == 0

EventStatuses == {"received", "processing", "processed", "failed", "ignored"}
DeliveryStatuses == {"none", "queued", "claimed", "delivering", "completed",
                     "failed"}
Active == {"claimed", "delivering"}
Unfinished == {"queued"} \cup Active
Final == {"completed", "failed"}

\* All of them are one durable step.
HookSteps == {"receive", "prepare", "request", "ensure", "start", "set_idle",
              "mark_processed", "mark_failed", "done", "failed"}

\* claim and take are one durable step, idle and set_idle are another, and so are
\* mark, submit and reject.
RunSteps == {"none", "check", "claim", "take", "idle", "set_idle", "mark", "submit",
             "reject", "fail", "complete", "returned", "failed"}

TypeOK ==
  /\ event \in [Events -> EventStatuses]
  /\ hook \in [Events -> [pc : HookSteps, tries : 1 .. Attempts,
                          generation : 0 .. MaxGeneration]]
  /\ requested \in [Events -> BOOLEAN]
  /\ delivery \in [Events -> [status : DeliveryStatuses,
                              generation : 0 .. MaxGeneration]]
  /\ processor \in [status : {"none", "idle", "running"},
                    generation : 0 .. MaxGeneration]
  /\ run \in [Generations -> [pc : RunSteps, delivery : Events \cup {None},
                              tries : 1 .. Attempts]]
  /\ submitted \in [Events -> SUBSET Generations]
  /\ mishaps \in [left : 0 .. MaxMishaps, lasting : SUBSET Lasting]

Init ==
  /\ event = [e \in Events |-> "received"]
  /\ hook = [e \in Events |-> [pc |-> "receive", tries |-> Attempts,
                               generation |-> 0]]
  /\ requested = [e \in Events |-> FALSE]
  /\ delivery = [e \in Events |-> [status |-> "none", generation |-> 0]]
  /\ processor = [status |-> "none", generation |-> 0]
  /\ run = [g \in Generations |->
              [pc |-> "none", delivery |-> None, tries |-> Attempts]]
  /\ submitted = [e \in Events |-> {}]
  /\ mishaps = [left |-> MaxMishaps, lasting |-> {}]

Mishap(kind) ==
  /\ kind \in Mishaps /\ mishaps.left > 0
  /\ mishaps' = [left |-> mishaps.left - 1,
                 lasting |-> mishaps.lasting \cup ({kind} \cap Lasting)]

-----------------------------------------------------------------------------
(* The workflow of a webhook event. *)

\* What a later step does not need is forgotten.
HookAt(e, pc) ==
  [pc |-> pc,
   tries |-> IF pc \in {"done", "failed"} THEN 1 ELSE hook[e].tries,
   generation |-> IF pc = "set_idle" THEN hook[e].generation ELSE 0]

Goto(e, pc) == hook' = [hook EXCEPT ![e] = HookAt(e, pc)]

\* updateWebhookEventStatus, from one of the given statuses.
EventFrom(e, from, status) ==
  [event EXCEPT ![e] = IF @ \in from THEN status ELSE @]

\* Mutant: an event found processing is taken for handled.
ReceiveOnce(e) ==
  /\ hook[e].pc = "receive"
  /\ IF event[e] \in {"processed", "ignored", "processing"}
     THEN Goto(e, "done") /\ UNCHANGED event
     ELSE /\ event' = EventFrom(e, {"received", "failed"}, "processing")
          /\ Goto(e, "prepare")
  /\ UNCHANGED <<requested, delivery, processor, run, submitted, mishaps>>

\* prepareIntegrationWebhookEvent up to its work: an event that is finished is
\* left alone; one found processing is taken up where an earlier attempt stopped.
Receive(e) ==
  /\ hook[e].pc = "receive"
  /\ IF event[e] \in {"processed", "ignored"}
     THEN Goto(e, "done") /\ UNCHANGED event
     ELSE /\ event' = EventFrom(e, {"received", "failed"}, "processing")
          /\ Goto(e, "prepare")
  /\ UNCHANGED <<requested, delivery, processor, run, submitted, mishaps>>

\* enqueueAssociationDeliveryAndEnsureProcessor: the delivery and the processor,
\* idle, are inserted unless they are there already.
EnqueueDelivery(e) ==
  /\ delivery' = [delivery EXCEPT ![e].status = IF @ = "none" THEN "queued" ELSE @]
  /\ processor' = [processor EXCEPT !.status = IF @ = "none" THEN "idle" ELSE @]

\* prepareWebhookEventWork: the event asks for nothing and is ignored, or it asks
\* for something other than a delivery, or for a delivery. What it has asked for
\* in one attempt it asks for in the next.
Prepare(e) ==
  /\ hook[e].pc = "prepare"
  /\ \/ /\ delivery[e].status = "none" /\ ~requested[e]
        /\ event' = EventFrom(e, {"processing"}, "ignored")
        /\ Goto(e, "done")
        /\ UNCHANGED <<delivery, processor>>
     \/ /\ delivery[e].status = "none"
        /\ Goto(e, "request")
        /\ UNCHANGED <<event, delivery, processor>>
     \/ /\ EnqueueDelivery(e)
        /\ Goto(e, "request")
        /\ UNCHANGED event
  /\ UNCHANGED <<requested, run, submitted, mishaps>>

\* Resource refreshes and the workflows of trigger runs are requested, the latter
\* with the trigger run as idempotency key.
Request(e) ==
  /\ hook[e].pc = "request"
  /\ requested' = [requested EXCEPT ![e] = TRUE]
  /\ Goto(e, "ensure")
  /\ UNCHANGED <<event, delivery, processor, run, submitted, mishaps>>

\* startProviderResourceAssociationDeliveryProcessors, for an event that has a
\* delivery. It waits for no lock on a row that it reads as running.
EnsureProcessor(e) ==
  /\ hook[e].pc = "ensure"
  /\ IF delivery[e].status = "none" \/ processor.status = "running"
     THEN Goto(e, "mark_processed") /\ UNCHANGED processor
     ELSE /\ processor.generation < MaxGeneration
          /\ processor' = [status |-> "running",
                           generation |-> processor.generation + 1]
          /\ hook' = [hook EXCEPT ![e].pc = "start",
                        ![e].generation = processor.generation + 1]
  /\ UNCHANGED <<event, requested, delivery, run, submitted, mishaps>>

\* openWorkflow.runWorkflow with an idempotency key per generation.
RunOf(g) ==
  [run EXCEPT ![g].pc = IF @ = "none" THEN "check" ELSE @]

StartProcessor(e) ==
  /\ hook[e].pc = "start"
  /\ run' = RunOf(hook[e].generation)
  /\ Goto(e, "mark_processed")
  /\ UNCHANGED <<event, requested, delivery, processor, submitted, mishaps>>

\* The call throws: the run was not created or, unacknowledged, it was.
StartFails(e) ==
  /\ hook[e].pc = "start"
  /\ \/ Mishap("throw") /\ UNCHANGED run
     \/ Mishap("unacknowledged") /\ run' = RunOf(hook[e].generation)
  /\ Goto(e, "set_idle")
  /\ UNCHANGED <<event, requested, delivery, processor, submitted>>

Serves(g) == processor.status = "running" /\ processor.generation = g

\* SELECT ... FOR UPDATE of the row of generation g's processor, by a run that is
\* claiming or going idle.
RowLocked(g) == g \in Generations /\ run[g].pc \in {"take", "set_idle"}

\* Mutant: the row stays as it is.
IdleNothing(g) == processor

\* setProviderResourceAssociationDeliveryProcessorIdle.
IdleOf(g) == IF Serves(g) THEN [processor EXCEPT !.status = "idle"] ELSE processor

\* The processor that could not be started is idle again.
UndoStart(e) ==
  /\ hook[e].pc = "set_idle" /\ ~RowLocked(hook[e].generation)
  /\ processor' = IdleOf(hook[e].generation)
  /\ Goto(e, "mark_failed")
  /\ UNCHANGED <<event, requested, delivery, run, submitted, mishaps>>

MarkProcessed(e) ==
  /\ hook[e].pc = "mark_processed"
  /\ event' = EventFrom(e, {"processing"}, "processed")
  /\ Goto(e, "done")
  /\ UNCHANGED <<requested, delivery, processor, run, submitted, mishaps>>

\* The step has thrown: it is executed again, or the workflow fails.
Rethrown(e) ==
  [hook EXCEPT ![e] = IF @.tries > 1
                      THEN [HookAt(e, "receive") EXCEPT !.tries = @ - 1]
                      ELSE HookAt(e, "failed")]

\* Mutant: the event keeps its status.
MarkNothing(e) ==
  /\ hook[e].pc = "mark_failed"
  /\ hook' = Rethrown(e)
  /\ UNCHANGED <<event, requested, delivery, processor, run, submitted, mishaps>>

\* markIntegrationWebhookEventFailed, and the error is thrown on.
MarkFailed(e) ==
  /\ hook[e].pc = "mark_failed"
  /\ event' = EventFrom(e, {"processing"}, "failed")
  /\ hook' = Rethrown(e)
  /\ UNCHANGED <<requested, delivery, processor, run, submitted, mishaps>>

\* A call throws, before or after it had its effect. Errors of the preparation's
\* work are not caught: its promise is returned out of the try block, not awaited
\* in it. One in marking the event failed takes the place of the first error.
HookThrows(e) ==
  /\ \/ /\ Mishap("throw")
        /\ \/ /\ hook[e].pc \in {"request", "ensure", "mark_processed"}
              /\ Goto(e, "mark_failed")
              /\ UNCHANGED event
           \/ /\ hook[e].pc = "receive" /\ event[e] \notin {"processed", "ignored"}
              /\ event' = [event EXCEPT ![e] = "failed"]
              /\ hook' = Rethrown(e)
           \/ /\ hook[e].pc \in {"prepare", "mark_failed"}
              /\ hook' = Rethrown(e)
              /\ UNCHANGED event
        /\ UNCHANGED <<delivery, processor>>
     \/ /\ Mishap("late") /\ hook[e].pc = "prepare"
        /\ EnqueueDelivery(e)
        /\ hook' = Rethrown(e)
        /\ UNCHANGED event
     \/ /\ Mishap("late") /\ hook[e].pc = "mark_processed"
        /\ event' = EventFrom(e, {"processing"}, "processed")
        /\ Goto(e, "mark_failed")
        /\ UNCHANGED <<delivery, processor>>
  /\ UNCHANGED <<requested, run, submitted>>

\* A worker dies in the step, which starts over; or the call that made the
\* processor running, or the one that makes it idle again, fails.
HookAbandons(e) ==
  /\ Mishap("abandoned")
  /\ \/ hook[e].pc \notin {"receive", "done", "failed"} /\ Goto(e, "receive")
     \/ hook[e].pc \in {"start", "set_idle"} /\ Goto(e, "mark_failed")
  /\ UNCHANGED <<event, requested, delivery, processor, run, submitted>>

HookStep(e) ==
  \/ Receive(e) \/ Prepare(e) \/ Request(e) \/ EnsureProcessor(e)
  \/ StartProcessor(e) \/ UndoStart(e) \/ MarkProcessed(e) \/ MarkFailed(e)

HookMishap(e) == StartFails(e) \/ HookThrows(e) \/ HookAbandons(e)

-----------------------------------------------------------------------------
(* The delivery workflow of generation g. *)

\* The run at the start of a step; the failed delivery is finalized in one attempt.
At(pc, e) ==
  [pc |-> pc, delivery |-> e, tries |-> IF pc = "fail" THEN 1 ELSE Attempts]

Ended(pc) == [At(pc, None) EXCEPT !.tries = 1]

\* Where the step starts that d is in.
StepStart(d) ==
  CASE d.pc = "take" -> [d EXCEPT !.pc = "claim", !.delivery = None]
    [] d.pc = "set_idle" -> [d EXCEPT !.pc = "idle"]
    [] d.pc \in {"submit", "reject"} -> [d EXCEPT !.pc = "mark"]
    [] OTHER -> d

\* Mutant: one attempt too many.
ThrownOnceMore(d) ==
  IF d.tries >= 1 THEN [StepStart(d) EXCEPT !.tries = @ - 1]
  ELSE IF StepStart(d).pc = "mark" THEN At("fail", d.delivery)
  ELSE Ended("failed")

\* A step that throws is executed again from its start. Without attempts left the
\* delivery step fails its delivery, and any other step the whole run.
Thrown(d) ==
  IF d.tries > 1 THEN [StepStart(d) EXCEPT !.tries = @ - 1]
  ELSE IF StepStart(d).pc = "mark" THEN At("fail", d.delivery)
  ELSE Ended("failed")

GoesOn(g, next) == run' = [run EXCEPT ![g] = next] /\ UNCHANGED mishaps

Throws(g) == GoesOn(g, Thrown(run[g]))

\* A call that had an effect: the run goes on, or its worker dies before the
\* step's result is stored, or the call fails.
Stored(g, next) ==
  \/ GoesOn(g, next)
  \/ Mishap("died") /\ run' = [run EXCEPT ![g] = StepStart(@)]
  \/ Mishap("late") /\ run' = [run EXCEPT ![g] = Thrown(@)]

\* A call fails before it had an effect.
CallThrows(g) ==
  /\ run[g].pc \notin {"none", "returned", "failed"}
  /\ Mishap("throw")
  /\ run' = [run EXCEPT ![g] = Thrown(@)]
  /\ UNCHANGED <<event, hook, requested, delivery, processor, submitted>>

\* Mutant: the processor is taken for running.
CheckNothing(g) ==
  /\ run[g].pc = "check"
  /\ GoesOn(g, At("claim", None))
  /\ UNCHANGED <<event, hook, requested, delivery, processor, submitted>>

\* isProviderResourceAssociationDeliveryProcessorRunning.
CheckRunning(g) ==
  /\ run[g].pc = "check"
  /\ GoesOn(g, IF Serves(g) THEN At("claim", None) ELSE Ended("returned"))
  /\ UNCHANGED <<event, hook, requested, delivery, processor, submitted>>

\* Mutant: the generation is not compared.
IsAnyones(e, statuses, g) == delivery[e].status \in statuses

\* The delivery has one of the statuses, and generation g has claimed it.
Is(e, statuses, g) ==
  delivery[e].status \in statuses /\ delivery[e].generation = g

\* Mutant: the last in source order.
LastOf(S) == CHOOSE e \in S : \A f \in S : e >= f

\* The next in source order.
FirstOf(S) == CHOOSE e \in S : \A f \in S : e <= f

\* Mutant: a delivery that is claimed already is not resumed.
ClaimableOnce(g) ==
  IF \E e \in Events : Is(e, Active, g) THEN {}
  ELSE {e \in Events : delivery[e].status = "queued"}

\* The delivery it has already claimed, or else those that are queued.
Claimable(g) ==
  LET mine == {e \in Events : Is(e, Active, g)} IN
  IF mine # {} THEN mine
  ELSE {e \in Events : delivery[e].status = "queued"}

\* claimOrResumeProviderResourceAssociationDelivery is one transaction. Unless the
\* processor is still this generation's, there is nothing to claim. Otherwise its
\* row is locked, and the first in source order selected ...
Claim(g) ==
  LET e == FirstOf(Claimable(g)) IN
  /\ run[g].pc = "claim"
  /\ GoesOn(g, IF ~Serves(g) \/ Claimable(g) = {} THEN At("idle", None)
               ELSE IF delivery[e].status = "queued"
               THEN [run[g] EXCEPT !.pc = "take", !.delivery = e]
               ELSE At("mark", e))
  /\ UNCHANGED <<event, hook, requested, delivery, processor, submitted>>

\* ... and updated in a second statement, if it is still queued. The lock keeps no
\* event from inserting an earlier delivery in between.
Take(g) ==
  LET e == run[g].delivery IN
  /\ run[g].pc = "take"
  /\ IF delivery[e].status = "queued"
     THEN /\ delivery' = [delivery EXCEPT
                           ![e] = [status |-> "claimed", generation |-> g]]
          /\ Stored(g, At("mark", e))
     ELSE GoesOn(g, At("idle", None)) /\ UNCHANGED delivery
  /\ UNCHANGED <<event, hook, requested, processor, submitted>>

\* idleProviderResourceAssociationDeliveryProcessorIfEmpty locks the processor's
\* row and reads whether any delivery is unfinished ...
CheckEmpty(g) ==
  /\ run[g].pc = "idle"
  /\ GoesOn(g, IF Serves(g) /\ \A e \in Events : delivery[e].status \notin Unfinished
               THEN [run[g] EXCEPT !.pc = "set_idle"]
               ELSE At("check", None))
  /\ UNCHANGED <<event, hook, requested, delivery, processor, submitted>>

\* ... and updates the row it has locked.
SetIdle(g) ==
  /\ run[g].pc = "set_idle"
  /\ processor' = IdleOf(g)
  /\ Stored(g, Ended("returned"))
  /\ UNCHANGED <<event, hook, requested, delivery, submitted>>

\* deliverActiveProviderResourceAssociationDelivery is one step. First
\* markProviderResourceAssociationDeliveryDelivering: a delivery that is no longer
\* this generation's to deliver is rejected. (The claim never returns one that is
\* delivering already: a run leaves this step only to finish it.)
MarkDelivering(g) ==
  LET e == run[g].delivery IN
  /\ run[g].pc = "mark"
  /\ IF Is(e, Active, g)
     THEN /\ delivery' = [delivery EXCEPT ![e].status = "delivering"]
          /\ GoesOn(g, [run[g] EXCEPT !.pc = "submit"])
     ELSE GoesOn(g, [run[g] EXCEPT !.pc = "reject"]) /\ UNCHANGED delivery
  /\ UNCHANGED <<event, hook, requested, processor, submitted>>

\* The target is resolved, a connection acquired and the input submitted under the
\* delivery's id; any of these may fail for a reason that is not retried.
Submit(g) ==
  LET e == run[g].delivery IN
  /\ run[g].pc = "submit"
  /\ \/ /\ submitted' = [submitted EXCEPT ![e] = @ \cup {g}]
        /\ Stored(g, At("complete", e))
     \/ /\ Mishap("rejected")
        /\ run' = [run EXCEPT ![g].pc = "reject"]
        /\ UNCHANGED submitted
  /\ UNCHANGED <<event, hook, requested, delivery, processor>>

\* finalizeProviderResourceAssociationDelivery, in the delivery step for an error
\* that is not retried, in a step of its own when its attempts are used up, or
\* after it. Done a second time it changes nothing.
StatusAt == [reject |-> "failed", fail |-> "failed", complete |-> "completed"]

Finalize(g) ==
  LET e == run[g].delivery IN
  /\ run[g].pc \in DOMAIN StatusAt
  /\ IF Is(e, Active \cup {StatusAt[run[g].pc]}, g)
     THEN /\ delivery' = [delivery EXCEPT ![e].status = StatusAt[run[g].pc]]
          /\ Stored(g, At("check", None))
     ELSE Throws(g) /\ UNCHANGED delivery
  /\ UNCHANGED <<event, hook, requested, processor, submitted>>

RunStep(g) ==
  \/ CheckRunning(g) \/ Claim(g) \/ Take(g) \/ CheckEmpty(g) \/ SetIdle(g)
  \/ MarkDelivering(g) \/ Submit(g) \/ Finalize(g)

Next ==
  \/ \E e \in Events : HookStep(e) \/ HookMishap(e)
  \/ \E g \in Generations : RunStep(g) \/ CallThrows(g)

Spec == Init /\ [][Next]_vars

\* The workflow engine gets to every run that is waiting.
Fairness ==
  /\ \A e \in Events : WF_vars(HookStep(e))
  /\ \A g \in Generations : WF_vars(RunStep(g))

FairSpec == Spec /\ Fairness

-----------------------------------------------------------------------------
(* Properties. *)

Live(g) == run[g].pc \notin {"none", "returned", "failed"}

\* No run was created that the event's workflow took for not created.
Orderly == "unacknowledged" \notin mishaps.lasting

ItemOf == [none |-> "absent", queued |-> "waiting", claimed |-> "taken",
           delivering |-> "taken", completed |-> "finished", failed |-> "finished"]

\* A run has selected the delivery and is about to claim it.
Selected(e) == \E g \in Generations : run[g].pc = "take" /\ run[g].delivery = e

DeliveryItem ==
  [e \in Events |-> IF delivery[e].status = "queued" /\ Selected(e) THEN "picked"
                    ELSE ItemOf[delivery[e].status]]

Queue == INSTANCE SerialQueue WITH Items <- Events, item <- DeliveryItem

\* The deliveries of an association are a serial queue: they are claimed one at a
\* time, each the first in source order of those waiting when the claim selected it,
\* and end once, however the statements and steps of claiming, delivering and
\* finalizing them interleave with the arrival of others, are interrupted and
\* repeated ("Delivery workers process accepted events for the same association in
\* source order rather than submitting them concurrently", ADR 0011).
DeliversSerially == [][Orderly' => [Queue!Next]_DeliveryItem]_vars

\* An input is submitted by one generation of the processor, whatever fails: the
\* delivery is taken over by no other, and the runtime recognises it by its id when
\* the generation submits it again.
DeliveredOnce ==
  \A e \in Events : \A g, h \in submitted[e] : g = h

\* An event's workflow that ends well has left nothing out: the event is processed
\* and what it asked for was requested, or it is ignored and has no delivery,
\* also when a worker died half way through and the event was found processing.
HandledEvent ==
  \A e \in Events : hook[e].pc = "done" =>
    \/ event[e] = "processed" /\ requested[e]
    \/ event[e] = "ignored" /\ delivery[e].status = "none"

\* An event whose workflow gives up is not left behind as processing, so that it
\* is taken up when the workflow is run again, unless the last error was thrown
\* by the preparation's work (not awaited in its try block) or by marking itself.
GivenUpIsSettled ==
  [][\A e \in Events :
       (hook'[e].pc = "failed" /\ hook[e].pc # "failed" /\ mishaps' = mishaps)
         => event'[e] \in {"failed", "processed"}]_vars

\* A running processor is served: its run has not ended, or an event's workflow is
\* about to create it or to undo the start, unless that run has failed for good or
\* the workflow was abandoned. EnsureProcessor sends every other event away on the
\* strength of this.
RunningIsServed ==
  processor.status = "running" =>
    LET g == processor.generation IN
    \/ Live(g) \/ run[g].pc = "failed"
    \/ \E e \in Events : /\ hook[e].pc \in {"start", "set_idle"}
                        /\ hook[e].generation = g
    \/ mishaps.lasting # {}

\* The runs whose generation is over, and the deliveries that are being made.
Retired == {g \in Generations : Live(g) /\ g < processor.generation}
Claimed == {e \in Events : delivery[e].status \in Active}

\* Runs whose generation is over come to their end, although the deliveries of a
\* successor keep them from going idle: they find out that they are not running.
RetiredRunEnds == Retired # {} ~> Retired = {}

\* A delivery that was claimed is finished (DeliversSerially: it does not go back
\* to waiting), unless the claimant's run fails for good: a run that loses its
\* claim or its result takes the delivery up again.
ClaimedDeliveryEnds ==
  Claimed # {} ~>
    \/ Claimed = {} \/ ~Orderly
    \/ \E e \in Claimed, g \in Generations :
         Is(e, Active, g) /\ run[g].pc = "failed"
=============================================================================
