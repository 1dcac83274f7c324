---------------------- MODULE AssociationDeliveryProofs ----------------------
(***************************************************************************)
(* The delivery queue of an association, for any number of events,         *)
(* generations, attempts and mishaps.                                      *)
(***************************************************************************)
EXTENDS AssociationDelivery, WellFoundedInduction, TLAPS

HookRecords == [pc : HookSteps, tries : 1 .. Attempts,
                generation : 0 .. MaxGeneration]
RunRecords == [pc : RunSteps, delivery : Events \cup {None},
               tries : 1 .. Attempts]
DeliveryRecords == [status : DeliveryStatuses, generation : 0 .. MaxGeneration]

\* The steps that are about a delivery.
DeliverySteps == {"mark", "submit", "reject", "fail", "complete"}

-----------------------------------------------------------------------------
(* The operators of the model. *)

\* Some attempt is the first and the last.
LEMMA AttemptFacts ==
  /\ 1 \in 1 .. Attempts /\ Attempts \in 1 .. Attempts
  /\ \A n \in 1 .. Attempts : n > 1 => n - 1 \in 1 .. Attempts
  BY AssociationAssumption

\* FirstOf is what its name says: a nonempty set of numbers has a least one.
LEMMA FirstOfOK ==
  ASSUME NEW S \in SUBSET Nat, S # {}
  PROVE  FirstOf(S) \in S /\ \A f \in S : FirstOf(S) <= f
<1> DEFINE R == OpToRel(<, Nat)
<1>1. \E e \in S : \A f \in S : ~(<<f, e>> \in R)
  <2> HIDE DEF R
  <2>1. IsWellFoundedOn(R, Nat)
    BY NatLessThanWellFounded DEF R
  <2> QED BY <2>1, WFMin
<1>2. PICK e \in S : \A f \in S : ~(<<f, e>> \in R)
  BY <1>1
<1>3. ASSUME NEW f \in S PROVE e <= f
  <2>1. <<f, e>> \in Nat \X Nat
    OBVIOUS
  <2>2. ~(f < e)
    BY <1>2, <2>1 DEF OpToRel
  <2> QED BY <2>2
<1>4. \E x \in S : \A f \in S : x <= f
  BY <1>3
<1> QED BY <1>4 DEF FirstOf

\* A mishap leaves one less to happen and forgets none that lasts.
LEMMA MishapOK ==
  ASSUME mishaps \in [left : 0 .. MaxMishaps, lasting : SUBSET Lasting],
         NEW kind, Mishap(kind)
  PROVE  /\ mishaps' \in [left : 0 .. MaxMishaps, lasting : SUBSET Lasting]
         /\ mishaps.lasting \subseteq mishaps'.lasting
         /\ kind \in Lasting => kind \in mishaps'.lasting
         /\ kind \notin Lasting => mishaps'.lasting = mishaps.lasting
         /\ mishaps' # mishaps
  BY AssociationAssumption DEF Mishap

\* Where the workflow of an event goes.
LEMMA HookAtOK ==
  ASSUME hook \in [Events -> HookRecords], NEW e \in Events,
         NEW pc \in HookSteps
  PROVE  /\ HookAt(e, pc) \in HookRecords
         /\ HookAt(e, pc).pc = pc
         /\ HookAt(e, pc).generation \in {0, hook[e].generation}
         /\ pc = "set_idle" => HookAt(e, pc).generation = hook[e].generation
  BY AttemptFacts, AssociationAssumption DEF HookAt, HookRecords

\* Where an event handler whose attempt threw is left.
LEMMA RethrownOK ==
  ASSUME hook \in [Events -> HookRecords], NEW e \in Events, hook' = Rethrown(e)
  PROVE  /\ hook' \in [Events -> HookRecords]
         /\ hook'[e].pc \in {"receive", "failed"}
         /\ hook'[e].generation \in {0, hook[e].generation}
         /\ \A f \in Events \ {e} : hook'[f] = hook[f]
<1> DEFINE h == HookAt(e, "receive")
<1>1. /\ h \in HookRecords /\ h.pc = "receive" /\ h.tries = hook[e].tries
      /\ h.generation \in {0, hook[e].generation}
  BY HookAtOK DEF HookAt, HookSteps
<1>2. /\ HookAt(e, "failed") \in HookRecords /\ HookAt(e, "failed").pc = "failed"
      /\ HookAt(e, "failed").generation \in {0, hook[e].generation}
  BY HookAtOK DEF HookSteps
<1>3. hook[e].tries > 1 => [h EXCEPT !.tries = @ - 1] \in HookRecords
  BY <1>1, AttemptFacts DEF HookRecords
<1> HIDE DEF h
<1>4. hook' = [hook EXCEPT ![e] = IF hook[e].tries > 1
                                  THEN [h EXCEPT !.tries = @ - 1]
                                  ELSE HookAt(e, "failed")]
  BY DEF Rethrown, h
<1>5. [h EXCEPT !.tries = @ - 1].pc = "receive"
      /\ [h EXCEPT !.tries = @ - 1].generation = h.generation
  BY <1>1 DEF HookRecords
<1> QED
  BY <1>1, <1>2, <1>3, <1>4, <1>5

\* A handler that goes on keeps its generation only on its way to making the
\* processor idle.
LEMMA GotoOK ==
  ASSUME hook \in [Events -> HookRecords], NEW e \in Events,
         NEW pc \in HookSteps, Goto(e, pc)
  PROVE  /\ hook' \in [Events -> HookRecords]
         /\ hook'[e].pc = pc
         /\ hook'[e].generation \in {0, hook[e].generation}
         /\ pc = "set_idle" => hook'[e].generation = hook[e].generation
         /\ \A f \in Events \ {e} : hook'[f] = hook[f]
  BY HookAtOK DEF Goto

\* The records a run is given.
LEMMA AtOK ==
  ASSUME NEW pc \in RunSteps, NEW e \in Events \cup {None}
  PROVE  /\ At(pc, e) \in RunRecords /\ At(pc, e).pc = pc
         /\ At(pc, e).delivery = e
         /\ Ended(pc) \in RunRecords /\ Ended(pc).pc = pc
  BY AttemptFacts DEF At, Ended, RunRecords

\* A step that was interrupted, by an error or a death, starts over; or the
\* delivery fails, or the run. Whatever the step was about it is still about.
Interrupted(d, r) ==
  /\ r \in RunRecords
  /\ r.pc \in {"check", "claim", "idle", "mark", "fail", "complete", "failed"}
  /\ r.pc \in DeliverySteps => r.delivery = d.delivery /\ d.pc \in DeliverySteps

\* A step started over and a step that threw both leave the run where
\* "Interrupted" says.
LEMMA InterruptedOK ==
  ASSUME NEW d \in RunRecords, d.pc \notin {"none", "returned", "failed"}
  PROVE  Interrupted(d, StepStart(d)) /\ Interrupted(d, Thrown(d))
<1> DEFINE s == StepStart(d)
<1>1. /\ s \in RunRecords /\ s.tries = d.tries
      /\ s.pc \in {"check", "claim", "idle", "mark", "fail", "complete"}
      /\ s.pc \in DeliverySteps => s.delivery = d.delivery /\ d.pc \in DeliverySteps
  <2>1. CASE d.pc = "take"
    <3>1. s = [d EXCEPT !.pc = "claim", !.delivery = None]
      BY <2>1 DEF StepStart
    <3> QED BY <3>1 DEF RunRecords, RunSteps, DeliverySteps
  <2>2. CASE d.pc = "set_idle"
    <3>1. s = [d EXCEPT !.pc = "idle"]
      BY <2>2 DEF StepStart
    <3> QED BY <3>1 DEF RunRecords, RunSteps, DeliverySteps
  <2>3. CASE d.pc \in {"submit", "reject"}
    <3>1. s = [d EXCEPT !.pc = "mark"]
      BY <2>3 DEF StepStart
    <3> QED BY <2>3, <3>1 DEF RunRecords, RunSteps, DeliverySteps
  <2>4. CASE d.pc \notin {"take", "set_idle", "submit", "reject"}
    <3>1. s = d
      BY <2>4 DEF StepStart
    <3> QED BY <2>4, <3>1 DEF RunRecords, RunSteps, DeliverySteps
  <2> QED BY <2>1, <2>2, <2>3, <2>4
<1>3. Interrupted(d, s)
  BY <1>1 DEF Interrupted
<1>4. d.tries > 1 => [s EXCEPT !.tries = @ - 1] \in RunRecords
  BY <1>1, AttemptFacts DEF RunRecords
<1>5. /\ [s EXCEPT !.tries = @ - 1].pc = s.pc
      /\ [s EXCEPT !.tries = @ - 1].delivery = s.delivery
  BY <1>1 DEF RunRecords
<1>6. /\ At("fail", d.delivery) \in RunRecords
      /\ At("fail", d.delivery).pc = "fail"
      /\ At("fail", d.delivery).delivery = d.delivery
  BY AtOK DEF RunRecords, RunSteps
<1>7. Ended("failed") \in RunRecords /\ Ended("failed").pc = "failed"
  BY AtOK DEF RunSteps
<1> HIDE DEF s
<1>8. Thrown(d) = IF d.tries > 1 THEN [s EXCEPT !.tries = @ - 1]
                  ELSE IF s.pc = "mark" THEN At("fail", d.delivery)
                  ELSE Ended("failed")
  BY DEF Thrown, s
<1>9. Interrupted(d, Thrown(d))
  <2>1. CASE d.tries > 1
    BY <2>1, <1>1, <1>4, <1>5, <1>8 DEF Interrupted
  <2>2. CASE ~(d.tries > 1) /\ s.pc = "mark"
    <3>1. d.pc \in DeliverySteps
      BY <2>2, <1>1 DEF DeliverySteps
    <3> QED BY <2>2, <1>6, <1>8, <3>1 DEF Interrupted
  <2>3. CASE ~(d.tries > 1) /\ s.pc # "mark"
    BY <2>3, <1>7, <1>8 DEF Interrupted, DeliverySteps
  <2> QED BY <2>1, <2>2, <2>3
<1> QED BY <1>3, <1>9 DEF s

\* What a step of run g does to the run: it goes on, or was interrupted.
Moves(g, r) == r \in RunRecords /\ run' = [run EXCEPT ![g] = r]

\* A run whose step ends moves on, or dies before the engine stored the result.
LEMMA StoredOK ==
  ASSUME TypeOK, NEW g \in Generations, NEW next \in RunRecords,
         run[g].pc \notin {"none", "returned", "failed"}, Stored(g, next)
  PROVE  /\ \E r : Moves(g, r) /\ (r = next \/ Interrupted(run[g], r))
         /\ mishaps' \in [left : 0 .. MaxMishaps, lasting : SUBSET Lasting]
         /\ mishaps'.lasting = mishaps.lasting
<1>1. run[g] \in RunRecords
  BY DEF TypeOK, RunRecords
<1>2. Interrupted(run[g], StepStart(run[g])) /\ Interrupted(run[g], Thrown(run[g]))
  BY <1>1, InterruptedOK
<1>3. CASE GoesOn(g, next)
  BY <1>3 DEF GoesOn, Moves, TypeOK
<1>4. CASE Mishap("died") /\ run' = [run EXCEPT ![g] = StepStart(@)]
  <2>1. Moves(g, StepStart(run[g]))
    BY <1>2, <1>4 DEF Moves, Interrupted
  <2>2. "died" \notin Lasting
    BY DEF Lasting
  <2> QED BY <1>2, <1>4, <2>1, <2>2, MishapOK DEF TypeOK
<1>5. CASE Mishap("late") /\ run' = [run EXCEPT ![g] = Thrown(@)]
  <2>1. Moves(g, Thrown(run[g]))
    BY <1>2, <1>5 DEF Moves, Interrupted
  <2>2. "late" \notin Lasting
    BY DEF Lasting
  <2> QED BY <1>2, <1>5, <2>1, <2>2, MishapOK DEF TypeOK
<1> QED BY <1>3, <1>4, <1>5 DEF Stored

\* A call that throws interrupts the run and costs no mishap.
LEMMA ThrowsOK ==
  ASSUME TypeOK, NEW g \in Generations,
         run[g].pc \notin {"none", "returned", "failed"}, Throws(g)
  PROVE  /\ \E r : Moves(g, r) /\ Interrupted(run[g], r)
         /\ mishaps' = mishaps
<1>1. run[g] \in RunRecords
  BY DEF TypeOK, RunRecords
<1>2. Interrupted(run[g], Thrown(run[g]))
  BY <1>1, InterruptedOK
<1> QED BY <1>2 DEF Throws, GoesOn, Moves, Interrupted

-----------------------------------------------------------------------------
(* What the steps do. Each lemma says what later proofs need to know of an   *)
(* action; the first says that it keeps every variable in its domain.        *)

HookPart == hook \in [Events -> HookRecords]
RunPart == run \in [Generations -> RunRecords]
DeliveryPart == delivery \in [Events -> DeliveryRecords]
RowPart ==
  /\ event \in [Events -> EventStatuses]
  /\ requested \in [Events -> BOOLEAN]
  /\ processor \in [status : {"none", "idle", "running"},
                    generation : 0 .. MaxGeneration]
  /\ submitted \in [Events -> SUBSET Generations]
  /\ mishaps \in [left : 0 .. MaxMishaps, lasting : SUBSET Lasting]

\* The type invariant, by the part of the state it is about.
LEMMA TypeParts ==
  /\ TypeOK <=> HookPart /\ RunPart /\ DeliveryPart /\ RowPart
  /\ TypeOK' <=> HookPart' /\ RunPart' /\ DeliveryPart' /\ RowPart'
  BY DEF TypeOK, HookPart, RunPart, DeliveryPart, RowPart, HookRecords,
         RunRecords, DeliveryRecords

\* The initial states are of their types.
LEMMA InitType == Init => TypeOK
<1> SUFFICES ASSUME Init PROVE HookPart /\ RunPart /\ DeliveryPart /\ RowPart
  BY TypeParts
<1>1. HookPart
  BY AttemptFacts, AssociationAssumption DEF Init, HookPart, HookRecords, HookSteps
<1>2. RunPart
  BY AttemptFacts DEF Init, RunPart, RunRecords, RunSteps
<1>3. DeliveryPart
  BY AssociationAssumption DEF Init, DeliveryPart, DeliveryRecords, DeliveryStatuses
<1>4. RowPart
  BY AssociationAssumption DEF Init, RowPart, EventStatuses
<1> QED BY <1>1, <1>2, <1>3, <1>4

\* A run moves on, or is interrupted.
LEMMA MovesType ==
  ASSUME RunPart, NEW g \in Generations, NEW r, Moves(g, r)
  PROVE  RunPart'
  BY DEF RunPart, Moves

\* The updates of an event and of the processor that several steps share.
LEMMA EventFromType ==
  ASSUME event \in [Events -> EventStatuses], NEW e \in Events, NEW from,
         NEW s \in EventStatuses
  PROVE  EventFrom(e, from, s) \in [Events -> EventStatuses]
  BY DEF EventFrom

\* Enqueueing a delivery keeps deliveries and processor in their domains.
LEMMA EnqueueType ==
  ASSUME DeliveryPart, RowPart, NEW e \in Events, EnqueueDelivery(e)
  PROVE  /\ DeliveryPart'
         /\ processor' \in [status : {"none", "idle", "running"},
                            generation : 0 .. MaxGeneration]
  BY DEF EnqueueDelivery, DeliveryPart, RowPart, DeliveryRecords, DeliveryStatuses

\* runWorkflow creates the run of a generation unless it is there.
LEMMA RunOfOK ==
  ASSUME RunPart, NEW g \in 0 .. MaxGeneration
  PROVE  /\ RunOf(g) \in [Generations -> RunRecords]
         /\ \A h \in Generations :
              RunOf(g)[h] = IF h = g /\ run[h].pc = "none"
                            THEN [run[h] EXCEPT !.pc = "check"] ELSE run[h]
<1> DEFINE c(h) == IF h = g /\ run[h].pc = "none"
                   THEN [run[h] EXCEPT !.pc = "check"] ELSE run[h]
<1>1. ASSUME NEW h \in Generations
      PROVE  /\ c(h) \in RunRecords
             /\ h # g => RunOf(g)[h] = run[h]
             /\ h = g => RunOf(g)[h] =
                  [run[h] EXCEPT !.pc = IF run[h].pc = "none" THEN "check" ELSE run[h].pc]
  BY DEF RunOf, RunPart, RunRecords, RunSteps
<1>2. ASSUME NEW h \in Generations, run[h].pc # "none"
      PROVE  run[h] =
               [run[h] EXCEPT !.pc = IF run[h].pc = "none" THEN "check" ELSE run[h].pc]
  BY <1>2 DEF RunPart, RunRecords
<1>3. \A h \in Generations : RunOf(g)[h] = c(h)
  BY <1>1, <1>2
<1>4. RunOf(g) = [h \in Generations |-> c(h)]
  BY <1>3 DEF RunOf, RunPart
<1> QED BY <1>1, <1>3, <1>4

\* A step of an event handler preserves the type invariant.
LEMMA HookStepType ==
  ASSUME TypeOK, NEW e \in Events, HookStep(e) \/ HookMishap(e)
  PROVE  TypeOK'
<1> USE TypeParts
<1> USE DEF HookSteps, EventStatuses
<1>1. CASE Receive(e)
  BY <1>1, GotoOK, EventFromType
  DEF Receive, HookPart, RunPart, DeliveryPart, RowPart
<1>2. CASE Prepare(e)
  BY <1>2, GotoOK, EventFromType, EnqueueType
  DEF Prepare, HookPart, RunPart, DeliveryPart, RowPart
<1>3. CASE Request(e)
  BY <1>3, GotoOK DEF Request, HookPart, RunPart, DeliveryPart, RowPart
<1>4. CASE EnsureProcessor(e)
  <2>1. CASE delivery[e].status = "none" \/ processor.status = "running"
    BY <1>4, <2>1, GotoOK
    DEF EnsureProcessor, HookPart, RunPart, DeliveryPart, RowPart
  <2>2. CASE ~(delivery[e].status = "none" \/ processor.status = "running")
    <3>1. processor.generation + 1 \in 0 .. MaxGeneration
      BY <1>4, <2>2, AssociationAssumption DEF EnsureProcessor, RowPart
    <3> DEFINE n == processor.generation + 1
               h == [hook[e] EXCEPT !.pc = "start", !.generation = n]
    <3>2. h \in HookRecords
      BY <3>1 DEF HookPart, HookRecords
    <3>3. hook' = [hook EXCEPT ![e] = h]
      BY <1>4, <2>2 DEF EnsureProcessor, HookPart
    <3>4. processor' = [status |-> "running", generation |-> n]
      BY <1>4, <2>2 DEF EnsureProcessor
    <3> HIDE DEF h, n
    <3>5. HookPart'
      BY <3>2, <3>3 DEF HookPart
    <3>6. RunPart' /\ DeliveryPart' /\ RowPart'
      BY <1>4, <3>1, <3>4
      DEF EnsureProcessor, RunPart, DeliveryPart, RowPart, n
    <3> QED BY <3>5, <3>6
  <2> QED BY <2>1, <2>2
<1>5. RunOf(hook[e].generation) \in [Generations -> RunRecords]
  BY RunOfOK DEF HookPart, HookRecords
<1>6. CASE StartProcessor(e)
  BY <1>5, <1>6, GotoOK
  DEF StartProcessor, HookPart, RunPart, DeliveryPart, RowPart
<1>7. CASE StartFails(e)
  BY <1>5, <1>7, GotoOK, MishapOK
  DEF StartFails, HookPart, RunPart, DeliveryPart, RowPart
<1>8. CASE UndoStart(e)
  BY <1>8, GotoOK
  DEF UndoStart, IdleOf, HookPart, RunPart, DeliveryPart, RowPart
<1>9. CASE MarkProcessed(e)
  BY <1>9, GotoOK, EventFromType
  DEF MarkProcessed, HookPart, RunPart, DeliveryPart, RowPart
<1>10. CASE MarkFailed(e)
  BY <1>10, RethrownOK, EventFromType
  DEF MarkFailed, HookPart, RunPart, DeliveryPart, RowPart
<1>11. CASE HookThrows(e)
  <2>1. HookPart'
    BY <1>11, GotoOK, RethrownOK DEF HookThrows, HookPart
  <2>2. DeliveryPart' /\ RunPart'
    BY <1>11, EnqueueType DEF HookThrows, DeliveryPart, RunPart
  <2>3. RowPart'
    BY <1>11, EnqueueType, EventFromType, MishapOK DEF HookThrows, RowPart
  <2> QED BY <2>1, <2>2, <2>3
<1>12. CASE HookAbandons(e)
  BY <1>12, GotoOK, MishapOK
  DEF HookAbandons, HookPart, RunPart, DeliveryPart, RowPart
<1> QED
  BY <1>1, <1>2, <1>3, <1>4, <1>6, <1>7, <1>8, <1>9, <1>10, <1>11, <1>12
  DEF HookStep, HookMishap

-----------------------------------------------------------------------------
(* The inductive invariant. *)

\* Where the event is being handled, and where what it asks for was requested.
Working == {"prepare", "request", "ensure", "start", "set_idle", "mark_processed"}
PastRequest == {"ensure", "start", "set_idle", "mark_processed"}

\* An event is processing while its workflow works on it, and says processed only
\* after what it asks for was requested, ignored only without a delivery.
EventPart ==
  \A e \in Events :
    /\ hook[e].pc \in Working => event[e] = "processing"
    /\ hook[e].pc = "mark_failed" => event[e] \in {"processing", "processed"}
    /\ hook[e].pc = "done" => event[e] \in {"processed", "ignored"}
    /\ hook[e].pc \in PastRequest \/ event[e] = "processed" => requested[e]
    /\ event[e] = "ignored" => delivery[e].status = "none"

\* A run claims what was enqueued and delivers what its own generation has claimed,
\* and so did every run that submitted it: a claim is not taken over.
ClaimPart ==
  /\ \A g \in Generations :
       /\ run[g].pc \in DeliverySteps => run[g].delivery \in Events
       /\ run[g].pc = "take" => /\ run[g].delivery \in Events
                                /\ delivery[run[g].delivery].status # "none"
       /\ run[g].pc = "submit" => Is(run[g].delivery, {"delivering"}, g)
  /\ \A e \in Events : \A g \in submitted[e] : Is(e, {"delivering"} \cup Final, g)

Starting(e) == hook[e].pc \in {"start", "set_idle"}

\* A generation that was not handed out has no run.
GenerationPart ==
  /\ processor.status = "running" => processor.generation \in Generations
  /\ \A e \in Events : Starting(e) => /\ hook[e].generation \in Generations
                                      /\ hook[e].generation <= processor.generation
  /\ \A g \in Generations : g > processor.generation => run[g].pc = "none"

\* One event's workflow at most is starting a run, that of the row's generation.
OneStart ==
  /\ \A e \in Events : Starting(e) => /\ Serves(hook[e].generation)
                                      /\ run[hook[e].generation].pc = "none"
  /\ \A e, f \in Events : Starting(e) /\ Starting(f) => e = f

\* What is being delivered was claimed by the run of the row's generation.
ClaimIsServed ==
  \A e \in Events : delivery[e].status \in Active =>
    \E g \in Generations : /\ delivery[e].generation = g
                           /\ Serves(g) /\ run[g].pc # "none"

\* A run that is about to claim or to make the row idle is that of the row's
\* generation, and has left nothing half delivered.
HandsFree ==
  \A g \in Generations : run[g].pc \in {"take", "set_idle"} =>
    Serves(g) /\ \A e \in Events : delivery[e].status \notin Active

\* All of that as long as the processor's row and its runs agree.
OrderPart == Orderly => OneStart /\ ClaimIsServed /\ HandsFree

Inv == /\ TypeOK /\ EventPart /\ ClaimPart /\ GenerationPart /\ OrderPart
       /\ RunningIsServed

-----------------------------------------------------------------------------
(* What a step of a run does. *)

\* Run g goes to r. A delivery stays as it is, is claimed by the run that selected
\* it, or was g's already; the row is left or made idle.
DeliveryMoves(g) ==
  \A e \in Events :
    \/ delivery'[e] = delivery[e]
    \/ /\ delivery[e].status = "queued" /\ run[g].pc = "take" /\ e = run[g].delivery
       /\ delivery'[e] = [status |-> "claimed", generation |-> g]
    \/ /\ Is(e, Active, g) /\ run[g].pc \in DeliverySteps /\ e = run[g].delivery
       /\ Is(e, {"delivering"} \cup Final, g)'

SubmittedMoves(g) ==
  \/ submitted' = submitted
  \/ /\ run[g].pc = "submit"
     /\ submitted' = [submitted EXCEPT ![run[g].delivery] = @ \cup {g}]

\* The run of the row's generation selects the first of the queued deliveries, and
\* has none that it claimed before.
Selects(g, e) ==
  /\ run[g].pc = "claim" /\ Serves(g)
  /\ processor' = processor /\ delivery' = delivery
  /\ e \in Events /\ delivery[e].status = "queued"
  /\ \A f \in Events : /\ ~Is(f, Active, g)
                       /\ delivery[f].status = "queued" => e <= f

RunEffect(g, r) ==
  /\ Moves(g, r) /\ run[g].pc \notin {"none", "returned", "failed"}
  /\ UNCHANGED <<event, hook, requested>> /\ mishaps'.lasting = mishaps.lasting
  /\ mishaps' \in [left : 0 .. MaxMishaps, lasting : SUBSET Lasting]
  /\ delivery' \in [Events -> DeliveryRecords] /\ DeliveryMoves(g)
  /\ SubmittedMoves(g)
  /\ processor' = processor \/ (run[g].pc = "set_idle" /\ processor' = IdleOf(g))
  /\ r.pc # "none"
  /\ r.pc \in DeliverySteps => r.delivery \in Events
  /\ r.pc = "submit" => /\ delivery'[r.delivery].status = "delivering"
                        /\ delivery'[r.delivery].generation = g
  /\ r.pc = "take" => Selects(g, r.delivery)
  /\ r.pc = "set_idle" =>
       Serves(g) /\ processor' = processor /\ delivery' = delivery
       /\ \A e \in Events : delivery[e].status \notin Unfinished
  /\ r.pc = "returned" => ~Serves(g)'

\* Whatever a delivery run does, from claiming to making the processor idle,
\* and whatever happens to it, is a "RunEffect".
LEMMA RunEffectOK ==
  ASSUME TypeOK, ClaimPart, NEW g \in Generations, RunStep(g) \/ CallThrows(g)
  PROVE  \E r : RunEffect(g, r)
<1> DEFINE d == run[g]
<1> USE TypeParts
<1>1. d \in RunRecords /\ (d.pc \in DeliverySteps => d.delivery \in Events)
  BY DEF RunPart, ClaimPart
<1>2. d.pc \notin {"none", "returned", "failed"}
  BY DEF RunStep, CallThrows, CheckRunning, Claim, Take, CheckEmpty, SetIdle,
         MarkDelivering, Submit, Finalize, StatusAt
<1>3. ASSUME NEW r, Interrupted(d, r)
      PROVE  /\ r \in RunRecords
             /\ r.pc \notin {"none", "returned", "take", "set_idle", "submit"}
             /\ r.pc \in DeliverySteps => r.delivery \in Events
  BY <1>1, <1>3 DEF Interrupted
<1>4. CASE CallThrows(g)
  <2>1. Interrupted(d, Thrown(d))
    BY <1>1, <1>2, InterruptedOK
  <2>2. Moves(g, Thrown(d))
    BY <1>3, <1>4, <2>1 DEF CallThrows, Moves
  <2>3. "throw" \notin Lasting
    BY DEF Lasting
  <2>4. /\ mishaps'.lasting = mishaps.lasting
        /\ mishaps' \in [left : 0 .. MaxMishaps, lasting : SUBSET Lasting]
    BY <1>4, <2>3, MishapOK DEF CallThrows, RowPart
  <2>5. RunEffect(g, Thrown(d))
    BY <1>2, <1>3, <1>4, <2>1, <2>2, <2>4
    DEF CallThrows, RunEffect, DeliveryMoves, SubmittedMoves, DeliveryPart
  <2> QED BY <2>5
<1>5. CASE CheckRunning(g)
  <2> DEFINE r == IF Serves(g) THEN At("claim", None) ELSE Ended("returned")
  <2>1. r \in RunRecords /\ r.pc = IF Serves(g) THEN "claim" ELSE "returned"
    BY AtOK DEF RunSteps
  <2>2. Serves(g)' = Serves(g)
    BY <1>5 DEF CheckRunning, Serves
  <2>3. Moves(g, r) /\ mishaps' = mishaps
    BY <1>5, <2>1 DEF CheckRunning, GoesOn, Moves
  <2> HIDE DEF r
  <2>4. RunEffect(g, r)
    BY <1>2, <1>5, <2>1, <2>2, <2>3
    DEF CheckRunning, RunEffect, DeliveryMoves, SubmittedMoves, DeliveryPart,
        RowPart, DeliverySteps
  <2> QED BY <2>4
<1>6. CASE CheckEmpty(g)
  <2> DEFINE empty == Serves(g) /\ \A e \in Events : delivery[e].status \notin Unfinished
             r == IF empty THEN [run[g] EXCEPT !.pc = "set_idle"] ELSE At("check", None)
  <2>1. r \in RunRecords /\ r.pc = IF empty THEN "set_idle" ELSE "check"
    BY <1>1, AtOK DEF RunSteps, RunRecords
  <2>2. Moves(g, r) /\ mishaps' = mishaps
    BY <1>6, <2>1 DEF CheckEmpty, GoesOn, Moves
  <2> HIDE DEF r
  <2>3. RunEffect(g, r)
    BY <1>2, <1>6, <2>1, <2>2
    DEF CheckEmpty, RunEffect, DeliveryMoves, SubmittedMoves, DeliveryPart,
        RowPart, DeliverySteps
  <2> QED BY <2>3
<1>7. CASE SetIdle(g)
  <2>1. Ended("returned") \in RunRecords /\ Ended("returned").pc = "returned"
    BY AtOK DEF RunSteps
  <2>2. PICK r : Moves(g, r) /\ (r = Ended("returned") \/ Interrupted(d, r))
    BY <1>2, <1>7, <2>1, StoredOK DEF SetIdle
  <2>3. /\ mishaps'.lasting = mishaps.lasting
        /\ mishaps' \in [left : 0 .. MaxMishaps, lasting : SUBSET Lasting]
    BY <1>2, <1>7, <2>1, StoredOK DEF SetIdle
  <2>4. ~Serves(g)'
    BY <1>7 DEF SetIdle, IdleOf, Serves, RowPart
  <2>5. RunEffect(g, r)
    BY <1>2, <1>3, <1>7, <2>1, <2>2, <2>3, <2>4
    DEF SetIdle, RunEffect, DeliveryMoves, SubmittedMoves, DeliveryPart,
        DeliverySteps
  <2> QED BY <2>5
<1>8. CASE Claim(g)
  <2> DEFINE e == FirstOf(Claimable(g))
  <2>1. delivery' = delivery /\ processor' = processor /\ d.pc = "claim"
    BY <1>8 DEF Claim
  <2>2. ASSUME NEW r \in RunRecords, GoesOn(g, r),
               r.pc = "idle" \/ (r.pc = "mark" /\ r.delivery \in Events)
                             \/ (r.pc = "take" /\ Selects(g, r.delivery))
        PROVE  RunEffect(g, r)
    BY <1>2, <1>8, <2>1, <2>2
    DEF Claim, GoesOn, Moves, RunEffect, DeliveryMoves, SubmittedMoves,
        DeliveryPart, RowPart, DeliverySteps
  <2>3. CASE ~Serves(g) \/ Claimable(g) = {}
    <3>1. At("idle", None) \in RunRecords /\ At("idle", None).pc = "idle"
      BY AtOK DEF RunSteps
    <3>2. GoesOn(g, At("idle", None))
      BY <1>8, <2>3 DEF Claim
    <3> QED BY <2>2, <3>1, <3>2
  <2>4. CASE Serves(g) /\ Claimable(g) # {}
    <3>1. Claimable(g) \in SUBSET Events /\ Events \subseteq Nat
      BY DEF Claimable, Events
    <3>2. e \in Claimable(g) /\ e \in Events /\ \A f \in Claimable(g) : e <= f
      BY <2>4, <3>1, FirstOfOK
    <3>3. GoesOn(g, IF delivery[e].status = "queued"
                    THEN [d EXCEPT !.pc = "take", !.delivery = e]
                    ELSE At("mark", e))
      BY <1>8, <2>4 DEF Claim
    <3> HIDE DEF e
    <3>4. CASE delivery[e].status = "queued"
      <4> DEFINE r == [d EXCEPT !.pc = "take", !.delivery = e]
      <4>1. r \in RunRecords /\ r.pc = "take" /\ r.delivery = e
        BY <1>1, <3>2 DEF RunRecords, RunSteps
      <4>2. GoesOn(g, r)
        BY <3>3, <3>4
      <4> HIDE DEF r
      <4>3. /\ \A f \in Events : ~Is(f, Active, g)
            /\ \A f \in Events : delivery[f].status = "queued" => e <= f
        BY <3>2, <3>4 DEF Claimable, Is, Active
      <4>4. Selects(g, e)
        BY <2>1, <2>4, <3>2, <3>4, <4>3 DEF Selects
      <4> QED BY <2>2, <4>1, <4>2, <4>4
    <3>5. CASE delivery[e].status # "queued"
      <4>1. /\ At("mark", e) \in RunRecords /\ At("mark", e).pc = "mark"
            /\ At("mark", e).delivery = e
        BY <3>2, AtOK DEF RunSteps
      <4> QED BY <2>2, <3>2, <3>3, <3>5, <4>1
    <3> QED BY <3>4, <3>5
  <2> QED BY <2>3, <2>4
<1>9. CASE MarkDelivering(g)
  <2> DEFINE e == d.delivery
  <2>1. e \in Events /\ d.pc = "mark"
    BY <1>1, <1>9 DEF MarkDelivering, DeliverySteps
  <2>2. ASSUME NEW pc \in RunSteps
        PROVE  /\ [d EXCEPT !.pc = pc] \in RunRecords
               /\ [d EXCEPT !.pc = pc].pc = pc
               /\ [d EXCEPT !.pc = pc].delivery = e
    BY <1>1 DEF RunRecords
  <2>3. CASE Is(e, Active, g)
    <3> DEFINE r == [d EXCEPT !.pc = "submit"]
               x == [delivery[e] EXCEPT !.status = "delivering"]
    <3>1. delivery' = [delivery EXCEPT ![e] = x]
      BY <1>9, <2>3 DEF MarkDelivering
    <3>2. /\ x \in DeliveryRecords /\ x.status = "delivering"
          /\ x.generation = delivery[e].generation
      BY <2>1 DEF DeliveryPart, DeliveryRecords, DeliveryStatuses
    <3>3. r \in RunRecords /\ r.pc = "submit" /\ r.delivery = e
      BY <2>2 DEF RunSteps
    <3>4. Moves(g, r) /\ mishaps' = mishaps
      BY <1>9, <2>3, <3>3 DEF MarkDelivering, GoesOn, Moves
    <3> HIDE DEF x, r, d
    <3>5. delivery'[e].status = "delivering" /\ delivery'[e].generation = g
      BY <2>1, <2>3, <3>1, <3>2 DEF Is, DeliveryPart
    <3>6. delivery' \in [Events -> DeliveryRecords] /\ DeliveryMoves(g)
      BY <2>1, <2>3, <3>1, <3>2 DEF DeliveryPart, DeliveryMoves, Is, d, DeliverySteps
    <3>7. RunEffect(g, r)
      BY <1>2, <1>9, <2>1, <3>3, <3>4, <3>5, <3>6
      DEF MarkDelivering, RunEffect, SubmittedMoves, RowPart, Is, d
    <3> QED BY <3>7
  <2>4. CASE ~Is(e, Active, g)
    <3> DEFINE r == [d EXCEPT !.pc = "reject"]
    <3>1. r \in RunRecords /\ r.pc = "reject" /\ r.delivery = e
      BY <2>2 DEF RunSteps
    <3>2. Moves(g, r) /\ mishaps' = mishaps /\ delivery' = delivery
      BY <1>9, <2>4, <3>1 DEF MarkDelivering, GoesOn, Moves
    <3> HIDE DEF r
    <3>3. RunEffect(g, r)
      BY <1>2, <1>9, <2>1, <3>1, <3>2
      DEF MarkDelivering, RunEffect, DeliveryMoves, SubmittedMoves,
          DeliveryPart, RowPart
    <3> QED BY <3>3
  <2> QED BY <2>3, <2>4
<1>10. CASE Submit(g)
  <2> DEFINE e == d.delivery
  <2>1. e \in Events /\ d.pc = "submit"
    BY <1>1, <1>10 DEF Submit, DeliverySteps
  <2>2. CASE /\ submitted' = [submitted EXCEPT ![e] = @ \cup {g}]
             /\ Stored(g, At("complete", e))
    <3>1. /\ At("complete", e) \in RunRecords /\ At("complete", e).pc = "complete"
          /\ At("complete", e).delivery = e
      BY <2>1, AtOK DEF RunSteps
    <3>2. PICK r : Moves(g, r) /\ (r = At("complete", e) \/ Interrupted(d, r))
      BY <1>2, <2>2, <3>1, StoredOK
    <3>3. /\ mishaps'.lasting = mishaps.lasting
          /\ mishaps' \in [left : 0 .. MaxMishaps, lasting : SUBSET Lasting]
      BY <1>2, <2>2, <3>1, StoredOK
    <3>4. RunEffect(g, r)
      BY <1>2, <1>3, <1>10, <2>1, <2>2, <3>1, <3>2, <3>3
      DEF Submit, RunEffect, DeliveryMoves, SubmittedMoves, DeliveryPart
    <3> QED BY <3>4
  <2>3. CASE /\ Mishap("rejected") /\ UNCHANGED submitted
             /\ run' = [run EXCEPT ![g].pc = "reject"]
    <3> DEFINE r == [d EXCEPT !.pc = "reject"]
    <3>1. r \in RunRecords /\ r.pc = "reject" /\ r.delivery = e
      BY <1>1 DEF RunRecords, RunSteps
    <3>2. Moves(g, r)
      BY <2>3, <3>1 DEF Moves
    <3>3. "rejected" \notin Lasting
      BY DEF Lasting
    <3>4. /\ mishaps'.lasting = mishaps.lasting
          /\ mishaps' \in [left : 0 .. MaxMishaps, lasting : SUBSET Lasting]
      BY <2>3, <3>3, MishapOK DEF RowPart
    <3> HIDE DEF r
    <3>5. RunEffect(g, r)
      BY <1>2, <1>10, <2>1, <2>3, <3>1, <3>2, <3>4
      DEF Submit, RunEffect, DeliveryMoves, SubmittedMoves, DeliveryPart
    <3> QED BY <3>5
  <2> QED BY <1>10, <2>2, <2>3 DEF Submit
<1>11. CASE Finalize(g)
  <2> DEFINE e == d.delivery
             s == StatusAt[d.pc]
  <2>1. e \in Events /\ d.pc \in DeliverySteps /\ s \in Final
    BY <1>1, <1>11 DEF Finalize, StatusAt, DeliverySteps, Final
  <2>2. CASE Is(e, Active \cup {s}, g)
    <3> DEFINE x == [delivery[e] EXCEPT !.status = s]
    <3>1. delivery' = [delivery EXCEPT ![e] = x] /\ Stored(g, At("check", None))
      BY <1>11, <2>2 DEF Finalize
    <3>2. /\ x \in DeliveryRecords /\ x.status = s
          /\ x.generation = delivery[e].generation
          /\ delivery[e].status = s => x = delivery[e]
      BY <2>1 DEF DeliveryPart, DeliveryRecords, DeliveryStatuses, Final
    <3>3. At("check", None) \in RunRecords /\ At("check", None).pc = "check"
      BY AtOK DEF RunSteps
    <3>4. PICK r : Moves(g, r) /\ (r = At("check", None) \/ Interrupted(d, r))
      BY <1>2, <3>1, <3>3, StoredOK
    <3>5. /\ mishaps'.lasting = mishaps.lasting
          /\ mishaps' \in [left : 0 .. MaxMishaps, lasting : SUBSET Lasting]
      BY <1>2, <3>1, <3>3, StoredOK
    <3> HIDE DEF x, s
    <3>6. delivery' \in [Events -> DeliveryRecords] /\ DeliveryMoves(g)
      BY <2>1, <2>2, <3>1, <3>2 DEF DeliveryPart, DeliveryMoves, Is
    <3>7. RunEffect(g, r)
      BY <1>2, <1>3, <1>11, <3>3, <3>4, <3>5, <3>6
      DEF Finalize, RunEffect, SubmittedMoves, DeliverySteps
    <3> QED BY <3>7
  <2>3. CASE ~Is(e, Active \cup {s}, g)
    <3>1. Throws(g) /\ delivery' = delivery
      BY <1>11, <2>3 DEF Finalize
    <3>2. PICK r : Moves(g, r) /\ Interrupted(d, r)
      BY <1>2, <3>1, ThrowsOK
    <3>3. mishaps' = mishaps
      BY <1>2, <3>1, ThrowsOK
    <3>4. RunEffect(g, r)
      BY <1>2, <1>3, <1>11, <3>1, <3>2, <3>3
      DEF Finalize, RunEffect, DeliveryMoves, SubmittedMoves, DeliveryPart, RowPart
    <3> QED BY <3>4
  <2> QED BY <2>2, <2>3
<1>12. CASE Take(g)
  <2> DEFINE e == d.delivery
  <2>1. d.pc = "take" /\ e \in Events
    BY <1>12 DEF Take, ClaimPart
  <2>2. CASE delivery[e].status = "queued"
    <3>1. delivery' = [delivery EXCEPT ![e] = [status |-> "claimed", generation |-> g]]
      BY <1>12, <2>2 DEF Take
    <3>2. Stored(g, At("mark", e))
      BY <1>12, <2>2 DEF Take
    <3>3. /\ At("mark", e) \in RunRecords /\ At("mark", e).pc = "mark"
          /\ At("mark", e).delivery = e
      BY <2>1, AtOK DEF RunSteps
    <3>4. PICK r : Moves(g, r) /\ (r = At("mark", e) \/ Interrupted(d, r))
      BY <1>2, <3>2, <3>3, StoredOK
    <3>5. /\ mishaps'.lasting = mishaps.lasting
          /\ mishaps' \in [left : 0 .. MaxMishaps, lasting : SUBSET Lasting]
      BY <1>2, <3>2, <3>3, StoredOK
    <3>6. g \in 0 .. MaxGeneration
      BY AssociationAssumption DEF Generations
    <3>7. [status |-> "claimed", generation |-> g] \in DeliveryRecords
      BY <3>6 DEF DeliveryRecords, DeliveryStatuses
    <3>8. delivery' \in [Events -> DeliveryRecords]
      BY <2>1, <3>1, <3>7 DEF DeliveryPart
    <3>9. DeliveryMoves(g)
      BY <2>1, <2>2, <3>1 DEF DeliveryMoves, DeliveryPart
    <3>10. RunEffect(g, r)
      BY <1>2, <1>3, <1>12, <2>1, <3>3, <3>4, <3>5, <3>8, <3>9
      DEF Take, RunEffect, SubmittedMoves
    <3> QED BY <3>10
  <2>3. CASE delivery[e].status # "queued"
    <3>1. At("idle", None) \in RunRecords /\ At("idle", None).pc = "idle"
      BY AtOK DEF RunSteps
    <3>2. Moves(g, At("idle", None)) /\ mishaps' = mishaps /\ delivery' = delivery
      BY <1>12, <2>3, <3>1 DEF Take, GoesOn, Moves
    <3>3. RunEffect(g, At("idle", None))
      BY <1>2, <1>12, <3>1, <3>2
      DEF Take, RunEffect, DeliveryMoves, SubmittedMoves, DeliveryPart,
          RowPart, DeliverySteps
    <3> QED BY <3>3
  <2> QED BY <2>2, <2>3
<1> QED
  BY <1>4, <1>5, <1>6, <1>7, <1>8, <1>9, <1>10, <1>11, <1>12 DEF RunStep

\* A step of a delivery run preserves the type invariant.
LEMMA RunStepType ==
  ASSUME TypeOK, ClaimPart, NEW g \in Generations, NEW r, RunEffect(g, r)
  PROVE  TypeOK'
<1> USE TypeParts
<1>1. RunPart'
  BY MovesType DEF RunEffect
<1>2. submitted' \in [Events -> SUBSET Generations]
  BY DEF RunEffect, SubmittedMoves, RowPart, ClaimPart, DeliverySteps
<1> QED
  BY <1>1, <1>2 DEF RunEffect, IdleOf, HookPart, DeliveryPart, RowPart

\* A step of a run leaves the events to their workflows.
LEMMA RunStepEvent ==
  ASSUME EventPart, NEW g \in Generations, NEW r, RunEffect(g, r)
  PROVE  EventPart'
  BY DEF EventPart, RunEffect, DeliveryMoves, Is, Active

\* A run submits what it has claimed and marked; only the claimant moves it on.
LEMMA RunStepClaim ==
  ASSUME TypeOK, ClaimPart, NEW g \in Generations, NEW r, RunEffect(g, r)
  PROVE  ClaimPart'
<1> USE TypeParts
<1>1. ASSUME NEW e \in Events, NEW h, Is(e, {"delivering"} \cup Final, h)
      PROVE  Is(e, {"delivering"} \cup Final, h)'
  <2>1. delivery[e].status # "queued"
    BY <1>1 DEF Is, Final
  <2> QED BY <1>1, <2>1 DEF RunEffect, DeliveryMoves, Is
<1>2. ASSUME NEW h \in Generations, run'[h].pc \in DeliverySteps
      PROVE  run'[h].delivery \in Events
  BY <1>2 DEF RunEffect, Moves, RunPart, ClaimPart
<1>3. ASSUME NEW h \in Generations, run'[h].pc = "submit"
      PROVE  Is(run[h].delivery, {"delivering"}, h)'
  <2>1. CASE h = g
    BY <1>3, <2>1 DEF RunEffect, Moves, RunPart, Is
  <2>2. CASE h # g
    <3>1. run'[h] = run[h]
      BY <2>2 DEF RunEffect, Moves, RunPart
    <3>2. PICK e \in Events : e = run[h].delivery
      BY <1>3, <3>1 DEF ClaimPart, DeliverySteps
    <3>3. Is(e, {"delivering"}, h)
      BY <1>3, <3>1, <3>2 DEF ClaimPart
    <3>4. delivery'[e] = delivery[e]
      BY <2>2, <3>3 DEF RunEffect, DeliveryMoves, Is
    <3> QED BY <3>1, <3>2, <3>3, <3>4 DEF Is
  <2> QED BY <2>1, <2>2
<1>4. ASSUME NEW e \in Events, NEW h \in submitted'[e]
      PROVE  Is(e, {"delivering"} \cup Final, h)'
  <2>1. CASE h \in submitted[e]
    BY <1>1, <2>1 DEF ClaimPart
  <2>2. CASE h \notin submitted[e]
    <3>1. run[g].pc = "submit" /\ h = g /\ e = run[g].delivery
      BY <1>4, <2>2 DEF RunEffect, SubmittedMoves, RowPart
    <3>2. Is(e, {"delivering"}, g)
      BY <3>1 DEF ClaimPart
    <3> QED BY <1>1, <3>1, <3>2 DEF Is
  <2> QED BY <2>1, <2>2
<1>5. ASSUME NEW h \in Generations, run'[h].pc = "take"
      PROVE  run'[h].delivery \in Events /\ delivery'[run'[h].delivery].status # "none"
  <2>1. CASE h = g
    <3>1. run'[h] = r
      BY <2>1 DEF RunEffect, Moves, RunPart
    <3>2. Selects(g, r.delivery)
      BY <1>5, <3>1 DEF RunEffect
    <3> QED BY <3>1, <3>2 DEF Selects
  <2>2. CASE h # g
    <3>1. run'[h] = run[h]
      BY <2>2 DEF RunEffect, Moves, RunPart
    <3>2. PICK e \in Events : e = run[h].delivery
      BY <1>5, <3>1 DEF ClaimPart
    <3>3. delivery[e].status # "none"
      BY <1>5, <3>1, <3>2 DEF ClaimPart
    <3>4. delivery'[e].status # "none"
      BY <3>3 DEF RunEffect, DeliveryMoves, Is, Final
    <3> QED BY <3>1, <3>2, <3>4
  <2> QED BY <2>1, <2>2
<1> QED BY <1>2, <1>3, <1>4, <1>5 DEF ClaimPart

\* A step of a delivery run leaves the generations consistent.
LEMMA RunStepGeneration ==
  ASSUME TypeOK, GenerationPart, NEW g \in Generations, NEW r, RunEffect(g, r)
  PROVE  GenerationPart'
<1> USE TypeParts
<1>1. /\ processor'.generation = processor.generation
      /\ processor'.status = "running" => processor.status = "running"
  BY DEF RunEffect, IdleOf, RowPart
<1>2. \A h \in Generations : run[h].pc = "none" => run'[h].pc = "none"
  BY DEF RunEffect, Moves, RunPart
<1> QED BY <1>1, <1>2 DEF RunEffect, GenerationPart, Starting

\* Only the run of the row's generation claims, and only it makes the row idle,
\* both when nothing is claimed.
LEMMA RunStepOrder ==
  ASSUME TypeOK, GenerationPart, OrderPart,
         NEW g \in Generations, NEW r, RunEffect(g, r)
  PROVE  OrderPart'
<1> USE TypeParts
<1> SUFFICES ASSUME Orderly' PROVE OneStart' /\ ClaimIsServed' /\ HandsFree'
  BY DEF OrderPart
<1>0. OneStart /\ ClaimIsServed /\ HandsFree
  BY DEF RunEffect, Orderly, OrderPart
<1>1. \A h \in Generations : h # g => run'[h] = run[h]
  BY DEF RunEffect, Moves, RunPart
<1>2. run'[g] = r /\ run[g].pc # "none" /\ r.pc # "none"
  BY DEF RunEffect, Moves, RunPart
<1>3. ASSUME NEW h \in Generations, Serves(h), h # g \/ run[g].pc # "set_idle"
      PROVE  Serves(h)'
  BY <1>3 DEF RunEffect, IdleOf, Serves
<1>4. OneStart'
  <2>1. ASSUME NEW e \in Events, Starting(e)'
        PROVE  Serves(hook[e].generation)' /\ run'[hook'[e].generation].pc = "none"
    <3>1. hook' = hook /\ Starting(e)
      BY <2>1 DEF RunEffect, Starting
    <3>2. PICK h \in Generations : h = hook[e].generation
      BY <3>1 DEF GenerationPart
    <3>3. Serves(h) /\ run[h].pc = "none" /\ h # g
      BY <1>0, <1>2, <3>1, <3>2 DEF OneStart
    <3>4. Serves(h)' /\ run'[h].pc = "none"
      BY <1>1, <1>3, <3>3
    <3> QED BY <3>1, <3>2, <3>4 DEF Serves
  <2> QED BY <1>0, <2>1 DEF OneStart, RunEffect, Starting
<1>5. ClaimIsServed'
  <2> SUFFICES ASSUME NEW e \in Events, delivery'[e].status \in Active
               PROVE  \E h \in Generations : /\ delivery'[e].generation = h
                                             /\ Serves(h)' /\ run'[h].pc # "none"
    BY DEF ClaimIsServed
  <2>1. CASE delivery'[e] = delivery[e]
    <3>1. PICK h \in Generations : /\ delivery[e].generation = h
                                   /\ Serves(h) /\ run[h].pc # "none"
      BY <1>0, <2>1 DEF ClaimIsServed
    <3>2. run[g].pc # "set_idle"
      BY <1>0, <2>1 DEF HandsFree
    <3>3. Serves(h)' /\ run'[h].pc # "none"
      BY <1>1, <1>2, <1>3, <3>1, <3>2
    <3> QED BY <2>1, <3>1, <3>3
  <2>2. CASE /\ delivery[e].status = "queued" /\ run[g].pc = "take"
             /\ delivery'[e] = [status |-> "claimed", generation |-> g]
    BY <1>0, <1>2, <1>3, <2>2 DEF HandsFree
  <2>3. CASE /\ Is(e, Active, g) /\ run[g].pc \in DeliverySteps
             /\ Is(e, {"delivering"} \cup Final, g)'
    <3>1. Serves(g) /\ delivery'[e].generation = g
      BY <1>0, <2>3 DEF ClaimIsServed, Is
    <3>2. run[g].pc # "set_idle"
      BY <2>3 DEF DeliverySteps
    <3> QED BY <1>2, <1>3, <3>1, <3>2
  <2> QED BY <2>1, <2>2, <2>3 DEF RunEffect, DeliveryMoves
<1>6. HandsFree'
  <2> SUFFICES ASSUME NEW h \in Generations, run'[h].pc \in {"take", "set_idle"}
               PROVE  Serves(h)' /\ \A e \in Events : delivery'[e].status \notin Active
    BY DEF HandsFree
  <2>1. CASE h = g /\ r.pc = "set_idle"
    BY <1>2, <2>1 DEF RunEffect, Serves, Unfinished
  <2>2. CASE h = g /\ r.pc = "take"
    <3>1. Selects(g, r.delivery)
      BY <2>2 DEF RunEffect
    <3>2. \A e \in Events : delivery[e].status \notin Active
      BY <1>0, <3>1 DEF Selects, ClaimIsServed, Serves, Is
    <3> QED BY <2>2, <3>1, <3>2 DEF Selects, Serves
  <2>3. CASE h # g
    <3>1. Serves(h) /\ \A e \in Events : delivery[e].status \notin Active
      BY <1>0, <1>1, <2>3 DEF HandsFree
    <3>2. ~Serves(g) /\ run[g].pc # "take"
      BY <1>0, <2>3, <3>1 DEF Serves, HandsFree
    <3>3. delivery' = delivery
      BY <3>1, <3>2 DEF RunEffect, DeliveryMoves, Is, DeliveryPart
    <3>4. Serves(h)'
      BY <1>3, <2>3, <3>1
    <3> QED BY <3>1, <3>3, <3>4
  <2> QED BY <1>2, <2>1, <2>2, <2>3
<1> QED BY <1>4, <1>5, <1>6

\* A run that ends has first seen that the row is not its own, or made it idle.
LEMMA RunStepServed ==
  ASSUME TypeOK, GenerationPart, RunningIsServed,
         NEW g \in Generations, NEW r, RunEffect(g, r)
  PROVE  RunningIsServed'
<1> USE TypeParts
<1> SUFFICES ASSUME processor'.status = "running" PROVE RunningIsServed'
  BY DEF RunningIsServed
<1>1. processor' = processor
  BY DEF RunEffect, IdleOf, RowPart
<1>2. PICK p \in Generations : p = processor.generation
  BY <1>1 DEF GenerationPart
<1>3. \/ Live(p) \/ run[p].pc = "failed"
      \/ \E e \in Events : hook[e].pc \in {"start", "set_idle"} /\ hook[e].generation = p
      \/ mishaps.lasting # {}
  BY <1>1, <1>2 DEF RunningIsServed
<1>4. CASE p = g
  <2>1. run'[p] = r /\ r.pc # "none" /\ (r.pc = "returned" => ~Serves(p)')
    BY <1>4 DEF RunEffect, Moves, RunPart
  <2>2. Serves(p)'
    BY <1>1, <1>2 DEF Serves
  <2>3. Live(p)' \/ run'[p].pc = "failed"
    BY <2>1, <2>2 DEF Live
  <2> QED BY <1>1, <1>2, <2>3 DEF RunningIsServed
<1>5. CASE p # g
  <2>1. run'[p] = run[p]
    BY <1>5 DEF RunEffect, Moves, RunPart
  <2> QED BY <1>1, <1>2, <1>3, <2>1 DEF RunningIsServed, RunEffect, Live
<1> QED BY <1>4, <1>5

\* A step of a delivery run preserves the invariant.
LEMMA RunStepInv ==
  ASSUME Inv, NEW g \in Generations, RunStep(g) \/ CallThrows(g)
  PROVE  Inv'
<1>1. PICK r : RunEffect(g, r)
  BY RunEffectOK DEF Inv
<1> QED
  BY <1>1, RunStepType, RunStepEvent, RunStepClaim, RunStepGeneration,
     RunStepOrder, RunStepServed
  DEF Inv

-----------------------------------------------------------------------------
(* What a step of an event's workflow does. *)

\* It concerns its own event; it may enqueue the delivery, and submits nothing.
HookEffect(e) ==
  /\ \A f \in Events \ {e} : /\ hook'[f] = hook[f] /\ event'[f] = event[f]
                             /\ requested'[f] = requested[f]
                             /\ delivery'[f] = delivery[f]
  /\ \/ delivery'[e] = delivery[e]
     \/ /\ hook[e].pc = "prepare"
        /\ delivery[e].status = "none" /\ delivery'[e].status = "queued"
  /\ submitted' = submitted
  /\ mishaps.lasting \subseteq mishaps'.lasting

\* It has nothing to do with starting a run, or the start goes on being tried, or
\* is abandoned.
Quiet(e) ==
  /\ run' = run
  /\ processor'.generation = processor.generation
  /\ processor'.status = "running" <=> processor.status = "running"
  /\ Starting(e)' => Starting(e) /\ hook'[e].generation = hook[e].generation
  /\ Starting(e) => Starting(e)' \/ mishaps'.lasting # {}

\* It makes the row running and is about to start the run.
Launches(e) ==
  /\ processor.status # "running"
  /\ processor'.status = "running"
  /\ processor'.generation = processor.generation + 1
  /\ processor.generation + 1 \in Generations
  /\ Starting(e)' /\ hook'[e].generation = processor.generation + 1
  /\ run' = run

\* The run is created, and the step says so or not.
Creates(e) ==
  /\ Starting(e) /\ processor' = processor
  /\ run' = RunOf(hook[e].generation)
  /\ \/ ~Starting(e)'
     \/ /\ Starting(e)' /\ hook'[e].generation = hook[e].generation
        /\ "unacknowledged" \in mishaps'.lasting

\* The start is undone.
Undoes(e) ==
  /\ Starting(e) /\ ~Starting(e)'
  /\ processor' = IdleOf(hook[e].generation)
  /\ run' = run

\* Enqueueing touches one delivery and neither starts the processor nor moves
\* its generation.
LEMMA EnqueueOK ==
  ASSUME DeliveryPart, RowPart, NEW e \in Events, hook[e].pc = "prepare",
         EnqueueDelivery(e)
  PROVE  /\ \/ delivery'[e] = delivery[e]
            \/ /\ delivery[e].status = "none" /\ delivery'[e].status = "queued"
         /\ \A f \in Events \ {e} : delivery'[f] = delivery[f]
         /\ processor'.generation = processor.generation
         /\ processor'.status = "running" <=> processor.status = "running"
<1> DEFINE x == [delivery[e] EXCEPT !.status =
                   IF delivery[e].status = "none" THEN "queued" ELSE delivery[e].status]
<1>1. /\ x.status = IF delivery[e].status = "none" THEN "queued" ELSE delivery[e].status
      /\ delivery[e].status # "none" => x = delivery[e]
  BY DEF DeliveryPart, DeliveryRecords
<1>2. delivery' = [delivery EXCEPT ![e] = x]
  BY DEF EnqueueDelivery
<1> HIDE DEF x
<1>3. /\ processor'.generation = processor.generation
      /\ processor'.status = "running" <=> processor.status = "running"
  BY DEF EnqueueDelivery, RowPart
<1> QED BY <1>1, <1>2, <1>3 DEF DeliveryPart

\* A conditional update of an event changes that event only, and only from the
\* named statuses.
LEMMA EventFromOK ==
  ASSUME event \in [Events -> EventStatuses], NEW e \in Events, NEW from, NEW s,
         event' = EventFrom(e, from, s)
  PROVE  /\ event'[e] = IF event[e] \in from THEN s ELSE event[e]
         /\ \A f \in Events \ {e} : event'[f] = event[f]
  BY DEF EventFrom

\* Whatever an event handler does falls under one of four effects: on the
\* processor none, launching it, creating its run, or undoing the launch.
LEMMA HookEffectOK ==
  ASSUME TypeOK, NEW e \in Events, HookStep(e) \/ HookMishap(e)
  PROVE  HookEffect(e) /\ (Quiet(e) \/ Launches(e) \/ Creates(e) \/ Undoes(e))
<1> USE TypeParts
<1> USE DEF HookSteps
<1>1. CASE Receive(e)
  <2>1. HookEffect(e)
    BY <1>1, GotoOK, EventFromOK DEF Receive, HookEffect, HookPart, RowPart
  <2>2. Quiet(e)
    BY <1>1, GotoOK DEF Receive, Quiet, Starting, HookPart
  <2> QED BY <2>1, <2>2
<1>2. CASE Prepare(e)
  <2>1. HookEffect(e)
    BY <1>2, GotoOK, EventFromOK, EnqueueOK DEF Prepare, HookEffect, HookPart, RowPart
  <2>2. Quiet(e)
    BY <1>2, GotoOK, EnqueueOK DEF Prepare, Quiet, Starting, HookPart
  <2> QED BY <2>1, <2>2
<1>3. CASE Request(e)
  <2>1. HookEffect(e)
    BY <1>3, GotoOK DEF Request, HookEffect, HookPart, RowPart
  <2>2. Quiet(e)
    BY <1>3, GotoOK DEF Request, Quiet, Starting, HookPart
  <2> QED BY <2>1, <2>2
<1>4. CASE EnsureProcessor(e)
  <2>1. CASE delivery[e].status = "none" \/ processor.status = "running"
    <3>1. Goto(e, "mark_processed") /\ UNCHANGED processor
      BY <1>4, <2>1 DEF EnsureProcessor
    <3>2. HookEffect(e)
      BY <1>4, <3>1, GotoOK DEF EnsureProcessor, HookEffect, HookPart
    <3>3. Quiet(e)
      BY <1>4, <3>1, GotoOK DEF EnsureProcessor, Quiet, Starting, HookPart
    <3> QED BY <3>2, <3>3
  <2>2. CASE ~(delivery[e].status = "none" \/ processor.status = "running")
    <3>1. processor.generation + 1 \in Generations
      BY <1>4, <2>2, AssociationAssumption DEF EnsureProcessor, RowPart, Generations
    <3> DEFINE n == processor.generation + 1
               h == [hook[e] EXCEPT !.pc = "start", !.generation = n]
    <3>2. h.pc = "start" /\ h.generation = n
      BY DEF HookPart, HookRecords
    <3>3. hook' = [hook EXCEPT ![e] = h]
      BY <1>4, <2>2 DEF EnsureProcessor, HookPart
    <3>4. processor' = [status |-> "running", generation |-> n]
      BY <1>4, <2>2 DEF EnsureProcessor
    <3> HIDE DEF h
    <3>5. HookEffect(e)
      BY <1>4, <3>3 DEF EnsureProcessor, HookEffect, HookPart
    <3>6. Launches(e)
      BY <1>4, <2>2, <3>1, <3>2, <3>3, <3>4
      DEF EnsureProcessor, Launches, Starting, HookPart
    <3> QED BY <3>5, <3>6
  <2> QED BY <2>1, <2>2
<1>5. CASE StartProcessor(e)
  <2>1. HookEffect(e)
    BY <1>5, GotoOK DEF StartProcessor, HookEffect, HookPart
  <2>2. Creates(e)
    BY <1>5, GotoOK DEF StartProcessor, Creates, Starting, HookPart
  <2> QED BY <2>1, <2>2
<1>6. CASE StartFails(e)
  <2>1. HookEffect(e)
    BY <1>6, GotoOK, MishapOK DEF StartFails, HookEffect, HookPart, RowPart
  <2>2. CASE Mishap("throw") /\ UNCHANGED run
    BY <1>6, <2>1, <2>2, GotoOK DEF StartFails, Quiet, Starting, HookPart
  <2>3. CASE Mishap("unacknowledged") /\ run' = RunOf(hook[e].generation)
    <3>1. "unacknowledged" \in mishaps'.lasting
      BY <2>3, MishapOK DEF RowPart, Lasting
    <3> QED
      BY <1>6, <2>1, <2>3, <3>1, GotoOK DEF StartFails, Creates, Starting, HookPart
  <2> QED BY <1>6, <2>2, <2>3 DEF StartFails
<1>7. CASE UndoStart(e)
  <2>1. HookEffect(e)
    BY <1>7, GotoOK DEF UndoStart, HookEffect, HookPart
  <2>2. Undoes(e)
    BY <1>7, GotoOK DEF UndoStart, Undoes, Starting, HookPart
  <2> QED BY <2>1, <2>2
<1>8. CASE MarkProcessed(e)
  <2>1. HookEffect(e)
    BY <1>8, GotoOK, EventFromOK DEF MarkProcessed, HookEffect, HookPart, RowPart
  <2>2. Quiet(e)
    BY <1>8, GotoOK DEF MarkProcessed, Quiet, Starting, HookPart
  <2> QED BY <2>1, <2>2
<1>9. CASE MarkFailed(e)
  <2>1. HookEffect(e)
    BY <1>9, RethrownOK, EventFromOK DEF MarkFailed, HookEffect, HookPart, RowPart
  <2>2. Quiet(e)
    BY <1>9, RethrownOK DEF MarkFailed, Quiet, Starting, HookPart
  <2> QED BY <2>1, <2>2
<1>10. CASE HookThrows(e)
  <2>1. HookEffect(e)
    <3>1. /\ \A f \in Events \ {e} : hook'[f] = hook[f] /\ event'[f] = event[f]
          /\ mishaps.lasting \subseteq mishaps'.lasting
      BY <1>10, GotoOK, RethrownOK, EventFromOK, MishapOK
      DEF HookThrows, HookPart, RowPart
    <3> QED BY <1>10, <3>1, EnqueueOK DEF HookThrows, HookEffect, DeliveryPart
  <2>2. Quiet(e)
    BY <1>10, GotoOK, RethrownOK, EnqueueOK DEF HookThrows, Quiet, Starting, HookPart
  <2> QED BY <2>1, <2>2
<1>11. CASE HookAbandons(e)
  <2>1. "abandoned" \in mishaps'.lasting /\ mishaps.lasting \subseteq mishaps'.lasting
    BY <1>11, MishapOK DEF HookAbandons, RowPart, Lasting
  <2>2. HookEffect(e)
    BY <1>11, <2>1, GotoOK DEF HookAbandons, HookEffect, HookPart
  <2>3. Quiet(e)
    BY <1>11, <2>1, GotoOK DEF HookAbandons, Quiet, Starting, HookPart
  <2> QED BY <2>2, <2>3
<1> QED
  BY <1>1, <1>2, <1>3, <1>4, <1>5, <1>6, <1>7, <1>8, <1>9, <1>10, <1>11
  DEF HookStep, HookMishap

\* The one workflow that concerns an event moves it along.
LEMMA HookStepEvent ==
  ASSUME TypeOK, EventPart, NEW e \in Events, HookStep(e) \/ HookMishap(e)
  PROVE  EventPart'
<1> USE TypeParts
<1> DEFINE P(f) ==
      /\ hook[f].pc \in Working => event[f] = "processing"
      /\ hook[f].pc = "mark_failed" => event[f] \in {"processing", "processed"}
      /\ hook[f].pc = "done" => event[f] \in {"processed", "ignored"}
      /\ hook[f].pc \in PastRequest \/ event[f] = "processed" => requested[f]
      /\ event[f] = "ignored" => delivery[f].status = "none"
<1>1. HookEffect(e)
  BY HookEffectOK
<1>2. ASSUME NEW f \in Events \ {e} PROVE P(f)'
  BY <1>1 DEF EventPart, HookEffect
<1>3. P(e)
  BY DEF EventPart
<1>4. P(e)'
  <2> USE DEF HookSteps, Working, PastRequest
  <2>1. CASE Receive(e)
    BY <1>3, <2>1, GotoOK, EventFromOK DEF Receive, HookPart, RowPart, EventStatuses
  <2>2. CASE Prepare(e)
    BY <1>1, <1>3, <2>2, GotoOK, EventFromOK DEF Prepare, HookEffect, HookPart, RowPart
  <2>3. CASE Request(e)
    BY <1>3, <2>3, GotoOK DEF Request, HookPart, RowPart
  <2>4. CASE EnsureProcessor(e)
    <3>1. hook'[e].pc \in {"mark_processed", "start"}
      BY <2>4, GotoOK DEF EnsureProcessor, HookPart, HookRecords
    <3> QED BY <1>3, <2>4, <3>1 DEF EnsureProcessor
  <2>5. CASE StartProcessor(e)
    BY <1>3, <2>5, GotoOK DEF StartProcessor, HookPart
  <2>6. CASE StartFails(e)
    BY <1>3, <2>6, GotoOK DEF StartFails, HookPart
  <2>7. CASE UndoStart(e)
    BY <1>3, <2>7, GotoOK DEF UndoStart, HookPart
  <2>8. CASE MarkProcessed(e)
    BY <1>3, <2>8, GotoOK, EventFromOK DEF MarkProcessed, HookPart, RowPart
  <2>9. CASE MarkFailed(e)
    BY <1>3, <2>9, RethrownOK, EventFromOK DEF MarkFailed, HookPart, RowPart
  <2>10. CASE HookThrows(e)
    <3>1. CASE /\ hook[e].pc \in {"request", "ensure", "mark_processed"}
               /\ Goto(e, "mark_failed") /\ UNCHANGED event
               /\ UNCHANGED delivery
      BY <1>3, <2>10, <3>1, GotoOK DEF HookThrows, HookPart
    <3>2. CASE /\ hook[e].pc = "receive" /\ event[e] \notin {"processed", "ignored"}
               /\ event' = [event EXCEPT ![e] = "failed"]
               /\ hook' = Rethrown(e)
      BY <1>3, <2>10, <3>2, RethrownOK DEF HookThrows, HookPart, RowPart
    <3>3. CASE /\ hook[e].pc \in {"prepare", "mark_failed"} /\ hook' = Rethrown(e)
               /\ UNCHANGED event
      BY <1>1, <1>3, <2>10, <3>3, RethrownOK DEF HookThrows, HookEffect, HookPart
    <3>4. CASE /\ hook[e].pc = "mark_processed"
               /\ event' = EventFrom(e, {"processing"}, "processed")
               /\ Goto(e, "mark_failed") /\ UNCHANGED delivery
      BY <1>3, <2>10, <3>4, GotoOK, EventFromOK DEF HookThrows, HookPart, RowPart
    <3> QED BY <2>10, <3>1, <3>2, <3>3, <3>4 DEF HookThrows
  <2>11. CASE HookAbandons(e)
    BY <1>3, <2>11, GotoOK DEF HookAbandons, HookPart
  <2> QED
    BY <2>1, <2>2, <2>3, <2>4, <2>5, <2>6, <2>7, <2>8, <2>9, <2>10, <2>11
    DEF HookStep, HookMishap
<1> QED BY <1>2, <1>4 DEF EventPart

\* runWorkflow disturbs no run that is there.
LEMMA CreatesOK ==
  ASSUME TypeOK, NEW e \in Events, Creates(e) \/ run' = run
  PROVE  \A h \in Generations :
           \/ run'[h] = run[h]
           \/ /\ Creates(e) /\ h = hook[e].generation
              /\ run[h].pc = "none" /\ run'[h].pc = "check"
<1> USE TypeParts
<1>1. hook[e].generation \in 0 .. MaxGeneration
  BY DEF HookPart, HookRecords
<1>2. ASSUME NEW h \in Generations PROVE [run[h] EXCEPT !.pc = "check"].pc = "check"
  BY DEF RunPart, RunRecords
<1> QED BY <1>1, <1>2, RunOfOK DEF Creates

\* An event handler claims nothing for a run.
LEMMA HookStepClaim ==
  ASSUME TypeOK, ClaimPart, NEW e \in Events, HookEffect(e),
         Quiet(e) \/ Launches(e) \/ Creates(e) \/ Undoes(e)
  PROVE  ClaimPart'
<1>1. \A h \in Generations : run'[h] = run[h] \/ run'[h].pc = "check"
  BY CreatesOK DEF Quiet, Launches, Undoes
<1>2. ASSUME NEW f \in Events, NEW h, NEW S, Is(f, S, h), "none" \notin S
      PROVE  Is(f, S, h)'
  BY <1>2 DEF HookEffect, Is
<1>3. ASSUME NEW h \in Generations, run'[h].pc \in DeliverySteps
      PROVE  /\ run'[h] = run[h]
             /\ run'[h].delivery \in Events
  BY <1>1, <1>3 DEF DeliverySteps, ClaimPart
<1>4. ASSUME NEW h \in Generations, run'[h].pc = "submit"
      PROVE  Is(run[h].delivery, {"delivering"}, h)'
  <2>1. run'[h] = run[h]
    BY <1>3, <1>4 DEF DeliverySteps
  <2>2. PICK f \in Events : f = run[h].delivery
    BY <1>4, <2>1 DEF ClaimPart, DeliverySteps
  <2>3. Is(f, {"delivering"}, h)
    BY <1>4, <2>1, <2>2 DEF ClaimPart
  <2>4. Is(f, {"delivering"}, h)'
    BY <1>2, <2>3
  <2> QED BY <2>1, <2>2, <2>4 DEF Is
<1>5. ASSUME NEW f \in Events, NEW h \in submitted'[f]
      PROVE  Is(f, {"delivering"} \cup Final, h)'
  BY <1>2, <1>5 DEF HookEffect, ClaimPart, Final
<1>6. ASSUME NEW h \in Generations, run'[h].pc = "take"
      PROVE  run'[h].delivery \in Events /\ delivery'[run'[h].delivery].status # "none"
  <2>1. run'[h] = run[h]
    BY <1>1, <1>6
  <2>2. PICK f \in Events : f = run[h].delivery
    BY <1>6, <2>1 DEF ClaimPart
  <2>3. delivery[f].status # "none"
    BY <1>6, <2>1, <2>2 DEF ClaimPart
  <2>4. delivery'[f].status # "none"
    BY <2>3 DEF HookEffect
  <2> QED BY <2>1, <2>2, <2>4
<1> QED BY <1>3, <1>4, <1>5, <1>6 DEF ClaimPart

\* A generation is used up by the handler that launches the processor.
LEMMA HookStepGeneration ==
  ASSUME TypeOK, GenerationPart, NEW e \in Events, HookEffect(e),
         Quiet(e) \/ Launches(e) \/ Creates(e) \/ Undoes(e)
  PROVE  GenerationPart'
<1> USE TypeParts
<1>1. /\ processor.generation \in Nat /\ processor'.generation \in Nat
      /\ processor.generation <= processor'.generation
  BY DEF Quiet, Launches, Creates, Undoes, IdleOf, RowPart
<1>2. processor'.status = "running" => processor'.generation \in Generations
  BY DEF Quiet, Launches, Creates, Undoes, IdleOf, RowPart, GenerationPart
<1>3. ASSUME NEW f \in Events, Starting(f)'
      PROVE  /\ hook'[f].generation \in Generations
             /\ hook'[f].generation <= processor'.generation
  <2>1. CASE Starting(f) /\ hook'[f].generation = hook[f].generation
    BY <1>1, <2>1 DEF GenerationPart, Generations
  <2>2. CASE Launches(e) /\ f = e
    BY <2>2 DEF Launches, Generations
  <2> QED
    BY <1>3, <2>1, <2>2 DEF HookEffect, Quiet, Launches, Creates, Undoes, Starting
<1>4. ASSUME NEW h \in Generations, h > processor'.generation
      PROVE  run'[h].pc = "none"
  <2>1. h > processor.generation
    BY <1>1, <1>4 DEF Generations
  <2>2. run[h].pc = "none"
    BY <2>1 DEF GenerationPart
  <2>3. run'[h] = run[h]
    BY <1>4, <2>1, CreatesOK
    DEF Creates, Quiet, Launches, Undoes, GenerationPart, Generations, RowPart
  <2> QED BY <2>2, <2>3
<1> QED BY <1>2, <1>3, <1>4 DEF GenerationPart

\* While a run is being started nothing is claimed, for its generation has no run;
\* while the row is not running nothing is claimed or started.
LEMMA HookStepOrder ==
  ASSUME TypeOK, GenerationPart, OrderPart, NEW e \in Events, HookEffect(e),
         Quiet(e) \/ Launches(e) \/ Creates(e) \/ Undoes(e)
  PROVE  OrderPart'
<1> USE TypeParts
<1> SUFFICES ASSUME Orderly' PROVE OneStart' /\ ClaimIsServed' /\ HandsFree'
  BY DEF OrderPart
<1>1. OneStart /\ ClaimIsServed /\ HandsFree
  BY DEF HookEffect, Orderly, OrderPart
<1>2. ASSUME NEW f \in Events, delivery'[f].status \in Active
      PROVE  delivery'[f] = delivery[f]
  BY <1>2 DEF HookEffect, Active
<1>3. CASE Quiet(e)
  <2>1. \A h : Serves(h)' <=> Serves(h)
    BY <1>3 DEF Quiet, Serves
  <2>2. ASSUME NEW f \in Events, Starting(f)'
        PROVE  Starting(f) /\ hook'[f].generation = hook[f].generation
    BY <1>3, <2>2 DEF Quiet, HookEffect, Starting
  <2>3. OneStart'
    BY <1>1, <1>3, <2>1, <2>2 DEF OneStart, Quiet, Serves
  <2>4. ClaimIsServed' /\ HandsFree'
    BY <1>1, <1>2, <1>3, <2>1 DEF ClaimIsServed, HandsFree, Quiet
  <2> QED BY <2>3, <2>4
<1>4. CASE Launches(e)
  <2> DEFINE n == processor.generation + 1
  <2>1. \A h : ~Serves(h)
    BY <1>4 DEF Launches, Serves
  <2>2. \A f \in Events : ~Starting(f) /\ delivery[f].status \notin Active
    BY <1>1, <2>1 DEF OneStart, ClaimIsServed
  <2>3. \A f \in Events : Starting(f)' => f = e
    BY <2>2 DEF HookEffect, Starting
  <2>4. /\ n \in Generations /\ n > processor.generation
        /\ processor'.status = "running" /\ processor'.generation = n
        /\ hook'[e].generation = n /\ run' = run
    BY <1>4 DEF Launches, RowPart
  <2>5. run'[n].pc = "none"
    BY <2>4 DEF GenerationPart
  <2>6. OneStart'
    BY <2>3, <2>4, <2>5 DEF OneStart, Serves
  <2>7. ClaimIsServed' /\ HandsFree'
    BY <1>1, <1>2, <2>1, <2>2, <2>4 DEF ClaimIsServed, HandsFree
  <2> QED BY <2>6, <2>7
<1>5. CASE Creates(e)
  <2>1. PICK g \in Generations : g = hook[e].generation
    BY <1>5 DEF Creates, GenerationPart
  <2>2. ~Starting(e)' /\ processor' = processor
    BY <1>5 DEF Creates, Orderly
  <2>3. \A f \in Events : ~Starting(f)'
    BY <1>1, <1>5, <2>2 DEF OneStart, HookEffect, Creates, Starting
  <2>4. \A h \in Generations : /\ run[h].pc # "none" => run'[h].pc # "none"
                               /\ run'[h].pc \in {"take", "set_idle"} => run'[h] = run[h]
    BY <1>5, CreatesOK
  <2>5. \A h : Serves(h)' <=> Serves(h)
    BY <2>2 DEF Serves
  <2>6. OneStart'
    BY <2>3 DEF OneStart
  <2>7. ASSUME NEW f \in Events, delivery'[f].status \in Active
        PROVE  \E h \in Generations : /\ delivery'[f].generation = h
                                      /\ Serves(h)' /\ run'[h].pc # "none"
    <3>1. PICK h \in Generations : /\ delivery[f].generation = h
                                   /\ Serves(h) /\ run[h].pc # "none"
      BY <1>1, <1>2, <2>7 DEF ClaimIsServed
    <3>2. Serves(h)' /\ run'[h].pc # "none"
      BY <2>2, <2>4, <3>1 DEF Serves
    <3>3. delivery'[f].generation = h
      BY <1>2, <2>7, <3>1
    <3> QED BY <3>2, <3>3
  <2>8. HandsFree'
    BY <1>1, <1>2, <2>4, <2>5 DEF HandsFree
  <2> QED BY <2>6, <2>7, <2>8 DEF ClaimIsServed
<1>6. CASE Undoes(e)
  <2>1. PICK g \in Generations : g = hook[e].generation
    BY <1>6 DEF Undoes, GenerationPart
  <2>2. Serves(g) /\ run[g].pc = "none"
    BY <1>1, <1>6, <2>1 DEF Undoes, OneStart
  <2>3. \A f \in Events : delivery[f].status \notin Active
    BY <1>1, <2>2 DEF ClaimIsServed, Serves
  <2>4. \A f \in Events : ~Starting(f)'
    BY <1>1, <1>6 DEF OneStart, HookEffect, Undoes, Starting
  <2>5. \A h \in Generations : run'[h].pc \notin {"take", "set_idle"}
    BY <1>1, <1>6, <2>2 DEF Undoes, HandsFree, Serves
  <2> QED
    BY <1>2, <2>3, <2>4, <2>5 DEF OneStart, ClaimIsServed, HandsFree
<1> QED BY <1>3, <1>4, <1>5, <1>6

\* A processor that a handler launches is served by that handler until its run
\* exists.
LEMMA HookStepServed ==
  ASSUME TypeOK, GenerationPart, OrderPart, RunningIsServed,
         NEW e \in Events, HookEffect(e),
         Quiet(e) \/ Launches(e) \/ Creates(e) \/ Undoes(e)
  PROVE  RunningIsServed'
<1> USE TypeParts
<1> SUFFICES ASSUME processor'.status = "running", mishaps'.lasting = {}
             PROVE  RunningIsServed'
  BY DEF RunningIsServed
<1>1. mishaps.lasting = {} /\ Orderly
  BY DEF HookEffect, Orderly
<1>2. CASE Launches(e)
  BY <1>2 DEF Launches, RunningIsServed, Starting
<1>3. CASE ~Launches(e)
  <2>1. processor.status = "running" /\ processor'.generation = processor.generation
    BY <1>3 DEF Quiet, Creates, Undoes, IdleOf, RowPart
  <2>2. PICK p \in Generations : p = processor.generation
    BY <2>1 DEF GenerationPart
  <2>3. \/ Live(p) \/ run[p].pc = "failed"
        \/ \E f \in Events : Starting(f) /\ hook[f].generation = p
    BY <1>1, <2>1, <2>2 DEF RunningIsServed, Starting
  <2>4. Live(p) \/ run[p].pc = "failed" => Live(p)' \/ run'[p].pc = "failed"
    BY <1>3, CreatesOK DEF Quiet, Undoes, Live
  <2>5. ASSUME NEW f \in Events, Starting(f), hook[f].generation = p
        PROVE  \/ Live(p)'
               \/ \E x \in Events : Starting(x)' /\ hook'[x].generation = p
    <3>1. run[p].pc = "none"
      BY <1>1, <2>5 DEF OrderPart, OneStart
    <3>2. CASE f # e
      BY <2>5, <3>2 DEF HookEffect, Starting
    <3>3. CASE f = e /\ Quiet(e)
      BY <2>5, <3>3 DEF Quiet
    <3>4. CASE f = e /\ Creates(e)
      <4>1. p \in 0 .. MaxGeneration
        BY DEF Generations
      <4>2. run'[p] = [run[p] EXCEPT !.pc = "check"]
        BY <2>5, <3>1, <3>4, <4>1, RunOfOK DEF Creates
      <4>3. run'[p].pc = "check"
        BY <4>2 DEF RunPart, RunRecords
      <4> QED BY <4>3 DEF Live
    <3>5. CASE f = e /\ Undoes(e)
      BY <2>1, <2>2, <2>5, <3>5 DEF Undoes, IdleOf, Serves, RowPart
    <3> QED BY <1>3, <3>2, <3>3, <3>4, <3>5
  <2> QED BY <2>1, <2>2, <2>3, <2>4, <2>5 DEF RunningIsServed, Starting
<1> QED BY <1>2, <1>3

\* A step of an event handler preserves the invariant.
LEMMA HookStepInv ==
  ASSUME Inv, NEW e \in Events, HookStep(e) \/ HookMishap(e)
  PROVE  Inv'
<1>1. HookEffect(e) /\ (Quiet(e) \/ Launches(e) \/ Creates(e) \/ Undoes(e))
  BY HookEffectOK DEF Inv
<1> QED
  BY <1>1, HookStepType, HookStepEvent, HookStepClaim, HookStepGeneration,
     HookStepOrder, HookStepServed
  DEF Inv

-----------------------------------------------------------------------------
(* The theorems. *)

\* The invariant holds initially.
LEMMA InvInit == Init => Inv
<1> SUFFICES ASSUME Init PROVE Inv
  OBVIOUS
<1>1. TypeOK
  BY InitType
<1>2. EventPart
  BY DEF Init, EventPart, Working, PastRequest
<1>3. ClaimPart
  BY DEF Init, ClaimPart, DeliverySteps
<1>4. GenerationPart /\ OrderPart
  BY DEF Init, GenerationPart, OrderPart, OneStart, ClaimIsServed, HandsFree,
         Starting, Active
<1>5. RunningIsServed
  BY DEF Init, RunningIsServed
<1> QED BY <1>1, <1>2, <1>3, <1>4, <1>5 DEF Inv

\* Every step preserves the invariant.
LEMMA InvNext == Inv /\ [Next]_vars => Inv'
<1> SUFFICES ASSUME Inv, [Next]_vars PROVE Inv'
  OBVIOUS
<1>1. CASE \E e \in Events : HookStep(e) \/ HookMishap(e)
  BY <1>1, HookStepInv
<1>2. CASE \E g \in Generations : RunStep(g) \/ CallThrows(g)
  BY <1>2, RunStepInv
<1>3. CASE UNCHANGED vars
  BY <1>3
  DEF vars, Inv, TypeOK, EventPart, ClaimPart, GenerationPart, OrderPart, OneStart,
      ClaimIsServed, HandsFree, RunningIsServed, Starting, Serves, Is, Orderly, Live
<1> QED BY <1>1, <1>2, <1>3 DEF Next

\* The invariant holds in every reachable state.
LEMMA InvAlways == Spec => []Inv
  BY InvInit, InvNext, PTL DEF Spec

\* Every variable stays in its domain, for any number of events, generations and
\* attempts, whatever fails.
THEOREM TypeCorrect == Spec => []TypeOK
  BY InvAlways, PTL DEF Inv

\* An event's workflow that ends well has left nothing out, however often its one
\* step was interrupted and started over, and although an event that is found
\* processing is taken up in the middle.
THEOREM HandledEventHolds == Spec => []HandledEvent
<1>1. Inv => HandledEvent
  BY DEF Inv, EventPart, HandledEvent
<1> QED BY <1>1, InvAlways, PTL

\* No delivery is submitted by two generations of the processor. This does not rest
\* on the order of the queue: it holds also after a run was created that the
\* event's workflow took for not created, when two runs may be live.
THEOREM DeliveredOnceHolds == Spec => []DeliveredOnce
<1>1. Inv => DeliveredOnce
  BY DEF Inv, ClaimPart, DeliveredOnce, Is
<1> QED BY <1>1, InvAlways, PTL

\* A running processor has a run that serves it or a workflow that is about to
\* create one, so that the events which leave the processor alone are delivered.
THEOREM RunningIsServedHolds == Spec => []RunningIsServed
  BY InvAlways, PTL DEF Inv

\* A workflow that gives up on its event without a mishap in that very step has
\* marked it failed, or found it processed.
THEOREM GivenUpIsSettledHolds == Spec => GivenUpIsSettled
<1> DEFINE A == \A e \in Events :
      (hook'[e].pc = "failed" /\ hook[e].pc # "failed" /\ mishaps' = mishaps)
         => event'[e] \in {"failed", "processed"}
<1> USE TypeParts DEF HookSteps
<1>1. ASSUME Inv, Next PROVE A
  <2> SUFFICES ASSUME NEW e \in Events, hook'[e].pc = "failed",
                      hook[e].pc # "failed", mishaps' = mishaps
               PROVE  event'[e] \in {"failed", "processed"}
    OBVIOUS
  <2>1. TypeOK /\ EventPart
    BY <1>1 DEF Inv
  <2>2. \A g \in Generations : ~(RunStep(g) \/ CallThrows(g))
    BY <1>1, <2>1, RunEffectOK DEF Inv, RunEffect
  <2>3. HookStep(e) \/ HookMishap(e)
    BY <1>1, <2>1, <2>2, HookEffectOK DEF Next, HookEffect
  <2>4. ASSUME NEW kind, Mishap(kind) PROVE FALSE
    BY <2>1, <2>4, MishapOK DEF RowPart
  <2>5. ASSUME NEW pc \in HookSteps, pc # "failed", Goto(e, pc) PROVE FALSE
    BY <2>1, <2>5, GotoOK DEF HookPart
  <2>6. ~HookMishap(e)
    BY <2>4 DEF HookMishap, StartFails, HookThrows, HookAbandons
  <2>7. ~EnsureProcessor(e)
    BY <2>1, <2>5 DEF EnsureProcessor, HookPart, HookRecords
  <2>8. MarkFailed(e)
    BY <2>3, <2>5, <2>6, <2>7
    DEF HookStep, Receive, Prepare, Request, StartProcessor, UndoStart, MarkProcessed
  <2> QED BY <2>1, <2>8, EventFromOK DEF MarkFailed, EventPart, RowPart
<1>2. Inv /\ [Next]_vars => [A]_vars
  BY <1>1
<1> HIDE DEF A
<1>3. Spec => [][A]_vars
  BY <1>2, InvAlways, PTL DEF Spec
<1> QED BY <1>3 DEF A, GivenUpIsSettled

-----------------------------------------------------------------------------
(* The deliveries are a serial queue. *)

\* What a delivery's status is to the queue.
LEMMA ItemFacts ==
  /\ ItemOf["none"] = "absent" /\ ItemOf["queued"] = "waiting"
  /\ \A x \in Active : ItemOf[x] = "taken"
  /\ \A x \in Final : ItemOf[x] = "finished"
  BY DEF ItemOf, Active, Final

\* One item of the abstract queue changes at most, when a step touches one delivery
\* and the selection of no other.
LEMMA OneItem ==
  ASSUME NEW e \in Events,
         \A f \in Events \ {e} : delivery'[f] = delivery[f]
                                /\ (Selected(f)' <=> Selected(f))
  PROVE  DeliveryItem' = [DeliveryItem EXCEPT ![e] = DeliveryItem'[e]]
  BY DEF DeliveryItem

\* The item that a delivery is: picked while a run has selected it.
LEMMA ItemIs ==
  ASSUME NEW e \in Events
  PROVE  /\ DeliveryItem[e] = IF delivery[e].status = "queued" /\ Selected(e)
                              THEN "picked" ELSE ItemOf[delivery[e].status]
         /\ DeliveryItem'[e] = IF delivery'[e].status = "queued" /\ Selected(e)'
                               THEN "picked" ELSE ItemOf[delivery'[e].status]
  BY DEF DeliveryItem

\* An event handler enqueues an item, which no run has selected, or leaves the
\* abstract queue alone.
LEMMA HookStepQueues ==
  ASSUME TypeOK, ClaimPart, NEW e \in Events, HookStep(e) \/ HookMishap(e)
  PROVE  [Queue!Next]_DeliveryItem
<1>1. HookEffect(e) /\ (Quiet(e) \/ Launches(e) \/ Creates(e) \/ Undoes(e))
  BY HookEffectOK
<1>2. \A h \in Generations : \/ run'[h] = run[h]
                             \/ run[h].pc = "none" /\ run'[h].pc = "check"
  BY <1>1, CreatesOK DEF Quiet, Launches, Undoes
<1>3. \A f \in Events : Selected(f)' <=> Selected(f)
  BY <1>2 DEF Selected
<1>4. CASE delivery'[e] = delivery[e]
  BY <1>1, <1>3, <1>4 DEF HookEffect, DeliveryItem
<1>5. CASE delivery[e].status = "none" /\ delivery'[e].status = "queued"
  <2>1. ~Selected(e)
    BY <1>5 DEF Selected, ClaimPart
  <2>2. DeliveryItem[e] = "absent" /\ DeliveryItem'[e] = "waiting"
    BY <1>3, <1>5, <2>1, ItemIs, ItemFacts
  <2>3. DeliveryItem' = [DeliveryItem EXCEPT ![e] = "waiting"]
    BY <1>1, <1>3, <2>2, OneItem DEF HookEffect
  <2> QED BY <2>2, <2>3 DEF Queue!Next, Queue!Enqueue, Queue!Move
<1> QED BY <1>1, <1>4, <1>5 DEF HookEffect

\* The selection of a delivery picks the first waiting item, while none is in hand.
LEMMA SelectionPicks ==
  ASSUME TypeOK, ClaimIsServed, HandsFree, NEW g \in Generations, NEW r,
         RunEffect(g, r), r.pc = "take"
  PROVE  [Queue!Next]_DeliveryItem
<1> DEFINE e == r.delivery
<1>1. Selects(g, e)
  BY DEF RunEffect
<1>2. e \in Events /\ delivery[e].status = "queued" /\ delivery' = delivery
  BY <1>1 DEF Selects
<1>3. \A f \in Events : delivery[f].status \notin Active
  BY <1>1 DEF Selects, ClaimIsServed, Serves, Is
<1>4. \A f \in Events : ~Selected(f)
  BY <1>1 DEF Selects, Selected, HandsFree, Serves
<1>5. run' = [run EXCEPT ![g] = r] /\ run'[g] = r
  BY DEF RunEffect, Moves, TypeOK
<1> HIDE DEF e
<1>6. Selected(e)' /\ \A f \in Events \ {e} : ~Selected(f)'
  BY <1>4, <1>5 DEF Selected, TypeOK, e
<1>7. DeliveryItem[e] = "waiting" /\ DeliveryItem'[e] = "picked"
  BY <1>2, <1>4, <1>6, ItemIs, ItemFacts
<1>8. DeliveryItem' = [DeliveryItem EXCEPT ![e] = "picked"]
  BY <1>2, <1>4, <1>6, <1>7, OneItem
<1>9. ASSUME NEW f \in Events
      PROVE  /\ DeliveryItem[f] \notin {"picked", "taken"}
             /\ DeliveryItem[f] = "waiting" => e <= f
  <2>1. DeliveryItem[f] = ItemOf[delivery[f].status]
    BY <1>4, ItemIs
  <2>2. delivery[f].status \in {"none", "queued"} \cup Final
    BY <1>3 DEF TypeOK, DeliveryStatuses, Active, Final
  <2>3. delivery[f].status = "queued" => e <= f
    BY <1>1 DEF Selects
  <2> QED BY <2>1, <2>2, <2>3, ItemFacts
<1>10. Queue!Pick(e)
  BY <1>7, <1>8, <1>9 DEF Queue!Pick, Queue!Move
<1> QED BY <1>2, <1>10 DEF Queue!Next

\* A run that has selected a delivery takes the item, or puts it back, or finds it
\* gone.
LEMMA TakingTakes ==
  ASSUME TypeOK, ClaimPart, HandsFree, NEW g \in Generations, NEW r,
         RunEffect(g, r), run[g].pc = "take"
  PROVE  [Queue!Next]_DeliveryItem
<1> DEFINE e == run[g].delivery
<1>1. e \in Events /\ Selected(e)
  BY DEF ClaimPart, Selected
<1>2. \A h \in Generations : run[h].pc = "take" => h = g
  BY DEF HandsFree, Serves
<1>3. r.pc # "take"
  BY DEF RunEffect, Selects
<1>4. \A f \in Events : ~Selected(f)'
  BY <1>2, <1>3 DEF Selected, RunEffect, Moves, TypeOK
<1>5. \A f \in Events \ {e} : ~Selected(f)
  BY <1>2 DEF Selected
<1>6. \A f \in Events \ {e} : delivery'[f] = delivery[f]
  BY DEF RunEffect, DeliveryMoves, DeliverySteps
<1>7. DeliveryItem' = [DeliveryItem EXCEPT ![e] = DeliveryItem'[e]]
  BY <1>1, <1>4, <1>5, <1>6, OneItem
<1>8. \/ delivery'[e] = delivery[e]
      \/ delivery[e].status = "queued" /\ delivery'[e].status = "claimed"
  BY <1>1 DEF RunEffect, DeliveryMoves, DeliverySteps
<1> HIDE DEF e
<1>9. CASE delivery[e].status = "queued" /\ delivery'[e].status = "claimed"
  <2>1. DeliveryItem[e] = "picked" /\ DeliveryItem'[e] = "taken"
    BY <1>1, <1>9, ItemIs, ItemFacts DEF Active
  <2>2. Queue!Take(e)
    BY <1>7, <2>1 DEF Queue!Take, Queue!Move
  <2> QED BY <1>1, <2>2 DEF Queue!Next
<1>10. CASE delivery[e].status = "queued" /\ delivery'[e] = delivery[e]
  <2>1. DeliveryItem[e] = "picked" /\ DeliveryItem'[e] = "waiting"
    BY <1>1, <1>4, <1>10, ItemIs, ItemFacts
  <2>2. Queue!PutBack(e)
    BY <1>7, <2>1 DEF Queue!PutBack, Queue!Move
  <2> QED BY <1>1, <2>2 DEF Queue!Next
<1>11. CASE delivery[e].status # "queued" /\ delivery'[e] = delivery[e]
  <2>1. DeliveryItem'[e] = DeliveryItem[e]
    BY <1>1, <1>11, ItemIs
  <2>2. DeliveryItem' = DeliveryItem
    BY <1>7, <2>1 DEF DeliveryItem
  <2> QED BY <2>2
<1> QED BY <1>8, <1>9, <1>10, <1>11

\* Any other step of a run finishes the item it has taken, or leaves the abstract
\* queue alone.
LEMMA DeliveringFinishes ==
  ASSUME TypeOK, ClaimPart, NEW g \in Generations, NEW r,
         RunEffect(g, r), run[g].pc # "take", r.pc # "take"
  PROVE  [Queue!Next]_DeliveryItem
<1>1. \A f \in Events : Selected(f)' <=> Selected(f)
  BY DEF Selected, RunEffect, Moves, TypeOK
<1>2. CASE \A f \in Events : delivery'[f] = delivery[f]
  BY <1>1, <1>2 DEF DeliveryItem
<1>3. CASE \E f \in Events : delivery'[f] # delivery[f]
  <2>1. PICK e \in Events : delivery'[e] # delivery[e]
    BY <1>3
  <2>2. /\ Is(e, Active, g) /\ Is(e, {"delivering"} \cup Final, g)'
        /\ e = run[g].delivery
    BY <2>1 DEF RunEffect, DeliveryMoves
  <2>3. \A f \in Events \ {e} : delivery'[f] = delivery[f]
    BY <2>2 DEF RunEffect, DeliveryMoves
  <2>4. DeliveryItem' = [DeliveryItem EXCEPT ![e] = DeliveryItem'[e]]
    BY <1>1, <2>3, OneItem
  <2>5. DeliveryItem[e] = "taken"
    BY <2>2, ItemIs, ItemFacts DEF Is, Active
  <2>6. CASE delivery'[e].status = "delivering"
    <3>1. DeliveryItem'[e] = "taken"
      BY <2>6, ItemIs, ItemFacts DEF Active
    <3>2. DeliveryItem' = DeliveryItem
      BY <2>4, <2>5, <3>1 DEF DeliveryItem
    <3> QED BY <3>2
  <2>7. CASE delivery'[e].status \in Final
    <3>1. DeliveryItem'[e] = "finished"
      BY <2>7, ItemIs, ItemFacts DEF Final
    <3>2. Queue!Finish(e)
      BY <2>4, <2>5, <3>1 DEF Queue!Finish, Queue!Move
    <3> QED BY <3>2 DEF Queue!Next
  <2>8. delivery'[e].status \in {"delivering"} \cup Final
    BY <2>2 DEF Is
  <2> QED BY <2>6, <2>7, <2>8
<1> QED BY <1>2, <1>3

\* The association's deliveries implement SerialQueue for as long as every run that
\* was created is known to have been: one at a time, each the first in source order
\* of those waiting when it was selected, each finished once, although others are
\* enqueued between the two statements of a claim ("process accepted events for the
\* same association in source order rather than submitting them concurrently", ADR
\* 0011).
THEOREM DeliversSeriallyHolds == Spec => Queue!Init /\ DeliversSerially
<1>1. ASSUME Inv, [Next]_vars PROVE [Orderly' => [Queue!Next]_DeliveryItem]_vars
  <2> SUFFICES ASSUME Next, Orderly' PROVE [Queue!Next]_DeliveryItem
    BY <1>1
  <2>1. TypeOK /\ ClaimPart
    BY <1>1 DEF Inv
  <2>2. CASE \E e \in Events : HookStep(e) \/ HookMishap(e)
    BY <2>1, <2>2, HookStepQueues
  <2>3. CASE \E g \in Generations : RunStep(g) \/ CallThrows(g)
    <3>1. PICK g \in Generations : RunStep(g) \/ CallThrows(g)
      BY <2>3
    <3>2. PICK r : RunEffect(g, r)
      BY <2>1, <3>1, RunEffectOK
    <3>3. ClaimIsServed /\ HandsFree
      BY <1>1, <3>2 DEF Inv, OrderPart, Orderly, RunEffect
    <3> QED BY <2>1, <3>2, <3>3, SelectionPicks, TakingTakes, DeliveringFinishes
  <2> QED BY <2>2, <2>3 DEF Next
<1>2. Init => Queue!Init
  BY ItemFacts DEF Init, Queue!Init, DeliveryItem
<1> QED BY <1>1, <1>2, InvAlways, PTL DEF Spec, DeliversSerially
=============================================================================
