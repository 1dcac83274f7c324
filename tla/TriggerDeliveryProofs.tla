------------------------ MODULE TriggerDeliveryProofs ------------------------
(***************************************************************************)
(* The delivery queue of a conversation, for any number of trigger runs,   *)
(* generations, sandboxes, attempts and mishaps.                           *)
(***************************************************************************)
EXTENDS TriggerDelivery, WellFoundedInduction, TLAPS

HandoffRecords == [pc : HandoffSteps, retry : {"prepare", "enqueue"},
                   tries : 1 .. Attempts, generation : 0 .. MaxGeneration]
TaskRecords == [status : TaskStatuses, generation : 0 .. MaxGeneration]
DeliveryRecords == [pc : DeliverySteps, task : Runs \cup {None},
                    tries : 1 .. Attempts, seen : 0 .. MaxSandbox,
                    sandbox : 0 .. MaxSandbox, reuse : BOOLEAN]
ProcessorRecords == [status : {"none", "idle", "running"},
                     generation : 0 .. MaxGeneration]
MishapRecords == [left : 0 .. MaxMishaps, lasting : SUBSET Lasting]

\* The steps at which a run has ended or was not created.
NoSteps == {"none", "returned", "failed"}

\* The steps of a run that are about a task.
TaskSteps == TriedSteps \cup
  {"take", "action", "ignore_run", "ignore_task", "fail_run", "fail_task"}

-----------------------------------------------------------------------------
(* The operators of the model. *)

\* Some attempt is the first and the last, and there is a sandbox 0 to stand for
\* none.
LEMMA BoundFacts ==
  /\ 1 \in 1 .. Attempts /\ Attempts \in 1 .. Attempts
  /\ \A n \in 1 .. Attempts : n > 1 => n - 1 \in 1 .. Attempts
  /\ \A step : AttemptsOf(step) \in 1 .. Attempts
  /\ 0 \in 0 .. MaxSandbox /\ 0 \in 0 .. MaxGeneration
  BY DeliveryAssumption DEF AttemptsOf

\* FirstOf is what its name says: a nonempty set of numbers has a least one.
LEMMA FirstOfOK ==
  ASSUME NEW S \in SUBSET Nat, S # {}
  PROVE  FirstOf(S) \in S /\ \A u \in S : FirstOf(S) <= u
<1> DEFINE R == OpToRel(<, Nat)
<1>1. \E t \in S : \A u \in S : ~(<<u, t>> \in R)
  <2> HIDE DEF R
  <2>1. IsWellFoundedOn(R, Nat)
    BY NatLessThanWellFounded DEF R
  <2> QED BY <2>1, WFMin
<1>2. PICK t \in S : \A u \in S : ~(<<u, t>> \in R)
  BY <1>1
<1>3. ASSUME NEW u \in S PROVE t <= u
  <2>1. <<u, t>> \in Nat \X Nat
    OBVIOUS
  <2>2. ~(u < t)
    BY <1>2, <2>1 DEF OpToRel
  <2> QED BY <2>2
<1>4. \E x \in S : \A u \in S : x <= u
  BY <1>3
<1> QED BY <1>4 DEF FirstOf

\* A mishap leaves one less to happen and forgets none that lasts.
LEMMA MishapOK ==
  ASSUME mishaps \in MishapRecords, NEW kind, Mishap(kind)
  PROVE  /\ mishaps' \in MishapRecords
         /\ mishaps.lasting \subseteq mishaps'.lasting
         /\ kind \in Lasting => kind \in mishaps'.lasting
         /\ kind \notin Lasting => mishaps'.lasting = mishaps.lasting
  BY DeliveryAssumption DEF Mishap, MishapRecords

\* Where the workflow of a trigger run goes.
LEMMA GotoOK ==
  ASSUME handoff \in [Runs -> HandoffRecords], NEW r \in Runs,
         NEW pc \in HandoffSteps, Goto(r, pc)
  PROVE  /\ handoff' \in [Runs -> HandoffRecords]
         /\ handoff'[r].pc = pc
         /\ pc = "set_idle" => handoff'[r].generation = handoff[r].generation
         /\ \A s \in Runs \ {r} : handoff'[s] = handoff[s]
<1> DEFINE x == [handoff[r] EXCEPT
                   !.pc = pc,
                   !.tries = IF pc \in {"done", "failed"} THEN 1 ELSE handoff[r].tries,
                   !.generation = IF pc = "set_idle" THEN handoff[r].generation ELSE 0]
<1>1. /\ x \in HandoffRecords /\ x.pc = pc
      /\ pc = "set_idle" => x.generation = handoff[r].generation
  BY BoundFacts DEF HandoffRecords
<1>2. handoff' = [handoff EXCEPT ![r] = x]
  BY DEF Goto
<1> HIDE DEF x
<1> QED BY <1>1, <1>2

\* The records a delivery run is given.
LEMMA FreshOK ==
  ASSUME NEW pc \in DeliverySteps
  PROVE  Fresh(pc) \in DeliveryRecords /\ Fresh(pc).pc = pc
  BY BoundFacts DEF Fresh, DeliveryRecords, None

\* A run that goes on with its task carries the task over.
LEMMA ForOK ==
  ASSUME NEW pc \in DeliverySteps, NEW d, d.task \in Runs \cup {None}
  PROVE  /\ For(d, pc) \in DeliveryRecords /\ For(d, pc).pc = pc
         /\ For(d, pc).task = d.task
  BY BoundFacts DEF For, Fresh, DeliveryRecords, None

\* A run that goes on keeps its task, what it saw and its sandbox.
LEMMA AtOK ==
  ASSUME NEW d \in DeliveryRecords, NEW pc \in DeliverySteps
  PROVE  /\ At(d, pc) \in DeliveryRecords /\ At(d, pc).pc = pc
         /\ At(d, pc).task = d.task /\ At(d, pc).seen = d.seen
         /\ At(d, pc).sandbox = d.sandbox
  BY BoundFacts DEF At, DeliveryRecords

\* A step that was interrupted, by an error or a death, starts over; or the task
\* fails, or the run. What the step was about it is still about.
Interrupted(d, n) ==
  /\ n \in DeliveryRecords
  /\ \/ d.pc = "take" /\ n.pc = "claim"
     \/ /\ d.pc # "take" /\ n.pc = IF d.pc = "set_idle" THEN "check" ELSE d.pc
        /\ n.task = d.task /\ n.seen = d.seen /\ n.sandbox = d.sandbox
     \/ n.pc = "fail_run" /\ d.pc \in TriedSteps /\ n.task = d.task
     \/ n.pc = "failed"

\* So does a step that starts over.
LEMMA StepStartOK ==
  ASSUME NEW d \in DeliveryRecords
  PROVE  Interrupted(d, StepStart(d)) /\ StepStart(d).tries = d.tries
<1>1. CASE d.pc = "take"
  <2>1. StepStart(d) = [d EXCEPT !.pc = "claim", !.task = None]
    BY <1>1 DEF StepStart
  <2> QED BY <1>1, <2>1 DEF Interrupted, DeliveryRecords, DeliverySteps
<1>2. CASE d.pc = "set_idle"
  <2>1. StepStart(d) = [d EXCEPT !.pc = "check"]
    BY <1>2 DEF StepStart
  <2> QED BY <1>2, <2>1 DEF Interrupted, DeliveryRecords, DeliverySteps
<1>3. CASE d.pc \notin {"take", "set_idle"}
  <2>1. StepStart(d) = d
    BY <1>3 DEF StepStart
  <2> QED BY <1>3, <2>1 DEF Interrupted
<1> QED BY <1>1, <1>2, <1>3

\* A step that threw leaves the run where "Interrupted" says.
LEMMA ThrownOK ==
  ASSUME NEW d \in DeliveryRecords, d.pc \notin NoSteps
  PROVE  Interrupted(d, Thrown(d))
<1> DEFINE s == StepStart(d)
           x == [s EXCEPT !.tries = @ - 1]
<1>1. CASE d.tries > 1
  <2>1. d.tries - 1 \in 1 .. Attempts
    BY <1>1, BoundFacts DEF DeliveryRecords
  <2>2. Interrupted(d, s) /\ s.tries = d.tries /\ s \in DeliveryRecords
    BY StepStartOK DEF Interrupted
  <2>3. Thrown(d) = x
    BY <1>1 DEF Thrown
  <2> HIDE DEF s
  <2>4. /\ x \in DeliveryRecords /\ x.pc = s.pc /\ x.task = s.task
        /\ x.seen = s.seen /\ x.sandbox = s.sandbox
    BY <2>1, <2>2 DEF DeliveryRecords
  <2> HIDE DEF x
  <2> QED BY <2>2, <2>3, <2>4 DEF Interrupted
<1>2. CASE ~(d.tries > 1) /\ d.pc \in TriedSteps
  <2>1. Thrown(d) = For(d, "fail_run")
    BY <1>2 DEF Thrown
  <2>2. /\ For(d, "fail_run") \in DeliveryRecords /\ For(d, "fail_run").pc = "fail_run"
        /\ For(d, "fail_run").task = d.task
    BY ForOK DEF DeliveryRecords, DeliverySteps
  <2> QED BY <1>2, <2>1, <2>2 DEF Interrupted
<1>3. CASE ~(d.tries > 1) /\ d.pc \notin TriedSteps
  <2>1. Thrown(d) = Fresh("failed")
    BY <1>3 DEF Thrown
  <2>2. Fresh("failed") \in DeliveryRecords /\ Fresh("failed").pc = "failed"
    BY FreshOK DEF DeliverySteps
  <2> QED BY <2>1, <2>2 DEF Interrupted
<1> QED BY <1>1, <1>2, <1>3

\* What a step of run g does to the run: it goes on, or was interrupted.
Moves(g, n) == n \in DeliveryRecords /\ delivery' = [delivery EXCEPT ![g] = n]

\* A call that throws interrupts the run and costs no mishap.
LEMMA ThrowsOK ==
  ASSUME delivery \in [Generations -> DeliveryRecords], NEW g \in Generations,
         delivery[g].pc \notin NoSteps, Throws(g)
  PROVE  /\ \E n : Moves(g, n) /\ Interrupted(delivery[g], n)
         /\ mishaps' = mishaps
<1>1. Interrupted(delivery[g], Thrown(delivery[g]))
  BY ThrownOK
<1> QED BY <1>1 DEF Throws, Moves, Interrupted

\* A run whose step ends moves on, or dies before the engine stored the result.
LEMMA StoredOK ==
  ASSUME delivery \in [Generations -> DeliveryRecords], mishaps \in MishapRecords,
         NEW g \in Generations, NEW next \in DeliveryRecords,
         delivery[g].pc \notin NoSteps \cup {"set_idle"}, Stored(g, next)
  PROVE  /\ \E n : Moves(g, n) /\ (n = next \/ Interrupted(delivery[g], n))
         /\ mishaps' \in MishapRecords /\ mishaps'.lasting = mishaps.lasting
<1>1. CASE delivery' = [delivery EXCEPT ![g] = next] /\ UNCHANGED mishaps
  BY <1>1 DEF Moves
<1>2. CASE Mishap("died") /\ delivery' = [delivery EXCEPT ![g] = StepStart(@)]
  <2>1. Moves(g, StepStart(delivery[g])) /\ Interrupted(delivery[g], StepStart(delivery[g]))
    BY <1>2, StepStartOK DEF Moves, Interrupted
  <2>2. "died" \notin Lasting
    BY DEF Lasting
  <2> QED BY <1>2, <2>1, <2>2, MishapOK
<1>3. CASE Mishap("late") /\ delivery' = [delivery EXCEPT ![g] = Thrown(@)]
  <2>1. Interrupted(delivery[g], Thrown(delivery[g]))
    BY ThrownOK
  <2>2. Moves(g, Thrown(delivery[g]))
    BY <1>3, <2>1 DEF Moves, Interrupted
  <2>3. "late" \notin Lasting
    BY DEF Lasting
  <2> QED BY <1>3, <2>1, <2>2, <2>3, MishapOK
<1> QED BY <1>1, <1>2, <1>3 DEF Stored

-----------------------------------------------------------------------------
(* The type invariant in parts. *)

HandoffPart == handoff \in [Runs -> HandoffRecords]
DeliveryPart == delivery \in [Generations -> DeliveryRecords]
TaskPart == task \in [Runs -> TaskRecords]
RowPart ==
  /\ triggerRun \in [Runs -> RunStatuses]
  /\ processor \in ProcessorRecords
  /\ mishaps \in MishapRecords
ProviderPart ==
  /\ highWater \in Runs \cup {None}
  /\ route \in [sandbox : 0 .. MaxSandbox, conversation : BOOLEAN]
  /\ submitted \in [Runs -> SUBSET (Generations \X (1 .. MaxSandbox))]
  /\ sandboxes \in [started : 0 .. MaxSandbox, failed : SUBSET (1 .. MaxSandbox)]

\* The type invariant, by the part of the state it is about.
LEMMA TypeParts ==
  /\ TypeOK <=> HandoffPart /\ DeliveryPart /\ TaskPart /\ RowPart /\ ProviderPart
  /\ TypeOK' <=> /\ HandoffPart' /\ DeliveryPart' /\ TaskPart' /\ RowPart'
                 /\ ProviderPart'
  BY DEF TypeOK, HandoffPart, DeliveryPart, TaskPart, RowPart, ProviderPart,
         HandoffRecords, DeliveryRecords, TaskRecords, ProcessorRecords, MishapRecords

\* The initial states are of their types.
LEMMA InitType == Init => TypeOK
<1> SUFFICES ASSUME Init
             PROVE  HandoffPart /\ DeliveryPart /\ TaskPart /\ RowPart /\ ProviderPart
  BY TypeParts
<1> USE BoundFacts
<1>1. HandoffPart
  BY DEF Init, HandoffPart, HandoffRecords, HandoffSteps
<1>2. DeliveryPart
  BY FreshOK DEF Init, DeliveryPart, DeliverySteps
<1>3. TaskPart
  BY DEF Init, TaskPart, TaskRecords, TaskStatuses
<1>4. RowPart
  BY DeliveryAssumption
  DEF Init, RowPart, RunStatuses, ProcessorRecords, MishapRecords
<1>5. ProviderPart
  BY DEF Init, ProviderPart, None
<1> QED BY <1>1, <1>2, <1>3, <1>4, <1>5

-----------------------------------------------------------------------------
(* The inductive invariant. *)

\* A run at such a step knows its task, and its sandbox once it has ensured one.
KnownPart ==
  \A g \in Generations :
    /\ delivery[g].pc \in TaskSteps => delivery[g].task \in Runs
    /\ delivery[g].pc \in {"begin", "route", "provider", "persist"} =>
         delivery[g].sandbox \in 1 .. MaxSandbox

\* What a run submits its own generation has claimed and marked delivering, and
\* nobody has submitted it before, except that run the same payload.
SubmitPart ==
  /\ \A g \in Generations : delivery[g].pc \in {"route", "provider"} =>
       LET t == delivery[g].task IN
       /\ task[t].status = "delivering" /\ task[t].generation = g
       /\ submitted[t] \subseteq IF delivery[g].pc = "route" THEN {}
                                 ELSE {<<g, delivery[g].sandbox>>}
  /\ \A r \in Runs : \A x \in submitted[r] :
       /\ task[r].status \in {"delivering"} \cup Final /\ task[r].generation = x[1]
       /\ \A y \in submitted[r] : x = y

\* A trigger run that has a task is not queued any more; one whose task is being
\* finished, or was, is finished.
FinishPart ==
  /\ \A r \in Runs :
       /\ handoff[r].pc # "transition" => triggerRun[r] # "queued"
       /\ task[r].status # "none" => triggerRun[r] # "queued"
       /\ task[r].status \in Final => triggerRun[r] \in TerminalRun
  /\ \A g \in Generations :
       /\ delivery[g].pc \in TaskSteps => task[delivery[g].task].status # "none"
       /\ delivery[g].pc \in {"ignore_task", "complete_task", "fail_task"} =>
            triggerRun[delivery[g].task] \in TerminalRun

Starting(r) == handoff[r].pc \in {"start", "set_idle"}

\* A generation that was not handed out has no run.
GenerationPart ==
  /\ processor.status = "running" => processor.generation \in Generations
  /\ \A r \in Runs : Starting(r) => /\ handoff[r].generation \in Generations
                                    /\ handoff[r].generation <= processor.generation
  /\ \A g \in Generations : g > processor.generation => delivery[g].pc = "none"

\* One handoff at most is starting a run, that of the row's generation.
OneStart ==
  /\ \A r \in Runs : Starting(r) => /\ IdleFor(handoff[r].generation)
                                    /\ delivery[handoff[r].generation].pc = "none"
  /\ \A r, s \in Runs : Starting(r) /\ Starting(s) => r = s

\* A run that has not ended is the one of the row's generation.
OneLive == \A g \in Generations : Live(g) => IdleFor(g)

\* What is being delivered was claimed by the run of the row's generation.
ClaimIsServed ==
  \A r \in Runs : task[r].status \in Active =>
    \E g \in Generations : /\ task[r].generation = g
                           /\ IdleFor(g) /\ delivery[g].pc # "none"

\* A run that is about to claim or to make the row idle has left nothing half
\* delivered.
HandsFree ==
  \A g \in Generations : delivery[g].pc \in {"take", "set_idle"} =>
    \A r \in Runs : task[r].status \notin Active

\* A task that is being delivered is ahead of the high-water mark, until it is
\* finished and becomes the mark.
AheadOfMark ==
  \A g \in Generations :
    delivery[g].pc \in TriedSteps /\ (delivery[g].pc = "complete_task" =>
                                       IsActive(delivery[g].task, g))
      => delivery[g].task > highWater

\* The sandbox that a run has seen is the route's, or has failed; and the one it has
\* ensured is the route's, or the route has none yet.
RoutePart ==
  \A g \in Generations :
    /\ delivery[g].pc = "sandbox" =>
         delivery[g].seen = route.sandbox \/ delivery[g].seen \in sandboxes.failed
    /\ delivery[g].pc \in {"begin", "route"} =>
         route.sandbox \in {None, delivery[g].sandbox}
    /\ delivery[g].pc \in {"provider", "persist"} =>
         route.sandbox = delivery[g].sandbox

\* All of that as long as the processor's row and its runs agree.
OrderPart ==
  Orderly => /\ OneStart /\ OneLive /\ ClaimIsServed /\ HandsFree
             /\ AheadOfMark /\ RoutePart

Inv == /\ TypeOK /\ KnownPart /\ SubmitPart /\ FinishPart /\ GenerationPart
       /\ OrderPart /\ RunningIsServed

-----------------------------------------------------------------------------
(* What a step of a delivery run does. *)

\* A task stays as it is, is claimed by the run that selected it, or it is the run's
\* own and is marked delivering or finished.
TaskMoves(g) ==
  \A r \in Runs :
    \/ task'[r] = task[r]
    \/ /\ delivery[g].pc = "take" /\ r = delivery[g].task /\ task[r].status = "queued"
       /\ task'[r].status = "claimed" /\ task'[r].generation = g
    \/ /\ IsActive(r, g) /\ r = delivery[g].task /\ task'[r].generation = g
       /\ \/ delivery[g].pc = "begin" /\ task'[r].status = "delivering"
          \/ /\ delivery[g].pc \in DOMAIN TaskStatusAt
             /\ task'[r].status \in Final

RunMoves(g) ==
  \/ triggerRun' = triggerRun
  \/ /\ delivery[g].pc \in DOMAIN RunStatusAt
     /\ triggerRun' = Finished(delivery[g].task, RunStatusAt[delivery[g].pc])

ProcessorMoves(g, n) ==
  \/ processor' = processor
  \/ /\ delivery[g].pc = "set_idle" /\ IdleFor(g)
     /\ processor'.status = "idle" /\ processor'.generation = processor.generation
     /\ n.pc = "returned" \/ "idle_lost" \in mishaps'.lasting

MarkMoves(g) ==
  \/ highWater' = highWater
  \/ /\ delivery[g].pc = "complete_task" /\ IsActive(delivery[g].task, g)
     /\ task'[delivery[g].task].status \in Final
     /\ highWater' = delivery[g].task

SubmittedMoves(g) ==
  \/ submitted' = submitted
  \/ /\ delivery[g].pc = "provider"
     /\ submitted' = [submitted EXCEPT ![delivery[g].task] =
                        @ \cup {<<g, delivery[g].sandbox>>}]

\* The route is bound anew in place of a sandbox that failed, is bound for the first
\* time, or is confirmed; no sandbox recovers.
RouteMoves(g) ==
  LET d == delivery[g] IN
  /\ sandboxes'.failed = sandboxes.failed
  /\ \/ route'.sandbox = route.sandbox
     \/ d.pc = "sandbox" /\ d.seen \in sandboxes.failed
     \/ d.pc = "route" /\ route.sandbox = None /\ route'.sandbox = d.sandbox
     \/ d.pc = "persist" /\ route'.sandbox = d.sandbox

\* The first of the queued tasks is selected by a run that has none that it claimed
\* before.
Selects(g, t) ==
  /\ delivery[g].pc = "claim" /\ task' = task
  /\ t \in Runs /\ task[t].status = "queued"
  /\ \A r \in Runs : /\ ~IsActive(r, g)
                     /\ task[r].status = "queued" => t <= r

\* Where a run goes that was not interrupted, and what holds when it does.
Onward(g, n) ==
  LET d == delivery[g] IN
  \/ n.pc \in {"claim", "check"}
  \/ n.pc = "returned" /\ ~IdleFor(g)'
  \/ n.pc = "take" /\ Selects(g, n.task)
  \/ /\ n.pc = "set_idle" /\ task' = task
     /\ \A r \in Runs : task[r].status \notin Unfinished
  \/ /\ n.pc = "action" /\ n.task \in Runs /\ task'[n.task].status # "none"
  \/ /\ n.task = d.task
     /\ \/ d.pc = "action" /\ n.pc = "ignore_run"
        \/ d.pc = "action" /\ n.pc = "prepare" /\ n.task > highWater
        \/ /\ d.pc \in DOMAIN RunStatusAt /\ n.pc = TaskStepAfter[d.pc]
           /\ triggerRun' = Finished(d.task, RunStatusAt[d.pc])
        \/ d.pc = "prepare" /\ n.pc = "fail_run"
        \/ d.pc = "prepare" /\ n.pc = "sandbox" /\ n.seen = route.sandbox
        \/ /\ d.pc = "sandbox" /\ n.pc = "begin" /\ n.sandbox \in 1 .. MaxSandbox
           /\ \/ /\ n.sandbox = d.seen /\ d.seen \notin sandboxes.failed
                 /\ route' = route
              \/ d.seen = None /\ route' = route
              \/ route'.sandbox = n.sandbox
        \/ /\ n.sandbox = d.sandbox
           /\ \/ /\ d.pc = "begin" /\ n.pc = "route"
                 /\ task[d.task].status = "claimed"
                 /\ task'[d.task].status = "delivering"
                 /\ task'[d.task].generation = g
              \/ d.pc = "route" /\ n.pc = "provider" /\ route'.sandbox = d.sandbox
              \/ d.pc = "provider" /\ n.pc = "persist"
        \/ d.pc = "persist" /\ n.pc = "complete_run"

DeliveryEffect(g, n) ==
  /\ Moves(g, n) /\ Live(g) /\ n.pc # "none"
  /\ Interrupted(delivery[g], n) \/ Onward(g, n)
  /\ UNCHANGED handoff
  /\ mishaps' \in MishapRecords /\ mishaps.lasting \subseteq mishaps'.lasting
  /\ TaskMoves(g) /\ RunMoves(g) /\ ProcessorMoves(g, n) /\ MarkMoves(g)
  /\ SubmittedMoves(g) /\ RouteMoves(g)

\* Whatever a delivery run does, from claiming to making the processor idle,
\* and whatever happens to it, is a "DeliveryEffect".
LEMMA DeliveryEffectOK ==
  ASSUME TypeOK, KnownPart, NEW g \in Generations, DeliveryStep(g) \/ CallThrows(g)
  PROVE  /\ \E n : DeliveryEffect(g, n)
         /\ TaskPart' /\ RowPart' /\ ProviderPart'
<1> DEFINE d == delivery[g]
<1> USE TypeParts
<1>1. d \in DeliveryRecords /\ (d.pc \in TaskSteps => d.task \in Runs)
  BY DEF DeliveryPart, KnownPart
<1>2. d.pc \notin NoSteps /\ Live(g)
  BY DEF NoSteps, Live, DeliveryStep, CallThrows, ClaimOrResume, ClaimFrom, TakeTask,
         CheckEmpty, SetIdle, ResolveAction, MarkRun, FinalizeTask, PrepareDelivery,
         EnsureSandbox, BeginDelivery, LoadRoute, Provider, Persist,
         RunStatusAt, TaskStatusAt
<1>3. ASSUME NEW n, Interrupted(d, n) PROVE n.pc # "none"
  BY <1>2, <1>3 DEF Interrupted, NoSteps
\* What holds of a step that changes neither tasks, nor rows, nor what only a
\* delivery changes.
<1>4. ASSUME UNCHANGED task PROVE TaskPart' /\ TaskMoves(g)
  BY <1>4 DEF TaskPart, TaskMoves
<1>5. ASSUME UNCHANGED <<highWater, route, submitted, sandboxes>>
      PROVE  ProviderPart' /\ MarkMoves(g) /\ SubmittedMoves(g) /\ RouteMoves(g)
  BY <1>5 DEF ProviderPart, MarkMoves, SubmittedMoves, RouteMoves
<1>6. ASSUME UNCHANGED <<triggerRun, processor>>, mishaps' \in MishapRecords, NEW n
      PROVE  RowPart' /\ RunMoves(g) /\ ProcessorMoves(g, n)
  BY <1>6 DEF RowPart, RunMoves, ProcessorMoves
<1>7. mishaps \in MishapRecords
  BY DEF RowPart
<1> USE DEF providerVars
<1>8. CASE CallThrows(g)
  <2>1. Interrupted(d, Thrown(d))
    BY <1>1, <1>2, ThrownOK
  <2>2. Moves(g, Thrown(d))
    BY <1>8, <2>1 DEF CallThrows, Moves, Interrupted
  <2>3. mishaps' \in MishapRecords /\ mishaps.lasting \subseteq mishaps'.lasting
    BY <1>7, <1>8, MishapOK DEF CallThrows
  <2> QED
    BY <1>2, <1>3, <1>4, <1>5, <1>6, <1>8, <2>1, <2>2, <2>3
    DEF CallThrows, DeliveryEffect
<1>9. ASSUME NEW n \in DeliveryRecords, n.pc # "none", Onward(g, n), GoesOn(g, n),
             UNCHANGED <<triggerRun, handoff, task, processor, highWater, route,
                         submitted, sandboxes>>
      PROVE  (\E m : DeliveryEffect(g, m)) /\ TaskPart' /\ RowPart' /\ ProviderPart'
  <2>1. Moves(g, n) /\ mishaps' = mishaps
    BY <1>9 DEF GoesOn, Moves
  <2> QED
    BY <1>2, <1>4, <1>5, <1>6, <1>7, <1>9, <2>1 DEF DeliveryEffect
<1>10. ASSUME Throws(g),
              UNCHANGED <<triggerRun, handoff, task, processor, highWater, route,
                          submitted, sandboxes>>
       PROVE  (\E m : DeliveryEffect(g, m)) /\ TaskPart' /\ RowPart' /\ ProviderPart'
  <2>1. PICK n : Moves(g, n) /\ Interrupted(d, n)
    BY <1>2, <1>10, ThrowsOK DEF DeliveryPart
  <2>2. mishaps' = mishaps
    BY <1>2, <1>10, ThrowsOK DEF DeliveryPart
  <2> QED
    BY <1>2, <1>3, <1>4, <1>5, <1>6, <1>7, <1>10, <2>1, <2>2 DEF DeliveryEffect
<1>11. ASSUME NEW next \in DeliveryRecords, next.pc # "none", Onward(g, next),
              Stored(g, next), d.pc # "set_idle"
       PROVE  \E n : /\ Moves(g, n) /\ n.pc # "none"
                     /\ Interrupted(d, n) \/ Onward(g, n)
                     /\ mishaps' \in MishapRecords
                     /\ mishaps.lasting \subseteq mishaps'.lasting
  <2>1. PICK n : Moves(g, n) /\ (n = next \/ Interrupted(d, n))
    BY <1>2, <1>7, <1>11, StoredOK DEF DeliveryPart
  <2>2. mishaps' \in MishapRecords /\ mishaps'.lasting = mishaps.lasting
    BY <1>2, <1>7, <1>11, StoredOK DEF DeliveryPart
  <2> QED BY <1>3, <1>11, <2>1, <2>2
<1>12. CASE ClaimOrResume(g)
  <2> DEFINE mine == {t \in Runs : IsActive(t, g)}
  <2>0. ASSUME NEW t \in Runs
        PROVE  /\ For([task |-> t], "action") \in DeliveryRecords
               /\ For([task |-> t], "action").pc = "action"
               /\ For([task |-> t], "action").task = t
    BY ForOK DEF DeliverySteps
  <2>1. /\ d.pc = "claim"
        /\ UNCHANGED <<triggerRun, handoff, task, processor, highWater, route,
                       submitted, sandboxes>>
    BY <1>12 DEF ClaimOrResume, ClaimFrom
  <2>2. CASE \E t \in mine : GoesOn(g, For([task |-> t], "action"))
    <3>1. PICK t \in mine : GoesOn(g, For([task |-> t], "action"))
      BY <2>2
    <3>2. task[t].status # "none"
      BY DEF IsActive, Active
    <3>3. Onward(g, For([task |-> t], "action"))
      BY <2>0, <2>1, <3>2 DEF Onward
    <3> QED BY <1>9, <2>0, <2>1, <3>1, <3>3
  <2>3. CASE /\ mine = {} /\ Queued # {}
             /\ GoesOn(g, [delivery[g] EXCEPT !.pc = "take", !.task = FirstOf(Queued)])
    <3> DEFINE t == FirstOf(Queued)
               n == [d EXCEPT !.pc = "take", !.task = t]
    <3>1. t \in Queued /\ \A r \in Queued : t <= r
      BY <2>3, FirstOfOK DEF Queued, Runs
    <3>2. GoesOn(g, n)
      BY <2>3
    <3> HIDE DEF t
    <3>3. n \in DeliveryRecords /\ n.pc = "take" /\ n.task = t
      BY <1>1, <3>1 DEF DeliveryRecords, DeliverySteps, Queued
    <3> HIDE DEF n
    <3>4. Selects(g, t)
      BY <2>1, <2>3, <3>1 DEF Selects, Queued
    <3>5. Onward(g, n)
      BY <3>3, <3>4 DEF Onward
    <3> QED BY <1>9, <2>1, <3>2, <3>3, <3>5
  <2>4. CASE mine = {} /\ Queued = {} /\ GoesOn(g, Fresh("check"))
    <3>1. Fresh("check") \in DeliveryRecords /\ Fresh("check").pc = "check"
      BY FreshOK DEF DeliverySteps
    <3>2. Onward(g, Fresh("check"))
      BY <3>1 DEF Onward
    <3> QED BY <1>9, <2>1, <2>4, <3>1, <3>2
  <2> QED BY <1>12, <2>2, <2>3, <2>4 DEF ClaimOrResume, ClaimFrom
<1>13. CASE CheckEmpty(g)
  <2> DEFINE n == IF \E t \in Runs : task[t].status \in Unfinished
                  THEN Fresh("claim") ELSE [delivery[g] EXCEPT !.pc = "set_idle"]
  <2>1. /\ n \in DeliveryRecords
        /\ n.pc = IF \E t \in Runs : task[t].status \in Unfinished
                  THEN "claim" ELSE "set_idle"
    <3>1. Fresh("claim") \in DeliveryRecords /\ Fresh("claim").pc = "claim"
      BY FreshOK DEF DeliverySteps
    <3>2. /\ [d EXCEPT !.pc = "set_idle"] \in DeliveryRecords
          /\ [d EXCEPT !.pc = "set_idle"].pc = "set_idle"
      BY <1>1 DEF DeliveryRecords, DeliverySteps
    <3> QED BY <3>1, <3>2
  <2>2. GoesOn(g, n)
    BY <1>13 DEF CheckEmpty
  <2> HIDE DEF n
  <2>3. Onward(g, n)
    BY <1>13, <2>1 DEF Onward, CheckEmpty
  <2> QED BY <1>9, <1>13, <2>1, <2>2, <2>3 DEF CheckEmpty
<1>14. CASE SetIdle(g)
  <2>0. /\ Fresh("returned") \in DeliveryRecords /\ Fresh("returned").pc = "returned"
        /\ Fresh("claim") \in DeliveryRecords /\ Fresh("claim").pc = "claim"
    BY FreshOK DEF DeliverySteps
  <2>1. CASE IdleFor(g)
    <3>1. /\ processor'.status = "idle" /\ processor'.generation = processor.generation
          /\ processor' \in ProcessorRecords /\ ~IdleFor(g)'
          /\ d.pc = "set_idle"
          /\ UNCHANGED <<triggerRun, handoff, task, highWater, route, submitted,
                         sandboxes>>
      BY <1>14, <2>1 DEF SetIdle, RowPart, ProcessorRecords, IdleFor
    <3>2. CASE GoesOn(g, Fresh("returned"))
      <4>1. Moves(g, Fresh("returned")) /\ mishaps' = mishaps
        BY <2>0, <3>2 DEF GoesOn, Moves
      <4>2. Onward(g, Fresh("returned"))
        BY <2>0, <3>1 DEF Onward
      <4>3. RowPart' /\ RunMoves(g) /\ ProcessorMoves(g, Fresh("returned"))
        BY <2>0, <2>1, <3>1, <4>1 DEF RowPart, RunMoves, ProcessorMoves
      <4> QED
        BY <1>2, <1>4, <1>5, <1>7, <2>0, <3>1, <4>1, <4>2, <4>3 DEF DeliveryEffect
    <3>3. CASE /\ Mishap("idle_lost")
               /\ \/ delivery' = [delivery EXCEPT ![g].pc = "check"]
                  \/ delivery' = [delivery EXCEPT ![g] = Thrown(@)]
      <4>1. PICK n : Moves(g, n) /\ Interrupted(d, n)
        <5>1. Interrupted(d, Thrown(d))
          BY <1>1, <1>2, ThrownOK
        <5>2. Interrupted(d, [d EXCEPT !.pc = "check"])
          BY <1>1, <3>1 DEF Interrupted, DeliveryRecords, DeliverySteps
        <5>3. \/ delivery' = [delivery EXCEPT ![g] = [d EXCEPT !.pc = "check"]]
              \/ delivery' = [delivery EXCEPT ![g] = Thrown(d)]
          BY <3>3
        <5> QED BY <5>1, <5>2, <5>3 DEF Moves, Interrupted
      <4>2. /\ mishaps' \in MishapRecords /\ mishaps.lasting \subseteq mishaps'.lasting
            /\ "idle_lost" \in mishaps'.lasting
        BY <1>7, <3>3, MishapOK DEF Lasting
      <4>3. RowPart' /\ RunMoves(g) /\ ProcessorMoves(g, n)
        BY <2>1, <3>1, <4>2 DEF RowPart, RunMoves, ProcessorMoves
      <4> QED
        BY <1>2, <1>3, <1>4, <1>5, <3>1, <4>1, <4>2, <4>3 DEF DeliveryEffect
    <3> QED BY <1>14, <2>1, <3>2, <3>3 DEF SetIdle
  <2>2. CASE ~IdleFor(g)
    <3>1. Onward(g, Fresh("claim"))
      BY <2>0 DEF Onward
    <3> QED BY <1>9, <1>14, <2>0, <2>2, <3>1 DEF SetIdle
  <2> QED BY <2>1, <2>2
<1>15. ASSUME NEW pc \in DeliverySteps
       PROVE  /\ For(d, pc) \in DeliveryRecords /\ For(d, pc).pc = pc
              /\ For(d, pc).task = d.task
  BY <1>1, ForOK DEF DeliveryRecords
<1>16. CASE ResolveAction(g)
  <2>1. CASE IsActive(d.task, g)
    <3> DEFINE pc == IF d.task <= highWater THEN "ignore_run" ELSE "prepare"
               n == For(d, pc)
    <3>1. n \in DeliveryRecords /\ n.pc = pc /\ n.task = d.task
      BY <1>15 DEF DeliverySteps, TriedSteps
    <3>2. GoesOn(g, n)
      BY <1>16, <2>1 DEF ResolveAction
    <3>3. d.pc = "action" /\ d.task \in Nat /\ highWater \in Nat
      BY <1>1, <1>16 DEF ResolveAction, TaskSteps, ProviderPart, Runs, None
    <3> HIDE DEF n
    <3>4. Onward(g, n)
      BY <3>1, <3>3 DEF Onward
    <3> QED BY <1>9, <1>16, <3>1, <3>2, <3>4 DEF ResolveAction
  <2>2. CASE ~IsActive(d.task, g)
    BY <1>10, <1>16, <2>2 DEF ResolveAction
  <2> QED BY <2>1, <2>2
<1>17. CASE MarkRun(g)
  <2> DEFINE next == For(d, TaskStepAfter[d.pc])
  <2>1. /\ d.pc \in DOMAIN RunStatusAt /\ d.pc \in TaskSteps /\ d.pc # "set_idle"
        /\ RunStatusAt[d.pc] \in TerminalRun /\ RunStatusAt[d.pc] \in RunStatuses
        /\ TaskStepAfter[d.pc] \in DeliverySteps
        /\ TaskStepAfter[d.pc] # "none"
    BY <1>17
    DEF MarkRun, RunStatusAt, TaskStepAfter, TaskSteps, TriedSteps, TerminalRun,
        RunStatuses, DeliverySteps
  <2>2. /\ triggerRun' = Finished(d.task, RunStatusAt[d.pc]) /\ Stored(g, next)
        /\ UNCHANGED <<handoff, task, processor, highWater, route, submitted, sandboxes>>
    BY <1>17 DEF MarkRun
  <2>3. next \in DeliveryRecords /\ next.pc = TaskStepAfter[d.pc] /\ next.task = d.task
    BY <1>15, <2>1
  <2> HIDE DEF next
  <2>4. Onward(g, next)
    BY <2>1, <2>2, <2>3 DEF Onward
  <2>5. PICK n : /\ Moves(g, n) /\ n.pc # "none"
                 /\ Interrupted(d, n) \/ Onward(g, n)
                 /\ mishaps' \in MishapRecords
                 /\ mishaps.lasting \subseteq mishaps'.lasting
    BY <1>11, <2>1, <2>2, <2>3, <2>4
  <2>6. RowPart' /\ RunMoves(g) /\ ProcessorMoves(g, n)
    <3>1. triggerRun' \in [Runs -> RunStatuses]
      BY <2>1, <2>2 DEF RowPart, Finished
    <3> QED BY <2>1, <2>2, <2>5, <3>1 DEF RowPart, RunMoves, ProcessorMoves
  <2> QED BY <1>2, <1>4, <1>5, <2>2, <2>5, <2>6 DEF DeliveryEffect
<1>18. CASE FinalizeTask(g)
  <2>1. /\ d.pc \in DOMAIN TaskStatusAt /\ d.pc \in TaskSteps /\ d.pc # "set_idle"
        /\ TaskStatusAt[d.pc] \in Final
    BY <1>18 DEF FinalizeTask, TaskStatusAt, TaskSteps, TriedSteps, Final
  <2>2. CASE IsActive(d.task, g)
    <3> DEFINE s == TaskStatusAt[d.pc]
    <3>1. PICK t \in Runs : t = d.task
      BY <1>1, <2>1
    <3> DEFINE x == [task[t] EXCEPT !.status = s]
    <3>2. /\ task' = [task EXCEPT ![t] = x]
          /\ highWater' = IF d.pc = "complete_task" THEN t ELSE highWater
          /\ Stored(g, Fresh("claim"))
          /\ UNCHANGED <<triggerRun, handoff, processor, route, submitted, sandboxes>>
      BY <1>18, <2>2, <3>1 DEF FinalizeTask
    <3>3. x \in TaskRecords /\ x.status = s /\ x.generation = task[t].generation
      BY <2>1 DEF TaskPart, TaskRecords, TaskStatuses, Final
    <3> HIDE DEF x, s
    <3>4. s \in Final
      BY <2>1 DEF s
    <3>5. /\ TaskPart' /\ task'[t].status = s
          /\ task'[t].generation = task[t].generation
          /\ \A r \in Runs \ {t} : task'[r] = task[r]
      BY <3>2, <3>3 DEF TaskPart
    <3>6. TaskMoves(g)
      BY <2>1, <2>2, <3>1, <3>4, <3>5 DEF TaskMoves, IsActive
    <3>7. /\ ProviderPart' /\ MarkMoves(g) /\ SubmittedMoves(g) /\ RouteMoves(g)
      BY <2>2, <3>1, <3>2, <3>4, <3>5
      DEF ProviderPart, MarkMoves, SubmittedMoves, RouteMoves
    <3>8. /\ Fresh("claim") \in DeliveryRecords /\ Fresh("claim").pc = "claim"
          /\ Onward(g, Fresh("claim"))
      BY FreshOK DEF DeliverySteps, Onward
    <3>9. PICK n : /\ Moves(g, n) /\ n.pc # "none"
                   /\ Interrupted(d, n) \/ Onward(g, n)
                   /\ mishaps' \in MishapRecords
                   /\ mishaps.lasting \subseteq mishaps'.lasting
      BY <1>11, <2>1, <3>2, <3>8
    <3> QED BY <1>2, <1>6, <3>2, <3>5, <3>6, <3>7, <3>9 DEF DeliveryEffect
  <2>3. CASE ~IsActive(d.task, g)
    BY <1>10, <1>18, <2>3 DEF FinalizeTask
  <2> QED BY <2>2, <2>3
<1>19. CASE PrepareDelivery(g)
  <2>1. d.pc = "prepare"
    BY <1>19 DEF PrepareDelivery
  <2>2. CASE GoesOn(g, At([d EXCEPT !.seen = route.sandbox], "sandbox"))
    <3> DEFINE x == [d EXCEPT !.seen = route.sandbox]
               n == At(x, "sandbox")
    <3>1. x \in DeliveryRecords /\ x.seen = route.sandbox /\ x.task = d.task
      BY <1>1 DEF DeliveryRecords, ProviderPart
    <3> HIDE DEF x
    <3>2. /\ n \in DeliveryRecords /\ n.pc = "sandbox" /\ n.seen = route.sandbox
          /\ n.task = d.task
      BY <3>1, AtOK DEF DeliverySteps, TriedSteps
    <3>3. GoesOn(g, n)
      BY <2>2 DEF x
    <3> HIDE DEF n
    <3>4. Onward(g, n)
      BY <2>1, <3>2 DEF Onward
    <3> QED BY <1>9, <1>19, <3>2, <3>3, <3>4 DEF PrepareDelivery
  <2>3. CASE Mishap("throw") /\ delivery' = [delivery EXCEPT ![g] = For(d, "fail_run")]
    <3> DEFINE n == For(d, "fail_run")
    <3>1. n \in DeliveryRecords /\ n.pc = "fail_run" /\ n.task = d.task
      BY <1>15 DEF DeliverySteps
    <3>2. Moves(g, n)
      BY <2>3, <3>1 DEF Moves
    <3> HIDE DEF n
    <3>3. Onward(g, n)
      BY <2>1, <3>1 DEF Onward
    <3>4. mishaps' \in MishapRecords /\ mishaps.lasting \subseteq mishaps'.lasting
      BY <1>7, <2>3, MishapOK
    <3> QED
      BY <1>2, <1>4, <1>5, <1>6, <1>19, <3>1, <3>2, <3>3, <3>4
      DEF PrepareDelivery, DeliveryEffect
  <2> QED BY <1>19, <2>2, <2>3 DEF PrepareDelivery
<1>20. CASE EnsureSandbox(g)
  <2> DEFINE new == sandboxes.started + 1
  <2>1. d.pc = "sandbox" /\ d.task \in Runs
    BY <1>1, <1>20 DEF EnsureSandbox, TaskSteps, TriedSteps
  <2>2. UNCHANGED <<triggerRun, handoff, task, processor, highWater, submitted>>
    BY <1>20 DEF EnsureSandbox
  <2>3. ASSUME NEW s \in 0 .. MaxSandbox
        PROVE  LET n == At([d EXCEPT !.sandbox = s, !.seen = None], "begin") IN
               /\ n \in DeliveryRecords /\ n.pc = "begin"
               /\ n.task = d.task /\ n.sandbox = s
    <3> DEFINE x == [d EXCEPT !.sandbox = s, !.seen = None]
    <3>1. x \in DeliveryRecords /\ x.task = d.task /\ x.sandbox = s
      BY <1>1, BoundFacts DEF DeliveryRecords, None
    <3> HIDE DEF x
    <3>2. LET n == At(x, "begin") IN
          /\ n \in DeliveryRecords /\ n.pc = "begin"
          /\ n.task = d.task /\ n.sandbox = s
      BY <3>1, AtOK DEF DeliverySteps, TriedSteps
    <3> QED BY <3>2 DEF x
  <2>4. CASE d.seen # None /\ d.seen \notin sandboxes.failed
    <3> DEFINE n == At([d EXCEPT !.sandbox = d.seen, !.seen = None], "begin")
    <3>1. GoesOn(g, n) /\ UNCHANGED <<route, sandboxes>>
      BY <1>20, <2>4 DEF EnsureSandbox
    <3>2. d.seen \in 0 .. MaxSandbox /\ d.seen \in 1 .. MaxSandbox
      BY <1>1, <2>4, DeliveryAssumption DEF DeliveryRecords, None
    <3>3. /\ n \in DeliveryRecords /\ n.pc = "begin"
          /\ n.task = d.task /\ n.sandbox = d.seen
      BY <2>3, <3>2
    <3> HIDE DEF n
    <3>4. Onward(g, n)
      BY <2>1, <2>4, <3>1, <3>2, <3>3 DEF Onward
    <3> QED BY <1>9, <2>2, <3>1, <3>3, <3>4
  <2>5. CASE ~(d.seen # None /\ d.seen \notin sandboxes.failed)
             /\ triggerRun[d.task] # "running"
    BY <1>10, <1>20, <2>2, <2>5 DEF EnsureSandbox
  <2>6. CASE ~(d.seen # None /\ d.seen \notin sandboxes.failed)
             /\ triggerRun[d.task] = "running"
    <3>1. /\ new <= MaxSandbox
          /\ sandboxes' = [sandboxes EXCEPT !.started = new]
      BY <1>20, <2>6 DEF EnsureSandbox
    <3>2. new \in 0 .. MaxSandbox /\ new \in 1 .. MaxSandbox
      BY <3>1, DeliveryAssumption DEF ProviderPart
    <3>3. sandboxes'.failed = sandboxes.failed
          /\ sandboxes' \in [started : 0 .. MaxSandbox, failed : SUBSET (1 .. MaxSandbox)]
      BY <3>1, <3>2 DEF ProviderPart
    <3>4. CASE /\ route' = IF d.seen # None THEN Rebound(new) ELSE route
               /\ Stored(g, At([d EXCEPT !.sandbox = new, !.seen = None], "begin"))
      <4> DEFINE next == At([d EXCEPT !.sandbox = new, !.seen = None], "begin")
      <4> HIDE DEF new
      <4>1. /\ next \in DeliveryRecords /\ next.pc = "begin"
            /\ next.task = d.task /\ next.sandbox = new
        BY <2>3, <3>2
      <4>2. Stored(g, next)
        BY <3>4
      <4> HIDE DEF next
      <4>3. Onward(g, next)
        BY <2>1, <3>2, <3>4, <4>1 DEF Onward, Rebound
      <4>4. PICK n : /\ Moves(g, n) /\ n.pc # "none"
                     /\ Interrupted(d, n) \/ Onward(g, n)
                     /\ mishaps' \in MishapRecords
                     /\ mishaps.lasting \subseteq mishaps'.lasting
        BY <1>11, <2>1, <4>1, <4>2, <4>3
      <4>5. ProviderPart' /\ MarkMoves(g) /\ SubmittedMoves(g) /\ RouteMoves(g)
        BY <2>1, <2>2, <2>6, <3>2, <3>3, <3>4
        DEF ProviderPart, MarkMoves, SubmittedMoves, RouteMoves, Rebound
      <4> QED BY <1>2, <1>4, <1>6, <2>2, <4>4, <4>5 DEF DeliveryEffect
    <3>5. CASE /\ UNCHANGED route
               /\ \/ Mishap("died") /\ UNCHANGED delivery
                  \/ Mishap("late") /\ delivery' = [delivery EXCEPT ![g] = Thrown(@)]
      <4>1. PICK n : Moves(g, n) /\ Interrupted(d, n)
        <5>1. Interrupted(d, Thrown(d))
          BY <1>1, <1>2, ThrownOK
        <5>2. Interrupted(d, d)
          BY <1>1, <2>1 DEF Interrupted
        <5>3. Moves(g, d) \/ Moves(g, Thrown(d))
          BY <1>1, <3>5, <5>1 DEF Moves, Interrupted, DeliveryPart
        <5> QED BY <5>1, <5>2, <5>3
      <4>2. mishaps' \in MishapRecords /\ mishaps.lasting \subseteq mishaps'.lasting
        BY <1>7, <3>5, MishapOK
      <4>3. ProviderPart' /\ MarkMoves(g) /\ SubmittedMoves(g) /\ RouteMoves(g)
        BY <2>2, <3>3, <3>5 DEF ProviderPart, MarkMoves, SubmittedMoves, RouteMoves
      <4> QED
        BY <1>2, <1>3, <1>4, <1>6, <2>2, <4>1, <4>2, <4>3 DEF DeliveryEffect
    <3> QED BY <1>20, <2>6, <3>4, <3>5 DEF EnsureSandbox
  <2> QED BY <2>4, <2>5, <2>6
<1>21. ASSUME NEW pc \in DeliverySteps
       PROVE  /\ At(d, pc) \in DeliveryRecords /\ At(d, pc).pc = pc
              /\ At(d, pc).task = d.task /\ At(d, pc).sandbox = d.sandbox
  BY <1>1, AtOK
<1>22. CASE BeginDelivery(g)
  <2>1. PICK t \in Runs : t = d.task
    BY <1>1, <1>22 DEF BeginDelivery, TaskSteps, TriedSteps
  <2>2. d.pc = "begin"
        /\ UNCHANGED <<triggerRun, handoff, processor, highWater, route, submitted,
                       sandboxes>>
    BY <1>22 DEF BeginDelivery
  <2>3. CASE task[t] = [status |-> "claimed", generation |-> g]
    <3> DEFINE x == [task[t] EXCEPT !.status = "delivering"]
               next == At(d, "route")
    <3>1. task' = [task EXCEPT ![t] = x] /\ Stored(g, next)
      BY <1>22, <2>1, <2>3 DEF BeginDelivery
    <3>2. x \in TaskRecords /\ x.status = "delivering" /\ x.generation = g
      BY <2>3 DEF TaskPart, TaskRecords, TaskStatuses
    <3> HIDE DEF x
    <3>3. /\ TaskPart' /\ task'[t].status = "delivering" /\ task'[t].generation = g
          /\ \A r \in Runs \ {t} : task'[r] = task[r]
      BY <3>1, <3>2 DEF TaskPart
    <3>4. TaskMoves(g)
      BY <2>1, <2>2, <2>3, <3>3 DEF TaskMoves, IsActive, Active
    <3>5. /\ next \in DeliveryRecords /\ next.pc = "route"
          /\ next.task = d.task /\ next.sandbox = d.sandbox
      BY <1>21 DEF DeliverySteps, TriedSteps
    <3> HIDE DEF next
    <3>6. Onward(g, next)
      BY <2>1, <2>2, <2>3, <3>3, <3>5 DEF Onward
    <3>7. PICK n : /\ Moves(g, n) /\ n.pc # "none"
                   /\ Interrupted(d, n) \/ Onward(g, n)
                   /\ mishaps' \in MishapRecords
                   /\ mishaps.lasting \subseteq mishaps'.lasting
      BY <1>11, <2>2, <3>1, <3>5, <3>6
    <3> QED BY <1>2, <1>5, <1>6, <2>2, <3>3, <3>4, <3>7 DEF DeliveryEffect
  <2>4. CASE task[t] # [status |-> "claimed", generation |-> g]
    BY <1>10, <1>22, <2>1, <2>4 DEF BeginDelivery
  <2> QED BY <2>3, <2>4
<1>23. CASE LoadRoute(g)
  <2>1. d.pc = "route" /\ UNCHANGED <<triggerRun, handoff, task, processor, highWater,
                                      submitted, sandboxes>>
    BY <1>23 DEF LoadRoute
  <2>2. ASSUME NEW b \in BOOLEAN
        PROVE  LET n == At([d EXCEPT !.reuse = b], "provider") IN
               /\ n \in DeliveryRecords /\ n.pc = "provider"
               /\ n.task = d.task /\ n.sandbox = d.sandbox
    <3> DEFINE x == [d EXCEPT !.reuse = b]
    <3>1. x \in DeliveryRecords /\ x.task = d.task /\ x.sandbox = d.sandbox
      BY <1>1 DEF DeliveryRecords
    <3> HIDE DEF x
    <3>2. LET n == At(x, "provider") IN
          /\ n \in DeliveryRecords /\ n.pc = "provider"
          /\ n.task = d.task /\ n.sandbox = d.sandbox
      BY <3>1, AtOK DEF DeliverySteps, TriedSteps
    <3> QED BY <3>2 DEF x
  <2>3. CASE route.sandbox = None
    <3> DEFINE next == At([d EXCEPT !.reuse = FALSE], "provider")
    <3>1. /\ route' = [sandbox |-> d.sandbox, conversation |-> FALSE]
          /\ Stored(g, next)
      BY <1>23, <2>3 DEF LoadRoute
    <3>2. /\ next \in DeliveryRecords /\ next.pc = "provider"
          /\ next.task = d.task /\ next.sandbox = d.sandbox
      BY <2>2
    <3> HIDE DEF next
    <3>3. Onward(g, next)
      BY <2>1, <3>1, <3>2 DEF Onward
    <3>4. PICK n : /\ Moves(g, n) /\ n.pc # "none"
                   /\ Interrupted(d, n) \/ Onward(g, n)
                   /\ mishaps' \in MishapRecords
                   /\ mishaps.lasting \subseteq mishaps'.lasting
      BY <1>11, <2>1, <3>1, <3>2, <3>3
    <3>5. d.sandbox \in 0 .. MaxSandbox
      BY <1>1 DEF DeliveryRecords
    <3>6. ProviderPart' /\ MarkMoves(g) /\ SubmittedMoves(g) /\ RouteMoves(g)
      BY <2>1, <2>3, <3>1, <3>5
      DEF ProviderPart, MarkMoves, SubmittedMoves, RouteMoves
    <3> QED BY <1>2, <1>4, <1>6, <2>1, <3>4, <3>6 DEF DeliveryEffect
  <2>4. CASE route.sandbox # None /\ route.sandbox = d.sandbox
    <3> DEFINE n == At([d EXCEPT !.reuse = route.conversation], "provider")
    <3>1. GoesOn(g, n) /\ UNCHANGED route
      BY <1>23, <2>4 DEF LoadRoute
    <3>2. route.conversation \in BOOLEAN
      BY DEF ProviderPart
    <3>3. /\ n \in DeliveryRecords /\ n.pc = "provider"
          /\ n.task = d.task /\ n.sandbox = d.sandbox
      BY <2>2, <3>2
    <3> HIDE DEF n
    <3>4. Onward(g, n)
      BY <2>1, <2>4, <3>1, <3>3 DEF Onward
    <3> QED BY <1>9, <2>1, <3>1, <3>3, <3>4
  <2>5. CASE route.sandbox # None /\ route.sandbox # d.sandbox
    BY <1>10, <1>23, <2>1, <2>5 DEF LoadRoute
  <2> QED BY <2>3, <2>4, <2>5
<1>24. CASE Provider(g)
  <2>1. /\ d.pc = "provider" /\ d.task \in Runs /\ d.sandbox \in 1 .. MaxSandbox
        /\ UNCHANGED <<triggerRun, handoff, task, processor, highWater, route, sandboxes>>
    BY <1>24 DEF Provider, KnownPart, TaskSteps, TriedSteps
  <2>2. CASE d.sandbox \in sandboxes.failed
    BY <1>10, <1>24, <2>1, <2>2 DEF Provider
  <2>3. CASE d.sandbox \notin sandboxes.failed
    <3> DEFINE next == At(d, "persist")
    <3>1. /\ submitted' = [submitted EXCEPT ![d.task] = @ \cup {<<g, d.sandbox>>}]
          /\ Stored(g, next)
      BY <1>24, <2>3 DEF Provider
    <3>2. /\ next \in DeliveryRecords /\ next.pc = "persist"
          /\ next.task = d.task /\ next.sandbox = d.sandbox
      BY <1>21 DEF DeliverySteps, TriedSteps
    <3> HIDE DEF next
    <3>3. Onward(g, next)
      BY <2>1, <3>2 DEF Onward
    <3>4. PICK n : /\ Moves(g, n) /\ n.pc # "none"
                   /\ Interrupted(d, n) \/ Onward(g, n)
                   /\ mishaps' \in MishapRecords
                   /\ mishaps.lasting \subseteq mishaps'.lasting
      BY <1>11, <2>1, <3>1, <3>2, <3>3
    <3>5. ProviderPart' /\ MarkMoves(g) /\ SubmittedMoves(g) /\ RouteMoves(g)
      BY <2>1, <3>1 DEF ProviderPart, MarkMoves, SubmittedMoves, RouteMoves
    <3> QED BY <1>2, <1>4, <1>6, <2>1, <3>4, <3>5 DEF DeliveryEffect
  <2> QED BY <2>2, <2>3
<1>25. CASE Persist(g)
  <2> DEFINE next == For(d, "complete_run")
  <2>1. /\ d.pc = "persist" /\ d.sandbox \in 0 .. MaxSandbox
        /\ UNCHANGED <<triggerRun, handoff, task, processor, highWater, submitted,
                       sandboxes>>
        /\ route' = IF d.reuse THEN route
                    ELSE [sandbox |-> d.sandbox, conversation |-> TRUE]
        /\ Stored(g, next)
    BY <1>1, <1>25 DEF Persist, DeliveryRecords
  <2>2. next \in DeliveryRecords /\ next.pc = "complete_run" /\ next.task = d.task
    BY <1>15 DEF DeliverySteps, TriedSteps
  <2> HIDE DEF next
  <2>3. Onward(g, next)
    BY <2>1, <2>2 DEF Onward
  <2>4. PICK n : /\ Moves(g, n) /\ n.pc # "none"
                 /\ Interrupted(d, n) \/ Onward(g, n)
                 /\ mishaps' \in MishapRecords
                 /\ mishaps.lasting \subseteq mishaps'.lasting
    BY <1>11, <2>1, <2>2, <2>3
  <2>5. ProviderPart' /\ MarkMoves(g) /\ SubmittedMoves(g) /\ RouteMoves(g)
    BY <2>1 DEF ProviderPart, MarkMoves, SubmittedMoves, RouteMoves
  <2> QED BY <1>2, <1>4, <1>6, <2>1, <2>4, <2>5 DEF DeliveryEffect
<1>26. CASE TakeTask(g)
  <2>1. /\ d.pc = "take"
        /\ UNCHANGED <<triggerRun, handoff, processor, highWater, route, submitted,
                       sandboxes>>
    BY <1>26 DEF TakeTask
  <2>2. PICK t \in Runs : t = d.task
    BY <1>1, <2>1 DEF TaskSteps
  <2>3. CASE task[t].status = "queued"
    <3> DEFINE c == [status |-> "claimed", generation |-> g]
               next == For(d, "action")
    <3>1. task' = [task EXCEPT ![t] = c] /\ Stored(g, next)
      BY <1>26, <2>2, <2>3 DEF TakeTask
    <3>2. c \in TaskRecords
      BY DEF TaskRecords, TaskStatuses, Generations
    <3>3. TaskPart' /\ TaskMoves(g) /\ task'[t].status = "claimed"
      BY <2>1, <2>2, <2>3, <3>1, <3>2 DEF TaskPart, TaskMoves
    <3>4. next \in DeliveryRecords /\ next.pc = "action" /\ next.task = t
      BY <2>2, ForOK DEF DeliverySteps
    <3> HIDE DEF next
    <3>5. Onward(g, next)
      BY <3>3, <3>4 DEF Onward
    <3>6. PICK n : /\ Moves(g, n) /\ n.pc # "none"
                   /\ Interrupted(d, n) \/ Onward(g, n)
                   /\ mishaps' \in MishapRecords
                   /\ mishaps.lasting \subseteq mishaps'.lasting
      BY <1>11, <2>1, <3>1, <3>4, <3>5
    <3> QED BY <1>2, <1>5, <1>6, <2>1, <3>3, <3>6 DEF DeliveryEffect
  <2>4. CASE task[t].status # "queued"
    <3>1. Fresh("check") \in DeliveryRecords /\ Fresh("check").pc = "check"
      BY FreshOK DEF DeliverySteps
    <3>2. Onward(g, Fresh("check"))
      BY <3>1 DEF Onward
    <3>3. GoesOn(g, Fresh("check")) /\ UNCHANGED task
      BY <1>26, <2>2, <2>4 DEF TakeTask
    <3> QED BY <1>9, <2>1, <3>1, <3>2, <3>3
  <2> QED BY <2>3, <2>4
<1> QED
  BY <1>8, <1>12, <1>13, <1>14, <1>16, <1>17, <1>18, <1>19, <1>20, <1>22, <1>23,
     <1>24, <1>25, <1>26
  DEF DeliveryStep

\* What the rest of this section has in common: run g takes a step, and the other
\* runs stay where they are.
LEMMA OneRunMoves ==
  ASSUME TypeOK, NEW g \in Generations, NEW n, DeliveryEffect(g, n)
  PROVE  /\ delivery'[g] = n /\ n \in DeliveryRecords
         /\ \A h \in Generations \ {g} : delivery'[h] = delivery[h]
         /\ DeliveryPart'
  BY TypeParts DEF DeliveryEffect, Moves, DeliveryPart

\* A delivery run that has a task keeps to one that exists.
LEMMA DeliveryKnown ==
  ASSUME TypeOK, KnownPart, NEW g \in Generations, NEW n, DeliveryEffect(g, n)
  PROVE  KnownPart'
<1> USE DEF TaskSteps, TriedSteps
<1>1. n.pc \in TaskSteps => n.task \in Runs
  BY DEF KnownPart, DeliveryEffect, Interrupted, Onward, Selects, RunStatusAt,
         TaskStepAfter
<1>2. n.pc \in {"begin", "route", "provider", "persist"} => n.sandbox \in 1 .. MaxSandbox
  BY DEF KnownPart, DeliveryEffect, Interrupted, Onward, RunStatusAt, TaskStepAfter
<1> QED BY <1>1, <1>2, OneRunMoves DEF KnownPart

\* A claim is not taken over, and a delivery that was begun is not begun again.
LEMMA DeliverySubmits ==
  ASSUME TypeOK, KnownPart, SubmitPart,
         NEW g \in Generations, NEW n, DeliveryEffect(g, n)
  PROVE  SubmitPart'
<1> DEFINE d == delivery[g]
           P(h, pc, t, s) ==
             /\ task[t].status = "delivering" /\ task[t].generation = h
             /\ submitted[t] \subseteq IF pc = "route" THEN {} ELSE {<<h, s>>}
           S(r, x) == /\ task[r].status \in {"delivering"} \cup Final
                      /\ task[r].generation = x[1]
<1> USE TypeParts
<1>1. ASSUME NEW h \in Generations, delivery[h].pc \in {"route", "provider"}
      PROVE  /\ delivery[h].task \in Runs
             /\ P(h, delivery[h].pc, delivery[h].task, delivery[h].sandbox)
  BY <1>1 DEF SubmitPart, KnownPart, TaskSteps, TriedSteps
<1>2. ASSUME NEW r \in Runs, NEW x \in submitted[r] PROVE S(r, x)
  BY DEF SubmitPart
<1>3. ASSUME NEW r \in Runs, submitted'[r] # submitted[r]
      PROVE  /\ d.pc = "provider" /\ r = d.task
             /\ submitted'[r] = submitted[r] \cup {<<g, d.sandbox>>}
  BY <1>3 DEF DeliveryEffect, SubmittedMoves, ProviderPart
<1>4. ASSUME NEW h \in Generations, h # g, delivery'[h].pc \in {"route", "provider"}
      PROVE  P(h, delivery[h].pc, delivery[h].task, delivery[h].sandbox)'
  <2>1. delivery'[h] = delivery[h]
    BY <1>4, OneRunMoves
  <2>2. PICK t \in Runs : t = delivery[h].task
    BY <1>1, <1>4, <2>1
  <2>3. P(h, delivery[h].pc, t, delivery[h].sandbox)
    BY <1>1, <1>4, <2>1, <2>2
  <2>4. task'[t] = task[t]
    BY <1>4, <2>3 DEF DeliveryEffect, TaskMoves, IsActive
  <2>5. submitted'[t] = submitted[t]
    BY <1>1, <1>3, <1>4, <2>3
  <2> QED BY <2>1, <2>2, <2>3, <2>4, <2>5
<1>5. ASSUME n.pc \in {"route", "provider"}
      PROVE  P(g, delivery[g].pc, delivery[g].task, delivery[g].sandbox)'
  <2>1. delivery'[g] = n
    BY OneRunMoves
  <2>2. CASE d.pc \in {"route", "provider"}
    <3>1. PICK t \in Runs : t = d.task
      BY <1>1, <2>2
    <3>2. n.task = t /\ n.sandbox = d.sandbox
      BY <1>5, <2>2, <3>1
      DEF DeliveryEffect, Interrupted, Onward, RunStatusAt, TaskStepAfter
    <3>3. n.pc = "route" => d.pc = "route"
      BY <1>5, <2>2
      DEF DeliveryEffect, Interrupted, Onward, RunStatusAt, TaskStepAfter
    <3>4. P(g, d.pc, t, d.sandbox)
      BY <1>1, <2>2, <3>1
    <3>5. task'[t] = task[t]
      BY <2>2, <3>4 DEF DeliveryEffect, TaskMoves, IsActive, TaskStatusAt
    <3>6. submitted'[t] \subseteq IF n.pc = "route" THEN {} ELSE {<<g, d.sandbox>>}
      BY <1>3, <1>5, <2>2, <3>3, <3>4
    <3> QED BY <2>1, <3>2, <3>4, <3>5, <3>6
  <2>3. CASE d.pc \notin {"route", "provider"}
    <3>1. /\ d.pc = "begin" /\ n.pc = "route" /\ n.task = d.task
          /\ task[d.task].status = "claimed"
          /\ task'[d.task].status = "delivering" /\ task'[d.task].generation = g
      BY <1>5, <2>3
      DEF DeliveryEffect, Interrupted, Onward, RunStatusAt, TaskStepAfter
    <3>2. PICK t \in Runs : t = d.task
      BY <3>1 DEF KnownPart, TaskSteps, TriedSteps
    <3>3. submitted'[t] = submitted[t]
      BY <1>3, <3>1
    <3>4. submitted[t] = {}
      BY <1>2, <3>1, <3>2 DEF Final
    <3> QED BY <2>1, <3>1, <3>2, <3>3, <3>4
  <2> QED BY <2>2, <2>3
<1>6. ASSUME NEW r \in Runs, NEW x \in submitted'[r]
      PROVE  S(r, x)' /\ \A y \in submitted'[r] : x = y
  <2>1. CASE submitted'[r] = submitted[r]
    <3>1. S(r, x) /\ \A y \in submitted[r] : x = y
      BY <1>6, <2>1 DEF SubmitPart
    <3>2. S(r, x)'
      BY <3>1 DEF DeliveryEffect, TaskMoves, IsActive, Final
    <3> QED BY <2>1, <3>1, <3>2
  <2>2. CASE submitted'[r] # submitted[r]
    <3>1. /\ d.pc = "provider" /\ r = d.task
          /\ submitted'[r] = submitted[r] \cup {<<g, d.sandbox>>}
      BY <1>3, <2>2
    <3>2. /\ task[r].status = "delivering" /\ task[r].generation = g
          /\ submitted[r] \subseteq {<<g, d.sandbox>>}
      BY <1>1, <3>1
    <3>3. x = <<g, d.sandbox>> /\ \A y \in submitted'[r] : x = y
      BY <1>6, <3>1, <3>2
    <3>4. task'[r] = task[r]
      BY <3>1, <3>2 DEF DeliveryEffect, TaskMoves, IsActive, TaskStatusAt
    <3> QED BY <3>2, <3>3, <3>4
  <2> QED BY <2>1, <2>2
<1>7. \A h \in Generations : delivery'[h].pc \in {"route", "provider"} =>
        P(h, delivery[h].pc, delivery[h].task, delivery[h].sandbox)'
  BY <1>4, <1>5, OneRunMoves
<1> QED BY <1>6, <1>7 DEF SubmitPart

\* A task that a delivery run finishes has its trigger run finished too, or
\* somebody on the way to do so.
LEMMA DeliveryFinishes ==
  ASSUME TypeOK, KnownPart, FinishPart,
         NEW g \in Generations, NEW n, DeliveryEffect(g, n)
  PROVE  FinishPart'
<1> DEFINE d == delivery[g]
<1> USE TypeParts
<1>1. ASSUME NEW r \in Runs
      PROVE  /\ triggerRun[r] # "queued" => triggerRun'[r] # "queued"
             /\ triggerRun[r] \in TerminalRun => triggerRun'[r] \in TerminalRun
  BY DEF DeliveryEffect, RunMoves, Finished, RowPart, RunStatusAt, TerminalRun
<1>2. ASSUME NEW r \in Runs
      PROVE  task[r].status # "none" <=> task'[r].status # "none"
  BY DEF DeliveryEffect, TaskMoves, IsActive, Active, Final
<1>3. ASSUME NEW r \in Runs, task'[r].status \in Final
      PROVE  triggerRun'[r] \in TerminalRun
  <2>1. CASE task'[r] = task[r]
    BY <1>1, <1>3, <2>1 DEF FinishPart
  <2>2. CASE task'[r] # task[r]
    <3>1. r = d.task /\ d.pc \in {"ignore_task", "complete_task", "fail_task"}
      BY <1>3, <2>2 DEF DeliveryEffect, TaskMoves, TaskStatusAt, Final
    <3> QED BY <1>1, <3>1 DEF FinishPart
  <2> QED BY <2>1, <2>2
<1>4. ASSUME n.pc \in TaskSteps PROVE task'[n.task].status # "none"
  <2>1. CASE n.task = d.task /\ d.pc \in TaskSteps
    <3>1. d.task \in Runs /\ task[d.task].status # "none"
      BY <2>1 DEF FinishPart, KnownPart
    <3> QED BY <1>2, <2>1, <3>1
  <2>2. CASE task'[n.task].status # "none"
    BY <2>2
  <2> QED
    BY <1>4, <2>1, <2>2
    DEF DeliveryEffect, Interrupted, Onward, Selects, TaskSteps, TriedSteps,
        RunStatusAt, TaskStepAfter
<1>5. ASSUME n.pc \in {"ignore_task", "complete_task", "fail_task"}
      PROVE  triggerRun'[n.task] \in TerminalRun
  <2>1. CASE n.task = d.task /\ d.pc \in {"ignore_task", "complete_task", "fail_task"}
    <3>1. d.task \in Runs /\ triggerRun[d.task] \in TerminalRun
      BY <2>1 DEF FinishPart, KnownPart, TaskSteps, TriedSteps
    <3> QED BY <1>1, <2>1, <3>1
  <2>2. CASE /\ n.task = d.task /\ d.pc \in DOMAIN RunStatusAt
             /\ triggerRun' = Finished(d.task, RunStatusAt[d.pc])
    <3>1. d.pc \in TaskSteps
      BY <2>2 DEF RunStatusAt, TaskSteps, TriedSteps
    <3>2. d.task \in Runs /\ triggerRun[d.task] # "queued"
      BY <3>1 DEF FinishPart, KnownPart
    <3> QED
      BY <2>2, <3>2 DEF Finished, RowPart, RunStatuses, RunStatusAt, TerminalRun
  <2> QED
    BY <1>5, <2>1, <2>2 DEF DeliveryEffect, Interrupted, Onward
<1>6. handoff' = handoff
  BY DEF DeliveryEffect
<1>7. ASSUME NEW h \in Generations, h # g
      PROVE  /\ delivery'[h].pc \in TaskSteps => task'[delivery'[h].task].status # "none"
             /\ delivery'[h].pc \in {"ignore_task", "complete_task", "fail_task"} =>
                  triggerRun'[delivery'[h].task] \in TerminalRun
  <2>1. delivery'[h] = delivery[h]
    BY <1>7, OneRunMoves
  <2> QED
    BY <1>1, <1>2, <2>1 DEF FinishPart, KnownPart, TaskSteps, TriedSteps
<1> QED BY <1>1, <1>2, <1>3, <1>4, <1>5, <1>6, <1>7, OneRunMoves DEF FinishPart

\* A step of a delivery run leaves the generations consistent.
LEMMA DeliveryGeneration ==
  ASSUME TypeOK, GenerationPart, NEW g \in Generations, NEW n, DeliveryEffect(g, n)
  PROVE  GenerationPart'
<1>1. /\ processor'.generation = processor.generation
      /\ processor'.status = "running" => processor.status = "running"
  BY DEF DeliveryEffect, ProcessorMoves
<1>2. \A h \in Generations : delivery[h].pc = "none" => delivery'[h].pc = "none"
  BY OneRunMoves DEF DeliveryEffect, Live
<1> QED BY <1>1, <1>2 DEF DeliveryEffect, GenerationPart, Starting

\* In good order the run that takes a step is the only one that has not ended, its
\* generation is the row's, and nobody is starting another.
LEMMA Alone ==
  ASSUME OneLive, OneStart, GenerationPart, NEW g \in Generations, Live(g)
  PROVE  /\ IdleFor(g)
         /\ \A h \in Generations \ {g} : ~Live(h)
         /\ \A r \in Runs : ~Starting(r)
<1>1. IdleFor(g)
  BY DEF OneLive
<1>2. \A h \in Generations \ {g} : ~Live(h)
  BY <1>1 DEF OneLive, IdleFor
<1>3. ASSUME NEW r \in Runs, Starting(r) PROVE FALSE
  <2>1. handoff[r].generation = g
    BY <1>1, <1>3 DEF OneStart, IdleFor
  <2> QED BY <1>3, <2>1 DEF OneStart, Live
<1> QED BY <1>1, <1>2, <1>3

\* A step of a delivery run keeps one processor, serving one claim, in source
\* order.
LEMMA DeliveryOrder ==
  ASSUME TypeOK, KnownPart, GenerationPart, OrderPart,
         NEW g \in Generations, NEW n, DeliveryEffect(g, n)
  PROVE  OrderPart'
<1> DEFINE d == delivery[g]
<1> USE TypeParts
<1> SUFFICES ASSUME Orderly'
             PROVE  /\ OneStart' /\ OneLive' /\ ClaimIsServed' /\ HandsFree'
                    /\ AheadOfMark' /\ RoutePart'
  BY DEF OrderPart
<1>1. OneStart /\ OneLive /\ ClaimIsServed /\ HandsFree /\ AheadOfMark /\ RoutePart
  BY DEF DeliveryEffect, Orderly, OrderPart
<1>2. /\ IdleFor(g) /\ Live(g) /\ d.pc \notin NoSteps
      /\ \A h \in Generations \ {g} : ~Live(h)
      /\ \A r \in Runs : ~Starting(r)
  BY <1>1, Alone DEF DeliveryEffect, Live, NoSteps
<1>3. \A h \in Generations \ {g} : delivery'[h].pc \in NoSteps
  BY <1>2, OneRunMoves DEF Live, NoSteps
<1>4. delivery'[g] = n /\ n.pc # "none"
  BY OneRunMoves DEF DeliveryEffect
<1>5. processor' = processor \/ (n.pc = "returned" /\ d.pc = "set_idle")
  <2>1. "idle_lost" \notin mishaps'.lasting
    BY DEF Orderly
  <2> QED BY <2>1 DEF DeliveryEffect, ProcessorMoves
<1>6. processor' = processor => IdleFor(g)'
  BY <1>2 DEF IdleFor
<1>7. OneStart'
  BY <1>2 DEF OneStart, DeliveryEffect, Starting
<1>8. OneLive'
  BY <1>3, <1>4, <1>5, <1>6 DEF OneLive, Live, NoSteps
<1>9. ClaimIsServed'
  <2> SUFFICES ASSUME NEW r \in Runs, task'[r].status \in Active
               PROVE  \E h \in Generations : /\ task'[r].generation = h
                                             /\ IdleFor(h)' /\ delivery'[h].pc # "none"
    BY DEF ClaimIsServed
  <2>1. task'[r].generation = g
    <3>1. task[r].status \in Active => task[r].generation = g
      BY <1>1, <1>2 DEF ClaimIsServed, IdleFor
    <3> QED BY <3>1 DEF DeliveryEffect, TaskMoves
  <2>2. processor' = processor
    <3>1. CASE d.pc = "set_idle"
      <4>1. task'[r] = task[r]
        BY <3>1 DEF DeliveryEffect, TaskMoves, TaskStatusAt
      <4>2. task[r].status \notin Active
        BY <1>1, <3>1 DEF HandsFree
      <4> QED BY <4>1, <4>2
    <3> QED BY <1>5, <3>1
  <2> QED BY <1>4, <1>6, <2>1, <2>2
<1>10. HandsFree'
  <2> SUFFICES ASSUME NEW h \in Generations, delivery'[h].pc \in {"take", "set_idle"}
               PROVE  \A r \in Runs : task'[r].status \notin Active
    BY DEF HandsFree
  <2>1. n.pc \in {"take", "set_idle"}
    BY <1>3, <1>4 DEF NoSteps
  <2>2. CASE n.pc = "set_idle"
    BY <2>2
    DEF DeliveryEffect, Interrupted, Onward, RunStatusAt, TaskStepAfter, Unfinished
  <2>3. CASE n.pc = "take"
    <3>1. Selects(g, n.task)
      BY <2>3 DEF DeliveryEffect, Interrupted, Onward, RunStatusAt, TaskStepAfter
    <3> QED BY <1>1, <1>2, <3>1 DEF Selects, ClaimIsServed, IdleFor, IsActive
  <2> QED BY <2>1, <2>2, <2>3
<1>11. AheadOfMark'
  <2> SUFFICES ASSUME n.pc \in TriedSteps,
                      n.pc = "complete_task" =>
                        task'[n.task].status \in Active /\ task'[n.task].generation = g
               PROVE  n.task > highWater'
    BY <1>3, <1>4 DEF AheadOfMark, IsActive, NoSteps, TriedSteps
  <2>1. CASE n.task = d.task /\ d.pc \in TriedSteps \ {"complete_task"}
    <3>1. highWater' = highWater
      BY <2>1 DEF DeliveryEffect, MarkMoves
    <3> QED BY <1>1, <2>1, <3>1 DEF AheadOfMark
  <2>2. CASE n.task = d.task /\ d.pc = "complete_task" /\ n.pc = "complete_task"
    <3>1. PICK t \in Runs : t = d.task
      BY <2>2 DEF KnownPart, TaskSteps, TriedSteps
    <3>2. task'[t].status \in Active /\ task'[t].generation = g
      BY <2>2, <3>1
    <3>3. IsActive(t, g)
      BY <2>2, <3>2 DEF DeliveryEffect, TaskMoves, IsActive
    <3>4. highWater' = highWater
      BY <3>1, <3>2 DEF DeliveryEffect, MarkMoves, Active, Final
    <3> QED BY <1>1, <2>2, <3>1, <3>3, <3>4 DEF AheadOfMark, TriedSteps
  <2>3. CASE d.pc = "action" /\ n.pc = "prepare" /\ n.task > highWater
    BY <2>3 DEF DeliveryEffect, MarkMoves
  <2> QED
    BY <2>1, <2>2, <2>3
    DEF DeliveryEffect, Interrupted, Onward, TriedSteps, RunStatusAt, TaskStepAfter
<1>12. RoutePart'
  <2>1. sandboxes'.failed = sandboxes.failed /\ None \notin sandboxes.failed
    BY DEF DeliveryEffect, RouteMoves, ProviderPart, None
  <2>2. n.pc = "sandbox" =>
          n.seen = route'.sandbox \/ n.seen \in sandboxes'.failed
    BY <1>1, <2>1
    DEF RoutePart, DeliveryEffect, Interrupted, Onward, RouteMoves, RunStatusAt,
        TaskStepAfter
  <2>3. n.pc = "begin" => route'.sandbox \in {None, n.sandbox}
    BY <1>1, <2>1
    DEF RoutePart, DeliveryEffect, Interrupted, Onward, RouteMoves, RunStatusAt,
        TaskStepAfter
  <2>4. n.pc = "route" => route'.sandbox \in {None, n.sandbox}
    BY <1>1, <2>1
    DEF RoutePart, DeliveryEffect, Interrupted, Onward, RouteMoves, RunStatusAt,
        TaskStepAfter
  <2>5. n.pc \in {"provider", "persist"} => route'.sandbox = n.sandbox
    BY <1>1, <2>1
    DEF RoutePart, DeliveryEffect, Interrupted, Onward, RouteMoves, RunStatusAt,
        TaskStepAfter
  <2> QED BY <1>3, <1>4, <2>2, <2>3, <2>4, <2>5 DEF RoutePart, NoSteps
<1> QED BY <1>7, <1>8, <1>9, <1>10, <1>11, <1>12

\* A run that ends has made the row idle, or has failed.
LEMMA DeliveryServes ==
  ASSUME TypeOK, GenerationPart, RunningIsServed,
         NEW g \in Generations, NEW n, DeliveryEffect(g, n)
  PROVE  RunningIsServed'
<1> SUFFICES ASSUME processor'.status = "running" PROVE RunningIsServed'
  BY DEF RunningIsServed
<1>1. processor' = processor
  BY DEF DeliveryEffect, ProcessorMoves
<1>2. PICK p \in Generations : p = processor.generation
  BY <1>1 DEF GenerationPart
<1>3. \/ Live(p) \/ delivery[p].pc = "failed"
      \/ \E r \in Runs : /\ handoff[r].pc \in {"start", "set_idle"}
                        /\ handoff[r].generation = p
      \/ mishaps.lasting # {}
  BY <1>1, <1>2 DEF RunningIsServed
<1>4. CASE p = g
  <2>1. IdleFor(p)'
    BY <1>1, <1>2 DEF IdleFor
  <2>2. n.pc \notin {"none", "returned"}
    BY <1>4, <2>1
    DEF DeliveryEffect, Interrupted, Onward, RunStatusAt, TaskStepAfter, Live
  <2>3. Live(p)' \/ delivery'[p].pc = "failed"
    BY <1>4, <2>2, OneRunMoves DEF Live
  <2> QED BY <1>1, <1>2, <2>3 DEF RunningIsServed
<1>5. CASE p # g
  <2>1. delivery'[p] = delivery[p]
    BY <1>5, OneRunMoves
  <2> QED BY <1>1, <1>2, <1>3, <2>1 DEF RunningIsServed, DeliveryEffect, Live
<1> QED BY <1>4, <1>5

\* A step of a delivery run preserves the invariant.
LEMMA DeliveryInv ==
  ASSUME Inv, NEW g \in Generations, DeliveryStep(g) \/ CallThrows(g)
  PROVE  Inv'
<1>1. /\ \E n : DeliveryEffect(g, n)
      /\ TaskPart' /\ RowPart' /\ ProviderPart'
  BY DeliveryEffectOK DEF Inv
<1>2. PICK n : DeliveryEffect(g, n)
  BY <1>1
<1>3. TypeOK'
  BY <1>1, <1>2, OneRunMoves, TypeParts DEF Inv, DeliveryEffect, HandoffPart
<1> QED
  BY <1>2, <1>3, DeliveryKnown, DeliverySubmits, DeliveryFinishes,
     DeliveryGeneration, DeliveryOrder, DeliveryServes
  DEF Inv

-----------------------------------------------------------------------------
(* What a step of a trigger run's workflow does. *)

\* It concerns its own trigger run, may enqueue the task, and touches nothing that
\* only a delivery changes.
HandoffEffect(r) ==
  /\ \A s \in Runs \ {r} : /\ handoff'[s] = handoff[s] /\ task'[s] = task[s]
                           /\ triggerRun'[s] = triggerRun[s]
  /\ \/ task'[r] = task[r]
     \/ /\ handoff[r].pc = "enqueue"
        /\ task[r].status = "none" /\ task'[r].status = "queued"
  /\ \/ /\ triggerRun'[r] = triggerRun[r]
        /\ handoff[r].pc # "transition" \/ triggerRun[r] # "queued"
     \/ triggerRun[r] = "queued" /\ triggerRun'[r] = "running"
     \/ triggerRun[r] = "running" /\ triggerRun'[r] = "failed"
  /\ UNCHANGED <<highWater, route, submitted, sandboxes>>
  /\ mishaps.lasting \subseteq mishaps'.lasting

\* It has nothing to do with starting a run, or the start goes on being tried, or
\* is abandoned.
Quiet(r) ==
  /\ delivery' = delivery /\ processor' = processor
  /\ Starting(r)' => Starting(r) /\ handoff'[r].generation = handoff[r].generation
  /\ Starting(r) => Starting(r)' \/ mishaps'.lasting # {}

\* It makes the row running and is about to start the run.
Launches(r) ==
  /\ processor.status # "running"
  /\ processor'.status = "running"
  /\ processor'.generation = processor.generation + 1
  /\ processor.generation + 1 \in Generations
  /\ Starting(r)' /\ handoff'[r].generation = processor.generation + 1
  /\ delivery' = delivery

\* The run is created, and the step says so or not.
Creates(r) ==
  /\ Starting(r) /\ processor' = processor
  /\ delivery' = RunOf(handoff[r].generation)
  /\ \/ ~Starting(r)'
     \/ /\ Starting(r)' /\ handoff'[r].generation = handoff[r].generation
        /\ "unacknowledged" \in mishaps'.lasting

\* The start is undone.
Undoes(r) ==
  /\ Starting(r) /\ ~Starting(r)'
  /\ processor'.generation = processor.generation
  /\ processor'.status = IF IdleFor(handoff[r].generation) THEN "idle"
                         ELSE processor.status
  /\ delivery' = delivery

\* runWorkflow creates the run of a generation unless it is there.
LEMMA RunOfOK ==
  ASSUME DeliveryPart, NEW g \in 0 .. MaxGeneration
  PROVE  /\ RunOf(g) \in [Generations -> DeliveryRecords]
         /\ \A h \in Generations :
              RunOf(g)[h] = IF h = g /\ delivery[h].pc = "none"
                            THEN Fresh("claim") ELSE delivery[h]
<1>1. Fresh("claim") \in DeliveryRecords
  BY FreshOK DEF DeliverySteps
<1>2. CASE g \in Generations
  BY <1>1, <1>2 DEF RunOf, DeliveryPart
<1>3. CASE g \notin Generations
  <2>1. RunOf(g) = delivery
    BY <1>3 DEF RunOf, DeliveryPart
  <2> QED BY <1>3, <2>1 DEF DeliveryPart
<1> QED BY <1>2, <1>3

\* Creating the run of a generation touches no run that exists.
LEMMA CreatesOK ==
  ASSUME TypeOK, NEW r \in Runs, Creates(r) \/ delivery' = delivery
  PROVE  /\ DeliveryPart'
         /\ \A h \in Generations :
              \/ delivery'[h] = delivery[h]
              \/ /\ Creates(r) /\ h = handoff[r].generation
                 /\ delivery[h].pc = "none" /\ delivery'[h].pc = "claim"
<1> USE TypeParts
<1>1. handoff[r].generation \in 0 .. MaxGeneration
  BY DEF HandoffPart, HandoffRecords
<1>2. Fresh("claim").pc = "claim"
  BY DEF Fresh
<1> QED BY <1>1, <1>2, RunOfOK DEF Creates, DeliveryPart

\* Marking a trigger run failed changes a running one only, and no other.
LEMMA FinishedOK ==
  ASSUME triggerRun \in [Runs -> RunStatuses], NEW r \in Runs,
         triggerRun' = Finished(r, "failed")
  PROVE  /\ triggerRun' \in [Runs -> RunStatuses]
         /\ triggerRun'[r] = IF triggerRun[r] = "running" THEN "failed" ELSE triggerRun[r]
         /\ \A s \in Runs \ {r} : triggerRun'[s] = triggerRun[s]
  BY DEF Finished, RunStatuses

\* Whatever a trigger run does falls under one of four effects: on the
\* processor none, launching it, creating its delivery run, or undoing the
\* launch.
LEMMA HandoffEffectOK ==
  ASSUME TypeOK, NEW r \in Runs, HandoffStep(r) \/ HandoffMishap(r)
  PROVE  /\ HandoffEffect(r)
         /\ Quiet(r) \/ Launches(r) \/ Creates(r) \/ Undoes(r)
         /\ handoff'[r].pc # "transition"
         /\ HandoffPart' /\ TaskPart' /\ RowPart'
<1> USE TypeParts
<1> USE DEF HandoffSteps, providerVars
<1>0. mishaps \in MishapRecords
  BY DEF RowPart
<1>1. CASE TransitionToRunning(r)
  <2> DEFINE pc == IF triggerRun[r] \in TerminalRun THEN "done" ELSE "prepare"
  <2>1. Goto(r, pc)
    BY <1>1 DEF TransitionToRunning
  <2>2. /\ HandoffPart' /\ handoff'[r].pc = pc
        /\ \A s \in Runs \ {r} : handoff'[s] = handoff[s]
    BY <2>1, GotoOK DEF HandoffPart
  <2>3. HandoffEffect(r)
    BY <1>1, <2>2 DEF TransitionToRunning, HandoffEffect, RowPart
  <2>4. Quiet(r)
    BY <1>1, <2>2 DEF TransitionToRunning, Quiet, Starting
  <2>5. TaskPart' /\ RowPart'
    BY <1>1 DEF TransitionToRunning, TaskPart, RowPart, RunStatuses
  <2> QED BY <2>2, <2>3, <2>4, <2>5
<1>2. CASE PrepareRun(r)
  <2> DEFINE x == [handoff[r] EXCEPT !.pc = "enqueue", !.retry = "enqueue",
                                     !.tries = Attempts]
  <2>1. x \in HandoffRecords /\ x.pc = "enqueue"
    BY BoundFacts DEF HandoffPart, HandoffRecords
  <2>2. handoff' = [handoff EXCEPT ![r] = x]
    BY <1>2 DEF PrepareRun, HandoffPart
  <2> HIDE DEF x
  <2>3. /\ HandoffPart' /\ handoff'[r].pc = "enqueue"
        /\ \A s \in Runs \ {r} : handoff'[s] = handoff[s]
    BY <2>1, <2>2 DEF HandoffPart
  <2>4. HandoffEffect(r) /\ Quiet(r)
    BY <1>2, <2>3 DEF PrepareRun, HandoffEffect, Quiet, Starting
  <2> QED BY <1>2, <2>3, <2>4 DEF PrepareRun, TaskPart, RowPart
<1>3. CASE Enqueue(r)
  <2> DEFINE x == [task[r] EXCEPT !.status = IF task[r].status = "none" THEN "queued"
                                             ELSE task[r].status]
  <2>1. /\ x \in TaskRecords
        /\ x.status = IF task[r].status = "none" THEN "queued" ELSE task[r].status
        /\ task[r].status # "none" => x = task[r]
    BY DEF TaskPart, TaskRecords, TaskStatuses
  <2>2. task' = [task EXCEPT ![r] = x] /\ Goto(r, "ensure")
    BY <1>3 DEF Enqueue
  <2> HIDE DEF x
  <2>3. /\ HandoffPart' /\ handoff'[r].pc = "ensure"
        /\ \A s \in Runs \ {r} : handoff'[s] = handoff[s]
    BY <2>2, GotoOK DEF HandoffPart
  <2>4. TaskPart' /\ RowPart'
    BY <1>3, <2>1, <2>2 DEF Enqueue, TaskPart, RowPart
  <2>5. HandoffEffect(r) /\ Quiet(r)
    BY <1>3, <2>1, <2>2, <2>3 DEF Enqueue, HandoffEffect, Quiet, Starting, TaskPart
  <2> QED BY <2>3, <2>4, <2>5
<1>4. CASE EnsureProcessor(r)
  <2>0. UNCHANGED <<triggerRun, task, delivery, highWater, route, submitted, sandboxes,
                    mishaps>>
        /\ handoff[r].pc = "ensure"
    BY <1>4 DEF EnsureProcessor
  <2>1. CASE processor.status = "running"
    <3>1. Goto(r, "done") /\ UNCHANGED processor
      BY <1>4, <2>1 DEF EnsureProcessor
    <3>2. /\ HandoffPart' /\ handoff'[r].pc = "done"
          /\ \A s \in Runs \ {r} : handoff'[s] = handoff[s]
      BY <3>1, GotoOK DEF HandoffPart
    <3> QED
      BY <2>0, <3>1, <3>2 DEF HandoffEffect, Quiet, Starting, TaskPart, RowPart
  <2>2. CASE processor.status # "running"
    <3> DEFINE m == processor.generation + 1
               x == [handoff[r] EXCEPT !.pc = "start", !.generation = m]
    <3>1. m \in Generations /\ m \in 0 .. MaxGeneration
      BY <1>4, <2>2, DeliveryAssumption
      DEF EnsureProcessor, RowPart, ProcessorRecords, Generations
    <3>2. x \in HandoffRecords /\ x.pc = "start" /\ x.generation = m
      BY <3>1 DEF HandoffPart, HandoffRecords
    <3>3. /\ handoff' = [handoff EXCEPT ![r] = x]
          /\ processor' = [status |-> "running", generation |-> m]
      BY <1>4, <2>2 DEF EnsureProcessor, HandoffPart
    <3> HIDE DEF x
    <3>4. /\ HandoffPart' /\ handoff'[r].pc = "start" /\ handoff'[r].generation = m
          /\ \A s \in Runs \ {r} : handoff'[s] = handoff[s]
      BY <3>2, <3>3 DEF HandoffPart
    <3>5. HandoffEffect(r)
      BY <2>0, <3>4 DEF HandoffEffect
    <3>6. Launches(r)
      BY <2>0, <2>2, <3>1, <3>3, <3>4 DEF Launches, Starting
    <3>7. TaskPart' /\ RowPart'
      BY <2>0, <3>1, <3>3 DEF TaskPart, RowPart, ProcessorRecords
    <3> QED BY <3>4, <3>5, <3>6, <3>7
  <2> QED BY <2>1, <2>2
<1>5. CASE StartProcessor(r)
  <2>1. /\ HandoffPart' /\ handoff'[r].pc = "done"
        /\ \A s \in Runs \ {r} : handoff'[s] = handoff[s]
    BY <1>5, GotoOK DEF StartProcessor, HandoffPart
  <2>2. HandoffEffect(r) /\ Creates(r)
    BY <1>5, <2>1 DEF StartProcessor, HandoffEffect, Creates, Starting
  <2> QED BY <1>5, <2>1, <2>2 DEF StartProcessor, TaskPart, RowPart
<1>6. CASE StartFails(r)
  <2>1. /\ HandoffPart' /\ handoff'[r].pc = "set_idle"
        /\ handoff'[r].generation = handoff[r].generation
        /\ \A s \in Runs \ {r} : handoff'[s] = handoff[s]
    BY <1>6, GotoOK DEF StartFails, HandoffPart
  <2>2. mishaps' \in MishapRecords /\ mishaps.lasting \subseteq mishaps'.lasting
    BY <1>0, <1>6, MishapOK DEF StartFails
  <2>3. HandoffEffect(r) /\ TaskPart' /\ RowPart'
    BY <1>6, <2>1, <2>2 DEF StartFails, HandoffEffect, TaskPart, RowPart
  <2>4. CASE Mishap("throw") /\ UNCHANGED delivery
    BY <1>6, <2>1, <2>3, <2>4 DEF StartFails, Quiet, Starting
  <2>5. CASE Mishap("unacknowledged") /\ delivery' = RunOf(handoff[r].generation)
    <3>1. "unacknowledged" \in mishaps'.lasting
      BY <1>0, <2>5, MishapOK DEF Lasting
    <3> QED BY <1>6, <2>1, <2>3, <2>5, <3>1 DEF StartFails, Creates, Starting
  <2> QED BY <1>6, <2>4, <2>5 DEF StartFails
<1>7. CASE UndoStart(r)
  <2>1. /\ HandoffPart' /\ handoff'[r].pc = "mark_failed"
        /\ \A s \in Runs \ {r} : handoff'[s] = handoff[s]
    BY <1>7, GotoOK DEF UndoStart, HandoffPart
  <2>2. /\ processor' \in ProcessorRecords
        /\ processor'.generation = processor.generation
        /\ processor'.status = IF IdleFor(handoff[r].generation) THEN "idle"
                               ELSE processor.status
    BY <1>7 DEF UndoStart, RowPart, ProcessorRecords
  <2>3. HandoffEffect(r) /\ Undoes(r)
    BY <1>7, <2>1, <2>2 DEF UndoStart, HandoffEffect, Undoes, Starting
  <2> QED BY <1>7, <2>1, <2>2, <2>3 DEF UndoStart, TaskPart, RowPart
<1>8. CASE MarkRunFailed(r)
  <2>1. /\ HandoffPart' /\ handoff'[r].pc \in {"prepare", "enqueue", "failed"}
        /\ \A s \in Runs \ {r} : handoff'[s] = handoff[s]
    <3>1. CASE handoff[r].tries > 1
      <4> DEFINE x == [handoff[r] EXCEPT !.pc = handoff[r].retry,
                                         !.tries = handoff[r].tries - 1]
      <4>1. handoff[r].tries - 1 \in 1 .. Attempts
        BY <3>1, BoundFacts DEF HandoffPart, HandoffRecords
      <4>2. x \in HandoffRecords /\ x.pc \in {"prepare", "enqueue"}
        BY <4>1 DEF HandoffPart, HandoffRecords
      <4>3. handoff' = [handoff EXCEPT ![r] = x]
        BY <1>8, <3>1 DEF MarkRunFailed, HandoffPart
      <4> HIDE DEF x
      <4> QED BY <4>2, <4>3 DEF HandoffPart
    <3>2. CASE ~(handoff[r].tries > 1)
      BY <1>8, <3>2, GotoOK DEF MarkRunFailed, HandoffPart
    <3> QED BY <3>1, <3>2
  <2>2. /\ triggerRun' \in [Runs -> RunStatuses]
        /\ triggerRun'[r] = IF triggerRun[r] = "running" THEN "failed" ELSE triggerRun[r]
        /\ \A s \in Runs \ {r} : triggerRun'[s] = triggerRun[s]
    BY <1>8, FinishedOK DEF MarkRunFailed, RowPart
  <2>3. HandoffEffect(r) /\ Quiet(r)
    BY <1>8, <2>1, <2>2 DEF MarkRunFailed, HandoffEffect, Quiet, Starting
  <2> QED BY <1>8, <2>1, <2>2, <2>3 DEF MarkRunFailed, TaskPart, RowPart
<1>9. CASE HandoffThrows(r)
  <2>1. /\ HandoffPart' /\ handoff'[r].pc = "mark_failed"
        /\ \A s \in Runs \ {r} : handoff'[s] = handoff[s]
    BY <1>9, GotoOK DEF HandoffThrows, HandoffPart
  <2>2. mishaps' \in MishapRecords /\ mishaps.lasting \subseteq mishaps'.lasting
    BY <1>0, <1>9, MishapOK DEF HandoffThrows
  <2>3. HandoffEffect(r) /\ Quiet(r)
    BY <1>9, <2>1, <2>2 DEF HandoffThrows, HandoffEffect, Quiet, Starting
  <2> QED BY <1>9, <2>1, <2>2, <2>3 DEF HandoffThrows, TaskPart, RowPart
<1>10. CASE HandoffAbandons(r)
  <2>1. /\ HandoffPart' /\ handoff'[r].pc \in {"enqueue", "mark_failed"}
        /\ \A s \in Runs \ {r} : handoff'[s] = handoff[s]
    BY <1>10, GotoOK DEF HandoffAbandons, HandoffPart
  <2>2. /\ mishaps' \in MishapRecords /\ mishaps.lasting \subseteq mishaps'.lasting
        /\ "abandoned" \in mishaps'.lasting
    BY <1>0, <1>10, MishapOK DEF HandoffAbandons, Lasting
  <2>3. HandoffEffect(r) /\ Quiet(r)
    BY <1>10, <2>1, <2>2 DEF HandoffAbandons, HandoffEffect, Quiet, Starting
  <2> QED BY <1>10, <2>1, <2>2, <2>3 DEF HandoffAbandons, TaskPart, RowPart
<1> QED
  BY <1>1, <1>2, <1>3, <1>4, <1>5, <1>6, <1>7, <1>8, <1>9, <1>10
  DEF HandoffStep, HandoffMishap

\* A trigger run gives no task to a delivery run.
LEMMA HandoffKnown ==
  ASSUME TypeOK, KnownPart, NEW r \in Runs,
         Quiet(r) \/ Launches(r) \/ Creates(r) \/ Undoes(r)
  PROVE  KnownPart'
<1>1. \A h \in Generations : delivery'[h] = delivery[h] \/ delivery'[h].pc = "claim"
  BY CreatesOK DEF Quiet, Launches, Undoes
<1> QED BY <1>1 DEF KnownPart, TaskSteps, TriedSteps

\* A trigger run submits no payload.
LEMMA HandoffSubmits ==
  ASSUME TypeOK, KnownPart, SubmitPart, NEW r \in Runs, HandoffEffect(r),
         Quiet(r) \/ Launches(r) \/ Creates(r) \/ Undoes(r)
  PROVE  SubmitPart'
<1>1. \A h \in Generations : delivery'[h] = delivery[h] \/ delivery'[h].pc = "claim"
  BY CreatesOK DEF Quiet, Launches, Undoes
<1>2. ASSUME NEW s \in Runs, task[s].status # "none" PROVE task'[s] = task[s]
  BY <1>2 DEF HandoffEffect
<1>3. submitted' = submitted
  BY DEF HandoffEffect
<1>4. ASSUME NEW h \in Generations, delivery'[h].pc \in {"route", "provider"}
      PROVE  LET t == delivery'[h].task IN
             /\ task'[t].status = "delivering" /\ task'[t].generation = h
             /\ submitted'[t] \subseteq IF delivery'[h].pc = "route" THEN {}
                                        ELSE {<<h, delivery'[h].sandbox>>}
  <2>1. delivery'[h] = delivery[h]
    BY <1>1, <1>4
  <2>2. PICK t \in Runs : t = delivery[h].task
    BY <1>4, <2>1 DEF KnownPart, TaskSteps, TriedSteps
  <2>3. /\ task[t].status = "delivering" /\ task[t].generation = h
        /\ submitted[t] \subseteq IF delivery[h].pc = "route" THEN {}
                                  ELSE {<<h, delivery[h].sandbox>>}
    BY <1>4, <2>1, <2>2 DEF SubmitPart
  <2> QED BY <1>2, <1>3, <2>1, <2>2, <2>3
<1>5. ASSUME NEW s \in Runs, NEW x \in submitted'[s]
      PROVE  /\ task'[s].status \in {"delivering"} \cup Final
             /\ task'[s].generation = x[1] /\ \A y \in submitted'[s] : x = y
  <2>1. /\ task[s].status \in {"delivering"} \cup Final
        /\ task[s].generation = x[1] /\ \A y \in submitted[s] : x = y
    BY <1>3, <1>5 DEF SubmitPart
  <2> QED BY <1>2, <1>3, <2>1 DEF Final
<1> QED BY <1>4, <1>5 DEF SubmitPart

\* A trigger run that fails its own task is failed itself.
LEMMA HandoffFinishes ==
  ASSUME TypeOK, KnownPart, FinishPart, NEW r \in Runs, HandoffEffect(r),
         Quiet(r) \/ Launches(r) \/ Creates(r) \/ Undoes(r),
         handoff'[r].pc # "transition"
  PROVE  FinishPart'
<1>1. \A h \in Generations : delivery'[h] = delivery[h] \/ delivery'[h].pc = "claim"
  BY CreatesOK DEF Quiet, Launches, Undoes
<1>2. ASSUME NEW s \in Runs
      PROVE  /\ triggerRun[s] # "queued" => triggerRun'[s] # "queued"
             /\ triggerRun[s] \in TerminalRun => triggerRun'[s] \in TerminalRun
             /\ task[s].status # "none" => task'[s] = task[s]
             /\ task'[s].status \in Final => task'[s] = task[s]
  BY DEF HandoffEffect, TerminalRun, Final
<1>3. triggerRun'[r] # "queued"
  BY DEF HandoffEffect, FinishPart
<1>4. ASSUME NEW s \in Runs
      PROVE  /\ handoff'[s].pc # "transition" => triggerRun'[s] # "queued"
             /\ task'[s].status # "none" => triggerRun'[s] # "queued"
             /\ task'[s].status \in Final => triggerRun'[s] \in TerminalRun
  BY <1>2, <1>3 DEF FinishPart, HandoffEffect
<1>5. ASSUME NEW h \in Generations
      PROVE  /\ delivery'[h].pc \in TaskSteps => task'[delivery'[h].task].status # "none"
             /\ delivery'[h].pc \in {"ignore_task", "complete_task", "fail_task"} =>
                  triggerRun'[delivery'[h].task] \in TerminalRun
  <2>1. CASE delivery'[h] = delivery[h]
    BY <1>2, <2>1 DEF FinishPart, KnownPart, TaskSteps, TriedSteps
  <2>2. CASE delivery'[h].pc = "claim"
    BY <2>2 DEF TaskSteps, TriedSteps
  <2> QED BY <1>1, <2>1, <2>2
<1> QED BY <1>4, <1>5 DEF FinishPart

\* A generation is used up by the trigger run that launches the processor.
LEMMA HandoffGeneration ==
  ASSUME TypeOK, GenerationPart, NEW r \in Runs, HandoffEffect(r),
         Quiet(r) \/ Launches(r) \/ Creates(r) \/ Undoes(r)
  PROVE  GenerationPart'
<1> USE TypeParts
<1>1. /\ processor.generation \in Nat /\ processor'.generation \in Nat
      /\ processor.generation <= processor'.generation
  BY DEF Quiet, Launches, Creates, Undoes, RowPart, ProcessorRecords
<1>2. processor'.status = "running" => processor'.generation \in Generations
  BY DEF Quiet, Launches, Creates, Undoes, RowPart, GenerationPart
<1>3. ASSUME NEW s \in Runs, Starting(s)'
      PROVE  /\ handoff'[s].generation \in Generations
             /\ handoff'[s].generation <= processor'.generation
  <2>1. CASE Starting(s) /\ handoff'[s].generation = handoff[s].generation
    BY <1>1, <2>1 DEF GenerationPart, Generations
  <2>2. CASE Launches(r) /\ s = r
    BY <2>2 DEF Launches, Generations
  <2> QED
    BY <1>3, <2>1, <2>2 DEF HandoffEffect, Quiet, Launches, Creates, Undoes, Starting
<1>4. ASSUME NEW h \in Generations, h > processor'.generation
      PROVE  delivery'[h].pc = "none"
  <2>1. h > processor.generation
    BY <1>1, <1>4 DEF Generations
  <2>2. delivery[h].pc = "none"
    BY <2>1 DEF GenerationPart
  <2>3. delivery'[h] = delivery[h]
    BY <1>1, <2>1, CreatesOK
    DEF Creates, Quiet, Launches, Undoes, GenerationPart, Generations
  <2> QED BY <2>2, <2>3
<1> QED BY <1>2, <1>3, <1>4 DEF GenerationPart

\* While a run is being started none is live; while the row is not running nothing
\* is claimed or started, and no run is live.
LEMMA HandoffOrder ==
  ASSUME TypeOK, KnownPart, GenerationPart, OrderPart, NEW r \in Runs,
         HandoffEffect(r), Quiet(r) \/ Launches(r) \/ Creates(r) \/ Undoes(r)
  PROVE  OrderPart'
<1> USE TypeParts
<1> SUFFICES ASSUME Orderly'
             PROVE  /\ OneStart' /\ OneLive' /\ ClaimIsServed' /\ HandsFree'
                    /\ AheadOfMark' /\ RoutePart'
  BY DEF OrderPart
<1>1. OneStart /\ OneLive /\ ClaimIsServed /\ HandsFree /\ AheadOfMark /\ RoutePart
  BY DEF HandoffEffect, Orderly, OrderPart
<1>2. ASSUME NEW s \in Runs, task'[s].status \in Active
      PROVE  task'[s] = task[s]
  BY <1>2 DEF HandoffEffect, Active
<1>3. \A h \in Generations :
        \/ delivery'[h] = delivery[h]
        \/ Creates(r) /\ h = handoff[r].generation /\ delivery'[h].pc = "claim"
  BY CreatesOK DEF Quiet, Launches, Undoes
<1>4. AheadOfMark' /\ RoutePart'
  <2>1. UNCHANGED <<highWater, route, sandboxes>>
    BY DEF HandoffEffect
  <2>2. RoutePart'
    BY <1>1, <1>3, <2>1 DEF RoutePart
  <2>3. ASSUME NEW h \in Generations, delivery'[h].pc \in TriedSteps,
               delivery'[h].pc = "complete_task" => IsActive(delivery[h].task, h)'
        PROVE  delivery'[h].task > highWater
    <3>1. delivery'[h] = delivery[h]
      BY <1>3, <2>3 DEF TriedSteps
    <3>2. PICK t \in Runs : t = delivery[h].task
      BY <2>3, <3>1 DEF KnownPart, TaskSteps
    <3>3. delivery[h].pc = "complete_task" => IsActive(t, h)
      BY <1>2, <2>3, <3>1, <3>2 DEF IsActive
    <3> QED BY <1>1, <2>3, <3>1, <3>2, <3>3 DEF AheadOfMark
  <2> QED BY <2>1, <2>2, <2>3 DEF AheadOfMark
<1>5. HandsFree'
  BY <1>1, <1>2, <1>3 DEF HandsFree
<1>6. CASE Quiet(r)
  <2>1. processor' = processor /\ delivery' = delivery
    BY <1>6 DEF Quiet
  <2>2. ASSUME NEW s \in Runs, Starting(s)'
        PROVE  Starting(s) /\ handoff'[s].generation = handoff[s].generation
    BY <1>6, <2>2 DEF Quiet, HandoffEffect, Starting
  <2>3. OneStart'
    BY <1>1, <2>1, <2>2 DEF OneStart, IdleFor
  <2>4. OneLive'
    BY <1>1, <2>1 DEF OneLive, Live, IdleFor
  <2>5. ClaimIsServed'
    BY <1>1, <1>2, <2>1 DEF ClaimIsServed, IdleFor
  <2> QED BY <1>4, <1>5, <2>3, <2>4, <2>5
<1>7. CASE Launches(r)
  <2> DEFINE m == processor.generation + 1
  <2>1. \A h : ~IdleFor(h)
    BY <1>7 DEF Launches, IdleFor
  <2>2. /\ \A s \in Runs : ~Starting(s) /\ task[s].status \notin Active
        /\ \A h \in Generations : ~Live(h)
    BY <1>1, <2>1 DEF OneStart, OneLive, ClaimIsServed
  <2>3. \A s \in Runs : Starting(s)' => s = r
    BY <2>2 DEF HandoffEffect, Starting
  <2>4. /\ m \in Generations /\ m > processor.generation
        /\ processor'.status = "running" /\ processor'.generation = m
        /\ handoff'[r].generation = m /\ delivery' = delivery
    BY <1>7 DEF Launches, RowPart, ProcessorRecords
  <2>5. delivery'[m].pc = "none"
    BY <2>4 DEF GenerationPart
  <2>6. OneStart'
    BY <2>3, <2>4, <2>5 DEF OneStart, IdleFor
  <2>7. OneLive'
    BY <2>2, <2>4 DEF OneLive, Live
  <2>8. ClaimIsServed'
    BY <1>2, <2>2 DEF ClaimIsServed
  <2> QED BY <1>4, <1>5, <2>6, <2>7, <2>8
<1>8. CASE Creates(r)
  <2>1. PICK g \in Generations : g = handoff[r].generation
    BY <1>8 DEF Creates, GenerationPart
  <2>2. ~Starting(r)' /\ processor' = processor
    <3>1. "unacknowledged" \notin mishaps'.lasting
      BY DEF Orderly
    <3> QED BY <1>8, <3>1 DEF Creates
  <2>3. IdleFor(g)
    BY <1>1, <1>8, <2>1 DEF OneStart, Creates
  <2>4. OneStart'
    BY <1>1, <1>8, <2>2 DEF OneStart, HandoffEffect, Creates, Starting
  <2>5. OneLive'
    BY <1>1, <1>3, <2>1, <2>2, <2>3 DEF OneLive, Live, IdleFor
  <2>6. ASSUME NEW s \in Runs, task'[s].status \in Active
        PROVE  \E h \in Generations : /\ task'[s].generation = h
                                      /\ IdleFor(h)' /\ delivery'[h].pc # "none"
    <3>1. PICK h \in Generations : /\ task[s].generation = h
                                   /\ IdleFor(h) /\ delivery[h].pc # "none"
      BY <1>1, <1>2, <2>6 DEF ClaimIsServed
    <3>2. IdleFor(h)' /\ delivery'[h].pc # "none"
      BY <1>3, <2>2, <3>1 DEF IdleFor
    <3>3. task'[s].generation = h
      BY <1>2, <2>6, <3>1
    <3> QED BY <3>2, <3>3
  <2> QED BY <1>4, <1>5, <2>4, <2>5, <2>6 DEF ClaimIsServed
<1>9. CASE Undoes(r)
  <2>1. PICK g \in Generations : g = handoff[r].generation
    BY <1>9 DEF Undoes, GenerationPart
  <2>2. IdleFor(g) /\ delivery[g].pc = "none"
    BY <1>1, <1>9, <2>1 DEF Undoes, OneStart
  <2>3. /\ \A s \in Runs : task[s].status \notin Active
        /\ \A h \in Generations : ~Live(h)
    BY <1>1, <2>2 DEF ClaimIsServed, OneLive, IdleFor, Live
  <2>4. OneStart'
    BY <1>1, <1>9 DEF OneStart, HandoffEffect, Undoes, Starting
  <2>5. OneLive'
    BY <1>9, <2>3 DEF OneLive, Undoes, Live
  <2>6. ClaimIsServed'
    BY <1>2, <2>3 DEF ClaimIsServed
  <2> QED BY <1>4, <1>5, <2>4, <2>5, <2>6
<1> QED BY <1>6, <1>7, <1>8, <1>9

\* A processor that a trigger run launches is served by it until its delivery
\* run exists.
LEMMA HandoffServes ==
  ASSUME TypeOK, GenerationPart, OrderPart, RunningIsServed, NEW r \in Runs,
         HandoffEffect(r), Quiet(r) \/ Launches(r) \/ Creates(r) \/ Undoes(r)
  PROVE  RunningIsServed'
<1> USE TypeParts
<1> SUFFICES ASSUME processor'.status = "running", mishaps'.lasting = {}
             PROVE  RunningIsServed'
  BY DEF RunningIsServed
<1>1. mishaps.lasting = {} /\ Orderly
  BY DEF HandoffEffect, Orderly
<1>2. CASE Launches(r)
  BY <1>2 DEF Launches, RunningIsServed, Starting
<1>3. CASE ~Launches(r)
  <2>1. processor.status = "running" /\ processor'.generation = processor.generation
    BY <1>3 DEF Quiet, Creates, Undoes
  <2>2. PICK p \in Generations : p = processor.generation
    BY <2>1 DEF GenerationPart
  <2>3. \/ Live(p) \/ delivery[p].pc = "failed"
        \/ \E s \in Runs : Starting(s) /\ handoff[s].generation = p
    BY <1>1, <2>1, <2>2 DEF RunningIsServed, Starting
  <2>4. Live(p) \/ delivery[p].pc = "failed" => Live(p)' \/ delivery'[p].pc = "failed"
    BY <1>3, CreatesOK DEF Quiet, Undoes, Live
  <2>5. ASSUME NEW s \in Runs, Starting(s), handoff[s].generation = p
        PROVE  \/ Live(p)'
               \/ \E x \in Runs : Starting(x)' /\ handoff'[x].generation = p
    <3>1. delivery[p].pc = "none"
      BY <1>1, <2>5 DEF OrderPart, OneStart
    <3>2. CASE s # r
      BY <2>5, <3>2 DEF HandoffEffect, Starting
    <3>3. CASE s = r /\ Quiet(r)
      BY <2>5, <3>3 DEF Quiet
    <3>4. CASE s = r /\ Creates(r)
      <4>1. p \in 0 .. MaxGeneration
        BY DEF Generations
      <4>2. delivery'[p] = Fresh("claim")
        BY <2>5, <3>1, <3>4, <4>1, RunOfOK DEF Creates
      <4> QED BY <4>2 DEF Live, Fresh
    <3>5. CASE s = r /\ Undoes(r)
      BY <2>1, <2>2, <2>5, <3>5 DEF Undoes, IdleFor
    <3> QED BY <1>3, <3>2, <3>3, <3>4, <3>5
  <2> QED BY <2>1, <2>2, <2>3, <2>4, <2>5 DEF RunningIsServed, Starting
<1> QED BY <1>2, <1>3

\* A step of a trigger run preserves the invariant.
LEMMA HandoffInv ==
  ASSUME Inv, NEW r \in Runs, HandoffStep(r) \/ HandoffMishap(r)
  PROVE  Inv'
<1>1. /\ HandoffEffect(r) /\ handoff'[r].pc # "transition"
      /\ Quiet(r) \/ Launches(r) \/ Creates(r) \/ Undoes(r)
      /\ HandoffPart' /\ TaskPart' /\ RowPart'
  BY HandoffEffectOK DEF Inv
<1>2. DeliveryPart'
  BY <1>1, CreatesOK DEF Inv, Quiet, Launches, Undoes
<1>3. ProviderPart'
  BY <1>1, TypeParts DEF Inv, HandoffEffect, ProviderPart
<1>4. TypeOK'
  BY <1>1, <1>2, <1>3, TypeParts
<1> QED
  BY <1>1, <1>4, HandoffKnown, HandoffSubmits, HandoffFinishes, HandoffGeneration,
     HandoffOrder, HandoffServes
  DEF Inv

\* A sandbox that fails only adds to the reasons for replacing it.
LEMMA SandboxFailsInv ==
  ASSUME Inv, SandboxFails PROVE Inv'
<1> USE TypeParts
<1>1. /\ UNCHANGED <<triggerRun, handoff, task, processor, delivery, highWater, route,
                     submitted>>
      /\ sandboxes.failed \subseteq sandboxes'.failed
      /\ ProviderPart'
  BY DeliveryAssumption DEF SandboxFails, Inv, ProviderPart
<1>2. mishaps' \in MishapRecords /\ mishaps'.lasting = mishaps.lasting
  <2>1. "broken" \notin Lasting
    BY DEF Lasting
  <2> QED BY <2>1, MishapOK DEF SandboxFails, Inv, RowPart
<1>3. TypeOK'
  BY <1>1, <1>2 DEF Inv, HandoffPart, DeliveryPart, TaskPart, RowPart
<1>4. KnownPart' /\ SubmitPart' /\ FinishPart'
  BY <1>1 DEF Inv, KnownPart, SubmitPart, FinishPart
<1>5. GenerationPart' /\ RunningIsServed'
  BY <1>1, <1>2 DEF Inv, GenerationPart, Starting, RunningIsServed, Live
<1>6. OrderPart'
  <2> SUFFICES ASSUME Orderly'
               PROVE  /\ OneStart' /\ OneLive' /\ ClaimIsServed' /\ HandsFree'
                      /\ AheadOfMark' /\ RoutePart'
    BY DEF OrderPart
  <2>1. /\ OneStart /\ OneLive /\ ClaimIsServed /\ HandsFree /\ AheadOfMark
        /\ RoutePart
    BY <1>2 DEF Inv, OrderPart, Orderly
  <2>2. OneStart' /\ OneLive'
    BY <1>1, <2>1 DEF OneStart, OneLive, Starting, IdleFor, Live
  <2>3. ClaimIsServed' /\ HandsFree' /\ AheadOfMark'
    BY <1>1, <2>1 DEF ClaimIsServed, HandsFree, AheadOfMark, IdleFor, IsActive
  <2>4. RoutePart'
    BY <1>1, <2>1 DEF RoutePart
  <2> QED BY <2>2, <2>3, <2>4
<1> QED BY <1>3, <1>4, <1>5, <1>6 DEF Inv

-----------------------------------------------------------------------------
(* The theorems. *)

\* The invariant holds initially.
LEMMA InvInit == Init => Inv
<1> SUFFICES ASSUME Init PROVE Inv
  OBVIOUS
<1>1. TypeOK
  BY InitType
<1>2. \A g \in Generations : delivery[g].pc = "none"
  BY DEF Init, Fresh
<1>3. KnownPart /\ SubmitPart /\ FinishPart
  BY <1>2
  DEF Init, KnownPart, SubmitPart, FinishPart, TaskSteps, TriedSteps, Final
<1>4. GenerationPart /\ RunningIsServed
  BY <1>2 DEF Init, GenerationPart, RunningIsServed, Starting
<1>5. OneStart /\ OneLive /\ ClaimIsServed /\ HandsFree /\ AheadOfMark /\ RoutePart
  BY <1>2
  DEF Init, OneStart, OneLive, ClaimIsServed, HandsFree, AheadOfMark, RoutePart,
      Starting, Live, Active, TriedSteps
<1> QED BY <1>1, <1>3, <1>4, <1>5 DEF Inv, OrderPart

\* Every step preserves the invariant.
LEMMA InvNext == Inv /\ [Next]_vars => Inv'
<1> SUFFICES ASSUME Inv, [Next]_vars PROVE Inv'
  OBVIOUS
<1>1. CASE \E r \in Runs : HandoffStep(r) \/ HandoffMishap(r)
  BY <1>1, HandoffInv
<1>2. CASE \E g \in Generations : DeliveryStep(g) \/ CallThrows(g)
  BY <1>2, DeliveryInv
<1>3. CASE SandboxFails
  BY <1>3, SandboxFailsInv
<1>4. CASE UNCHANGED vars
  BY <1>4
  DEF vars, Inv, TypeOK, KnownPart, SubmitPart, FinishPart, GenerationPart,
      OrderPart, OneStart, OneLive, ClaimIsServed, HandsFree, AheadOfMark,
      RoutePart, RunningIsServed, Starting, IdleFor, IsActive, Orderly, Live
<1> QED BY <1>1, <1>2, <1>3, <1>4 DEF Next

\* The invariant holds in every reachable state.
LEMMA InvAlways == Spec => []Inv
  BY InvInit, InvNext, PTL DEF Spec

\* Every variable stays in its domain, for any number of trigger runs, generations,
\* sandboxes and attempts, whatever fails.
THEOREM TypeCorrect == Spec => []TypeOK
  BY InvAlways, PTL DEF Inv

\* No payload is given to two sandboxes or by two processors. This does not rest on
\* the order of the queue: it holds also when two runs of the processor are live.
THEOREM DeliveredOnceHolds == Spec => []DeliveredOnce
<1>1. Inv => DeliveredOnce
  BY DEF Inv, SubmitPart, DeliveredOnce
<1> QED BY <1>1, InvAlways, PTL

\* A task is finished only after its trigger run, at whichever step the worker dies.
THEOREM FinishedTaskHasFinishedRunHolds == Spec => []FinishedTaskHasFinishedRun
<1>1. Inv => FinishedTaskHasFinishedRun
  BY DEF Inv, FinishPart, FinishedTaskHasFinishedRun
<1> QED BY <1>1, InvAlways, PTL

\* At most one run of the processor is live, that of the row's generation, and the
\* row says running, unless a run was created or a row made idle unnoticed.
THEOREM OneProcessorHolds == Spec => []OneProcessor
<1>1. Inv => OneProcessor
  BY DEF Inv, OrderPart, OneLive, OneProcessor
<1> QED BY <1>1, InvAlways, PTL

\* A running processor has a run that serves it or a handoff that is about to create
\* one, so that the trigger runs which leave the processor alone are delivered.
THEOREM RunningIsServedHolds == Spec => []RunningIsServed
  BY InvAlways, PTL DEF Inv

\* A delivery that has an ensured sandbox finds the route free or bound to it,
\* however many sandboxes have failed and been replaced.
THEOREM BoundToItsSandboxHolds == Spec => []BoundToItsSandbox
<1>1. Inv => BoundToItsSandbox
  BY DEF Inv, OrderPart, RoutePart, BoundToItsSandbox
<1> QED BY <1>1, InvAlways, PTL

-----------------------------------------------------------------------------
(* The tasks are a serial queue, and payloads are submitted in source order. *)

\* What a task's status is to the queue.
LEMMA ItemFacts ==
  /\ ItemOf["none"] = "absent" /\ ItemOf["queued"] = "waiting"
  /\ \A x \in Active : ItemOf[x] = "taken"
  /\ \A x \in Final : ItemOf[x] = "finished"
  BY DEF ItemOf, Active, Final

\* One item of the abstract queue changes at most, when a step touches one task and
\* the selection of no other.
LEMMA OneItem ==
  ASSUME NEW r \in Runs,
         \A s \in Runs \ {r} : task'[s] = task[s] /\ (Selected(s)' <=> Selected(s))
  PROVE  TaskItem' = [TaskItem EXCEPT ![r] = TaskItem'[r]]
  BY DEF TaskItem

\* The item that a task is: picked while a run has selected it.
LEMMA ItemIs ==
  ASSUME NEW r \in Runs
  PROVE  /\ TaskItem[r] = IF task[r].status = "queued" /\ Selected(r)
                          THEN "picked" ELSE ItemOf[task[r].status]
         /\ TaskItem'[r] = IF task'[r].status = "queued" /\ Selected(r)'
                           THEN "picked" ELSE ItemOf[task'[r].status]
  BY DEF TaskItem

\* A trigger run enqueues an item, which no run has selected, or leaves the abstract
\* queue alone.
LEMMA HandoffQueues ==
  ASSUME TypeOK, KnownPart, FinishPart, NEW r \in Runs,
         HandoffStep(r) \/ HandoffMishap(r)
  PROVE  [Queue!Next]_TaskItem
<1>1. HandoffEffect(r) /\ (Quiet(r) \/ Launches(r) \/ Creates(r) \/ Undoes(r))
  BY HandoffEffectOK
<1>2. \A h \in Generations : \/ delivery'[h] = delivery[h]
                             \/ delivery[h].pc = "none" /\ delivery'[h].pc = "claim"
  BY <1>1, CreatesOK DEF Quiet, Launches, Undoes
<1>3. \A s \in Runs : Selected(s)' <=> Selected(s)
  BY <1>2 DEF Selected
<1>4. CASE task'[r] = task[r]
  BY <1>1, <1>3, <1>4 DEF HandoffEffect, TaskItem
<1>5. CASE task[r].status = "none" /\ task'[r].status = "queued"
  <2>1. ~Selected(r)
    BY <1>5 DEF Selected, FinishPart, TaskSteps
  <2>2. TaskItem[r] = "absent" /\ TaskItem'[r] = "waiting"
    BY <1>3, <1>5, <2>1, ItemIs, ItemFacts
  <2>3. TaskItem' = [TaskItem EXCEPT ![r] = "waiting"]
    BY <1>1, <1>3, <2>2, OneItem DEF HandoffEffect
  <2> QED BY <2>2, <2>3 DEF Queue!Next, Queue!Enqueue, Queue!Move
<1> QED BY <1>1, <1>4, <1>5 DEF HandoffEffect

\* The selected task is the first that waits, and no other is in hand: a task that
\* is claimed is the live run's own, and the run would have resumed it.
LEMMA SelectionPicks ==
  ASSUME TypeOK, OneLive, ClaimIsServed, NEW g \in Generations, NEW n,
         DeliveryEffect(g, n), n.pc = "take"
  PROVE  [Queue!Next]_TaskItem
<1> DEFINE t == n.task
<1>1. delivery[g].pc # "take" /\ Selects(g, t)
  BY DEF DeliveryEffect, Interrupted, Onward, Selects, RunStatusAt, TaskStepAfter,
         TriedSteps
<1>2. t \in Runs /\ task[t].status = "queued" /\ task' = task
  BY <1>1 DEF Selects
<1>3. /\ IdleFor(g) /\ \A h \in Generations \ {g} : ~Live(h)
  BY DEF DeliveryEffect, OneLive, IdleFor
<1>4. \A r \in Runs : task[r].status \notin Active
  BY <1>1, <1>3 DEF Selects, ClaimIsServed, IdleFor, IsActive
<1>5. \A h \in Generations : delivery[h].pc # "take"
  BY <1>1, <1>3 DEF Live
<1>6. \A r \in Runs : ~Selected(r)
  BY <1>5 DEF Selected
<1>7. /\ delivery'[g].pc = "take" /\ delivery'[g].task = t
      /\ \A h \in Generations \ {g} : delivery'[h].pc # "take"
  BY <1>5, OneRunMoves
<1> HIDE DEF t
<1>8. Selected(t)' /\ \A r \in Runs \ {t} : ~Selected(r)'
  BY <1>7 DEF Selected
<1>9. TaskItem[t] = "waiting" /\ TaskItem'[t] = "picked"
  BY <1>2, <1>6, <1>8, ItemIs, ItemFacts
<1>10. TaskItem' = [TaskItem EXCEPT ![t] = "picked"]
  BY <1>2, <1>6, <1>8, <1>9, OneItem
<1>11. ASSUME NEW r \in Runs
       PROVE  /\ TaskItem[r] \notin {"picked", "taken"}
              /\ TaskItem[r] = "waiting" => t <= r
  <2>1. TaskItem[r] = ItemOf[task[r].status]
    BY <1>6, ItemIs
  <2>2. task[r].status \in {"none", "queued"} \cup Final
    BY <1>4 DEF TypeOK, TaskStatuses, Active, Final
  <2>3. task[r].status = "queued" => t <= r
    BY <1>1 DEF Selects
  <2> QED BY <2>1, <2>2, <2>3, ItemFacts
<1>12. Queue!Pick(t)
  BY <1>9, <1>10, <1>11 DEF Queue!Pick, Queue!Move
<1> QED BY <1>2, <1>12 DEF Queue!Next

\* A run that has selected a task takes the item, or puts it back, or finds it gone.
LEMMA TakingTakes ==
  ASSUME TypeOK, KnownPart, OneLive, NEW g \in Generations, NEW n,
         DeliveryEffect(g, n), delivery[g].pc = "take"
  PROVE  [Queue!Next]_TaskItem
<1> DEFINE t == delivery[g].task
<1>1. t \in Runs /\ Selected(t)
  BY DEF KnownPart, TaskSteps, Selected
<1>2. n.pc # "take"
  BY DEF DeliveryEffect, Interrupted, Onward, Selects, RunStatusAt, TaskStepAfter
<1>3. \A h \in Generations \ {g} : delivery[h].pc # "take"
  BY DEF DeliveryEffect, OneLive, IdleFor, Live
<1>4. \A r \in Runs : ~Selected(r)'
  BY <1>2, <1>3, OneRunMoves DEF Selected
<1>5. \A r \in Runs \ {t} : ~Selected(r)
  BY <1>3 DEF Selected
<1>6. \A r \in Runs \ {t} : task'[r] = task[r]
  BY DEF DeliveryEffect, TaskMoves, TaskStatusAt
<1>7. TaskItem' = [TaskItem EXCEPT ![t] = TaskItem'[t]]
  BY <1>1, <1>4, <1>5, <1>6, OneItem
<1>8. \/ task'[t] = task[t]
      \/ task[t].status = "queued" /\ task'[t].status = "claimed"
  BY <1>1 DEF DeliveryEffect, TaskMoves, TaskStatusAt
<1> HIDE DEF t
<1>9. CASE task[t].status = "queued" /\ task'[t].status = "claimed"
  <2>1. TaskItem[t] = "picked" /\ TaskItem'[t] = "taken"
    BY <1>1, <1>9, ItemIs, ItemFacts DEF Active
  <2>2. Queue!Take(t)
    BY <1>7, <2>1 DEF Queue!Take, Queue!Move
  <2> QED BY <1>1, <2>2 DEF Queue!Next
<1>10. CASE task[t].status = "queued" /\ task'[t] = task[t]
  <2>1. TaskItem[t] = "picked" /\ TaskItem'[t] = "waiting"
    BY <1>1, <1>4, <1>10, ItemIs, ItemFacts
  <2>2. Queue!PutBack(t)
    BY <1>7, <2>1 DEF Queue!PutBack, Queue!Move
  <2> QED BY <1>1, <2>2 DEF Queue!Next
<1>11. CASE task[t].status # "queued" /\ task'[t] = task[t]
  <2>1. TaskItem'[t] = TaskItem[t]
    BY <1>1, <1>11, ItemIs
  <2>2. TaskItem' = TaskItem
    BY <1>7, <2>1 DEF TaskItem
  <2> QED BY <2>2
<1> QED BY <1>8, <1>9, <1>10, <1>11

\* Any other step of a delivery run finishes the item it has taken, or leaves the
\* abstract queue alone.
LEMMA DeliveringFinishes ==
  ASSUME TypeOK, KnownPart, NEW g \in Generations, NEW n,
         DeliveryEffect(g, n), delivery[g].pc # "take", n.pc # "take"
  PROVE  [Queue!Next]_TaskItem
<1>1. \A r \in Runs : Selected(r)' <=> Selected(r)
  BY OneRunMoves DEF Selected
<1>2. CASE \A r \in Runs : task'[r] = task[r]
  BY <1>1, <1>2 DEF TaskItem
<1>3. CASE \E r \in Runs : task'[r] # task[r]
  <2>1. PICK t \in Runs : task'[t] # task[t]
    BY <1>3
  <2>2. /\ t = delivery[g].task /\ task[t].status \in Active
        /\ task'[t].status \in {"delivering"} \cup Final
    BY <2>1 DEF DeliveryEffect, TaskMoves, IsActive
  <2>3. \A r \in Runs \ {t} : task'[r] = task[r]
    BY <2>2 DEF DeliveryEffect, TaskMoves
  <2>4. TaskItem' = [TaskItem EXCEPT ![t] = TaskItem'[t]]
    BY <1>1, <2>3, OneItem
  <2>5. TaskItem[t] = "taken"
    BY <2>2, ItemIs, ItemFacts DEF Active
  <2>6. CASE task'[t].status = "delivering"
    <3>1. TaskItem'[t] = "taken"
      BY <2>6, ItemIs, ItemFacts DEF Active
    <3>2. TaskItem' = TaskItem
      BY <2>4, <2>5, <3>1 DEF TaskItem
    <3> QED BY <3>2
  <2>7. CASE task'[t].status \in Final
    <3>1. TaskItem'[t] = "finished"
      BY <2>7, ItemIs, ItemFacts DEF Final
    <3>2. Queue!Finish(t)
      BY <2>4, <2>5, <3>1 DEF Queue!Finish, Queue!Move
    <3> QED BY <3>2 DEF Queue!Next
  <2> QED BY <2>2, <2>6, <2>7
<1> QED BY <1>2, <1>3

\* The conversation's tasks implement SerialQueue for as long as the processor's row
\* and its runs agree: one at a time, each the first in source order of those waiting
\* when it was selected, each finished once, although trigger runs enqueue others
\* between the two statements of a claim.
THEOREM DeliversSeriallyHolds == Spec => Queue!Init /\ DeliversSerially
<1>1. ASSUME Inv, [Next]_vars PROVE [Orderly' => [Queue!Next]_TaskItem]_vars
  <2> SUFFICES ASSUME Next, Orderly' PROVE [Queue!Next]_TaskItem
    BY <1>1
  <2>1. TypeOK /\ KnownPart /\ FinishPart
    BY <1>1 DEF Inv
  <2>2. CASE \E r \in Runs : HandoffStep(r) \/ HandoffMishap(r)
    BY <2>1, <2>2, HandoffQueues
  <2>3. CASE \E g \in Generations : DeliveryStep(g) \/ CallThrows(g)
    <3>1. PICK g \in Generations : DeliveryStep(g) \/ CallThrows(g)
      BY <2>3
    <3>2. PICK n : DeliveryEffect(g, n)
      BY <2>1, <3>1, DeliveryEffectOK
    <3>3. OneLive /\ ClaimIsServed
      BY <1>1, <3>2 DEF Inv, OrderPart, Orderly, DeliveryEffect
    <3> QED BY <2>1, <3>2, <3>3, SelectionPicks, TakingTakes, DeliveringFinishes
  <2>4. CASE SandboxFails
    BY <2>4 DEF SandboxFails, TaskItem, Selected
  <2> QED BY <2>2, <2>3, <2>4 DEF Next
<1>2. Init => Queue!Init
  BY ItemFacts DEF Init, Queue!Init, TaskItem
<1> QED BY <1>1, <1>2, InvAlways, PTL DEF Spec, DeliversSerially

\* The high-water mark only rises, and no payload at or behind it is submitted, for
\* as long as the processor's row and its runs agree.
THEOREM InSourceOrderHolds == Spec => InSourceOrder
<1> USE TypeParts
<1> DEFINE A ==
      Orderly' => /\ highWater' >= highWater
                  /\ \A r \in Runs : submitted'[r] # submitted[r] => r > highWater
<1>1. ASSUME Inv, Next PROVE A
  <2> SUFFICES ASSUME Orderly'
               PROVE  /\ highWater' >= highWater
                      /\ \A r \in Runs : submitted'[r] # submitted[r] => r > highWater
    OBVIOUS
  <2>0. highWater \in Nat
    BY <1>1 DEF Inv, ProviderPart, Runs, None
  <2>1. CASE UNCHANGED <<highWater, submitted>>
    BY <2>0, <2>1
  <2>2. CASE \E r \in Runs : HandoffStep(r) \/ HandoffMishap(r)
    BY <1>1, <2>1, <2>2, HandoffEffectOK DEF Inv, HandoffEffect
  <2>3. CASE \E g \in Generations : DeliveryStep(g) \/ CallThrows(g)
    <3>1. PICK g \in Generations : DeliveryStep(g) \/ CallThrows(g)
      BY <2>3
    <3>2. PICK n : DeliveryEffect(g, n)
      BY <1>1, <3>1, DeliveryEffectOK DEF Inv
    <3>3. AheadOfMark
      BY <1>1, <3>2 DEF Inv, OrderPart, Orderly, DeliveryEffect
    <3>4. delivery[g].pc \in TaskSteps => delivery[g].task \in Nat
      BY <1>1 DEF Inv, KnownPart, Runs
    <3>5. highWater' >= highWater
      BY <2>0, <3>2, <3>3, <3>4
      DEF DeliveryEffect, MarkMoves, AheadOfMark, TaskSteps, TriedSteps
    <3>6. ASSUME NEW r \in Runs, submitted'[r] # submitted[r] PROVE r > highWater
      <4>1. delivery[g].pc = "provider" /\ r = delivery[g].task
        BY <1>1, <3>2, <3>6 DEF Inv, DeliveryEffect, SubmittedMoves, ProviderPart
      <4> QED BY <3>3, <4>1 DEF AheadOfMark, TriedSteps
    <3> QED BY <3>5, <3>6
  <2>4. CASE SandboxFails
    BY <2>1, <2>4 DEF SandboxFails
  <2> QED BY <1>1, <2>2, <2>3, <2>4 DEF Next
<1>2. Inv /\ [Next]_vars => [A]_vars
  BY <1>1
<1> HIDE DEF A
<1>3. Spec => [][A]_vars
  BY <1>2, InvAlways, PTL DEF Spec
<1> QED BY <1>3 DEF A, InSourceOrder
=============================================================================
