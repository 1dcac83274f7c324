----------------------- MODULE SandboxInstanceProofs -----------------------
(***************************************************************************)
(* One sandbox instance as a whole, for any number of gateway nodes,       *)
(* leases, runs, requests, retries, failing calls, crashes and deaths: the *)
(* type invariant, the meaning of a generation, what may happen to a       *)
(* terminal row, and how the row and the compute agree.                    *)
(***************************************************************************)
EXTENDS SandboxInstance, GatewayTunnelProofs

RunRecords ==
  [flow : Flows, pc : Steps, lease : LeaseOrNone, seen : Statuses,
   found : Computes, saw : LeaseOrNone, generation : Nat, tries : 0 .. MaxTries]

Engines ==
  [taken : SUBSET Jobs, failed : SUBSET Jobs,
   inspected : SUBSET {"stopped", "failed"}, deaths : 0 .. MaxDeaths]

\* A compute that no resume brings back.
Beyond == {"missing", "terminal_stopped"}

\* The steps of a start run, and those before it has recorded its compute.
StartSteps == OwnSteps \ {"usage", "terminate"}
EarlySteps == {"prepare", "mark_starting", "allocate", "persist"}

\* Steps of a stop or a reconciliation between loading the row and writing it.
LoadedSteps ==
  {"fence_stop", "fence_inspect", "inspect", "fence_mark", "request", "halt",
   "inspect_again", "mark_stopped", "mark_failed"}
CommitSteps == {"commit_stopped", "commit_failed"}

\* A run at such a step has found a provider id in the row.
KnowingSteps ==
  LoadedSteps \cup CommitSteps
    \cup {"read_inspect", "read_mark", "destroy", "mark_destroyed"}

-----------------------------------------------------------------------------
(* The inductive invariant. *)

\* What is known of a run from the step it is at.
RecordOK(r) ==
  /\ r.flow \in {"idle", "disconnect", "reconcile"} => r.lease \in Leases
  /\ r.pc = "terminate" => r.saw \in Leases
  /\ r.flow = "reconcile" /\ r.pc = "usage" => r.saw \in Leases
  /\ r.flow = "start" => r.pc \in StartSteps
  /\ r.pc \in LoadedSteps => r.seen \notin Terminal
  /\ r.pc = "read_mark" => Verdict(r.seen, r.found) # r.seen

TypePart ==
  /\ GatewayInv
  /\ provider \in BOOLEAN /\ compute \in Computes /\ billing \in BOOLEAN
  /\ run \in [Workers -> RunRecords] /\ engine \in Engines
  /\ left \in [requests : 0 .. MaxRequests, connects : 0 .. MaxConnects]
  /\ deleting \in BOOLEAN

RecordPart == \A w \in Workers : RecordOK(run[w])

\* While a transaction holds the row's lock, the row is not terminal.
LockPart == \A w \in Workers : Committing(w) => status \notin Terminal

\* There is one start run. Until it records its compute nobody else has found
\* one in the row, and there is none before it allocates it.
Early(w) == run[w].flow = "start" /\ run[w].pc \in EarlySteps
StartPart ==
  /\ \A v, w \in Workers : run[v].flow = "start" /\ run[w].flow = "start" => v = w
  /\ \A w \in Workers : Early(w) =>
       /\ ~provider
       /\ \A v \in Workers : run[v].pc \notin KnowingSteps
       /\ run[w].pc # "persist" => compute = "missing"

\* What a read or a deletion found out about a compute that is gone stays true.
BeyondRecord(r, c) ==
  \/ r.pc = "mark_destroyed"
  \/ r.pc = "read_mark" /\ r.seen = "stopped"
  => c \in Beyond
BeyondPart == \A w \in Workers : BeyondRecord(run[w], compute)

\* A compute that may run again is recorded, or its start run still has to
\* record or to destroy it.
Keeping(r) == r.flow = "start" /\ r.pc \in {"persist", "undo"}
KnownPart ==
  ~DestroyFails /\ compute \notin Beyond =>
    provider \/ \E w \in Workers : Keeping(run[w])

\* Nobody resumes the instance, and a compute that was asked to stop does.
StopsForGood == "resume" \notin Requests /\ "active" \notin StopLeaves

\* A run that is about to record a stop has seen a compute that was down.
DownRecord(r, c) ==
  \/ r.pc \in {"mark_stopped", "commit_stopped", "read_mark"}
  \/ r.flow = "start" /\ r.pc = "setup_mark"
  \/ r.pc \in {"fence_mark", "request"} /\ r.found # "active"
  \/ r.flow \in ReconcileFlows /\ r.pc = "fence_stop" /\ r.found # "active"
  => c # "active"
DownPart ==
  StopsForGood =>
    /\ \A w \in Workers : /\ run[w].flow # "resume"
                          /\ Early(w) => status \in {"pending", "starting"}
                          /\ DownRecord(run[w], compute)
    /\ status = "stopped" => compute # "active"

Inv ==
  /\ TypePart /\ RecordPart /\ LockPart /\ StartPart /\ BeyondPart /\ KnownPart
  /\ DownPart

-----------------------------------------------------------------------------
(* What a step of a run does. *)

Moves(w, r) == run' = [run EXCEPT ![w] = r] /\ r \in RunRecords

\* The run goes on with what it carries.
Same(d, r) ==
  /\ r.flow = d.flow /\ r.lease = d.lease /\ r.seen = d.seen
  /\ r.found = d.found /\ r.saw = d.saw

\* The row, but for its status, and the worker's own variables.
RowEffect ==
  /\ status' \in Statuses /\ provider' \in BOOLEAN /\ compute' \in Computes
  /\ billing' \in BOOLEAN /\ engine' \in Engines
  /\ deadline' \in {deadline, DeadlinesCleared}
  /\ UNCHANGED <<deleted, attachment, ready, jobs>>

\* The run is over or goes on; it gets to know of a compute from the row only,
\* and it gets ready to commit on a row that is not terminal.
RecordEffect(w, r) ==
  /\ Moves(w, r) /\ RecordOK(r)
  /\ r.flow = run[w].flow \/ r = Free
  /\ r.pc \in KnowingSteps => run[w].pc \in KnowingSteps \/ provider
  /\ r.pc \in CommitSteps => status' = status /\ status \notin Terminal

\* A terminal row becomes starting, or a stopped one failed.
StatusEffect(w) ==
  /\ status \in Terminal =>
       \/ status' \in {status, "starting"}
       \/ /\ status = "stopped" /\ status' = "failed"
          /\ compute \in Beyond \/ Starting(w, "undo_mark")
  /\ status' # status =>
       \/ run[w].flow \in {"start", "resume"}
       \/ run[w].pc \in KnowingSteps
  /\ StopsForGood /\ status' = "stopped" /\ status # "stopped" =>
       compute' # "active"

ProviderEffect(w, r) ==
  \/ provider' = provider
  \/ provider' /\ Starting(w, "persist") /\ r.pc \notin EarlySteps
  \/ ~provider' /\ run[w].pc = "mark_destroyed" /\ compute' = compute

\* A compute is created by the start run and brought back by a resume; all
\* else only ends one.
ComputeEffect(w, r) ==
  \/ compute' = compute
  \/ /\ Starting(w, "allocate") /\ compute' = "active"
     /\ r.flow = "start" /\ r.pc = "persist"
  \/ run[w].flow = "resume" /\ compute \notin Beyond
  \/ /\ compute = "active"
     /\ "active" \notin StopLeaves => compute' # "active"
  \/ compute' = "missing"

\* What the step leaves of the parts of the invariant that are about w's run.
OwnEffect(w, r) ==
  /\ r.flow = "start" /\ r.pc \in EarlySteps =>
       /\ Early(w) /\ provider' = provider
       /\ r.pc # "persist" => run[w].pc # "persist" /\ compute' = compute
       /\ status' \in {status, "starting"}
  /\ BeyondRecord(r, compute')
  /\ Keeping(run[w]) /\ ~DestroyFails =>
       Keeping(r) \/ provider' \/ compute' \in Beyond
  /\ StopsForGood => DownRecord(r, compute')

RunEffect(w, r) ==
  /\ RowEffect /\ RecordEffect(w, r) /\ StatusEffect(w)
  /\ ProviderEffect(w, r) /\ ComputeEffect(w, r) /\ OwnEffect(w, r)

-----------------------------------------------------------------------------
(* How a run moves. *)

\* The steps that runs begin with.
LEMMA StepFacts ==
  /\ \A f \in Flows :
       FirstStep[f] \in Steps \ (KnowingSteps \cup {"terminate", "usage"})
  /\ OwnSteps \subseteq Steps /\ StartSteps \subseteq OwnSteps
  /\ OwnSteps \cap KnowingSteps = {}
  /\ EarlySteps \subseteq StartSteps
  BY DEF Flows, FirstStep, Steps, OwnSteps, KnowingSteps, LoadedSteps,
         CommitSteps, StartSteps, EarlySteps

\* What a worker has between two runs.
LEMMA FreeOK ==
  /\ Free \in RunRecords /\ RecordOK(Free)
  /\ Free.flow = "none" /\ Free.pc = "free"
  BY LeaseFacts, WorkerAssumption
     DEF Free, RunRecords, Flows, Steps, Statuses, Computes, NoLease, RecordOK,
         LoadedSteps

\* A run goes on to another step.
LEMMA GotoOK ==
  ASSUME run \in [Workers -> RunRecords], NEW w \in Workers, NEW pc \in Steps,
         Goto(w, pc)
  PROVE  \E r : Moves(w, r) /\ Same(run[w], r) /\ r.pc = pc
<1> DEFINE t == IF pc \in OwnSteps THEN MaxTries ELSE run[w].tries
           x == [run[w] EXCEPT !.pc = pc, !.tries = t]
<1>1. run[w] \in RunRecords /\ t \in 0 .. MaxTries
  BY WorkerAssumption DEF RunRecords
<1>2. run' = [run EXCEPT ![w] = x]
  BY DEF Goto
<1> HIDE DEF t
<1>3. x \in RunRecords /\ x.pc = pc /\ Same(run[w], x)
  BY <1>1 DEF RunRecords, Same
<1> QED BY <1>2, <1>3 DEF Moves

\* A durable step starts over, or the run has failed.
LEMMA ThrowOK ==
  ASSUME run \in [Workers -> RunRecords], NEW w \in Workers, Throw(w)
  PROVE  \E r : /\ Moves(w, r) /\ Same(run[w], r)
                /\ \/ r.pc = "failed" /\ run[w].tries = 0
                   \/ r.pc = StepStart(run[w])
<1> DEFINE d == run[w]
           x == [d EXCEPT !.pc = "failed"]
           y == [d EXCEPT !.tries = d.tries - 1, !.pc = StepStart(d)]
<1>1. d \in RunRecords
  OBVIOUS
<1>2. StepStart(d) \in Steps
  BY <1>1, StepFacts DEF StepStart, RunRecords
<1>3. x \in RunRecords /\ x.pc = "failed" /\ Same(d, x)
  BY <1>1 DEF RunRecords, Same, Steps
<1>4. CASE d.tries = 0
  BY <1>3, <1>4 DEF Moves, Throw
<1>5. CASE d.tries # 0
  <2>1. d.tries - 1 \in 0 .. MaxTries
    BY <1>1, <1>5, WorkerAssumption DEF RunRecords
  <2>2. y \in RunRecords /\ y.pc = StepStart(d) /\ Same(d, y)
    BY <1>1, <1>2, <2>1 DEF RunRecords, Same
  <2>3. run' = [run EXCEPT ![w] = y]
    BY <1>5 DEF Throw
  <2> QED BY <2>2, <2>3 DEF Moves
<1> QED BY <1>4, <1>5

\* A run ends.
LEMMA FinishOK ==
  ASSUME NEW w \in Workers, Finish(w)
  PROVE  Moves(w, Free)
  BY FreeOK DEF Finish, Moves

\* A run notes the status or the compute it saw, or an attachment.
LEMMA NoteOK ==
  ASSUME run \in [Workers -> RunRecords], NEW w \in Workers,
         NEW pc \in Steps, NEW seen \in Statuses, NEW found \in Computes,
         NEW saw \in LeaseOrNone
  PROVE  /\ [run[w] EXCEPT !.pc = pc, !.seen = seen] \in RunRecords
         /\ [run[w] EXCEPT !.seen = seen, !.pc = pc] \in RunRecords
         /\ [run[w] EXCEPT !.pc = pc, !.found = found] \in RunRecords
         /\ [run[w] EXCEPT !.pc = pc, !.saw = saw] \in RunRecords
<1>1. run[w] \in RunRecords
  OBVIOUS
<1> QED BY <1>1 DEF RunRecords

Looks == UNCHANGED <<rowVars, provider, compute, billing, engine>>

\* What holds of the run that takes a step, before the step.
LEMMA RunFacts ==
  ASSUME Inv, NEW w \in Workers
  PROVE  /\ run \in [Workers -> RunRecords] /\ run[w] \in RunRecords
         /\ RecordOK(run[w]) /\ BeyondRecord(run[w], compute)
         /\ StopsForGood => DownRecord(run[w], compute) /\ run[w].flow # "resume"
         /\ status \in Statuses /\ provider \in BOOLEAN /\ compute \in Computes
         /\ billing \in BOOLEAN /\ engine \in Engines /\ attachment \in LeaseOrNone
         /\ Committing(w) => status \notin Terminal
         /\ Early(w) => ~provider
         /\ StopsForGood /\ Early(w) => status \in {"pending", "starting"}
  BY DEF Inv, TypePart, RecordPart, BeyondPart, DownPart, LockPart, StartPart,
         GatewayInv, RowPart

\* A step that changes nothing but the run.
LEMMA LookEffect ==
  ASSUME Inv, NEW w \in Workers, NEW r, Looks,
         RecordEffect(w, r), OwnEffect(w, r)
  PROVE  RunEffect(w, r)
<1>1. RowEffect
  BY RunFacts DEF Looks, RowEffect, rowVars
<1>2. StatusEffect(w) /\ ProviderEffect(w, r) /\ ComputeEffect(w, r)
  BY DEF Looks, rowVars, StatusEffect, ProviderEffect, ComputeEffect
<1> QED BY <1>1, <1>2 DEF RunEffect

\* A run that ends leaves nothing of its own behind.
LEMMA FreeEffect ==
  ASSUME NEW w \in Workers, Moves(w, Free),
         Keeping(run[w]) /\ ~DestroyFails => provider' \/ compute' \in Beyond
  PROVE  RecordEffect(w, Free) /\ OwnEffect(w, Free)
  BY FreeOK DEF RecordEffect, OwnEffect, KnowingSteps, LoadedSteps, CommitSteps,
         BeyondRecord, DownRecord, Keeping, ReconcileFlows

\* A run that only ends.
LEMMA FinishEffect ==
  ASSUME Inv, NEW w \in Workers, Finish(w), Looks, ~Keeping(run[w])
  PROVE  RunEffect(w, Free)
  BY FinishOK, FreeEffect, LookEffect

\* A step that throws.
LEMMA ThrowEffect ==
  ASSUME Inv, NEW w \in Workers, Throw(w), Looks,
         run[w].flow = "start" => run[w].tries > 0
  PROVE  \E r : RunEffect(w, r)
<1> DEFINE d == run[w]
<1>1. PICK r : /\ Moves(w, r) /\ Same(d, r)
               /\ \/ r.pc = "failed" /\ d.tries = 0
                  \/ r.pc = StepStart(d)
  BY ThrowOK, RunFacts
<1>2. d.flow \in Flows /\ RecordOK(d) /\ BeyondRecord(d, compute)
  BY RunFacts DEF RunRecords
<1>3. CASE r.pc = "failed" /\ d.tries = 0
  <2>1. d.flow # "start"
    BY <1>3
  <2>2. RecordEffect(w, r)
    BY <1>1, <1>2, <1>3, <2>1
       DEF RecordEffect, RecordOK, Same, KnowingSteps, LoadedSteps, CommitSteps
  <2>3. OwnEffect(w, r)
    BY <1>1, <1>3, <2>1
       DEF OwnEffect, Same, BeyondRecord, DownRecord, Keeping, ReconcileFlows
  <2> QED BY <2>2, <2>3, LookEffect
<1>4. CASE r.pc = d.pc
  <2>1. RecordEffect(w, r)
    BY <1>1, <1>2, <1>4, RunFacts
       DEF RecordEffect, RecordOK, Same, Committing, Looks, rowVars, CommitSteps
  <2>2. OwnEffect(w, r)
    BY <1>1, <1>2, <1>4, RunFacts
       DEF OwnEffect, Same, BeyondRecord, DownRecord, Keeping, Early, Looks,
           rowVars
  <2> QED BY <2>1, <2>2, LookEffect
<1>5. CASE r.pc = FirstStep[d.flow] /\ d.pc \notin OwnSteps
  <2>1. d.flow # "start"
    BY <1>2, <1>5, StepFacts DEF RecordOK
  <2>2. r.pc \notin KnowingSteps \cup {"terminate", "usage"}
    BY <1>2, <1>5, StepFacts
  <2>3. r.pc # "setup_mark"
    BY <1>2, <1>5 DEF Flows, FirstStep
  <2>4. RecordEffect(w, r)
    BY <1>1, <1>2, <2>1, <2>2 DEF RecordEffect, RecordOK, Same, KnowingSteps
  <2>5. OwnEffect(w, r)
    BY <1>1, <2>1, <2>2, <2>3
       DEF OwnEffect, Same, BeyondRecord, DownRecord, Keeping, KnowingSteps,
           LoadedSteps, CommitSteps
  <2> QED BY <2>4, <2>5, LookEffect
<1> QED BY <1>1, <1>3, <1>4, <1>5 DEF StepStart

\* A run other than a start run goes on without having changed anything.
LEMMA GoEffect ==
  ASSUME Inv, NEW w \in Workers, NEW r, Looks, Moves(w, r), RecordOK(r),
         run[w].flow # "start", r.flow = run[w].flow,
         r.pc \in KnowingSteps => run[w].pc \in KnowingSteps \/ provider,
         r.pc \in CommitSteps => status \notin Terminal,
         BeyondRecord(r, compute), StopsForGood => DownRecord(r, compute)
  PROVE  RunEffect(w, r)
<1>1. RecordEffect(w, r) /\ OwnEffect(w, r)
  BY DEF RecordEffect, OwnEffect, Looks, rowVars, Keeping
<1> QED BY <1>1, LookEffect

\* From which statuses the worker's events lead where.
LEMMA EventFacts ==
  /\ Applicable("stop_requested") => status \notin Terminal
  /\ Applicable("provider_start_requested") =>
       status \in {"pending", "stopped", "failed", "starting"}
  /\ Applicable("provider_start_accepted") => status \in {"starting", "started"}
  /\ Applicable("provider_runtime_initialization_started") =>
       status \in {"started", "initializing"}
  /\ Applicable("runtime_ready") => status \in {"initializing", "running"}
  /\ After(status, "provider_start_requested") = "starting"
  /\ After(status, "provider_start_accepted") = "started"
  /\ After(status, "provider_runtime_initialization_started") = "initializing"
  /\ After(status, "runtime_ready") = "running"
  BY DEF Applicable, Invalid, Transitions, Unchanged, After, Rule, Terminal

\* A stop or a reconciliation goes on from one step to another between loading
\* and writing the row.
LEMMA LoadedEffect ==
  ASSUME Inv, NEW w \in Workers, NEW pc \in LoadedSteps, Looks, Goto(w, pc),
         run[w].pc \in LoadedSteps, run[w].flow # "start",
         StopsForGood => \A r : Same(run[w], r) /\ r.pc = pc => DownRecord(r, compute)
  PROVE  \E r : RunEffect(w, r)
<1>1. PICK r : Moves(w, r) /\ Same(run[w], r) /\ r.pc = pc
  BY GotoOK, RunFacts DEF Steps, LoadedSteps
<1>2. RecordOK(r)
  BY <1>1, RunFacts DEF RecordOK, Same, LoadedSteps
<1>3. /\ r.flow = run[w].flow /\ BeyondRecord(r, compute)
      /\ pc \notin CommitSteps
  BY <1>1 DEF Same, BeyondRecord, LoadedSteps, CommitSteps
<1>4. StopsForGood => DownRecord(r, compute)
  BY <1>1
<1> QED BY <1>1, <1>2, <1>3, <1>4, GoEffect DEF KnowingSteps

\* A stop is requested: the row says stopping.
LEMMA RequestEffect ==
  ASSUME Inv, NEW w \in Workers, NEW pc \in {"halt", "mark_stopped"},
         run[w].pc = "request", run[w].flow # "start",
         run[w].found = "active" => pc = "halt",
         Applicable("stop_requested"), status' = "stopping",
         run' = [run EXCEPT ![w].seen = "stopping", ![w].pc = pc],
         UNCHANGED <<deleted, attachment, ready, deadline, jobs, provider,
                     compute, billing, engine>>
  PROVE  \E r : RunEffect(w, r)
<1> DEFINE r == [run[w] EXCEPT !.seen = "stopping", !.pc = pc]
<1>1. Moves(w, r)
  BY NoteOK, RunFacts DEF Moves, Steps, Statuses
<1>2. /\ r.flow = run[w].flow /\ r.lease = run[w].lease
      /\ r.pc = pc /\ r.seen = "stopping" /\ r.found = run[w].found
  BY RunFacts DEF RunRecords
<1> HIDE DEF r
<1>3. RecordEffect(w, r)
  BY <1>1, <1>2, RunFacts
     DEF RecordEffect, RecordOK, KnowingSteps, LoadedSteps, CommitSteps, Terminal
<1>4. RowEffect
  BY RunFacts DEF RowEffect, Statuses
<1>5. StatusEffect(w)
  BY EventFacts DEF StatusEffect, KnowingSteps, LoadedSteps
<1>6. OwnEffect(w, r)
  BY <1>2, RunFacts
     DEF OwnEffect, BeyondRecord, DownRecord, Keeping
<1> QED BY <1>3, <1>4, <1>5, <1>6 DEF RunEffect, ProviderEffect, ComputeEffect

\* The provider is asked to stop the compute.
LEMMA HaltEffect ==
  ASSUME Inv, NEW w \in Workers, run[w].pc = "halt", run[w].flow # "start",
         StopCompute, NEW pc \in {"mark_failed", "mark_stopped", "inspect_again"},
         Goto(w, pc), UNCHANGED <<rowVars, provider, billing, engine>>
  PROVE  \E r : RunEffect(w, r)
<1>1. PICK r : Moves(w, r) /\ Same(run[w], r) /\ r.pc = pc
  BY GotoOK, RunFacts DEF Steps
<1>2. /\ compute' \in Computes
      /\ \/ compute' = compute /\ compute # "active"
         \/ /\ compute = "active"
            /\ "active" \notin StopLeaves => compute' # "active"
  BY RunFacts, WorkerAssumption DEF StopCompute
<1>3. RecordEffect(w, r)
  BY <1>1, RunFacts
     DEF RecordEffect, RecordOK, Same, KnowingSteps, LoadedSteps, CommitSteps
<1>4. RowEffect
  BY <1>2, RunFacts DEF RowEffect, rowVars
<1>5. StatusEffect(w)
  BY DEF StatusEffect, rowVars
<1>6. OwnEffect(w, r)
  BY <1>1, <1>2
     DEF OwnEffect, Same, BeyondRecord, DownRecord, Keeping, StopsForGood
<1> QED BY <1>2, <1>3, <1>4, <1>5, <1>6
     DEF RunEffect, ProviderEffect, ComputeEffect

\* The row is as the run wants it already: only the deadlines are cleared.
LEMMA ClearEffect ==
  ASSUME Inv, NEW w \in Workers, NEW r, RecordEffect(w, r), OwnEffect(w, r),
         deadline' = DeadlinesCleared,
         UNCHANGED <<status, deleted, attachment, ready, jobs, provider, compute,
                     billing, engine>>
  PROVE  RunEffect(w, r)
<1>1. RowEffect
  BY RunFacts DEF RowEffect
<1> QED BY <1>1 DEF RunEffect, StatusEffect, ProviderEffect, ComputeEffect

\* The row is locked and checked: the transaction is about to commit.
LEMMA LockEffect ==
  ASSUME Inv, NEW w \in Workers, NEW pc \in CommitSteps, Looks, Goto(w, pc),
         run[w].pc \in LoadedSteps, run[w].flow # "start",
         status \notin Terminal,
         StopsForGood /\ pc = "commit_stopped" => compute # "active"
  PROVE  \E r : RunEffect(w, r)
<1>1. PICK r : Moves(w, r) /\ Same(run[w], r) /\ r.pc = pc
  BY GotoOK, RunFacts DEF Steps, CommitSteps
<1> QED BY <1>1, GoEffect, RunFacts
     DEF RecordOK, Same, KnowingSteps, LoadedSteps, CommitSteps, BeyondRecord,
         DownRecord

\* The transaction commits; the run goes on at r.
LEMMA CommitEffect ==
  ASSUME Inv, NEW w \in Workers, NEW r, NEW target \in Terminal,
         run[w].flow # "start",
         run[w].pc = IF target = "stopped" THEN "commit_stopped"
                                           ELSE "commit_failed",
         RecordEffect(w, r), OwnEffect(w, r),
         status' = target, deadline' = DeadlinesCleared,
         UNCHANGED <<deleted, attachment, ready, jobs, provider, compute, billing,
                     engine>>
  PROVE  RunEffect(w, r)
<1>1. RowEffect
  BY RunFacts DEF RowEffect, Terminal, Statuses
<1>2. StatusEffect(w)
  BY RunFacts
     DEF StatusEffect, Committing, KnowingSteps, CommitSteps, DownRecord, Terminal
<1> QED BY <1>1, <1>2 DEF RunEffect, ProviderEffect, ComputeEffect

-----------------------------------------------------------------------------
(* The stop workflow and the check of a deadline. *)

\* After the durable step.
LEMMA StopOverEffect ==
  ASSUME Inv, NEW w \in Workers, run[w].flow \in StopFlows, StopOver(w), Looks
  PROVE  \E r : RunEffect(w, r)
<1>1. CASE run[w].flow = "stop" /\ run[w].saw # NoLease
  <2>1. PICK r : Moves(w, r) /\ Same(run[w], r) /\ r.pc = "terminate"
    BY <1>1, GotoOK, RunFacts DEF StopOver, Steps, OwnSteps
  <2>2. r.saw \in Leases
    BY <1>1, <2>1, RunFacts, LeaseFacts DEF Same, RunRecords
  <2> QED BY <1>1, <2>1, <2>2, GoEffect
       DEF RecordOK, Same, KnowingSteps, LoadedSteps, CommitSteps, BeyondRecord,
           DownRecord
<1>2. CASE ~(run[w].flow = "stop" /\ run[w].saw # NoLease)
  BY <1>2, FinishEffect DEF StopOver, Keeping, StopFlows
<1> QED BY <1>1, <1>2

\* A look at the attachment.
LEMMA StopFenceEffect ==
  ASSUME Inv, NEW w \in Workers, NEW from, NEW to \in Steps,
         \/ from = "fence_load" /\ to = "load"
         \/ from = "fence_stop" /\ to = "inspect"
         \/ from = "fence_mark" /\ to = "request",
         StopFence(w, from, to)
  PROVE  \E r : RunEffect(w, r)
<1> DEFINE saw == IF from = "fence_mark" THEN run[w].saw ELSE attachment
           r == [run[w] EXCEPT !.pc = to, !.saw = saw]
<1>1. Looks
  BY DEF StopFence, Looks
<1>2. CASE StopPermitted(w)
  <2>1. saw \in LeaseOrNone
    BY RunFacts DEF RunRecords
  <2>2. run' = [run EXCEPT ![w] = r]
    BY <1>2 DEF StopFence
  <2> HIDE DEF saw
  <2>3. Moves(w, r)
    BY <2>1, <2>2, NoteOK, RunFacts DEF Moves
  <2>4. /\ r.flow = run[w].flow /\ r.lease = run[w].lease /\ r.pc = to
        /\ r.seen = run[w].seen /\ r.found = run[w].found
    BY RunFacts DEF RunRecords
  <2>5. run[w].pc = from /\ run[w].flow \in {"stop", "idle"}
    BY DEF StopFence, In, StopFlows
  <2>6. RecordOK(r)
    BY <2>4, <2>5, RunFacts DEF RecordOK, LoadedSteps
  <2> QED BY <1>1, <2>3, <2>4, <2>5, <2>6, GoEffect, RunFacts
       DEF KnowingSteps, LoadedSteps, CommitSteps, BeyondRecord, DownRecord,
           ReconcileFlows
<1>3. CASE ~StopPermitted(w)
  BY <1>1, <1>3, FinishEffect DEF StopFence, In, StopFlows, Keeping
<1> QED BY <1>2, <1>3

\* The row is loaded.
LEMMA StopLoadEffect ==
  ASSUME Inv, NEW w \in Workers, StopLoad(w)
  PROVE  \E r : RunEffect(w, r)
<1>1. /\ Looks /\ run[w].flow \in {"stop", "idle"} /\ run[w].pc = "load"
  BY DEF StopLoad, In, StopFlows, Looks
<1>2. CASE StopOver(w)
  BY <1>1, <1>2, StopOverEffect DEF StopFlows
<1>3. CASE Throw(w)
  BY <1>1, <1>3, ThrowEffect
<1>4. CASE /\ status \in Stoppable /\ provider
           /\ run' = [run EXCEPT ![w].pc = "fence_stop", ![w].seen = status]
  <2> DEFINE r == [run[w] EXCEPT !.pc = "fence_stop", !.seen = status]
  <2>1. Moves(w, r)
    BY <1>4, NoteOK, RunFacts DEF Moves, Steps
  <2>2. /\ r.flow = run[w].flow /\ r.lease = run[w].lease
        /\ r.pc = "fence_stop" /\ r.seen = status
    BY RunFacts DEF RunRecords
  <2>3. RecordOK(r)
    BY <1>1, <1>4, <2>2, RunFacts
       DEF RecordOK, LoadedSteps, Terminal, Stoppable
  <2> QED BY <1>1, <1>4, <2>1, <2>2, <2>3, GoEffect
       DEF CommitSteps, BeyondRecord, DownRecord, ReconcileFlows
<1> QED BY <1>2, <1>3, <1>4 DEF StopLoad

\* The provider is asked before the stop.
LEMMA StopInspectEffect ==
  ASSUME Inv, NEW w \in Workers, StopInspect(w)
  PROVE  \E r : RunEffect(w, r)
<1>1. Looks /\ run[w].flow \in {"stop", "idle"} /\ run[w].pc = "inspect"
  BY DEF StopInspect, In, StopFlows, Looks
<1>2. CASE Goto(w, "mark_failed")
  <2>1. PICK r : Moves(w, r) /\ Same(run[w], r) /\ r.pc = "mark_failed"
    BY <1>2, GotoOK, RunFacts DEF Steps
  <2>2. RecordOK(r)
    BY <1>1, <2>1, RunFacts DEF RecordOK, Same, LoadedSteps
  <2> QED BY <1>1, <2>1, <2>2, GoEffect
       DEF Same, KnowingSteps, LoadedSteps, CommitSteps, BeyondRecord, DownRecord
<1>3. CASE Throw(w)
  BY <1>1, <1>3, ThrowEffect
<1>4. CASE run' = [run EXCEPT ![w].pc = "fence_mark", ![w].found = compute]
  <2> DEFINE r == [run[w] EXCEPT !.pc = "fence_mark", !.found = compute]
  <2>1. Moves(w, r)
    BY <1>4, NoteOK, RunFacts DEF Moves, Steps
  <2>2. /\ r.flow = run[w].flow /\ r.lease = run[w].lease
        /\ r.pc = "fence_mark" /\ r.seen = run[w].seen /\ r.found = compute
    BY RunFacts DEF RunRecords
  <2>3. RecordOK(r)
    BY <1>1, <2>2, RunFacts DEF RecordOK, LoadedSteps
  <2> QED BY <1>1, <2>1, <2>2, <2>3, GoEffect
       DEF KnowingSteps, LoadedSteps, CommitSteps, BeyondRecord, DownRecord
<1> QED BY <1>2, <1>3, <1>4 DEF StopInspect

\* The status is moved to stopping.
LEMMA StopRequestEffect ==
  ASSUME Inv, NEW w \in Workers, StopRequest(w)
  PROVE  \E r : RunEffect(w, r)
<1>1. run[w].flow \in {"stop", "idle"} /\ run[w].pc = "request"
  BY DEF StopRequest, In, StopFlows
<1>2. CASE Applicable("stop_requested")
  <2> DEFINE p == IF run[w].found = "active" THEN "halt" ELSE "mark_stopped"
  <2>1. /\ status' = "stopping"
        /\ run' = [run EXCEPT ![w].seen = "stopping", ![w].pc = p]
        /\ UNCHANGED <<deleted, attachment, ready, deadline, jobs, provider,
                       compute, billing, engine>>
    BY <1>2 DEF StopRequest
  <2>2. /\ p \in {"halt", "mark_stopped"}
        /\ run[w].found = "active" => p = "halt"
    OBVIOUS
  <2> HIDE DEF p
  <2> QED BY <1>1, <1>2, <2>1, <2>2, RequestEffect
<1>3. CASE ~Applicable("stop_requested")
  BY <1>1, <1>3, ThrowEffect DEF StopRequest, Looks, rowVars
<1> QED BY <1>2, <1>3

\* The compute is stopped and looked at again.
LEMMA StopHaltEffect ==
  ASSUME Inv, NEW w \in Workers, StopHalt(w) \/ StopInspectAgain(w)
  PROVE  \E r : RunEffect(w, r)
<1>1. run[w].flow \in {"stop", "idle"}
  BY DEF StopHalt, StopInspectAgain, In, StopFlows
<1>2. CASE StopHalt(w)
  <2> DEFINE p == IF compute = "missing" THEN "mark_failed" ELSE "inspect_again"
  <2>1. p \in {"mark_failed", "mark_stopped", "inspect_again"}
    OBVIOUS
  <2>2. /\ run[w].pc = "halt" /\ StopCompute /\ Goto(w, p)
        /\ UNCHANGED <<rowVars, provider, billing, engine>>
    BY <1>2 DEF StopHalt, In
  <2> HIDE DEF p
  <2> QED BY <1>1, <2>1, <2>2, HaltEffect
<1>3. CASE StopInspectAgain(w)
  <2>1. run[w].pc = "inspect_again" /\ Looks
    BY <1>3 DEF StopInspectAgain, In, Looks
  <2>2. CASE Throw(w)
    BY <1>1, <2>1, <2>2, ThrowEffect
  <2>3. CASE Goto(w, "mark_failed")
    BY <1>1, <2>1, <2>3, LoadedEffect DEF LoadedSteps, DownRecord
  <2>4. CASE compute = "resumable_stopped" /\ Goto(w, "mark_stopped")
    BY <1>1, <2>1, <2>4, LoadedEffect DEF LoadedSteps, DownRecord
  <2> QED BY <1>3, <2>2, <2>3, <2>4 DEF StopInspectAgain
<1> QED BY <1>2, <1>3

\* The transaction that marks the instance stopped begins.
LEMMA StopMarkEffect ==
  ASSUME Inv, NEW w \in Workers, StopMark(w) \/ StopMarkFailed(w)
  PROVE  \E r : RunEffect(w, r)
<1>1. /\ run[w].flow \in {"stop", "idle"} /\ run[w].pc \in LoadedSteps
      /\ UNCHANGED <<status, deleted, attachment, ready, jobs, provider, compute,
                     billing, engine>>
  BY DEF StopMark, StopMarkFailed, In, StopFlows, LoadedSteps
<1>2. UNCHANGED deadline => Looks
  BY <1>1 DEF Looks, rowVars
<1>3. CASE Throw(w) /\ UNCHANGED deadline
  BY <1>1, <1>2, <1>3, ThrowEffect
<1>4. CASE Finish(w)
  <2>1. RecordEffect(w, Free) /\ OwnEffect(w, Free)
    BY <1>1, <1>4, FinishOK, FreeEffect DEF Keeping
  <2> QED BY <1>1, <1>2, <2>1, ClearEffect, LookEffect
       DEF StopMark, StopMarkFailed
<1>5. CASE StopOver(w) /\ deadline' = DeadlinesCleared
  <2>1. CASE run[w].flow = "stop" /\ run[w].saw # NoLease
    <3>1. PICK r : Moves(w, r) /\ Same(run[w], r) /\ r.pc = "terminate"
      BY <1>5, <2>1, GotoOK, RunFacts DEF StopOver, Steps, OwnSteps
    <3>2. r.saw \in Leases
      BY <2>1, <3>1, RunFacts, LeaseFacts DEF Same, RunRecords
    <3>3. RecordEffect(w, r) /\ OwnEffect(w, r)
      BY <2>1, <3>1, <3>2
         DEF RecordEffect, OwnEffect, RecordOK, Same, KnowingSteps, LoadedSteps,
             CommitSteps, BeyondRecord, DownRecord, Keeping
    <3> QED BY <1>1, <1>5, <3>3, ClearEffect
  <2>2. CASE ~(run[w].flow = "stop" /\ run[w].saw # NoLease)
    BY <1>4, <1>5, <2>2 DEF StopOver
  <2> QED BY <2>1, <2>2
<1>6. CASE status \notin Terminal /\ Goto(w, "commit_stopped") /\ StopMark(w)
  BY <1>1, <1>2, <1>6, RunFacts, LockEffect
     DEF StopMark, In, CommitSteps, Terminal, DownRecord
<1>7. CASE Goto(w, "commit_failed") /\ StopMarkFailed(w) /\ status = run[w].seen
           /\ UNCHANGED deadline
  <2>1. run[w].pc = "mark_failed" /\ run[w].seen \notin Terminal
    BY <1>1, <1>7, RunFacts DEF StopMarkFailed, In, RecordOK
  <2> QED BY <1>1, <1>2, <1>7, <2>1, LockEffect DEF CommitSteps
<1>8. CASE StopMark(w)
  BY <1>3, <1>4, <1>5, <1>6, <1>8 DEF StopMark, Terminal
<1>9. CASE StopMarkFailed(w)
  BY <1>3, <1>4, <1>7, <1>9 DEF StopMarkFailed
<1> QED BY <1>8, <1>9

\* The transaction commits.
LEMMA StopCommitEffect ==
  ASSUME Inv, NEW w \in Workers, NEW target \in Terminal, NEW pc,
         pc = IF target = "stopped" THEN "commit_stopped" ELSE "commit_failed",
         StopCommit(w, pc, target)
  PROVE  \E r : RunEffect(w, r)
<1>1. /\ run[w].flow \in {"stop", "idle"} /\ run[w].pc = pc
      /\ status' = target /\ deadline' = DeadlinesCleared
      /\ UNCHANGED <<deleted, attachment, ready, jobs, provider, compute, billing,
                     engine>>
  BY DEF StopCommit, In, StopFlows
<1>2. CASE run[w].flow = "stop"
  <2> DEFINE saw == IF target = "failed" THEN NoLease ELSE run[w].saw
             r == [run[w] EXCEPT !.pc = "usage", !.saw = saw]
  <2>1. saw \in LeaseOrNone
    BY RunFacts, LeaseFacts DEF RunRecords
  <2>2. run' = [run EXCEPT ![w] = r]
    BY <1>2 DEF StopCommit
  <2> HIDE DEF saw
  <2>3. Moves(w, r)
    BY <2>1, <2>2, NoteOK, RunFacts DEF Moves, Steps, OwnSteps
  <2>4. r.flow = "stop" /\ r.pc = "usage"
    BY <1>2, RunFacts DEF RunRecords
  <2>5. RecordEffect(w, r) /\ OwnEffect(w, r)
    BY <1>2, <2>3, <2>4
       DEF RecordEffect, OwnEffect, RecordOK, KnowingSteps, LoadedSteps,
           CommitSteps, BeyondRecord, DownRecord, Keeping
  <2> QED BY <1>1, <2>5, CommitEffect
<1>3. CASE run[w].flow # "stop"
  <2>1. RecordEffect(w, Free) /\ OwnEffect(w, Free)
    BY <1>1, <1>3, FinishOK, FreeEffect DEF StopCommit, Keeping
  <2> QED BY <1>1, <2>1, CommitEffect
<1> QED BY <1>2, <1>3

\* A usage event, with the run going on at r.
LEMMA UsageEffect ==
  ASSUME Inv, NEW w \in Workers, NEW r, RecordEffect(w, r), OwnEffect(w, r),
         billing' \in BOOLEAN, UNCHANGED <<rowVars, provider, compute, engine>>
  PROVE  RunEffect(w, r)
<1>1. RowEffect
  BY RunFacts DEF RowEffect, rowVars
<1> QED BY <1>1
     DEF RunEffect, StatusEffect, ProviderEffect, ComputeEffect, rowVars

\* The usage event of a stop.
LEMMA StopUsageEffect ==
  ASSUME Inv, NEW w \in Workers, StopUsage(w)
  PROVE  \E r : RunEffect(w, r)
<1>1. /\ run[w].flow = "stop" /\ run[w].pc = "usage" /\ billing' = FALSE
      /\ UNCHANGED <<rowVars, provider, compute, engine>>
  BY DEF StopUsage, In
<1>2. CASE run[w].saw # NoLease
  <2>1. PICK r : Moves(w, r) /\ Same(run[w], r) /\ r.pc = "terminate"
    BY <1>1, <1>2, GotoOK, RunFacts DEF StopUsage, StopOver, Steps, OwnSteps
  <2>2. r.saw \in Leases
    BY <1>2, <2>1, RunFacts, LeaseFacts DEF Same, RunRecords
  <2>3. RecordEffect(w, r) /\ OwnEffect(w, r)
    BY <1>1, <2>1, <2>2
       DEF RecordEffect, OwnEffect, RecordOK, Same, KnowingSteps, LoadedSteps,
           CommitSteps, BeyondRecord, DownRecord, Keeping
  <2> QED BY <1>1, <2>3, UsageEffect
<1>3. CASE run[w].saw = NoLease
  <2>1. RecordEffect(w, Free) /\ OwnEffect(w, Free)
    BY <1>1, <1>3, FinishOK, FreeEffect DEF StopUsage, StopOver, Keeping
  <2> QED BY <1>1, <2>1, UsageEffect
<1> QED BY <1>2, <1>3

\* A deadline run checks the stored deadline.
LEMMA CheckDeadlineEffect ==
  ASSUME Inv, NEW w \in Workers, CheckDeadline(w)
  PROVE  \E r : RunEffect(w, r)
<1>1. Looks /\ run[w].flow \in {"idle", "disconnect"} /\ run[w].pc = "check"
  BY DEF CheckDeadline, In, DeadlineKinds, Looks
<1>2. CASE DeadlineCurrent(w)
  <2> DEFINE p == IF run[w].flow = "idle" THEN "fence_load" ELSE "snapshot"
  <2>1. p \in {"fence_load", "snapshot"} /\ p \in Steps /\ Goto(w, p)
    BY <1>2 DEF CheckDeadline, Steps
  <2> HIDE DEF p
  <2>2. PICK r : Moves(w, r) /\ Same(run[w], r) /\ r.pc = p
    BY <2>1, GotoOK, RunFacts
  <2> QED BY <1>1, <2>1, <2>2, GoEffect, RunFacts
       DEF RecordOK, Same, KnowingSteps, LoadedSteps, CommitSteps, BeyondRecord,
           DownRecord
<1>3. CASE ~DeadlineCurrent(w)
  BY <1>1, <1>3, FinishEffect DEF CheckDeadline, Keeping
<1> QED BY <1>2, <1>3

\* All of it.
LEMMA StopStepEffect ==
  ASSUME Inv, NEW w \in Workers, StopStep(w) \/ CheckDeadline(w)
  PROVE  \E r : RunEffect(w, r)
<1>1. CASE StopFence(w, "fence_load", "load")
  BY <1>1, StopFenceEffect DEF Steps
<1>2. CASE StopFence(w, "fence_stop", "inspect")
  BY <1>2, StopFenceEffect DEF Steps
<1>3. CASE StopFence(w, "fence_mark", "request")
  BY <1>3, StopFenceEffect DEF Steps
<1>4. CASE StopCommit(w, "commit_stopped", "stopped")
  BY <1>4, StopCommitEffect DEF Terminal
<1>5. CASE StopCommit(w, "commit_failed", "failed")
  BY <1>5, StopCommitEffect DEF Terminal
<1> QED
  BY <1>1, <1>2, <1>3, <1>4, <1>5, StopLoadEffect, StopInspectEffect,
     StopRequestEffect, StopHaltEffect, StopMarkEffect, StopUsageEffect,
     CheckDeadlineEffect
     DEF StopStep

-----------------------------------------------------------------------------
(* The reconcile workflow. *)

\* Where a reconcile run goes when its durable step is over, or the end of a
\* disconnect run.
LEMMA OverEffect ==
  ASSUME Inv, NEW w \in Workers, run[w].flow \in ReconcileFlows,
         NEW pc \in {"terminate", "usage"},
         IF run[w].flow = "reconcile"
         THEN run' = [run EXCEPT ![w].pc = pc, ![w].saw = run[w].lease]
         ELSE Finish(w)
  PROVE  \E r : RecordEffect(w, r) /\ OwnEffect(w, r)
<1>1. CASE run[w].flow = "reconcile"
  <2> DEFINE r == [run[w] EXCEPT !.pc = pc, !.saw = run[w].lease]
  <2>1. run[w].lease \in Leases /\ run[w].lease \in LeaseOrNone
    BY <1>1, RunFacts, LeaseFacts DEF RecordOK
  <2>2. Moves(w, r)
    BY <1>1, <2>1, NoteOK, RunFacts DEF Moves, Steps, OwnSteps
  <2>3. /\ r.flow = "reconcile" /\ r.pc = pc /\ r.lease = run[w].lease
        /\ r.saw = run[w].lease
    BY <1>1, RunFacts DEF RunRecords
  <2>4. RecordEffect(w, r) /\ OwnEffect(w, r)
    BY <1>1, <2>1, <2>2, <2>3
       DEF RecordEffect, OwnEffect, RecordOK, KnowingSteps, LoadedSteps,
           CommitSteps, BeyondRecord, DownRecord, Keeping
  <2> QED BY <2>4
<1>2. CASE run[w].flow # "reconcile"
  <2>1. RecordEffect(w, Free) /\ OwnEffect(w, Free)
    BY <1>2, FinishOK, FreeEffect DEF Keeping, ReconcileFlows
  <2> QED BY <2>1
<1> QED BY <1>1, <1>2

\* The attachment is read, then the row.
LEMMA ReconcileSnapshotEffect ==
  ASSUME Inv, NEW w \in Workers, ReconcileSnapshot(w)
  PROVE  \E r : RunEffect(w, r)
<1> DEFINE r == [run[w] EXCEPT !.pc = "load", !.saw = attachment]
<1>1. Looks /\ run[w].flow \in ReconcileFlows
  BY DEF ReconcileSnapshot, In, Looks
<1>2. Moves(w, r)
  BY NoteOK, RunFacts DEF ReconcileSnapshot, Moves, Steps
<1>3. r.flow = run[w].flow /\ r.pc = "load" /\ r.lease = run[w].lease
  BY RunFacts DEF RunRecords
<1> HIDE DEF r
<1> QED BY <1>1, <1>2, <1>3, GoEffect, RunFacts
     DEF RecordOK, KnowingSteps, LoadedSteps, CommitSteps, BeyondRecord,
         DownRecord, ReconcileFlows

\* The row is loaded, and whether there is something to reconcile decided.
LEMMA ReconcileLoadEffect ==
  ASSUME Inv, NEW w \in Workers, ReconcileLoad(w)
  PROVE  \E r : RunEffect(w, r)
<1>1. Looks /\ run[w].flow \in ReconcileFlows
  BY DEF ReconcileLoad, In, Looks
<1>2. CASE Finish(w)
  BY <1>1, <1>2, FinishEffect DEF Keeping, ReconcileFlows
<1>3. CASE Throw(w)
  BY <1>1, <1>3, ThrowEffect DEF ReconcileFlows
<1>4. CASE ReconcileOver(w)
  BY <1>1, <1>4, OverEffect, LookEffect DEF ReconcileOver
<1>5. CASE /\ ReconciliationCandidate(status) /\ provider
           /\ run' = [run EXCEPT ![w].pc = "fence_inspect", ![w].seen = status]
  <2> DEFINE r == [run[w] EXCEPT !.pc = "fence_inspect", !.seen = status]
  <2>1. Moves(w, r)
    BY <1>5, NoteOK, RunFacts DEF Moves, Steps
  <2>2. /\ r.flow = run[w].flow /\ r.lease = run[w].lease
        /\ r.pc = "fence_inspect" /\ r.seen = status
    BY RunFacts DEF RunRecords
  <2>3. status \notin Terminal
    BY <1>5 DEF ReconciliationCandidate, ReconciliationPhase, Terminal
  <2> HIDE DEF r
  <2> QED BY <1>1, <1>5, <2>1, <2>2, <2>3, GoEffect, RunFacts
       DEF RecordOK, LoadedSteps, CommitSteps, BeyondRecord, DownRecord,
           ReconcileFlows
<1> QED BY <1>2, <1>3, <1>4, <1>5 DEF ReconcileLoad

\* The looks at the attachment.
LEMMA ReconcileFenceEffect ==
  ASSUME Inv, NEW w \in Workers, NEW from, NEW to,
         \/ from = "fence_inspect" /\ to = "inspect"
         \/ from = "fence_stop" /\ to = "fence_mark"
         \/ from = "fence_mark" /\ to = "request",
         ReconcileFence(w, from, to)
  PROVE  \E r : RunEffect(w, r)
<1>1. Looks /\ run[w].flow \in ReconcileFlows /\ run[w].pc = from
  BY DEF ReconcileFence, In, Looks
<1>2. CASE Finish(w)
  BY <1>1, <1>2, FinishEffect DEF Keeping, ReconcileFlows
<1>3. CASE Goto(w, to)
  <2>1. StopsForGood => \A r : Same(run[w], r) /\ r.pc = to => DownRecord(r, compute)
    BY <1>1, RunFacts DEF DownRecord, Same
  <2> QED BY <1>1, <1>3, <2>1, LoadedEffect DEF LoadedSteps, ReconcileFlows
<1> QED BY <1>2, <1>3 DEF ReconcileFence

\* The provider is asked.
LEMMA ReconcileInspectEffect ==
  ASSUME Inv, NEW w \in Workers, ReconcileInspect(w)
  PROVE  \E r : RunEffect(w, r)
<1>1. Looks /\ run[w].flow \in ReconcileFlows /\ run[w].pc = "inspect"
  BY DEF ReconcileInspect, In, Looks
<1>2. CASE Throw(w)
  BY <1>1, <1>2, ThrowEffect DEF ReconcileFlows
<1>3. ASSUME NEW next \in ReconcileActions(run[w].seen, compute),
             run' = [run EXCEPT ![w].pc = next, ![w].found = compute]
      PROVE  \E r : RunEffect(w, r)
  <2> DEFINE r == [run[w] EXCEPT !.pc = next, !.found = compute]
  <2>1. /\ next \in {"mark_stopped", "mark_failed", "fence_stop"}
        /\ next = "mark_stopped" => compute # "active"
        /\ next = "fence_stop" => compute = "active"
    BY <1>3, RunFacts DEF ReconcileActions, Computes
  <2>2. Moves(w, r)
    BY <1>3, <2>1, NoteOK, RunFacts DEF Moves, Steps
  <2>3. /\ r.flow = run[w].flow /\ r.lease = run[w].lease /\ r.pc = next
        /\ r.seen = run[w].seen /\ r.found = compute
    BY RunFacts DEF RunRecords
  <2> HIDE DEF r
  <2>4. RecordOK(r)
    BY <1>1, <2>1, <2>3, RunFacts DEF RecordOK, LoadedSteps, ReconcileFlows
  <2>5. DownRecord(r, compute) /\ BeyondRecord(r, compute)
    BY <2>1, <2>3 DEF DownRecord, BeyondRecord
  <2> QED BY <1>1, <2>1, <2>2, <2>3, <2>4, <2>5, GoEffect
       DEF KnowingSteps, LoadedSteps, CommitSteps, ReconcileFlows
<1> QED BY <1>2, <1>3 DEF ReconcileInspect

\* A compute nobody can reach is stopped.
LEMMA ReconcileStopEffect ==
  ASSUME Inv, NEW w \in Workers, ReconcileRequest(w) \/ ReconcileHalt(w)
  PROVE  \E r : RunEffect(w, r)
<1>1. run[w].flow \in ReconcileFlows /\ run[w].flow # "start"
  BY DEF ReconcileRequest, ReconcileHalt, In, ReconcileFlows
<1>2. CASE ReconcileRequest(w) /\ Applicable("stop_requested")
  BY <1>1, <1>2, RequestEffect DEF ReconcileRequest, In
<1>3. CASE ReconcileRequest(w) /\ ~Applicable("stop_requested")
  BY <1>1, <1>3, ThrowEffect DEF ReconcileRequest, Looks, rowVars
<1>4. CASE ReconcileHalt(w)
  <2> DEFINE p == IF compute = "missing" THEN "mark_failed" ELSE "mark_stopped"
  <2>1. p \in {"mark_failed", "mark_stopped", "inspect_again"}
    OBVIOUS
  <2>2. /\ run[w].pc = "halt" /\ StopCompute /\ Goto(w, p)
        /\ UNCHANGED <<rowVars, provider, billing, engine>>
    BY <1>4 DEF ReconcileHalt, In
  <2> HIDE DEF p
  <2> QED BY <1>1, <2>1, <2>2, HaltEffect
<1> QED BY <1>2, <1>3, <1>4

\* The transactions that mark the instance stopped or failed.
LEMMA ReconcileMarkEffect ==
  ASSUME Inv, NEW w \in Workers, NEW pc, NEW target, NEW commit,
         \/ pc = "mark_stopped" /\ target = "stopped" /\ commit = "commit_stopped"
         \/ pc = "mark_failed" /\ target = "failed" /\ commit = "commit_failed",
         ReconcileMark(w, pc, target, commit)
  PROVE  \E r : RunEffect(w, r)
<1>1. /\ run[w].flow \in ReconcileFlows /\ run[w].pc = pc
      /\ run[w].flow # "start" /\ pc \in LoadedSteps
      /\ UNCHANGED <<status, deleted, attachment, ready, jobs, provider, compute,
                     billing, engine>>
  BY DEF ReconcileMark, In, ReconcileFlows, LoadedSteps
<1>2. UNCHANGED deadline => Looks
  BY <1>1 DEF Looks, rowVars
<1>3. CASE Throw(w) /\ UNCHANGED deadline
  BY <1>1, <1>2, <1>3, ThrowEffect
<1>4. CASE Finish(w)
  <2>1. RecordEffect(w, Free) /\ OwnEffect(w, Free)
    BY <1>1, <1>4, FinishOK, FreeEffect DEF Keeping
  <2> QED BY <1>1, <1>2, <2>1, ClearEffect, LookEffect DEF ReconcileMark
<1>5. CASE ReconcileOver(w) /\ deadline' = DeadlinesCleared
  BY <1>1, <1>5, OverEffect, ClearEffect DEF ReconcileOver
<1>6. CASE status = run[w].seen /\ Goto(w, commit) /\ UNCHANGED deadline
  <2>1. run[w].seen \notin Terminal
    BY <1>1, RunFacts DEF RecordOK
  <2>2. StopsForGood /\ commit = "commit_stopped" => compute # "active"
    BY <1>1, RunFacts DEF DownRecord
  <2> QED BY <1>1, <1>2, <1>6, <2>1, <2>2, LockEffect DEF CommitSteps
<1> QED BY <1>3, <1>4, <1>5, <1>6 DEF ReconcileMark

\* The reconciliation's transaction commits.
LEMMA ReconcileCommitEffect ==
  ASSUME Inv, NEW w \in Workers, NEW target \in Terminal, NEW pc,
         pc = IF target = "stopped" THEN "commit_stopped" ELSE "commit_failed",
         ReconcileCommit(w, pc, target)
  PROVE  \E r : RunEffect(w, r)
<1>1. /\ run[w].flow \in ReconcileFlows /\ run[w].pc = pc
      /\ run[w].flow # "start"
      /\ status' = target /\ deadline' = DeadlinesCleared
      /\ UNCHANGED <<deleted, attachment, ready, jobs, provider, compute, billing,
                     engine>>
  BY DEF ReconcileCommit, In, ReconcileFlows
<1>2. PICK r : RecordEffect(w, r) /\ OwnEffect(w, r)
  BY <1>1, OverEffect DEF ReconcileCommit
<1> QED BY <1>1, <1>2, CommitEffect

\* The usage event of a reconciliation.
LEMMA ReconcileUsageEffect ==
  ASSUME Inv, NEW w \in Workers, ReconcileUsage(w)
  PROVE  \E r : RunEffect(w, r)
<1>1. /\ run[w].flow = "reconcile" /\ run[w].pc = "usage" /\ billing' = FALSE
      /\ UNCHANGED <<rowVars, provider, compute, engine>>
  BY DEF ReconcileUsage, In
<1>2. PICK r : Moves(w, r) /\ Same(run[w], r) /\ r.pc = "terminate"
  BY GotoOK, RunFacts DEF ReconcileUsage, Steps, OwnSteps
<1>3. RecordEffect(w, r) /\ OwnEffect(w, r)
  BY <1>1, <1>2, RunFacts
     DEF RecordEffect, OwnEffect, RecordOK, Same, KnowingSteps, LoadedSteps,
         CommitSteps, BeyondRecord, DownRecord, Keeping
<1> QED BY <1>1, <1>3, UsageEffect

\* All of it.
LEMMA ReconcileStepEffect ==
  ASSUME Inv, NEW w \in Workers, ReconcileStep(w)
  PROVE  \E r : RunEffect(w, r)
<1>1. CASE \/ ReconcileFence(w, "fence_inspect", "inspect")
           \/ ReconcileFence(w, "fence_stop", "fence_mark")
           \/ ReconcileFence(w, "fence_mark", "request")
  BY <1>1, ReconcileFenceEffect
<1>2. CASE \/ ReconcileMark(w, "mark_stopped", "stopped", "commit_stopped")
           \/ ReconcileMark(w, "mark_failed", "failed", "commit_failed")
  BY <1>2, ReconcileMarkEffect
<1>3. CASE ReconcileCommit(w, "commit_stopped", "stopped")
  BY <1>3, ReconcileCommitEffect DEF Terminal
<1>4. CASE ReconcileCommit(w, "commit_failed", "failed")
  BY <1>4, ReconcileCommitEffect DEF Terminal
<1> QED
  BY <1>1, <1>2, <1>3, <1>4, ReconcileSnapshotEffect, ReconcileLoadEffect,
     ReconcileInspectEffect, ReconcileStopEffect, ReconcileUsageEffect
     DEF ReconcileStep

-----------------------------------------------------------------------------
(* The start workflow. *)

\* A start run goes on; what has to be shown of its step.
LEMMA StartMoves ==
  ASSUME Inv, NEW w \in Workers, NEW r, Moves(w, r), run[w].flow = "start",
         r.flow = "start", r.pc \in StartSteps, RowEffect,
         r.pc \in EarlySteps =>
           /\ Early(w) /\ provider' = provider
           /\ r.pc # "persist" => run[w].pc # "persist" /\ compute' = compute
           /\ status' \in {status, "starting"},
         Keeping(run[w]) /\ ~DestroyFails =>
           Keeping(r) \/ provider' \/ compute' \in Beyond,
         StopsForGood /\ r.pc = "setup_mark" => compute' # "active"
  PROVE  RecordEffect(w, r) /\ OwnEffect(w, r)
<1>1. r.pc \notin KnowingSteps \cup {"terminate", "usage"}
  BY StepFacts DEF StartSteps
<1>2. RecordEffect(w, r)
  BY <1>1 DEF RecordEffect, RecordOK, KnowingSteps
<1>3. BeyondRecord(r, compute')
  BY <1>1 DEF BeyondRecord, KnowingSteps
<1>4. StopsForGood => DownRecord(r, compute')
  BY <1>1 DEF DownRecord, KnowingSteps, LoadedSteps, CommitSteps
<1> QED BY <1>2, <1>3, <1>4 DEF OwnEffect

\* A start run that goes on without having changed anything.
LEMMA StartLooks ==
  ASSUME Inv, NEW w \in Workers, run[w].flow = "start", Looks,
         NEW to \in StartSteps \ {"setup_mark"}, Goto(w, to),
         to \in EarlySteps => Early(w) /\ (to # "persist" => run[w].pc # "persist"),
         Keeping(run[w]) => to \in {"persist", "undo"}
  PROVE  \E r : RunEffect(w, r)
<1>1. PICK r : Moves(w, r) /\ Same(run[w], r) /\ r.pc = to
  BY GotoOK, RunFacts, StepFacts
<1>2. RowEffect
  BY RunFacts DEF RowEffect, Looks, rowVars
<1>3. /\ compute' = compute /\ provider' = provider
      /\ status' \in {status, "starting"}
      /\ Keeping(run[w]) => Keeping(r)
      /\ r.flow = "start"
  BY <1>1 DEF Looks, rowVars, Keeping, Same
<1>4. RecordEffect(w, r) /\ OwnEffect(w, r)
  BY <1>1, <1>2, <1>3, StartMoves
<1> QED BY <1>4, LookEffect

\* A step fails.
LEMMA StartFailsEffect ==
  ASSUME Inv, NEW w \in Workers, NEW cleanup \in {"undo", "undo_mark"},
         run[w].flow = "start", StartStepFails(w, cleanup), Looks,
         Keeping(run[w]) => cleanup = "undo"
  PROVE  \E r : RunEffect(w, r)
<1>1. CASE run[w].tries > 0 /\ Throw(w)
  BY <1>1, ThrowEffect
<1>2. CASE Goto(w, cleanup)
  <2>1. cleanup \in StartSteps \ {"setup_mark"} /\ cleanup \notin EarlySteps
    BY DEF StartSteps, OwnSteps, EarlySteps
  <2> QED BY <1>2, <2>1, StartLooks
<1> QED BY <1>1, <1>2 DEF StartStepFails

\* The start run begins.
LEMMA StartPrepareEffect ==
  ASSUME Inv, NEW w \in Workers, StartPrepare(w)
  PROVE  \E r : RunEffect(w, r)
<1>1. /\ run[w].flow = "start" /\ run[w].pc = "prepare" /\ Looks
      /\ ~Keeping(run[w])
  BY DEF StartPrepare, Starting, In, Looks, Keeping
<1>2. CASE Goto(w, "mark_starting")
  BY <1>1, <1>2, StartLooks DEF StartSteps, OwnSteps, EarlySteps, Early
<1>3. CASE StartStepFails(w, "undo_mark")
  BY <1>1, <1>3, StartFailsEffect
<1> QED BY <1>2, <1>3 DEF StartPrepare

\* A lifecycle event of the startup.
LEMMA StartEventEffect ==
  ASSUME Inv, NEW w \in Workers, NEW from, NEW event, NEW to, NEW cleanup,
         \/ /\ from = "mark_starting" /\ event = "provider_start_requested"
            /\ to = "allocate" /\ cleanup = "undo_mark"
         \/ /\ from = "mark_initializing" /\ to = "initialize"
            /\ event = "provider_runtime_initialization_started"
            /\ cleanup = "undo",
         StartEvent(w, from, event, to, cleanup)
  PROVE  \E r : RunEffect(w, r)
<1>1. run[w].flow = "start" /\ run[w].pc = from /\ ~Keeping(run[w])
  BY DEF StartEvent, Starting, In, Keeping
<1>2. CASE Applicable(event)
  <2>1. /\ status' = After(status, event) /\ Goto(w, to)
        /\ UNCHANGED <<deleted, attachment, ready, deadline, jobs, provider,
                       compute, billing, engine>>
    BY <1>2 DEF StartEvent
  <2>2. to \in Steps /\ to \in StartSteps
    BY DEF Steps, StartSteps, OwnSteps
  <2>3. PICK r : Moves(w, r) /\ Same(run[w], r) /\ r.pc = to
    BY <2>1, <2>2, GotoOK, RunFacts
  <2>4. RowEffect
    BY <2>1, EventFacts, RunFacts DEF RowEffect, Statuses
  <2>5. StatusEffect(w)
    BY <1>1, <1>2, <2>1, EventFacts DEF StatusEffect, Terminal
  <2>6. to \in EarlySteps => Early(w) /\ status' = "starting"
    BY <1>1, <2>1, EventFacts DEF Early, EarlySteps
  <2>7. RecordEffect(w, r) /\ OwnEffect(w, r)
    BY <1>1, <2>1, <2>2, <2>3, <2>4, <2>6, StartMoves DEF Same
  <2> QED BY <2>1, <2>4, <2>5, <2>7 DEF RunEffect, ProviderEffect, ComputeEffect
<1>3. CASE ~Applicable(event)
  <2>1. StartStepFails(w, cleanup) /\ Looks
    BY <1>3 DEF StartEvent, Looks, rowVars
  <2> QED BY <1>1, <2>1, StartFailsEffect
<1> QED BY <1>2, <1>3

\* The provider creates a compute, or does not.
LEMMA StartAllocateEffect ==
  ASSUME Inv, NEW w \in Workers, StartAllocate(w)
  PROVE  \E r : RunEffect(w, r)
<1>1. /\ run[w].flow = "start" /\ run[w].pc = "allocate" /\ ~Keeping(run[w])
      /\ Early(w) /\ Starting(w, "allocate")
      /\ UNCHANGED <<rowVars, provider, billing, engine>>
  BY DEF StartAllocate, Starting, In, Keeping, Early, EarlySteps
<1>2. CASE compute' = "active" /\ Goto(w, "persist")
  <2>1. PICK r : Moves(w, r) /\ Same(run[w], r) /\ r.pc = "persist"
    BY <1>2, GotoOK, RunFacts DEF Steps, OwnSteps
  <2>2. RowEffect
    BY <1>1, <1>2, RunFacts DEF RowEffect, rowVars, Computes
  <2>3. "persist" \in StartSteps /\ r.flow = "start"
    BY <1>1, <2>1 DEF StartSteps, OwnSteps, Same
  <2>4. provider' = provider /\ status' \in {status, "starting"}
    BY <1>1 DEF rowVars
  <2>5. RecordEffect(w, r) /\ OwnEffect(w, r)
    BY <1>1, <2>1, <2>2, <2>3, <2>4, StartMoves
  <2>6. StatusEffect(w)
    BY <1>1 DEF StatusEffect, rowVars
  <2> QED BY <1>1, <1>2, <2>1, <2>2, <2>3, <2>4, <2>5, <2>6
       DEF RunEffect, ProviderEffect, ComputeEffect
<1>3. CASE StartStepFails(w, "undo_mark") /\ UNCHANGED compute
  <2>1. Looks
    BY <1>1, <1>3 DEF Looks
  <2> QED BY <1>1, <1>3, <2>1, StartFailsEffect
<1> QED BY <1>2, <1>3 DEF StartAllocate

\* The provider id is recorded.
LEMMA StartPersistEffect ==
  ASSUME Inv, NEW w \in Workers, StartPersist(w)
  PROVE  \E r : RunEffect(w, r)
<1>1. /\ run[w].flow = "start" /\ run[w].pc = "persist"
      /\ Starting(w, "persist")
      /\ UNCHANGED <<deleted, attachment, ready, deadline, jobs, compute, billing,
                     engine>>
  BY DEF StartPersist, Starting, In
<1>2. CASE Persistable
  <2>1. provider' = TRUE /\ status' = "started" /\ Goto(w, "allocated_usage")
    BY <1>2 DEF StartPersist
  <2>2. PICK r : Moves(w, r) /\ Same(run[w], r) /\ r.pc = "allocated_usage"
    BY <2>1, GotoOK, RunFacts DEF Steps, OwnSteps
  <2>3. RowEffect
    BY <1>1, <2>1, RunFacts DEF RowEffect, Statuses
  <2>4. /\ r.pc \in StartSteps /\ r.pc \notin EarlySteps /\ r.pc # "setup_mark"
        /\ r.flow = "start"
    BY <1>1, <2>2 DEF StartSteps, OwnSteps, EarlySteps, Same
  <2>5. RecordEffect(w, r) /\ OwnEffect(w, r)
    BY <1>1, <2>1, <2>2, <2>3, <2>4, StartMoves
  <2>6. StatusEffect(w)
    BY <1>1, <1>2, <2>1 DEF StatusEffect, Persistable, Terminal
  <2> QED BY <1>1, <2>1, <2>3, <2>4, <2>5, <2>6
       DEF RunEffect, ProviderEffect, ComputeEffect
<1>3. CASE ~Persistable
  <2>1. Looks /\ StartStepFails(w, "undo")
    BY <1>1, <1>3 DEF StartPersist, Looks, rowVars
  <2> QED BY <1>1, <2>1, StartFailsEffect
<1> QED BY <1>2, <1>3

\* A usage event of the startup.
LEMMA StartUsageEffect ==
  ASSUME Inv, NEW w \in Workers, StartUsage(w) \/ StartTerminalUsage(w)
  PROVE  \E r : RunEffect(w, r)
<1>1. /\ run[w].flow = "start" /\ ~Keeping(run[w]) /\ billing' \in BOOLEAN
      /\ UNCHANGED <<rowVars, provider, compute, engine>>
  BY DEF StartUsage, StartTerminalUsage, Starting, In, Keeping
<1>2. CASE Goto(w, "mark_initializing")
  <2>1. PICK r : Moves(w, r) /\ Same(run[w], r) /\ r.pc = "mark_initializing"
    BY <1>2, GotoOK, RunFacts DEF Steps, OwnSteps
  <2>2. RowEffect
    BY <1>1, RunFacts DEF RowEffect, rowVars
  <2>3. /\ r.pc \in StartSteps /\ r.pc \notin EarlySteps /\ r.pc # "setup_mark"
        /\ r.flow = "start"
    BY <1>1, <2>1 DEF StartSteps, OwnSteps, EarlySteps, Same
  <2>4. RecordEffect(w, r) /\ OwnEffect(w, r)
    BY <1>1, <2>1, <2>2, <2>3, StartMoves
  <2> QED BY <1>1, <2>4, UsageEffect
<1>3. CASE Finish(w)
  <2>1. RecordEffect(w, Free) /\ OwnEffect(w, Free)
    BY <1>1, <1>3, FinishOK, FreeEffect
  <2> QED BY <1>1, <2>1, UsageEffect
<1> QED BY <1>2, <1>3 DEF StartUsage, StartTerminalUsage

\* The runtime is activated and waited for.
LEMMA StartInitializeEffect ==
  ASSUME Inv, NEW w \in Workers, StartInitialize(w)
  PROVE  \E r : RunEffect(w, r)
<1>1. /\ run[w].flow = "start" /\ ~Keeping(run[w]) /\ Looks
  BY DEF StartInitialize, Starting, In, Keeping, Looks
<1>2. CASE Goto(w, "await_attached")
  BY <1>1, <1>2, StartLooks DEF StartSteps, OwnSteps, EarlySteps
<1>3. CASE StartStepFails(w, "undo")
  BY <1>1, <1>3, StartFailsEffect
<1> QED BY <1>2, <1>3 DEF StartInitialize

\* The start run waits for the tunnel and for the runtime.
LEMMA StartAwaitEffect ==
  ASSUME Inv, NEW w \in Workers, NEW from, NEW happened,
         NEW to \in {"await_ready", "mark_running"},
         from \in {"await_attached", "await_ready"},
         StartAwait(w, from, happened, to)
  PROVE  \E r : RunEffect(w, r)
<1> DEFINE p == IF happened THEN to ELSE "undo"
<1>1. /\ run[w].flow = "start" /\ ~Keeping(run[w]) /\ Looks /\ Goto(w, p)
  BY DEF StartAwait, Starting, In, Keeping, Looks
<1>2. p \in StartSteps \ {"setup_mark"} /\ p \notin EarlySteps
  BY DEF StartSteps, OwnSteps, EarlySteps
<1> HIDE DEF p
<1> QED BY <1>1, <1>2, StartLooks

\* The instance is up.
LEMMA StartMarkRunningEffect ==
  ASSUME Inv, NEW w \in Workers, StartMarkRunning(w)
  PROVE  \E r : RunEffect(w, r)
<1>1. /\ run[w].flow = "start" /\ ~Keeping(run[w])
      /\ UNCHANGED <<deleted, attachment, ready, deadline, jobs, provider,
                     compute, billing, engine>>
  BY DEF StartMarkRunning, Starting, In, Keeping
<1>2. CASE Applicable("runtime_ready")
  <2>1. status' = "running"
    BY <1>2 DEF StartMarkRunning
  <2>2. RowEffect
    BY <1>1, <2>1, RunFacts DEF RowEffect, Statuses
  <2>3. StatusEffect(w)
    BY <1>1, <1>2, <2>1, EventFacts DEF StatusEffect, Terminal
  <2>4. \E r : RecordEffect(w, r) /\ OwnEffect(w, r)
    <3>1. CASE Finish(w)
      BY <1>1, <3>1, FinishOK, FreeEffect
    <3>2. CASE Goto(w, "setup_request")
      <4>1. PICK r : Moves(w, r) /\ Same(run[w], r) /\ r.pc = "setup_request"
        BY <3>2, GotoOK, RunFacts DEF Steps, OwnSteps
      <4>2. /\ r.pc \in StartSteps /\ r.pc \notin EarlySteps
            /\ r.pc # "setup_mark" /\ r.flow = "start"
        BY <1>1, <4>1 DEF StartSteps, OwnSteps, EarlySteps, Same
      <4> QED BY <1>1, <2>2, <4>1, <4>2, StartMoves
    <3> QED BY <1>2, <3>1, <3>2 DEF StartMarkRunning
  <2> QED BY <1>1, <2>2, <2>3, <2>4 DEF RunEffect, ProviderEffect, ComputeEffect
<1>3. CASE ~Applicable("runtime_ready")
  <2>1. StartStepFails(w, "undo") /\ Looks
    BY <1>1, <1>3 DEF StartMarkRunning, Looks, rowVars
  <2> QED BY <1>1, <2>1, StartFailsEffect
<1> QED BY <1>2, <1>3

\* A failed startup has its compute destroyed.
LEMMA StartUndoEffect ==
  ASSUME Inv, NEW w \in Workers, StartUndo(w)
  PROVE  \E r : RunEffect(w, r)
<1>1. /\ run[w].flow = "start" /\ run[w].pc = "undo"
      /\ UNCHANGED <<rowVars, provider, billing, engine>>
  BY DEF StartUndo, Starting, In
<1>2. StatusEffect(w)
  BY <1>1 DEF StatusEffect, rowVars
<1>3. "undo_mark" \in StartSteps /\ "undo_mark" \notin EarlySteps
  BY DEF StartSteps, OwnSteps, EarlySteps
<1>4. CASE /\ compute' = "missing"
           /\ run' = [run EXCEPT ![w].pc = "undo_mark", ![w].found = compute]
  <2> DEFINE r == [run[w] EXCEPT !.pc = "undo_mark", !.found = compute]
  <2>1. Moves(w, r)
    BY <1>4, NoteOK, RunFacts DEF Moves, Steps, OwnSteps
  <2>2. r.flow = "start" /\ r.pc = "undo_mark"
    BY <1>1, RunFacts DEF RunRecords
  <2> HIDE DEF r
  <2>3. RowEffect /\ compute' \in Beyond
    BY <1>1, <1>4, RunFacts DEF RowEffect, rowVars, Computes, Beyond
  <2>4. RecordEffect(w, r) /\ OwnEffect(w, r)
    BY <1>1, <1>3, <2>1, <2>2, <2>3, StartMoves
  <2> QED BY <1>1, <1>2, <1>4, <2>3, <2>4
       DEF RunEffect, ProviderEffect, ComputeEffect
<1>5. CASE DestroyFails /\ Goto(w, "undo_mark") /\ UNCHANGED compute
  <2>1. PICK r : Moves(w, r) /\ Same(run[w], r) /\ r.pc = "undo_mark"
    BY <1>5, GotoOK, RunFacts DEF Steps, OwnSteps
  <2>2. RowEffect /\ r.flow = "start"
    BY <1>1, <1>5, <2>1, RunFacts DEF RowEffect, rowVars, Same
  <2>3. RecordEffect(w, r) /\ OwnEffect(w, r)
    BY <1>1, <1>3, <1>5, <2>1, <2>2, StartMoves
  <2>4. Looks
    BY <1>1, <1>5 DEF Looks
  <2> QED BY <2>3, <2>4, LookEffect
<1> QED BY <1>4, <1>5 DEF StartUndo

\* The run is over or goes on to its terminal usage event.
LEMMA UsageOrEnd ==
  ASSUME Inv, NEW w \in Workers, run[w].flow = "start", ~Keeping(run[w]),
         RowEffect, Finish(w) \/ Goto(w, "terminal_usage")
  PROVE  \E r : RecordEffect(w, r) /\ OwnEffect(w, r) /\ r.pc \notin EarlySteps
<1>1. CASE Finish(w)
  BY <1>1, FinishOK, FreeEffect, FreeOK DEF EarlySteps
<1>2. CASE Goto(w, "terminal_usage")
  <2>1. PICK r : Moves(w, r) /\ Same(run[w], r) /\ r.pc = "terminal_usage"
    BY <1>2, GotoOK, RunFacts DEF Steps, OwnSteps
  <2>2. /\ r.pc \in StartSteps /\ r.pc \notin EarlySteps
        /\ r.pc # "setup_mark" /\ r.flow = "start"
    BY <2>1 DEF StartSteps, OwnSteps, EarlySteps, Same
  <2> QED BY <2>1, <2>2, StartMoves
<1> QED BY <1>1, <1>2

\* The instance is marked failed.
LEMMA StartUndoMarkEffect ==
  ASSUME Inv, NEW w \in Workers, StartUndoMark(w)
  PROVE  \E r : RunEffect(w, r)
<1>1. /\ run[w].flow = "start" /\ ~Keeping(run[w]) /\ Starting(w, "undo_mark")
      /\ UNCHANGED <<deleted, attachment, ready, jobs, provider, compute, billing,
                     engine>>
  BY DEF StartUndoMark, Starting, In, Keeping
<1>2. /\ status' = status /\ deadline' = deadline
      \/ /\ status' = "failed" /\ deadline' = DeadlinesCleared
         /\ status \in {"pending", "starting", "started", "initializing", "stopped"}
  BY DEF StartUndoMark
<1>3. RowEffect
  BY <1>1, <1>2, RunFacts DEF RowEffect, Statuses
<1>4. StatusEffect(w)
  BY <1>1, <1>2 DEF StatusEffect, Terminal
<1>5. Finish(w) \/ Goto(w, "terminal_usage")
  BY DEF StartUndoMark
<1>6. PICK r : RecordEffect(w, r) /\ OwnEffect(w, r)
  BY <1>1, <1>3, <1>5, UsageOrEnd
<1> QED BY <1>1, <1>3, <1>4, <1>6 DEF RunEffect, ProviderEffect, ComputeEffect

\* A setup check is stopped again.
LEMMA SetupRequestEffect ==
  ASSUME Inv, NEW w \in Workers, SetupRequest(w)
  PROVE  \E r : RunEffect(w, r)
<1>1. /\ run[w].flow = "start" /\ ~Keeping(run[w])
      /\ UNCHANGED <<deleted, attachment, ready, deadline, jobs, provider,
                     compute, billing, engine>>
  BY DEF SetupRequest, Starting, In, Keeping
<1>2. CASE Applicable("stop_requested")
  <2>1. status' = "stopping" /\ Goto(w, "setup_halt")
    BY <1>2 DEF SetupRequest
  <2>2. PICK r : Moves(w, r) /\ Same(run[w], r) /\ r.pc = "setup_halt"
    BY <2>1, GotoOK, RunFacts DEF Steps, OwnSteps
  <2>3. RowEffect
    BY <1>1, <2>1, RunFacts DEF RowEffect, Statuses
  <2>4. StatusEffect(w)
    BY <1>1, <1>2, <2>1, EventFacts DEF StatusEffect
  <2>5. /\ r.pc \in StartSteps /\ r.pc \notin EarlySteps
        /\ r.pc # "setup_mark" /\ r.flow = "start"
    BY <1>1, <2>2 DEF StartSteps, OwnSteps, EarlySteps, Same
  <2>6. RecordEffect(w, r) /\ OwnEffect(w, r)
    BY <1>1, <2>2, <2>3, <2>5, StartMoves
  <2> QED BY <1>1, <2>3, <2>4, <2>6 DEF RunEffect, ProviderEffect, ComputeEffect
<1>3. CASE ~Applicable("stop_requested")
  BY <1>1, <1>3, FinishEffect DEF SetupRequest, Looks, rowVars
<1> QED BY <1>2, <1>3

\* A setup that failed for good stops its compute.
LEMMA SetupHaltEffect ==
  ASSUME Inv, NEW w \in Workers, SetupHalt(w)
  PROVE  \E r : RunEffect(w, r)
<1>1. /\ run[w].flow = "start" /\ ~Keeping(run[w])
      /\ UNCHANGED <<rowVars, provider, billing, engine>>
  BY DEF SetupHalt, Starting, In, Keeping
<1>2. CASE StopCompute /\ Goto(w, "setup_mark")
  <2>1. PICK r : Moves(w, r) /\ Same(run[w], r) /\ r.pc = "setup_mark"
    BY <1>2, GotoOK, RunFacts DEF Steps, OwnSteps
  <2>2. /\ compute' \in Computes
        /\ \/ compute' = compute /\ compute # "active"
           \/ /\ compute = "active"
              /\ "active" \notin StopLeaves => compute' # "active"
    BY <1>2, RunFacts, WorkerAssumption DEF StopCompute
  <2>3. RowEffect
    BY <1>1, <2>2, RunFacts DEF RowEffect, rowVars
  <2>4. /\ r.pc \in StartSteps /\ r.pc \notin EarlySteps /\ r.flow = "start"
        /\ StopsForGood => compute' # "active"
    BY <1>1, <2>1, <2>2 DEF StartSteps, OwnSteps, EarlySteps, Same, StopsForGood
  <2>5. RecordEffect(w, r) /\ OwnEffect(w, r)
    BY <1>1, <2>1, <2>3, <2>4, StartMoves
  <2>6. StatusEffect(w)
    BY <1>1 DEF StatusEffect, rowVars
  <2> QED BY <1>1, <2>2, <2>3, <2>5, <2>6
       DEF RunEffect, ProviderEffect, ComputeEffect
<1>3. CASE UNCHANGED compute /\ Finish(w)
  <2>1. Looks
    BY <1>1, <1>3 DEF Looks
  <2> QED BY <1>1, <1>3, <2>1, FinishEffect
<1> QED BY <1>2, <1>3 DEF SetupHalt

\* Then the row is marked.
LEMMA SetupMarkEffect ==
  ASSUME Inv, NEW w \in Workers, SetupMark(w)
  PROVE  \E r : RunEffect(w, r)
<1>1. /\ run[w].flow = "start" /\ run[w].pc = "setup_mark" /\ ~Keeping(run[w])
      /\ status' = IF status = "stopping" THEN "stopped" ELSE status
      /\ deadline' \in {deadline, DeadlinesCleared}
      /\ Finish(w) \/ Goto(w, "terminal_usage")
      /\ UNCHANGED <<deleted, attachment, ready, jobs, provider, compute, billing,
                     engine>>
  BY DEF SetupMark, Starting, In, Keeping
<1>2. RowEffect
  BY <1>1, RunFacts DEF RowEffect, Statuses
<1>3. StatusEffect(w)
  BY <1>1, RunFacts DEF StatusEffect, Terminal, DownRecord
<1>4. PICK r : RecordEffect(w, r) /\ OwnEffect(w, r)
  BY <1>1, <1>2, UsageOrEnd
<1> QED BY <1>1, <1>2, <1>3, <1>4 DEF RunEffect, ProviderEffect, ComputeEffect

\* All of it.
LEMMA StartStepEffect ==
  ASSUME Inv, NEW w \in Workers, StartStep(w)
  PROVE  \E r : RunEffect(w, r)
<1>1. CASE \/ StartEvent(w, "mark_starting", "provider_start_requested",
                         "allocate", "undo_mark")
           \/ StartEvent(w, "mark_initializing",
                         "provider_runtime_initialization_started",
                         "initialize", "undo")
  BY <1>1, StartEventEffect
<1>2. CASE StartAwait(w, "await_attached", attachment # NoLease, "await_ready")
  BY <1>2, StartAwaitEffect
<1>3. CASE StartAwait(w, "await_ready", RuntimeReady, "mark_running")
  BY <1>3, StartAwaitEffect
<1> QED
  BY <1>1, <1>2, <1>3, StartPrepareEffect, StartAllocateEffect,
     StartPersistEffect, StartUsageEffect, StartInitializeEffect,
     StartMarkRunningEffect, StartUndoEffect, StartUndoMarkEffect,
     SetupRequestEffect, SetupHaltEffect, SetupMarkEffect
     DEF StartStep

-----------------------------------------------------------------------------
(* The resume workflow. *)

\* A resume run goes on.
LEMMA ResumeMoves ==
  ASSUME Inv, NEW w \in Workers, run[w].flow = "resume",
         NEW pc \in (StartSteps \ {"setup_mark"}) \cup {"failed"}, Goto(w, pc)
  PROVE  \E r : RecordEffect(w, r) /\ OwnEffect(w, r)
<1>1. pc \in Steps /\ pc \notin KnowingSteps \cup {"terminate", "usage"}
  BY StepFacts DEF StartSteps, Steps, KnowingSteps, LoadedSteps, CommitSteps
<1>2. PICK r : Moves(w, r) /\ Same(run[w], r) /\ r.pc = pc
  BY <1>1, GotoOK, RunFacts
<1>3. RecordEffect(w, r)
  BY <1>1, <1>2 DEF RecordEffect, RecordOK, Same, KnowingSteps
<1>4. OwnEffect(w, r)
  BY <1>1, <1>2, RunFacts
     DEF OwnEffect, Same, KnowingSteps, LoadedSteps, CommitSteps, BeyondRecord,
         DownRecord, Keeping
<1> QED BY <1>3, <1>4

\* A step of a resume run that changes nothing but the run.
LEMMA ResumeLooks ==
  ASSUME Inv, NEW w \in Workers, run[w].flow = "resume", Looks,
         \/ Finish(w) \/ Throw(w)
         \/ \E pc \in (StartSteps \ {"setup_mark"}) \cup {"failed"} : Goto(w, pc)
  PROVE  \E r : RunEffect(w, r)
<1>1. CASE Finish(w)
  BY <1>1, FinishEffect DEF Keeping
<1>2. CASE Throw(w)
  BY <1>2, ThrowEffect
<1>3. ASSUME NEW pc \in (StartSteps \ {"setup_mark"}) \cup {"failed"}, Goto(w, pc)
      PROVE  \E r : RunEffect(w, r)
  BY <1>3, ResumeMoves, LookEffect
<1> QED BY <1>1, <1>2, <1>3

\* The steps that change nothing but the run.
LEMMA ResumeQuietEffect ==
  ASSUME Inv, NEW w \in Workers,
         \/ ResumeResolve(w) \/ ResumePreflight(w) \/ ResumeInitialize(w)
         \/ ResumeAwaitReady(w) \/ ResumeTimesOut(w)
  PROVE  \E r : RunEffect(w, r)
<1>1. run[w].flow = "resume" /\ Looks
  BY DEF ResumeResolve, ResumePreflight, ResumeInitialize, ResumeAwaitReady,
         ResumeTimesOut, Resuming, In, Looks
<1>2. {"mark_starting", "accept", "resume", "undo_mark", "await_ready", "undo",
       "mark_running"} \subseteq StartSteps \ {"setup_mark"}
  BY DEF StartSteps, OwnSteps
<1>3. \/ Finish(w) \/ Throw(w)
      \/ \E pc \in (StartSteps \ {"setup_mark"}) \cup {"failed"} : Goto(w, pc)
  BY <1>2
     DEF ResumeResolve, ResumePreflight, ResumeInitialize, ResumeAwaitReady,
         ResumeTimesOut, ResumeStepFails
<1> QED BY <1>1, <1>3, ResumeLooks

\* A lifecycle event of the resume.
LEMMA ResumeStatusEffect ==
  ASSUME Inv, NEW w \in Workers, run[w].flow = "resume",
         NEW pc \in (StartSteps \ {"setup_mark"}) \cup {"failed"},
         Finish(w) \/ Goto(w, pc),
         status' \in {"starting", "started", "initializing", "running", "failed"},
         status \in Terminal => status' = "starting",
         deadline' \in {deadline, DeadlinesCleared},
         UNCHANGED <<deleted, attachment, ready, jobs, provider, compute, billing,
                     engine>>
  PROVE  \E r : RunEffect(w, r)
<1>1. PICK r : RecordEffect(w, r) /\ OwnEffect(w, r)
  BY ResumeMoves, FinishOK, FreeEffect DEF Keeping
<1>2. RowEffect
  BY RunFacts DEF RowEffect, Statuses
<1>3. StatusEffect(w)
  BY DEF StatusEffect
<1> QED BY <1>1, <1>2, <1>3 DEF RunEffect, ProviderEffect, ComputeEffect

\* Each of the resume's lifecycle events, guarded or not.
LEMMA ResumeEventEffect ==
  ASSUME Inv, NEW w \in Workers, NEW from, NEW event, NEW to,
         \/ event = "provider_start_requested" /\ to = "preflight"
         \/ event = "provider_start_accepted" /\ to = "resumed_usage"
         \/ /\ event = "provider_runtime_initialization_started"
            /\ to = "initialize"
         \/ event = "runtime_ready" /\ to = "free",
         \/ ResumeEvent(w, from, event, to) /\ to # "free"
         \/ ResumeGuardedEvent(w, from, event, to)
  PROVE  \E r : RunEffect(w, r)
<1>1. /\ run[w].flow = "resume"
      /\ UNCHANGED <<deleted, attachment, ready, deadline, jobs, provider,
                     compute, billing, engine>>
  BY DEF ResumeEvent, ResumeGuardedEvent, Resuming, In
<1>2. {"preflight", "resumed_usage", "initialize", "undo"}
        \subseteq StartSteps \ {"setup_mark"}
  BY DEF StartSteps, OwnSteps
<1>3. CASE Applicable(event)
  <2>1. status' = After(status, event)
    BY <1>3 DEF ResumeEvent, ResumeGuardedEvent
  <2>2. /\ status' \in {"starting", "started", "initializing", "running"}
        /\ status \in Terminal => status' = "starting"
    BY <1>3, <2>1, EventFacts DEF Terminal
  <2>3. \E pc \in StartSteps \ {"setup_mark"} : Finish(w) \/ Goto(w, pc)
    BY <1>2, <1>3 DEF ResumeEvent, ResumeGuardedEvent
  <2> QED BY <1>1, <2>2, <2>3, ResumeStatusEffect
<1>4. CASE ~Applicable(event)
  <2>1. Looks /\ (Throw(w) \/ Goto(w, "undo"))
    BY <1>1, <1>4
       DEF ResumeEvent, ResumeGuardedEvent, ResumeStepFails, Looks, rowVars
  <2> QED BY <1>1, <1>2, <2>1, ResumeLooks
<1> QED BY <1>3, <1>4

\* The compute is brought back, or stopped again.
LEMMA ResumeComputeEffect ==
  ASSUME Inv, NEW w \in Workers, ResumeCompute(w) \/ ResumeUndo(w)
  PROVE  \E r : RunEffect(w, r)
<1>1. /\ run[w].flow = "resume"
      /\ UNCHANGED <<rowVars, provider, billing, engine>>
  BY DEF ResumeCompute, ResumeUndo, Resuming, In
<1>2. {"accept", "undo_mark", "undo"} \subseteq StartSteps \ {"setup_mark"}
  BY DEF StartSteps, OwnSteps
<1>3. StatusEffect(w)
  BY <1>1 DEF StatusEffect, rowVars
<1>4. CASE /\ compute \in {"resumable_stopped", "active"}
           /\ compute' = "active" /\ Goto(w, "accept")
  <2>1. PICK r : RecordEffect(w, r) /\ OwnEffect(w, r)
    BY <1>1, <1>2, <1>4, ResumeMoves
  <2>2. RowEffect
    BY <1>1, <1>4, RunFacts DEF RowEffect, rowVars, Computes
  <2> QED BY <1>1, <1>3, <1>4, <2>1, <2>2
       DEF RunEffect, ProviderEffect, ComputeEffect, Beyond
<1>5. CASE ResumeStepFails(w) /\ UNCHANGED compute
  <2>1. Looks
    BY <1>1, <1>5 DEF Looks
  <2> QED BY <1>1, <1>2, <1>5, <2>1, ResumeLooks DEF ResumeStepFails
<1>6. CASE StopCompute /\ Goto(w, "undo_mark")
  <2>1. PICK r : RecordEffect(w, r) /\ OwnEffect(w, r)
    BY <1>1, <1>2, <1>6, ResumeMoves
  <2>2. /\ compute' \in Computes
        /\ \/ compute' = compute
           \/ /\ compute = "active"
              /\ "active" \notin StopLeaves => compute' # "active"
    BY <1>6, RunFacts, WorkerAssumption DEF StopCompute
  <2>3. RowEffect
    BY <1>1, <2>2, RunFacts DEF RowEffect, rowVars
  <2> QED BY <1>1, <1>3, <2>1, <2>2, <2>3
       DEF RunEffect, ProviderEffect, ComputeEffect
<1> QED BY <1>4, <1>5, <1>6 DEF ResumeCompute, ResumeUndo

\* The usage event of a resume.
LEMMA ResumeUsageEffect ==
  ASSUME Inv, NEW w \in Workers, ResumeUsage(w)
  PROVE  \E r : RunEffect(w, r)
<1>1. /\ run[w].flow = "resume" /\ billing' = TRUE
      /\ UNCHANGED <<rowVars, provider, compute, engine>>
  BY DEF ResumeUsage, Resuming, In
<1>2. "mark_initializing" \in StartSteps \ {"setup_mark"}
  BY DEF StartSteps, OwnSteps
<1>3. PICK r : RecordEffect(w, r) /\ OwnEffect(w, r)
  BY <1>1, <1>2, ResumeMoves DEF ResumeUsage
<1> QED BY <1>1, <1>3, UsageEffect

\* A resume that failed is recorded, unless the row has moved on.
LEMMA ResumeUndoMarkEffect ==
  ASSUME Inv, NEW w \in Workers, ResumeUndoMark(w)
  PROVE  \E r : RunEffect(w, r)
<1>1. /\ run[w].flow = "resume"
      /\ UNCHANGED <<deleted, attachment, ready, jobs, provider, compute, billing,
                     engine>>
  BY DEF ResumeUndoMark, Resuming, In
<1>2. CASE /\ status \in {"pending", "starting", "started", "initializing"}
           /\ status' = "failed" /\ deadline' = DeadlinesCleared /\ Finish(w)
  BY <1>1, <1>2, ResumeStatusEffect DEF Terminal
<1>3. CASE (Throw(w) \/ Goto(w, "failed")) /\ UNCHANGED <<status, deadline>>
  <2>1. Looks
    BY <1>1, <1>3 DEF Looks, rowVars
  <2> QED BY <1>1, <1>3, <2>1, ResumeLooks
<1> QED BY <1>2, <1>3 DEF ResumeUndoMark

\* All of it.
LEMMA ResumeStepEffect ==
  ASSUME Inv, NEW w \in Workers, ResumeStep(w)
  PROVE  \E r : RunEffect(w, r)
<1>1. CASE \/ ResumeEvent(w, "mark_starting", "provider_start_requested",
                          "preflight")
           \/ ResumeEvent(w, "accept", "provider_start_accepted",
                          "resumed_usage")
           \/ ResumeGuardedEvent(w, "mark_initializing",
                                 "provider_runtime_initialization_started",
                                 "initialize")
           \/ ResumeGuardedEvent(w, "mark_running", "runtime_ready", "free")
  BY <1>1, ResumeEventEffect
<1> QED
  BY <1>1, ResumeQuietEffect, ResumeComputeEffect, ResumeUsageEffect,
     ResumeUndoMarkEffect
     DEF ResumeStep

-----------------------------------------------------------------------------
(* The delete workflow. *)

\* The row of the deleted instance is loaded.
LEMMA DeleteLoadEffect ==
  ASSUME Inv, NEW w \in Workers, DeleteLoad(w)
  PROVE  \E r : RunEffect(w, r)
<1>1. run[w].flow = "delete" /\ run[w].pc = "load"
  BY DEF DeleteLoad, In
<1>2. CASE provider /\ Goto(w, "destroy") /\ UNCHANGED deadline
  <2>1. Looks
    BY <1>2 DEF DeleteLoad, Looks, rowVars
  <2>2. PICK r : Moves(w, r) /\ Same(run[w], r) /\ r.pc = "destroy"
    BY <1>2, GotoOK, RunFacts DEF Steps
  <2>3. RecordOK(r)
    BY <1>1, <2>2 DEF RecordOK, Same, LoadedSteps
  <2> QED BY <1>1, <1>2, <2>1, <2>2, <2>3, GoEffect
       DEF Same, CommitSteps, BeyondRecord, DownRecord
<1>3. CASE Throw(w) /\ UNCHANGED deadline
  <2>1. Looks
    BY <1>3 DEF DeleteLoad, Looks, rowVars
  <2> QED BY <1>1, <1>3, <2>1, ThrowEffect
<1>4. CASE deadline' = DeadlinesCleared /\ Finish(w)
  <2>1. RecordEffect(w, Free) /\ OwnEffect(w, Free)
    BY <1>1, <1>4, FinishOK, FreeEffect DEF Keeping
  <2> QED BY <1>4, <2>1, ClearEffect DEF DeleteLoad
<1> QED BY <1>2, <1>3, <1>4 DEF DeleteLoad

\* The compute is destroyed.
LEMMA DeleteDestroyEffect ==
  ASSUME Inv, NEW w \in Workers, DeleteDestroy(w)
  PROVE  \E r : RunEffect(w, r)
<1>1. /\ run[w].flow = "delete" /\ run[w].pc = "destroy" /\ compute' = "missing"
      /\ UNCHANGED <<rowVars, provider, billing, engine>>
  BY DEF DeleteDestroy, In
<1>2. PICK r : Moves(w, r) /\ Same(run[w], r) /\ r.pc = "mark_destroyed"
  BY GotoOK, RunFacts DEF DeleteDestroy, Steps
<1>3. RecordEffect(w, r)
  BY <1>1, <1>2
     DEF RecordEffect, RecordOK, Same, KnowingSteps, LoadedSteps, CommitSteps
<1>4. RowEffect
  BY <1>1, RunFacts DEF RowEffect, rowVars, Computes
<1>5. StatusEffect(w)
  BY <1>1 DEF StatusEffect, rowVars
<1>6. OwnEffect(w, r)
  BY <1>1, <1>2
     DEF OwnEffect, Same, BeyondRecord, DownRecord, Keeping, Beyond
<1> QED BY <1>1, <1>3, <1>4, <1>5, <1>6
     DEF RunEffect, ProviderEffect, ComputeEffect

\* The provider id is forgotten: the compute it named is gone.
LEMMA DeleteMarkEffect ==
  ASSUME Inv, NEW w \in Workers, DeleteMark(w)
  PROVE  \E r : RunEffect(w, r)
<1>1. /\ run[w].flow = "delete" /\ run[w].pc = "mark_destroyed"
      /\ provider' = FALSE /\ deadline' \in {deadline, DeadlinesCleared}
      /\ \/ status' = status
         \/ status' = "stopped" /\ status \notin Terminal
      /\ UNCHANGED <<deleted, attachment, ready, jobs, compute, billing, engine>>
  BY DEF DeleteMark, In, StartupStatuses, Terminal
<1>2. compute # "active"
  BY <1>1, RunFacts DEF BeyondRecord, Beyond
<1>3. \E r : RecordEffect(w, r) /\ OwnEffect(w, r)
  <2>1. CASE Goto(w, "usage")
    <3>1. PICK r : Moves(w, r) /\ Same(run[w], r) /\ r.pc = "usage"
      BY <2>1, GotoOK, RunFacts DEF Steps, OwnSteps
    <3> QED BY <1>1, <3>1
         DEF RecordEffect, OwnEffect, RecordOK, Same, KnowingSteps, LoadedSteps,
             CommitSteps, BeyondRecord, DownRecord, Keeping
  <2>2. CASE Finish(w)
    BY <1>1, <2>2, FinishOK, FreeEffect DEF Keeping
  <2> QED BY <2>1, <2>2 DEF DeleteMark
<1>4. RowEffect
  BY <1>1, RunFacts DEF RowEffect, Statuses
<1>5. StatusEffect(w)
  BY <1>1, <1>2 DEF StatusEffect, KnowingSteps
<1> QED BY <1>1, <1>3, <1>4, <1>5 DEF RunEffect, ProviderEffect, ComputeEffect

\* All of it.
LEMMA DeleteStepEffect ==
  ASSUME Inv, NEW w \in Workers, DeleteStep(w)
  PROVE  \E r : RunEffect(w, r)
<1>1. CASE DeleteUsage(w)
  <2>1. RecordEffect(w, Free) /\ OwnEffect(w, Free)
    BY <1>1, FinishOK, FreeEffect DEF DeleteUsage, In, Keeping
  <2> QED BY <1>1, <2>1, UsageEffect DEF DeleteUsage
<1> QED BY <1>1, DeleteLoadEffect, DeleteDestroyEffect, DeleteMarkEffect
     DEF DeleteStep

-----------------------------------------------------------------------------
(* A read that repairs the row. *)

\* What a read writes depends on the status it loaded and the compute it saw.
LEMMA VerdictFacts ==
  ASSUME NEW seen \in Statuses, NEW c \in Computes,
         Verdict(seen, c) # seen
  PROVE  /\ Verdict(seen, c) \in Terminal
         /\ c # "active"
         /\ seen = "stopped" => c \in Beyond /\ Verdict(seen, c) = "failed"
  BY DEF InspectionGroups, Computes, Verdict, Terminal, Beyond

\* The row is loaded, and the provider is asked.
LEMMA ReadLookEffect ==
  ASSUME Inv, NEW w \in Workers, ReadLoad(w) \/ ReadInspect(w)
  PROVE  \E r : RunEffect(w, r)
<1>1. Looks /\ run[w].flow = "read"
  BY DEF ReadLoad, ReadInspect, Reading, In, Looks
<1>2. CASE Finish(w)
  BY <1>1, <1>2, FinishEffect DEF Keeping
<1>3. CASE /\ ReadLoad(w) /\ provider
           /\ run' = [run EXCEPT ![w].pc = "read_inspect", ![w].seen = status]
  <2> DEFINE r == [run[w] EXCEPT !.pc = "read_inspect", !.seen = status]
  <2>1. Moves(w, r)
    BY <1>3, NoteOK, RunFacts DEF Moves, Steps
  <2>2. r.flow = run[w].flow /\ r.pc = "read_inspect"
    BY RunFacts DEF RunRecords
  <2> HIDE DEF r
  <2>3. RecordOK(r)
    BY <1>1, <2>2 DEF RecordOK, LoadedSteps
  <2> QED BY <1>1, <1>3, <2>1, <2>2, <2>3, GoEffect
       DEF CommitSteps, BeyondRecord, DownRecord
<1>4. CASE /\ ReadInspect(w) /\ Verdict(run[w].seen, compute) # run[w].seen
           /\ run' = [run EXCEPT ![w].pc = "read_mark", ![w].found = compute]
  <2> DEFINE r == [run[w] EXCEPT !.pc = "read_mark", !.found = compute]
  <2>1. Moves(w, r)
    BY <1>4, NoteOK, RunFacts DEF Moves, Steps
  <2>2. /\ r.flow = run[w].flow /\ r.pc = "read_mark"
        /\ r.seen = run[w].seen /\ r.found = compute
    BY RunFacts DEF RunRecords
  <2> HIDE DEF r
  <2>3. RecordOK(r)
    BY <1>1, <1>4, <2>2 DEF RecordOK, LoadedSteps
  <2>4. compute # "active" /\ BeyondRecord(r, compute)
    BY <1>4, <2>2, RunFacts, VerdictFacts DEF BeyondRecord, RunRecords
  <2>5. run[w].pc = "read_inspect"
    BY <1>4 DEF ReadInspect, Reading, In
  <2> QED BY <1>1, <2>1, <2>2, <2>3, <2>4, <2>5, GoEffect
       DEF KnowingSteps, CommitSteps, DownRecord
<1> QED BY <1>2, <1>3, <1>4 DEF ReadLoad, ReadInspect

\* The row is repaired.
LEMMA ReadMarkEffect ==
  ASSUME Inv, NEW w \in Workers, ReadMark(w)
  PROVE  \E r : RunEffect(w, r)
<1> DEFINE seen == run[w].seen
           verdict == Verdict(run[w].seen, run[w].found)
           event == IF seen = "stopped" THEN "stopped" ELSE verdict
<1>1. /\ run[w].flow = "read" /\ run[w].pc = "read_mark"
      /\ UNCHANGED <<deleted, attachment, ready, deadline, jobs, provider,
                     compute>>
  BY DEF ReadMark, Reading, In
<1>2. RecordEffect(w, Free) /\ OwnEffect(w, Free)
  BY <1>1, FinishOK, FreeEffect DEF ReadMark, Keeping
<1>3. seen \in Statuses /\ run[w].found \in Computes /\ verdict # seen
  BY <1>1, RunFacts DEF RunRecords, RecordOK
<1>4. /\ verdict \in Terminal
      /\ seen = "stopped" => verdict = "failed"
  BY <1>3, VerdictFacts
<1>5. /\ seen = "stopped" => compute \in Beyond
      /\ StopsForGood => compute # "active"
  BY <1>1, RunFacts DEF BeyondRecord, DownRecord
<1>6. event \in Terminal
  BY <1>4 DEF Terminal
<1>7. \/ UNCHANGED <<status, billing, engine>>
      \/ /\ status' = verdict /\ billing' \in BOOLEAN
         /\ engine' = [engine EXCEPT !.inspected = @ \cup {event}]
         /\ \E group \in InspectionGroups : {seen, status} \subseteq group
  BY RunFacts DEF ReadMark
<1> HIDE DEF verdict, event
<1>8. engine' \in Engines /\ billing' \in BOOLEAN
  BY <1>6, <1>7, RunFacts DEF Engines, Terminal
<1>9. \/ status' = status
      \/ /\ status' = verdict
         /\ status \in Terminal => status = "stopped" /\ seen = "stopped"
  BY <1>7 DEF InspectionGroups, Terminal
<1>10. RowEffect
  BY <1>1, <1>4, <1>8, <1>9, RunFacts DEF RowEffect, Terminal, Statuses
<1>11. StatusEffect(w)
  BY <1>1, <1>4, <1>5, <1>9 DEF StatusEffect, KnowingSteps
<1> QED BY <1>1, <1>2, <1>10, <1>11 DEF RunEffect, ProviderEffect, ComputeEffect

\* All of it.
LEMMA ReadStepEffect ==
  ASSUME Inv, NEW w \in Workers, ReadStep(w)
  PROVE  \E r : RunEffect(w, r)
  BY ReadLookEffect, ReadMarkEffect DEF ReadStep

-----------------------------------------------------------------------------
(* The engine: a failed run, and the death of a worker. *)

\* The failure of a run is recorded.
LEMMA RunFailsEffect ==
  ASSUME Inv, NEW w \in Workers, RunFails(w)
  PROVE  \E r : RunEffect(w, r)
<1> DEFINE j == [kind |-> run[w].flow, lease |-> run[w].lease,
                 generation |-> run[w].generation]
<1>1. /\ run[w].pc = "failed" /\ Finish(w)
      /\ UNCHANGED <<rowVars, provider, compute, billing>>
  BY DEF RunFails
<1>2. RecordEffect(w, Free) /\ OwnEffect(w, Free)
  BY <1>1, FinishOK, FreeEffect DEF Keeping
<1>3. run[w].flow \in DeadlineKinds => j \in Jobs
  BY RunFacts DEF RecordOK, RunRecords, DeadlineKinds, Jobs
<1>4. \/ engine' = engine
      \/ /\ run[w].flow \in DeadlineKinds
         /\ engine' = [engine EXCEPT !.failed = @ \cup {j}]
  BY DEF RunFails
<1> HIDE DEF j
<1>5. engine' \in Engines
  BY <1>3, <1>4, RunFacts DEF Engines
<1>6. RowEffect
  BY <1>1, <1>5, RunFacts DEF RowEffect, rowVars
<1> QED BY <1>1, <1>2, <1>6
     DEF RunEffect, StatusEffect, ProviderEffect, ComputeEffect, rowVars

\* A worker dies, and its run is taken up again.
LEMMA WorkerDiesEffect ==
  ASSUME Inv, NEW w \in Workers, WorkerDies(w)
  PROVE  \E r : RunEffect(w, r)
<1> DEFINE d == run[w]
<1>1. /\ engine' = [engine EXCEPT !.deaths = @ - 1] /\ engine.deaths > 0
      /\ UNCHANGED <<rowVars, provider, compute, billing>>
  BY DEF WorkerDies
<1>2. /\ d \in RunRecords /\ d.flow \in Flows /\ d.pc \in Steps /\ RecordOK(d)
  BY RunFacts DEF RunRecords
<1> DEFINE lost == IF d.pc = "usage" THEN {FirstStep[d.flow]} ELSE {}
<1>3. PICK pc \in {StepStart(d)} \cup lost : run' = [run EXCEPT ![w].pc = pc]
  BY Zenon DEF WorkerDies
<1>4. pc = d.pc \/ (d.flow # "start" /\ pc = FirstStep[d.flow])
  BY <1>2, <1>3, StepFacts DEF StepStart, RecordOK, StartSteps
<1>5. pc \in Steps
  BY <1>2, <1>4, StepFacts
<1> DEFINE r == [d EXCEPT !.pc = pc]
<1>6. Moves(w, r) /\ Same(d, r) /\ r.pc = pc
  BY <1>2, <1>3, <1>5, RunFacts DEF Moves, RunRecords, Same
<1> HIDE DEF r
<1>7. RecordEffect(w, r) /\ OwnEffect(w, r)
  <2>1. CASE pc = d.pc
    <3>1. RecordEffect(w, r)
      BY <1>1, <1>2, <1>6, <2>1, RunFacts
         DEF RecordEffect, RecordOK, Same, Committing, rowVars, CommitSteps
    <3>2. OwnEffect(w, r)
      BY <1>1, <1>6, <2>1, RunFacts
         DEF OwnEffect, Same, BeyondRecord, DownRecord, Keeping, Early, rowVars
    <3> QED BY <3>1, <3>2
  <2>2. CASE d.flow # "start" /\ pc = FirstStep[d.flow]
    <3>1. pc \notin KnowingSteps \cup {"terminate", "usage"}
      BY <1>2, <2>2, StepFacts
    <3>2. pc # "setup_mark"
      BY <1>2, <2>2 DEF Flows, FirstStep
    <3>3. RecordEffect(w, r)
      BY <1>2, <1>6, <2>2, <3>1 DEF RecordEffect, RecordOK, Same, KnowingSteps
    <3>4. OwnEffect(w, r)
      BY <1>6, <2>2, <3>1, <3>2
         DEF OwnEffect, Same, BeyondRecord, DownRecord, Keeping, KnowingSteps,
             LoadedSteps, CommitSteps
    <3> QED BY <3>3, <3>4
  <2> QED BY <1>4, <2>1, <2>2
<1>8. engine' \in Engines
  BY <1>1, RunFacts, WorkerAssumption DEF Engines
<1>9. RowEffect
  BY <1>1, <1>8, RunFacts DEF RowEffect, rowVars
<1> QED BY <1>1, <1>7, <1>9
     DEF RunEffect, StatusEffect, ProviderEffect, ComputeEffect, rowVars
-----------------------------------------------------------------------------
(* What the effect of a step leaves of the invariant. *)

\* The step of one run leaves the other runs alone.
LEMMA OtherRuns ==
  ASSUME Inv, NEW w \in Workers, NEW r, Moves(w, r)
  PROVE  /\ run'[w] = r
         /\ \A v \in Workers : v # w => run'[v] = run[v]
         /\ run' \in [Workers -> RunRecords]
  BY RunFacts DEF Moves

\* Its start run is the only one, and early on nobody knows of a compute.
LEMMA StartFacts ==
  ASSUME Inv
  PROVE  /\ \A v, w \in Workers :
              run[v].flow = "start" /\ run[w].flow = "start" => v = w
         /\ \A v, w \in Workers : Early(w) => run[v].pc \notin KnowingSteps
         /\ \A w \in Workers : Early(w) =>
              ~provider /\ (run[w].pc # "persist" => compute = "missing")
  BY DEF Inv, StartPart

\* What is known of a run from its step stays true of every run.
LEMMA KeepsRecordPart ==
  ASSUME Inv, NEW w \in Workers, NEW r, RecordEffect(w, r)
  PROVE  RecordPart'
<1>1. ASSUME NEW v \in Workers PROVE RecordOK(run'[v])
  BY OtherRuns, RunFacts DEF RecordEffect
<1> QED BY <1>1, OtherRuns DEF RecordPart, RecordOK, Verdict

\* A transaction that holds the row's lock finds the row as it checked it.
LEMMA KeepsLockPart ==
  ASSUME Inv, NEW w \in Workers, NEW r, RecordEffect(w, r),
         LockFree(w) \/ RespectsLock
  PROVE  LockPart'
<1> SUFFICES ASSUME NEW v \in Workers, run'[v].pc \in CommitSteps
             PROVE  status' \notin Terminal
  BY DEF LockPart, Committing, CommitSteps
<1>1. CASE v = w
  BY <1>1, OtherRuns DEF RecordEffect
<1>2. CASE v # w
  <2>1. Committing(v)
    BY <1>2, OtherRuns DEF RecordEffect, Committing, CommitSteps
  <2>2. status' = status
    BY <1>2, <2>1 DEF LockFree, RespectsLock, RowLocked
  <2> QED BY <2>1, <2>2 DEF Inv, LockPart
<1> QED BY <1>1, <1>2

\* Until the start run has recorded its compute nobody else can have found it.
LEMMA KeepsStartPart ==
  ASSUME Inv, NEW w \in Workers, NEW r, RecordEffect(w, r),
         ProviderEffect(w, r), ComputeEffect(w, r), OwnEffect(w, r)
  PROVE  StartPart'
<1>1. ASSUME NEW u \in Workers, NEW v \in Workers,
             run'[u].flow = "start", run'[v].flow = "start"
      PROVE  u = v
  BY <1>1, OtherRuns, StartFacts, FreeOK DEF RecordEffect
<1>2. ASSUME NEW v \in Workers, run'[v].flow = "start",
             run'[v].pc \in EarlySteps
      PROVE  /\ ~provider'
             /\ \A u \in Workers : run'[u].pc \notin KnowingSteps
             /\ run'[v].pc # "persist" => compute' = "missing"
  <2>1. CASE v = w
    <3>1. Early(w) /\ r.pc \in EarlySteps /\ provider' = provider
      BY <1>2, <2>1, OtherRuns DEF RecordEffect, OwnEffect
    <3>2. ASSUME NEW u \in Workers PROVE run'[u].pc \notin KnowingSteps
      BY <3>1, OtherRuns, StartFacts, StepFacts DEF RecordEffect
    <3>3. r.pc # "persist" => compute' = "missing"
      BY <1>2, <2>1, <3>1, OtherRuns, StartFacts DEF RecordEffect, OwnEffect
    <3> QED BY <2>1, <3>1, <3>2, <3>3, StartFacts, OtherRuns DEF RecordEffect
  <2>2. CASE v # w
    <3>1. Early(v) /\ run'[v] = run[v]
      BY <1>2, <2>2, OtherRuns DEF RecordEffect, Early
    <3>2. run[w].flow # "start"
      BY <2>2, <3>1, StartFacts DEF Early
    <3>3. ~provider'
      BY <3>1, <3>2, StartFacts, RunFacts DEF ProviderEffect, Starting, In
    <3>4. ASSUME NEW u \in Workers PROVE run'[u].pc \notin KnowingSteps
      BY <3>1, OtherRuns, StartFacts DEF RecordEffect
    <3>5. run[v].pc # "persist" => compute' = "missing"
      BY <3>1, <3>2, StartFacts DEF ComputeEffect, Starting, In, Beyond
    <3> QED BY <3>1, <3>3, <3>4, <3>5
  <2> QED BY <2>1, <2>2
<1> QED BY <1>1, <1>2 DEF StartPart, Early

\* A compute that is gone stays gone while anybody knows that it is.
LEMMA KeepsBeyondPart ==
  ASSUME Inv, NEW w \in Workers, NEW r, RecordEffect(w, r),
         ComputeEffect(w, r), OwnEffect(w, r)
  PROVE  BeyondPart'
<1> SUFFICES ASSUME NEW v \in Workers PROVE BeyondRecord(run'[v], compute')
  BY DEF BeyondPart, BeyondRecord
<1>1. CASE v = w
  BY <1>1, OtherRuns DEF RecordEffect, OwnEffect
<1>2. CASE v # w
  <2>1. run'[v] = run[v] /\ BeyondRecord(run[v], compute)
    BY <1>2, OtherRuns, RunFacts DEF RecordEffect
  <2>2. CASE compute \in Beyond /\ run[v].pc \in KnowingSteps
    <3>1. ~Starting(w, "allocate")
      BY <2>2, StartFacts DEF Early, EarlySteps, Starting, In
    <3> QED BY <2>1, <2>2, <3>1 DEF BeyondRecord, ComputeEffect, Beyond
  <2> QED BY <2>1, <2>2 DEF BeyondRecord, KnowingSteps
<1> QED BY <1>1, <1>2

\* A compute that may run again stays recorded, or in the start run's hands.
LEMMA KeepsKnownPart ==
  ASSUME Inv, NEW w \in Workers, NEW r, RecordEffect(w, r),
         ProviderEffect(w, r), ComputeEffect(w, r), OwnEffect(w, r)
  PROVE  KnownPart'
<1> SUFFICES ASSUME ~DestroyFails, compute' \notin Beyond, ~provider'
             PROVE  \E v \in Workers : Keeping(run'[v])
  BY DEF KnownPart, Keeping
<1>1. CASE Starting(w, "allocate") /\ r.flow = "start" /\ r.pc = "persist"
  BY <1>1, OtherRuns DEF RecordEffect, Keeping
<1>2. CASE compute \notin Beyond
  <2>1. ~provider
    BY <1>2, RunFacts DEF ProviderEffect, BeyondRecord
  <2>2. PICK v \in Workers : Keeping(run[v])
    BY <1>2, <2>1 DEF Inv, KnownPart
  <2>3. Keeping(run'[v])
    BY <2>2, OtherRuns DEF RecordEffect, OwnEffect
  <2> QED BY <2>3
<1> QED BY <1>1, <1>2 DEF ComputeEffect, Beyond

\* Where nobody resumes, a compute that a run saw down stays down, and so does
\* that of a stopped row.
LEMMA KeepsDownPart ==
  ASSUME Inv, NEW w \in Workers, NEW r, RecordEffect(w, r), StatusEffect(w),
         ComputeEffect(w, r), OwnEffect(w, r)
  PROVE  DownPart'
<1> SUFFICES ASSUME StopsForGood
             PROVE  /\ \A v \in Workers :
                         /\ run'[v].flow # "resume"
                         /\ run'[v].flow = "start" /\ run'[v].pc \in EarlySteps
                              => status' \in {"pending", "starting"}
                         /\ DownRecord(run'[v], compute')
                    /\ status' = "stopped" => compute' # "active"
  BY DEF DownPart, DownRecord, Early, StopsForGood
<1>1. run[w].flow # "resume"
  BY RunFacts
<1>2. compute # "active" =>
        \/ compute' # "active"
        \/ Starting(w, "allocate")
  BY <1>1 DEF ComputeEffect
<1>3. Starting(w, "allocate") => Early(w)
  BY DEF Starting, In, Early, EarlySteps
<1>4. ASSUME NEW v \in Workers
      PROVE  /\ run'[v].flow # "resume"
             /\ run'[v].flow = "start" /\ run'[v].pc \in EarlySteps
                  => status' \in {"pending", "starting"}
             /\ DownRecord(run'[v], compute')
  <2>1. CASE v = w
    <3>1. r.flow # "resume"
      BY <1>1, FreeOK DEF RecordEffect
    <3>2. r.flow = "start" /\ r.pc \in EarlySteps
            => status' \in {"pending", "starting"}
      BY RunFacts DEF OwnEffect
    <3> QED BY <2>1, <3>1, <3>2, OtherRuns DEF RecordEffect, OwnEffect
  <2>2. CASE v # w
    <3>1. /\ run'[v] = run[v] /\ run[v].flow # "resume"
          /\ DownRecord(run[v], compute)
      BY <2>2, OtherRuns, RunFacts DEF RecordEffect
    <3>2. Early(v) => status' \in {"pending", "starting"}
      BY <1>1, <2>2, StartFacts, RunFacts DEF StatusEffect, Early
    <3>3. Early(w) => run[v].pc \notin KnowingSteps /\ run[v].flow # "start"
      BY <2>2, StartFacts DEF Early
    <3>4. DownRecord(run[v], compute')
      BY <1>2, <1>3, <3>1, <3>3
         DEF DownRecord, KnowingSteps, LoadedSteps, CommitSteps
    <3> QED BY <3>1, <3>2, <3>4 DEF Early
  <2> QED BY <2>1, <2>2
<1>5. ASSUME status' = "stopped" PROVE compute' # "active"
  <2>1. CASE status = "stopped"
    <3>1. compute # "active"
      BY <2>1 DEF Inv, DownPart
    <3>2. ~Early(w)
      BY <2>1, RunFacts
    <3> QED BY <1>2, <1>3, <3>1, <3>2
  <2>2. CASE status # "stopped"
    BY <1>5, <2>2 DEF StatusEffect
  <2> QED BY <2>1, <2>2
<1> QED BY <1>4, <1>5

\* What a step of a run does to the variables it shares with the gateway.
LEMMA RowKept ==
  ASSUME Inv, RowEffect, UNCHANGED gatewayVars
  PROVE  Kept
<1>1. RowPart'
  BY DEF Inv, TypePart, GatewayInv, RowPart, RowEffect
<1>2. SessionPart' /\ LinePart'
  BY DEF Inv, TypePart, GatewayInv, SessionPart, LinePart, gatewayVars
<1>3. DeadlinePart /\ deadline \in Deadlines /\ jobs \subseteq Jobs
  BY DEF Inv, TypePart, GatewayInv, DeadlinePart
<1>4. DeadlinePart' /\ (GenerationsIdentifyLeases => GenerationsIdentifyLeases')
  <2>1. CASE UNCHANGED deadline
    BY <1>3, <2>1, KeepOK DEF RowEffect
  <2>2. CASE deadline' = DeadlinesCleared
    <3>1. deadline' \in Deadlines
      BY <1>3, <2>2 DEF Deadlines, DeadlinesCleared
    <3>2. ASSUME NEW k \in DeadlineKinds
          PROVE  /\ deadline'[k].lease = deadline[k].lease
                 /\ deadline'[k].generation = deadline[k].generation
      BY <1>3, <2>2 DEF Deadlines, DeadlinesCleared
    <3>3. \A j \in jobs : j.kind \in DeadlineKinds
      BY <1>3 DEF Jobs
    <3> QED BY <1>3, <3>1, <3>2, <3>3
         DEF RowEffect, DeadlinePart, GenerationsIdentifyLeases
  <2> QED BY <2>1, <2>2 DEF RowEffect
<1> QED BY <1>1, <1>2, <1>4, Parts

\* The whole invariant, from what the step does to the worker's variables.
LEMMA EffectKeeps ==
  ASSUME Inv, NEW w \in Workers, NEW r, Kept, RecordEffect(w, r),
         StatusEffect(w), ProviderEffect(w, r), ComputeEffect(w, r),
         OwnEffect(w, r), provider' \in BOOLEAN, compute' \in Computes,
         billing' \in BOOLEAN, engine' \in Engines,
         LockFree(w) \/ RespectsLock, UNCHANGED <<left, deleting>>
  PROVE  Inv'
<1>1. TypePart'
  BY OtherRuns DEF TypePart, Inv, Kept, RecordEffect, RunRecords, Engines
<1> QED BY <1>1, KeepsRecordPart, KeepsLockPart, KeepsStartPart,
       KeepsBeyondPart, KeepsKnownPart, KeepsDownPart DEF Inv

\* A step of a run preserves it.
LEMMA RunKeeps ==
  ASSUME Inv, NEW w \in Workers, NEW r, RunEffect(w, r),
         LockFree(w) \/ RespectsLock, UNCHANGED <<gatewayVars, left, deleting>>
  PROVE  Inv' /\ Kept
<1>1. Kept
  BY RowKept DEF RunEffect
<1>2. /\ provider' \in BOOLEAN /\ compute' \in Computes
      /\ billing' \in BOOLEAN /\ engine' \in Engines
  BY DEF RunEffect, RowEffect
<1> QED BY <1>1, <1>2, EffectKeeps DEF RunEffect

\* The gateway is asked to close the tunnel of the compute that was stopped.
LEMMA TerminateKeeps ==
  ASSUME Inv, NEW w \in Workers, Terminate(w), LockFree(w) \/ RespectsLock
  PROVE  Inv' /\ Kept
<1> DEFINE l == run[w].saw
<1>1. /\ In(w, {"stop", "reconcile"}, "terminate") /\ Finish(w)
      /\ UNCHANGED <<status, deleted, ready, deadline, jobs, peer, budget,
                     provider, compute, billing, engine, left, deleting>>
  BY DEF Terminate
<1>2. l \in Leases
  BY <1>1, RunFacts DEF In, RecordOK
<1>3. GatewayInv
  BY DEF Inv, TypePart
<1>4. RowPart'
  BY <1>1, <1>3, LeaseFacts DEF GatewayInv, RowPart, Terminate
<1>5. SessionPart'
  <2>1. session' = session \/ session' = [session EXCEPT ![l].socket = "closed"]
    BY DEF Terminate
  <2> QED BY <1>1, <1>2, <1>3, <2>1
       DEF GatewayInv, SessionPart, Sessions, Sockets
<1>6. LinePart'
  <2>1. CASE UNCHANGED line
    BY <1>3, <2>1 DEF GatewayInv, LinePart
  <2>2. CASE Enqueue(session[l].node, "detach", l)
    <3>1. session[l].node \in Nodes
      BY <1>2, <1>3 DEF GatewayInv, SessionPart, Sessions
    <3> QED BY <1>2, <1>3, <2>2, <3>1, LeaseFacts, EnqueueOK
         DEF GatewayInv, Operations
  <2> QED BY <2>1, <2>2 DEF Terminate
<1>7. DeadlinePart' /\ (GenerationsIdentifyLeases => GenerationsIdentifyLeases')
  BY <1>1, <1>3, KeepOK DEF GatewayInv
<1>8. Kept
  BY <1>4, <1>5, <1>6, <1>7, Parts
<1>9. RecordEffect(w, Free) /\ OwnEffect(w, Free)
  BY <1>1, FinishOK, FreeEffect DEF In, Keeping
<1>10. StatusEffect(w) /\ ProviderEffect(w, Free) /\ ComputeEffect(w, Free)
  BY <1>1 DEF StatusEffect, ProviderEffect, ComputeEffect
<1> QED BY <1>1, <1>8, <1>9, <1>10, EffectKeeps, RunFacts

\* A step of a workflow run, or of a request that reads.
LEMMA WorkflowKeeps ==
  ASSUME Inv, NEW w \in Workers, WorkflowStep(w)
  PROVE  Inv' /\ Kept
<1>1. CASE Terminate(w)
  BY <1>1, TerminateKeeps DEF WorkflowStep
<1>2. CASE UNCHANGED <<gatewayVars, left, deleting>> /\ \E r : RunEffect(w, r)
  BY <1>2, RunKeeps DEF WorkflowStep
<1> QED
  BY <1>1, <1>2, StopStepEffect, ReconcileStepEffect, StartStepEffect,
     ResumeStepEffect, DeleteStepEffect, RunFailsEffect, ReadStepEffect
     DEF WorkflowStep

-----------------------------------------------------------------------------
(* Everything that is not a step of a run. *)

\* A run that was just taken up.
Fresh(r) ==
  /\ RecordOK(r) /\ r.flow # "start" /\ r.pc \notin KnowingSteps
  /\ StopsForGood => r.flow # "resume"

\* Free workers may have taken runs up; all others go on.
RunsTaken ==
  /\ run' \in [Workers -> RunRecords]
  /\ \A w \in Workers : run'[w] = run[w] \/ (run[w] = Free /\ Fresh(run'[w]))

\* What such a step may do: take up runs, move the status of a row that is
\* neither terminal nor still to start, and end a compute.
OutsideEffect ==
  /\ RunsTaken
  /\ status' = status \/ {status, status'} \subseteq Between
  /\ compute' = compute \/ (compute \notin Beyond /\ compute' # "active")
  /\ UNCHANGED provider

\* Such a step preserves what relates the row, the compute and the runs.
LEMMA OutsideKeeps ==
  ASSUME Inv, OutsideEffect, RespectsLock, TypePart'
  PROVE  Inv'
<1>1. ASSUME NEW w \in Workers
      PROVE  run'[w] = run[w] \/ (run[w] = Free /\ Fresh(run'[w]))
  BY DEF OutsideEffect, RunsTaken
<1>2. ASSUME NEW w \in Workers, run'[w].flow = "start" \/ run'[w].pc \in KnowingSteps
      PROVE  run'[w] = run[w]
  BY <1>1, <1>2 DEF Fresh
<1>3. RecordPart'
  <2>1. ASSUME NEW w \in Workers PROVE RecordOK(run'[w])
    BY <1>1, RunFacts DEF Fresh
  <2> QED BY <2>1 DEF RecordPart, RecordOK, Verdict
<1>4. LockPart'
  <2> SUFFICES ASSUME NEW w \in Workers, run'[w].pc \in CommitSteps
               PROVE  status' \notin Terminal
    BY DEF LockPart, Committing, CommitSteps
  <2>1. Committing(w)
    BY <1>2 DEF Committing, KnowingSteps, CommitSteps
  <2>2. status' = status
    BY <2>1 DEF RespectsLock, RowLocked
  <2> QED BY <2>1, <2>2, RunFacts
<1>5. StartPart'
  <2>1. ASSUME NEW v \in Workers, NEW w \in Workers,
               run'[v].flow = "start", run'[w].flow = "start"
        PROVE  v = w
    BY <1>2, <2>1, StartFacts
  <2>2. ASSUME NEW w \in Workers, run'[w].flow = "start",
               run'[w].pc \in EarlySteps
        PROVE  /\ ~provider'
               /\ \A v \in Workers : run'[v].pc \notin KnowingSteps
               /\ run'[w].pc # "persist" => compute' = "missing"
    <3>1. Early(w) /\ run'[w] = run[w]
      BY <1>2, <2>2 DEF Early
    <3>2. ASSUME NEW v \in Workers PROVE run'[v].pc \notin KnowingSteps
      BY <1>2, <3>1, StartFacts
    <3> QED BY <3>1, <3>2, StartFacts DEF OutsideEffect, Beyond
  <2> QED BY <2>1, <2>2 DEF StartPart, Early
<1>6. BeyondPart'
  <2>1. ASSUME NEW w \in Workers PROVE BeyondRecord(run'[w], compute')
    <3>1. CASE run'[w].pc \in {"mark_destroyed", "read_mark"}
      <4>1. run'[w] = run[w]
        BY <1>2, <3>1 DEF KnowingSteps
      <4> QED BY <4>1, RunFacts DEF BeyondRecord, OutsideEffect
    <3> QED BY <3>1 DEF BeyondRecord
  <2> QED BY <2>1 DEF BeyondPart, BeyondRecord
<1>7. KnownPart'
  <2> SUFFICES ASSUME ~DestroyFails, compute' \notin Beyond, ~provider'
               PROVE  \E w \in Workers : Keeping(run'[w])
    BY DEF KnownPart, Keeping
  <2>1. PICK w \in Workers : Keeping(run[w])
    BY DEF OutsideEffect, Inv, KnownPart
  <2>2. run'[w] = run[w]
    BY <1>1, <2>1, FreeOK DEF Keeping
  <2> QED BY <2>1, <2>2
<1>8. DownPart'
  <2> SUFFICES ASSUME StopsForGood
               PROVE  /\ \A w \in Workers :
                           /\ run'[w].flow # "resume"
                           /\ run'[w].flow = "start" /\ run'[w].pc \in EarlySteps
                                => status' \in {"pending", "starting"}
                           /\ DownRecord(run'[w], compute')
                      /\ status' = "stopped" => compute' # "active"
    BY DEF DownPart, DownRecord, Early, StopsForGood
  <2>1. compute # "active" => compute' # "active"
    BY DEF OutsideEffect
  <2>2. ASSUME NEW w \in Workers
        PROVE  /\ run'[w].flow # "resume"
               /\ run'[w].flow = "start" /\ run'[w].pc \in EarlySteps
                    => status' \in {"pending", "starting"}
               /\ DownRecord(run'[w], compute')
    <3>1. CASE run'[w] = run[w]
      <4>1. Early(w) => status' = status
        BY RunFacts DEF OutsideEffect, Between
      <4> QED BY <2>1, <3>1, <4>1, RunFacts DEF DownRecord, Early
    <3>2. CASE Fresh(run'[w])
      BY <3>2 DEF Fresh, DownRecord, KnowingSteps, LoadedSteps, CommitSteps
    <3> QED BY <1>1, <3>1, <3>2
  <2>3. status' = "stopped" => compute' # "active"
    <3>1. status' = "stopped" => status = "stopped"
      BY DEF OutsideEffect, Between, Terminal
    <3> QED BY <2>1, <3>1 DEF Inv, DownPart
  <2> QED BY <2>2, <2>3
<1> QED BY <1>3, <1>4, <1>5, <1>6, <1>7, <1>8 DEF Inv

\* No run is taken up.
LEMMA SameRuns ==
  ASSUME Inv, UNCHANGED run
  PROVE  RunsTaken
  BY DEF Inv, TypePart, RunsTaken

\* A run is taken up.
LEMMA BeginOK ==
  ASSUME Inv, NEW w \in Workers, NEW flow \in Flows \ {"none", "start"},
         NEW lease \in LeaseOrNone, NEW generation \in Nat,
         Begin(w, flow, lease, generation),
         flow \in {"idle", "disconnect", "reconcile"} => lease \in Leases,
         flow # "resume" \/ "resume" \in Requests
  PROVE  RunsTaken
<1> DEFINE r == Begun(flow, lease, generation)
<1>1. FirstStep[flow] \in Steps \ (KnowingSteps \cup {"terminate", "usage"})
  BY StepFacts
<1>2. /\ r \in RunRecords /\ r.flow = flow /\ r.lease = lease
      /\ r.pc = FirstStep[flow]
  <2>1. MaxTries \in 0 .. MaxTries
    BY WorkerAssumption
  <2> QED BY <1>1, <2>1, FreeOK DEF Begun, RunRecords
<1> HIDE DEF r
<1>3. RecordOK(r)
  BY <1>1, <1>2 DEF RecordOK, KnowingSteps
<1>4. Fresh(r)
  BY <1>1, <1>2, <1>3 DEF Fresh, StopsForGood
<1>5. run[w] = Free /\ run' = [run EXCEPT ![w] = r]
  BY DEF Begin, r
<1> QED BY <1>2, <1>4, <1>5, RunFacts DEF RunsTaken

\* A step of the gateway or of the sandbox.
LEMMA TunnelKeeps ==
  ASSUME Inv, TunnelStep
  PROVE  Inv' /\ Kept
<1>1. GatewayInv
  BY DEF Inv, TypePart
<1>2. ASSUME GatewayNext \/ \E l \in Leases : SandboxSignal(l), RespectsLock,
             UNCHANGED <<workerVars, left, deleting>>
      PROVE  Inv' /\ Kept
  <2>1. Kept
    BY <1>1, <1>2, GatewayNextOK, SandboxSignalOK
  <2>2. TypePart'
    BY <1>2, <2>1 DEF Inv, TypePart, Kept, workerVars, Engines, RunRecords
  <2>3. OutsideEffect
    BY <1>2, GatewayStatus, SameRuns DEF OutsideEffect, workerVars
  <2> QED BY <1>2, <2>1, <2>2, <2>3, OutsideKeeps
<1>3. CASE TunnelConnects
  <2>1. PICK l \in Leases, n \in Nodes : Connect(l, n)
    BY <1>3 DEF TunnelConnects
  <2>2. Kept
    BY <1>1, <2>1, ConnectOK
  <2>3. left' \in [requests : 0 .. MaxRequests, connects : 0 .. MaxConnects]
    BY <1>3, RequestAssumption DEF Inv, TypePart, TunnelConnects
  <2>4. TypePart'
    BY <1>3, <2>2, <2>3
       DEF Inv, TypePart, Kept, TunnelConnects, workerVars, Engines, RunRecords
  <2>5. OutsideEffect
    BY <1>3, <2>1, GatewayStatus, SameRuns
       DEF OutsideEffect, TunnelConnects, workerVars
  <2>6. RespectsLock
    BY <1>3, <2>1
       DEF RespectsLock, Connect, rowVars, TunnelConnects, workerVars
  <2> QED BY <2>2, <2>4, <2>5, <2>6, OutsideKeeps
<1> QED BY <1>2, <1>3 DEF TunnelStep, Tunnel

\* A step of the API, or of the engine that takes a deadline run up.
LEMMA RequestKeeps ==
  ASSUME Inv, RespectsLock, Kept, engine' \in Engines,
         left' \in [requests : 0 .. MaxRequests, connects : 0 .. MaxConnects],
         deleting' \in BOOLEAN, UNCHANGED <<provider, compute, billing>>,
         status' = status \/ {status, status'} \subseteq Between,
         RunsTaken
  PROVE  Inv'
<1>1. TypePart'
  BY DEF Inv, TypePart, Kept, Engines, RunRecords, RunsTaken
<1>2. OutsideEffect
  BY DEF OutsideEffect
<1> QED BY <1>1, <1>2, OutsideKeeps

\* A request of the user.
LEMMA ApiKeeps ==
  ASSUME Inv, ApiStep
  PROVE  Inv' /\ Kept
<1>1. /\ GatewayInv /\ engine \in Engines /\ deleting \in BOOLEAN
      /\ left \in [requests : 0 .. MaxRequests, connects : 0 .. MaxConnects]
  BY DEF Inv, TypePart
<1>2. RespectsLock
  BY DEF ApiStep
<1>3. ASSUME NEW kind, Request(kind)
      PROVE  /\ left' \in [requests : 0 .. MaxRequests,
                           connects : 0 .. MaxConnects]
             /\ kind \in Requests
  BY <1>1, <1>3, RequestAssumption DEF Request
<1>4. NoLease \in LeaseOrNone /\ 0 \in Nat /\ Leases \subseteq LeaseOrNone
  BY LeaseFacts
<1>5. ASSUME NEW w \in Workers, RequestStop(w) PROVE Inv' /\ Kept
  <2>1. Kept
    <3>1. RowEffect /\ UNCHANGED gatewayVars
      BY <1>5, RunFacts DEF RequestStop, RowEffect, Statuses
    <3> QED BY <3>1, RowKept
  <2>2. {status, status'} \subseteq Between
    BY <1>5 DEF RequestStop, UserStopEligible, Between, Statuses, Terminal
  <2>3. Begin(w, "stop", NoLease, 0) /\ "stop" \in Flows \ {"none", "start"}
    BY <1>5 DEF RequestStop, Flows
  <2>4. RunsTaken
    BY <1>4, <2>3, BeginOK
  <2> QED BY <1>1, <1>2, <1>3, <1>5, <2>1, <2>2, <2>4, RequestKeeps
       DEF RequestStop
<1>6. ASSUME NEW w \in Workers, NEW flow \in Flows \ {"none", "start"},
             NEW l \in LeaseOrNone, Begin(w, flow, l, 0), Request(flow),
             flow = "reconcile" => l \in Leases,
             flow \notin {"idle", "disconnect"},
             deleting' \in BOOLEAN,
             UNCHANGED <<rowVars, gatewayVars, provider, compute, billing, engine>>
      PROVE  Inv' /\ Kept
  <2>1. Kept
    BY <1>1, <1>6, StutterOK
  <2>2. flow # "resume" \/ "resume" \in Requests
    BY <1>3, <1>6
  <2>3. RunsTaken
    BY <1>4, <1>6, <2>2, BeginOK
  <2> QED BY <1>1, <1>2, <1>3, <1>6, <2>1, <2>3, RequestKeeps DEF rowVars
<1>7. {"resume", "delete", "read", "reconcile"} \subseteq
        Flows \ {"none", "start", "idle", "disconnect"}
  BY DEF Flows
<1>8. ASSUME NEW w \in Workers, RequestResume(w) PROVE Inv' /\ Kept
  BY <1>1, <1>4, <1>6, <1>7, <1>8 DEF RequestResume
<1>9. ASSUME NEW w \in Workers, RequestDelete(w) PROVE Inv' /\ Kept
  BY <1>4, <1>6, <1>7, <1>9 DEF RequestDelete
<1>10. ASSUME NEW w \in Workers, RequestRead(w) PROVE Inv' /\ Kept
  BY <1>1, <1>4, <1>6, <1>7, <1>10 DEF RequestRead
<1>11. ASSUME NEW w \in Workers, NEW l \in Leases, RequestReconcile(w, l)
       PROVE  Inv' /\ Kept
  BY <1>1, <1>4, <1>6, <1>7, <1>11 DEF RequestReconcile
<1>12. CASE RequestStopUnqueued
  <2>1. {status, status'} \subseteq Between
    BY <1>12
       DEF RequestStopUnqueued, UserStopEligible, Between, Statuses, Terminal
  <2>2. Kept
    <3>1. RowPart' /\ LinePart'
      BY <1>1, <1>12
         DEF RequestStopUnqueued, GatewayInv, RowPart, LinePart, Statuses
    <3>2. SessionPart'
      BY <1>1, <1>12 DEF RequestStopUnqueued, GatewayInv, SessionPart
    <3>3. DeadlinePart' /\ (GenerationsIdentifyLeases => GenerationsIdentifyLeases')
      BY <1>1, <1>12, KeepOK DEF RequestStopUnqueued, GatewayInv
    <3> QED BY <3>1, <3>2, <3>3, Parts
  <2>3. UNCHANGED <<provider, compute, billing, run, engine, deleting>>
    BY <1>12 DEF RequestStopUnqueued, workerVars
  <2>4. left' \in [requests : 0 .. MaxRequests, connects : 0 .. MaxConnects]
    BY <1>3, <1>12 DEF RequestStopUnqueued
  <2> QED BY <1>1, <1>2, <2>1, <2>2, <2>3, <2>4, SameRuns, RequestKeeps
<1>13. CASE StampDeleted
  <2>1. Kept
    <3>1. RowPart' /\ LinePart' /\ SessionPart'
      BY <1>1, <1>13
         DEF StampDeleted, GatewayInv, RowPart, LinePart, SessionPart, gatewayVars
    <3>2. DeadlinePart' /\ (GenerationsIdentifyLeases => GenerationsIdentifyLeases')
      BY <1>1, <1>13, KeepOK DEF StampDeleted, GatewayInv
    <3> QED BY <3>1, <3>2, Parts
  <2>2. UNCHANGED <<status, provider, compute, billing, run, engine, left, deleting>>
    BY <1>13 DEF StampDeleted, workerVars
  <2> QED BY <1>1, <1>2, <2>1, <2>2, SameRuns, RequestKeeps
<1> QED BY <1>5, <1>8, <1>9, <1>10, <1>11, <1>12, <1>13 DEF ApiStep

\* A deadline run comes due.
LEMMA DeadlineKeeps ==
  ASSUME Inv, NEW w \in Workers, DeadlineDue(w)
  PROVE  Inv' /\ Kept
<1>1. PICK j \in jobs : TakeDeadline(w, j)
  BY DEF DeadlineDue
<1>2. GatewayInv /\ engine \in Engines
  BY DEF Inv, TypePart
<1>3. /\ j \in Jobs /\ j.kind \in {"idle", "disconnect"} /\ j.lease \in Leases
      /\ j.lease \in LeaseOrNone /\ j.generation \in Nat
      /\ j.kind \in Flows \ {"none", "start"}
  BY <1>2, LeaseFacts DEF GatewayInv, DeadlinePart, Jobs, DeadlineKinds, Flows
<1>4. /\ Begin(w, j.kind, j.lease, j.generation)
      /\ engine' = [engine EXCEPT !.taken = @ \cup {j}]
      /\ UNCHANGED <<rowVars, provider, compute, billing, gatewayVars, left,
                     deleting>>
  BY <1>1 DEF TakeDeadline, DeadlineDue
<1>5. RunsTaken
  BY <1>3, <1>4, BeginOK
<1>6. engine' \in Engines
  BY <1>2, <1>3, <1>4 DEF Engines
<1>7. RespectsLock /\ Kept
  BY <1>2, <1>4, StutterOK DEF RespectsLock, rowVars
<1> QED BY <1>4, <1>5, <1>6, <1>7, RequestKeeps DEF rowVars, Inv, TypePart

\* The compute stops or is lost, or a worker dies.
LEMMA ElsewhereKeeps ==
  ASSUME Inv, Elsewhere
  PROVE  Inv' /\ Kept
<1>1. CASE ComputeStops \/ ComputeLost
  <2>1. /\ compute' \in Computes \ {"active"} /\ compute \notin Beyond
        /\ UNCHANGED <<rowVars, provider, billing, run, engine, gatewayVars, left,
                       deleting>>
    BY <1>1, WorkerAssumption
       DEF Elsewhere, ComputeStops, ComputeLost, Computes, Beyond
  <2>2. Kept
    BY <2>1, StutterOK DEF Inv, TypePart
  <2>3. TypePart'
    BY <2>1, <2>2 DEF Inv, TypePart, Kept, Engines, RunRecords
  <2>4. OutsideEffect /\ RespectsLock
    BY <2>1, SameRuns DEF OutsideEffect, RespectsLock, rowVars
  <2> QED BY <2>2, <2>3, <2>4, OutsideKeeps
<1>2. ASSUME NEW w \in Workers, WorkerDies(w)
      PROVE  Inv' /\ Kept
  <2>1. RespectsLock
    BY <1>2 DEF WorkerDies, RespectsLock, rowVars
  <2> QED BY <1>2, <2>1, WorkerDiesEffect, RunKeeps DEF Elsewhere
<1> QED BY <1>1, <1>2 DEF Elsewhere

-----------------------------------------------------------------------------
(* The beginning, and the theorems. *)

\* The first tunnel is up, with its idle deadline armed.
LEMMA RunningGatewayOK ==
  ASSUME InitRunning
  PROVE  GatewayInv /\ GenerationsIdentifyLeases
<1> DEFINE first == CHOOSE n \in Nodes : TRUE
           job == [kind |-> "idle", lease |-> 1, generation |-> 1]
<1>1. first \in Nodes
  BY GatewayAssumption
<1>2. 1 \in Leases /\ 1 \in LeaseOrNone /\ NoLease \in LeaseOrNone
  BY LeaseAssumption, LeaseFacts DEF Leases, LeaseOrNone
<1>3. RowPart
  BY <1>2 DEF InitRunning, RowPart, Statuses
<1>4. SessionPart
  <2>1. session = [l \in Leases |->
          [socket |-> IF l = 1 THEN "open" ELSE "unused", node |-> first,
           activation |-> IF l = 1 THEN "renewing" ELSE "off",
           writing |-> FALSE]]
    BY DEF InitRunning
  <2>2. peer = [n \in Nodes |-> IF n = first THEN 1 ELSE NoLease]
    BY DEF InitRunning
  <2> HIDE DEF first
  <2>3. session \in Sessions
    BY <1>1, <2>1 DEF Sessions, Sockets, Activations
  <2>4. peer \in [Nodes -> LeaseOrNone]
    BY <1>2, <2>2
  <2> QED BY <2>3, <2>4, GatewayAssumption DEF InitRunning, SessionPart
<1>5. LinePart
  BY DEF InitRunning, LinePart, Lines
<1>6. /\ deadline = [k \in DeadlineKinds |->
           IF k = "idle" THEN [lease |-> 1, generation |-> 1, armed |-> TRUE]
           ELSE [lease |-> NoLease, generation |-> 0, armed |-> FALSE]]
      /\ jobs = {job}
  BY DEF InitRunning
<1>7. DeadlinePart
  <2>1. job \in Jobs
    BY <1>2 DEF Jobs, DeadlineKinds
  <2>2. deadline \in Deadlines
    BY <1>2, <1>6 DEF Deadlines, DeadlineKinds
  <2> QED BY <1>6, <2>1, <2>2 DEF DeadlinePart
<1>8. GenerationsIdentifyLeases
  BY <1>6 DEF GenerationsIdentifyLeases, DeadlineKinds
<1> QED BY <1>3, <1>4, <1>5, <1>7, <1>8 DEF GatewayInv

\* The invariant holds at the beginning, of a running instance as of one whose
\* start run was just enqueued.
LEMMA InitOK == Init => Inv /\ GenerationsIdentifyLeases
<1> SUFFICES ASSUME Init PROVE Inv /\ GenerationsIdentifyLeases
  OBVIOUS
<1>1. PICK up \in BOOLEAN :
        /\ WorkerInit(up) /\ GatewayInv /\ GenerationsIdentifyLeases
        /\ status = IF up THEN "running" ELSE "pending"
  <2>1. CASE InitRunning
    BY <2>1, RunningGatewayOK DEF InitRunning
  <2>2. CASE InitPending
    <3>1. "pending" \in Statuses
      BY DEF Statuses
    <3> QED BY <2>2, <3>1, GatewayInitOK DEF InitPending, RowInit
  <2> QED BY <2>1, <2>2 DEF Init
<1> DEFINE start == Begun("start", NoLease, 0)
<1>2. /\ start \in RunRecords /\ start.flow = "start" /\ start.pc = "prepare"
  <2>1. MaxTries \in 0 .. MaxTries /\ NoLease \in LeaseOrNone
    BY WorkerAssumption, LeaseFacts
  <2>2. FirstStep["start"] = "prepare" /\ "prepare" \in Steps /\ "start" \in Flows
    BY DEF FirstStep, Steps, OwnSteps, Flows
  <2> QED BY <2>1, <2>2, FreeOK DEF Begun, RunRecords
<1> HIDE DEF start
<1>3. PICK s \in Workers :
        run = IF up THEN [v \in Workers |-> Free]
              ELSE [v \in Workers |-> IF v = s THEN start ELSE Free]
  BY <1>1 DEF WorkerInit, start
<1>4. ASSUME NEW v \in Workers
      PROVE  run[v] = Free \/ (~up /\ v = s /\ run[v] = start)
  BY <1>3
<1>5. /\ "prepare" \in StartSteps \cap EarlySteps
      /\ "prepare" \notin KnowingSteps \cup CommitSteps \cup {"terminate", "usage"}
      /\ "free" \notin KnowingSteps \cup CommitSteps \cup EarlySteps
  BY
     DEF StartSteps, OwnSteps, EarlySteps, KnowingSteps, LoadedSteps,
         CommitSteps
<1>6. /\ provider = up /\ billing = up
      /\ compute = IF up THEN "active" ELSE "missing"
      /\ engine = [taken |-> {}, failed |-> {}, inspected |-> {},
                   deaths |-> MaxDeaths]
  BY <1>1 DEF WorkerInit
<1>7. TypePart
  <2>1. run \in [Workers -> RunRecords]
    BY <1>2, <1>3, FreeOK
  <2>2. engine \in Engines
    BY <1>6, WorkerAssumption DEF Engines
  <2>3. left \in [requests : 0 .. MaxRequests, connects : 0 .. MaxConnects]
    BY RequestAssumption DEF Init
  <2> QED BY <1>1, <1>6, <2>1, <2>2, <2>3 DEF TypePart, Computes, Init
<1>8. RecordOK(start)
  BY <1>2, <1>5 DEF RecordOK, KnowingSteps
<1>9. RecordPart
  BY <1>4, <1>8, FreeOK DEF RecordPart
<1>10. LockPart
  BY <1>2, <1>4, <1>5, FreeOK DEF LockPart, Committing, CommitSteps
<1>11. StartPart
  <2>1. ASSUME NEW v \in Workers PROVE run[v].pc \notin KnowingSteps
    BY <1>2, <1>4, <1>5, FreeOK
  <2>2. ASSUME NEW v \in Workers, run[v].flow = "start" PROVE ~up /\ v = s
    BY <1>4, <2>2, FreeOK
  <2> QED BY <1>6, <2>1, <2>2 DEF StartPart, Early
<1>12. BeyondPart
  BY <1>2, <1>4, FreeOK DEF BeyondPart, BeyondRecord
<1>13. KnownPart
  BY <1>6 DEF KnownPart, Beyond
<1>14. DownPart
  <2>1. ASSUME NEW v \in Workers
        PROVE  /\ run[v].flow # "resume"
               /\ Early(v) => status \in {"pending", "starting"}
               /\ DownRecord(run[v], compute)
    BY <1>1, <1>2, <1>4, FreeOK DEF Early, DownRecord
  <2> QED BY <1>1, <2>1 DEF DownPart
<1> QED BY <1>1, <1>7, <1>9, <1>10, <1>11, <1>12, <1>13, <1>14 DEF Inv

\* Every step preserves the invariant, and what a generation stands for.
LEMMA NextOK == Inv /\ [Next]_vars => Inv' /\ Kept
<1> SUFFICES ASSUME Inv, [Next]_vars PROVE Inv' /\ Kept
  OBVIOUS
<1>1. ASSUME NEW w \in Workers, WorkflowStep(w) PROVE Inv' /\ Kept
  BY <1>1, WorkflowKeeps
<1>2. ASSUME NEW w \in Workers, DeadlineDue(w) PROVE Inv' /\ Kept
  BY <1>2, DeadlineKeeps
<1>3. CASE UNCHANGED vars
  <2>1. UNCHANGED <<rowVars, gatewayVars, provider, compute, billing, run, engine,
                    left, deleting>>
    BY <1>3 DEF vars, workerVars
  <2>2. Kept
    BY <2>1, StutterOK DEF Inv, TypePart
  <2>3. TypePart'
    BY <2>1, <2>2 DEF Inv, TypePart, Kept, Engines, RunRecords
  <2>4. OutsideEffect /\ RespectsLock
    BY <2>1, SameRuns DEF OutsideEffect, RespectsLock, rowVars
  <2> QED BY <2>2, <2>3, <2>4, OutsideKeeps
<1> QED BY <1>1, <1>2, <1>3, TunnelKeeps, ApiKeeps, ElsewhereKeeps DEF Next

\* The invariant holds throughout.
LEMMA InvHolds == Spec => []Inv
<1>1. Inv /\ [Next]_vars => Inv'
  BY NextOK
<1> QED BY <1>1, InitOK, PTL DEF Spec

-----------------------------------------------------------------------------

\* With everything that acts on an instance at once, every variable stays in its
\* domain: a run that terminates a tunnel or records a failed deadline has a
\* lease to name, and a read records a usage event of a kind there is.
THEOREM TypeCorrect == Spec => []TypeOK
<1>1. Inv => TypeOK
  BY GatewayTypes
     DEF Inv, TypePart, TypeOK, WorkerTypeOK, RunRecords, Engines
<1> QED BY <1>1, InvHolds, PTL

\* Nor do the worker's runs, which clear deadlines, or the user's requests break
\* what a generation stands for: the check of a deadline run
\* (handleSandboxInstanceDeadline) never takes a superseded run for a current one.
THEOREM GenerationsUnambiguous == Spec => []GenerationsIdentifyLeases
<1>1. Inv /\ GenerationsIdentifyLeases /\ [Next]_vars
        => Inv' /\ GenerationsIdentifyLeases'
  BY NextOK DEF Kept
<1> QED BY <1>1, InitOK, PTL DEF Spec

\* What may become of the status of a terminal row.
TerminalStep ==
  (status \in {"stopped", "failed"}) =>
    (\/ status' \in {status, "starting"}
     \/ /\ status = "stopped" /\ status' = "failed"
        /\ \/ compute \in {"missing", "terminal_stopped"}
           \/ \E w \in Workers : Starting(w, "undo_mark"))

\* No step does anything else with it.
LEMMA TerminalOK == Inv /\ [Next]_vars => TerminalStep
<1> SUFFICES ASSUME Inv, [Next]_vars PROVE TerminalStep
  OBVIOUS
<1>1. ASSUME status' = status \/ {status, status'} \subseteq Between
      PROVE  TerminalStep
  BY <1>1 DEF TerminalStep, Between, Terminal
<1>2. ASSUME NEW w \in Workers, NEW r, RunEffect(w, r) PROVE TerminalStep
  BY <1>2 DEF RunEffect, StatusEffect, TerminalStep, Terminal, Beyond
<1>3. ASSUME NEW w \in Workers, WorkflowStep(w) PROVE TerminalStep
  <2>1. CASE Terminate(w)
    BY <1>1, <2>1 DEF Terminate
  <2> QED
    BY <1>2, <1>3, <2>1, StopStepEffect, ReconcileStepEffect, StartStepEffect,
       ResumeStepEffect, DeleteStepEffect, RunFailsEffect, ReadStepEffect
       DEF WorkflowStep
<1>4. ASSUME NEW w \in Workers, DeadlineDue(w) PROVE TerminalStep
  BY <1>1, <1>4 DEF DeadlineDue, TakeDeadline, rowVars
<1>5. CASE TunnelStep
  BY <1>1, <1>5, GatewayStatus DEF TunnelStep, Tunnel, TunnelConnects
<1>6. CASE ApiStep
  <2>1. ASSUME NEW w \in Workers, RequestStop(w) PROVE TerminalStep
    BY <2>1 DEF RequestStop, UserStopEligible, TerminalStep
  <2>2. CASE RequestStopUnqueued
    BY <2>2 DEF RequestStopUnqueued, UserStopEligible, TerminalStep
  <2>3. ASSUME NEW w \in Workers,
               \/ RequestResume(w) \/ RequestDelete(w) \/ RequestRead(w)
               \/ \E l \in Leases : RequestReconcile(w, l)
        PROVE  TerminalStep
    BY <1>1, <2>3
       DEF RequestResume, RequestDelete, RequestRead, RequestReconcile, rowVars
  <2>4. CASE StampDeleted
    BY <1>1, <2>4 DEF StampDeleted
  <2> QED BY <1>6, <2>1, <2>2, <2>3, <2>4 DEF ApiStep
<1>7. CASE Elsewhere
  BY <1>1, <1>7 DEF Elsewhere, ComputeStops, ComputeLost, WorkerDies, rowVars
<1>8. CASE UNCHANGED vars
  BY <1>1, <1>8 DEF vars, rowVars
<1> QED BY <1>3, <1>4, <1>5, <1>6, <1>7, <1>8 DEF Next

\* Nothing but a resume takes an instance out of stopped or failed, whatever runs,
\* reads, reports and retries are under way: every mark of a run is conditional on
\* a status it checked under the row's lock (markSandboxInstanceStopped and
\* markSandboxInstanceFailed), and what a read or a deletion knew of a compute
\* that was gone is still true when it writes.
THEOREM TerminalOnlyResumesHolds == Spec => TerminalOnlyResumes
<1>1. Inv /\ [Next]_vars => [TerminalStep]_vars
  BY TerminalOK
<1> QED BY <1>1, InvHolds, PTL DEF Spec, TerminalOnlyResumes, TerminalStep

\* Where the provider does not fail to destroy a compute, no startup, deletion,
\* stop, retry or death of a worker leaves one running that the row does not
\* name: from its allocation on, a compute is in the hands of the start run until
\* its id is persisted or the compute is destroyed (start-sandbox-instance), and
\* the id is forgotten only once the compute is gone.
THEOREM ActiveComputeIsKnownHolds ==
  ASSUME ~DestroyFails
  PROVE  Spec => []ActiveComputeIsKnown
<1>1. ASSUME Inv PROVE ActiveComputeIsKnown
  <2> SUFFICES ASSUME NoRuns, compute = "active" PROVE provider
    BY DEF ActiveComputeIsKnown
  <2>1. \A w \in Workers : ~Keeping(run[w])
    BY FreeOK DEF NoRuns, Keeping
  <2> QED BY <1>1, <2>1 DEF Inv, KnownPart, Beyond
<1> QED BY <1>1, InvHolds, PTL

\* Where nobody resumes the instance and a compute that was asked to stop does,
\* a stopped row has no compute running behind it: a run writes stopped after it
\* saw the compute down, and no other run can have brought it back by then.
THEOREM StoppedComputeIsDownHolds ==
  ASSUME StopsForGood
  PROVE  Spec => []StoppedComputeIsDown
<1>1. Inv => StoppedComputeIsDown
  BY DEF Inv, DownPart, StoppedComputeIsDown
<1> QED BY <1>1, InvHolds, PTL
=============================================================================
