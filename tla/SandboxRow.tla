----------------------------- MODULE SandboxRow -----------------------------
(***************************************************************************)
(* The state of one sandbox instance that gateway, API and worker share,   *)
(* and the API calls with which they change it:                            *)
(*                                                                         *)
(*  - the row of sandbox_instances (status, deleted_at);                   *)
(*  - the runtime attachment in Valkey: which bootstrap lease is attached; *)
(*  - the readiness record: which lease last said the runtime is ready;    *)
(*  - the rows of sandbox_instance_deadlines, one per kind;                *)
(*  - the deadline workflow runs that were enqueued and not yet handled.   *)
(*                                                                         *)
(* Due times are abstracted: a run may be handled at any time after it was *)
(* enqueued, and a put may or may not repeat the due time already stored.  *)
(***************************************************************************)
EXTENDS SandboxLifecycle, Naturals

CONSTANT MaxLease       \* bound: how many times a bootstrap tunnel connects

ASSUME LeaseAssumption == MaxLease \in Nat \ {0}

\* Owner leases are numbered in the order in which tunnels connect; 0 is null.
NoLease == 0
Leases == 1 .. MaxLease
LeaseOrNone == 0 .. MaxLease

DeadlineKinds == {"idle", "disconnect"}

VARIABLES
  status,       \* sandbox_instances.status
  deleted,      \* sandbox_instances.deleted_at IS NOT NULL
  attachment,   \* ownerLeaseId of the attachment record
  ready,        \* ownerLeaseId of a readiness record with ready = true
  deadline,     \* deadline[kind]: [lease, generation, armed]
  jobs          \* enqueued deadline runs: [kind, lease, generation]

rowVars == <<status, deleted, attachment, ready, deadline, jobs>>

Jobs == [kind : DeadlineKinds, lease : Leases, generation : Nat]

RowTypeOK ==
  /\ status \in Statuses
  /\ deleted \in BOOLEAN
  /\ attachment \in LeaseOrNone
  /\ ready \in LeaseOrNone
  /\ deadline \in [DeadlineKinds ->
                     [lease : LeaseOrNone, generation : Nat, armed : BOOLEAN]]
  /\ jobs \subseteq Jobs

\* A row of the given status, before any tunnel connected.
RowInit(s) ==
  /\ status = s
  /\ deleted = FALSE
  /\ attachment = NoLease
  /\ ready = NoLease
  /\ deadline = [k \in DeadlineKinds |->
                   [lease |-> NoLease, generation |-> 0, armed |-> FALSE]]
  /\ jobs = {}

-----------------------------------------------------------------------------
(* applySandboxRuntimeLifecycleEvent. ApplyLifecycleEvent shows that its     *)
(* read and conditional update act at one instant; a lost race is a failing  *)
(* call. Its owner check is a step of its own.                               *)

\* isRuntimeLifecycleEventOwnerCurrent, for a detach.
OwnerCurrent(l) == attachment \in {NoLease, l}

StatusAfterReport(r) ==
  LET e == ResolveLifecycleEvent(status, r)
  IN  IF e = "none" THEN status ELSE After(status, e)

-----------------------------------------------------------------------------
(* putSandboxInstanceDeadline and deleteSandboxInstanceDeadline. *)

\* Mutant: the lease is not compared.
NextDeadlinesAnyLease(k, l) ==
  LET d == deadline[k]
      renewed == [lease |-> l, generation |-> d.generation + 1, armed |-> TRUE]
  IN  {renewed} \cup IF d.armed THEN {[d EXCEPT !.lease = l]} ELSE {}

\* computeNextGeneration: a new generation unless the deadline is armed for
\* the same lease at the same due time.
NextDeadlines(k, l) ==
  LET d == deadline[k]
      renewed == [lease |-> l, generation |-> d.generation + 1, armed |-> TRUE]
  IN  {renewed} \cup IF d.armed /\ d.lease = l THEN {d} ELSE {}

\* Mutant: a deadline that is armed already is kept, whosever it is.
PutDeadlineOnce(k, l) ==
  IF deadline[k].armed THEN UNCHANGED <<deadline, jobs>>
  ELSE \E d \in NextDeadlines(k, l) :
         /\ deadline' = [deadline EXCEPT ![k] = d]
         /\ jobs' = jobs \cup
              {[kind |-> k, lease |-> l, generation |-> d.generation]}

\* The deadline is persisted and its run enqueued; the run's idempotency key
\* holds the generation, so enqueueing it again adds nothing.
PutDeadline(k, l) ==
  \E d \in NextDeadlines(k, l) :
    /\ deadline' = [deadline EXCEPT ![k] = d]
    /\ jobs' = jobs \cup
         {[kind |-> k, lease |-> l, generation |-> d.generation]}

\* Persisted, but enqueueing its run failed: the call throws.
PutDeadlineUnqueued(k, l) ==
  /\ \E d \in NextDeadlines(k, l) : deadline' = [deadline EXCEPT ![k] = d]
  /\ UNCHANGED jobs

\* UPDATE ... WHERE owner_lease_id = l AND cleared_at IS NULL.
DeleteDeadline(k, l) ==
  deadline' = [deadline EXCEPT ![k].armed = @ /\ deadline[k].lease # l]

\* Clearing both deadlines, as every transaction that ends the compute does.
DeadlinesCleared ==
  [k \in DeadlineKinds |-> [deadline[k] EXCEPT !.armed = FALSE]]

-----------------------------------------------------------------------------
\* A deadline run names the lease its generation was given to: two runs, or a
\* run and the stored deadline, never share a generation across leases. The
\* worker's generation check rests on it.
GenerationsIdentifyLeases ==
  \A j \in jobs :
    /\ j.generation <= deadline[j.kind].generation
    /\ j.generation = deadline[j.kind].generation
         => j.lease = deadline[j.kind].lease
=============================================================================
