------------------------ MODULE ApplyLifecycleEvent ------------------------
(***************************************************************************)
(* How lifecycle events reach the status column. Two functions write it:   *)
(*                                                                         *)
(*  - the worker's applySandboxLifecycleEvent, given an event: read the    *)
(*    row, consult the rule table, UPDATE ... WHERE status = <what was     *)
(*    read>, and when that matched no row read once more, to accept an     *)
(*    event somebody else applied in between;                              *)
(*  - the API's applySandboxRuntimeLifecycleEvent, given a report of the   *)
(*    gateway: ignore a detach whose owner is no longer current, read the  *)
(*    row, turn report and status into an event, and UPDATE conditionally; *)
(*    a miss is an error.                                                  *)
(*                                                                         *)
(* Every SQL statement is a step: any number of callers interleave between *)
(* them, and the instance may be deleted at any point.                     *)
(***************************************************************************)
EXTENDS SandboxLifecycle

CONSTANT Callers

ASSUME CallersAssumption == Callers # {}

VARIABLES
  status,     \* sandbox_instances.status
  deleted,    \* sandbox_instances.deleted_at IS NOT NULL
  call,       \* call[c]: what c was asked to apply and how far it is
  answer      \* answer[c]: how c's latest finished call ended

vars == <<status, deleted, call, answer>>

Steps == {"idle", "owner", "read", "swap", "reread"}

\* event is meaningful from "swap" on for a report, seen from "swap" on.
Idle == [pc |-> "idle", via |-> "worker", asked |-> "none",
         event |-> "none", seen |-> "none"]

Init ==
  /\ status \in Statuses
  /\ deleted = FALSE
  /\ call = [c \in Callers |-> Idle]
  /\ answer = [c \in Callers |-> "none"]

Return(c, a) ==
  /\ call' = [call EXCEPT ![c] = Idle]
  /\ answer' = [answer EXCEPT ![c] = a]

Goto(c, pc) ==
  /\ call' = [call EXCEPT ![c].pc = pc]
  /\ UNCHANGED answer

-----------------------------------------------------------------------------
(* A worker step asks for an event, the gateway makes a report. *)

CallWorker(c, e) ==
  /\ call[c].pc = "idle"
  /\ call' = [call EXCEPT ![c] = [pc |-> "read", via |-> "worker", asked |-> e,
                                  event |-> e, seen |-> "none"]]
  /\ answer' = [answer EXCEPT ![c] = "none"]
  /\ UNCHANGED <<status, deleted>>

CallRuntime(c, r) ==
  /\ call[c].pc = "idle"
  /\ call' = [call EXCEPT ![c] = [pc |-> "owner", via |-> "runtime",
                                  asked |-> r, event |-> "none",
                                  seen |-> "none"]]
  /\ answer' = [answer EXCEPT ![c] = "none"]
  /\ UNCHANGED <<status, deleted>>

\* isRuntimeLifecycleEventOwnerCurrent. Only a detach is checked. Who owns the
\* bootstrap attachment is not state of this module, so both answers of the
\* runtime-state reader are possible.
CheckOwner(c) ==
  /\ call[c].pc = "owner"
  /\ \/ Goto(c, "read")
     \/ /\ call[c].asked = "detached"
        /\ Return(c, IF deleted THEN "error" ELSE "ignored")
  /\ UNCHANGED <<status, deleted>>

-----------------------------------------------------------------------------
(* Reading the row and consulting the rules. *)

\* The event a call stands for once it has read status s.
EventFor(c, s) ==
  IF call[c].via = "worker" THEN call[c].asked
  ELSE ResolveLifecycleEvent(s, call[c].asked)

\* Mutant: the report is carried on in place of the event it stands for.
ReadRowUnresolved(c) ==
  LET e == EventFor(c, status) IN
  /\ call[c].pc = "read"
  /\ IF deleted \/ e = "none" THEN Return(c, "error")
     ELSE IF ~Transitions(status, e) THEN Return(c, "ignored")
     ELSE /\ call' = [call EXCEPT ![c].pc = "swap", ![c].event = call[c].asked,
                                  ![c].seen = status]
          /\ UNCHANGED answer
  /\ UNCHANGED <<status, deleted>>

ReadRow(c) ==
  LET e == EventFor(c, status) IN
  /\ call[c].pc = "read"
  /\ \/ deleted /\ Return(c, "error")
     \/ ~deleted /\ e = "none" /\ Return(c, "ignored")
     \/ ~deleted /\ e # "none" /\ Invalid(status, e) /\ Return(c, "error")
     \/ ~deleted /\ e # "none" /\ Unchanged(status, e) /\ Return(c, "applied")
     \/ /\ ~deleted /\ e # "none" /\ Transitions(status, e)
        /\ call' = [call EXCEPT ![c].pc = "swap", ![c].event = e,
                                ![c].seen = status]
        /\ UNCHANGED answer
  /\ UNCHANGED <<status, deleted>>

\* Mutant: an UPDATE that does not compare the status with the one read.
SwapUnconditional(c) ==
  /\ call[c].pc = "swap"
  /\ IF deleted THEN Return(c, "error") /\ UNCHANGED status
     ELSE /\ status' = After(call[c].seen, call[c].event)
          /\ Return(c, "applied")
  /\ UNCHANGED deleted

\* UPDATE ... WHERE id AND status = transition.from AND deleted_at IS NULL.
Swap(c) ==
  /\ call[c].pc = "swap"
  /\ \/ /\ status = call[c].seen /\ ~deleted
        /\ status' = After(call[c].seen, call[c].event)
        /\ Return(c, "applied")
     \/ /\ status # call[c].seen \/ deleted
        /\ IF call[c].via = "worker" THEN Goto(c, "reread")
                                     ELSE Return(c, "error")
        /\ UNCHANGED status
  /\ UNCHANGED deleted

\* Mutant: a missed UPDATE is taken for one that somebody else made.
RereadTrusting(c) ==
  /\ call[c].pc = "reread"
  /\ Return(c, IF deleted THEN "error" ELSE "applied")
  /\ UNCHANGED <<status, deleted>>

\* The worker's second read after a missed update.
Reread(c) ==
  /\ call[c].pc = "reread"
  /\ Return(c, IF ~deleted /\ Unchanged(status, call[c].event)
               THEN "applied" ELSE "error")
  /\ UNCHANGED <<status, deleted>>

\* deleteSandboxInstance stamps deleted_at, at most once.
Delete ==
  /\ ~deleted
  /\ deleted' = TRUE
  /\ UNCHANGED <<status, call, answer>>

Next ==
  \/ Delete
  \/ \E c \in Callers :
       \/ \E e \in Events : CallWorker(c, e)
       \/ \E r \in Reports : CallRuntime(c, r)
       \/ CheckOwner(c) \/ ReadRow(c) \/ Swap(c) \/ Reread(c)

Spec == Init /\ [][Next]_vars

-----------------------------------------------------------------------------
(* Properties. *)

\* Status, calls and answers stay in their domains.
TypeOK ==
  /\ status \in Statuses
  /\ deleted \in BOOLEAN
  /\ answer \in [Callers -> {"none", "applied", "ignored", "error"}]
  /\ call \in [Callers -> [pc : Steps, via : {"worker", "runtime"},
                           asked : Events \cup Reports \cup {"none"},
                           event : Events \cup {"none"},
                           seen : Statuses \cup {"none"}]]

\* A terminal status is left only to be restarted; a stopped instance may
\* still be recorded as failed. No late worker step and no late report of the
\* gateway revives an instance by writing over stopped or failed.
TerminalOnlyRestarts ==
  [][(status \in {"stopped", "failed"}) =>
       status' \in {status, "starting", "failed"}]_vars

\* The events a report can turn into, whatever the status.
ReportEvents ==
  [detached  |-> {"bootstrap_detached"},
   degraded  |-> {"bootstrap_degraded"},
   recovered |-> {"bootstrap_recovered"},
   ready     |-> {"runtime_ready", "bootstrap_reattached_ready"},
   not_ready |-> {"bootstrap_reattached_not_ready"}]

\* The events a call stands for.
EventsOf(k) ==
  IF k.pc = "idle" THEN {}
  ELSE IF k.via = "worker" THEN {k.asked}
  ELSE ReportEvents[k.asked]

Register == INSTANCE LifecycleRegister
              WITH wants <- [c \in Callers |-> EventsOf(call[c])]

\* The read, the conditional UPDATE and the second read together behave like
\* one indivisible application of the rule table: a call that reports success
\* found the row, undeleted, at one instant during the call, in a status its
\* event may leave or already led to; a call that does not report success
\* changed nothing.
ImplementsRegister == Register!Spec
=============================================================================
