------------------------- MODULE LifecycleRegister -------------------------
(***************************************************************************)
(* What the services rely on when they apply a lifecycle event to a        *)
(* sandbox instance: the status column behaves like a register whose only  *)
(* operation takes one row of the rule table, at one instant, or refuses   *)
(* and leaves the row alone. ApplyLifecycleEvent implements it with a read *)
(* followed by a conditional UPDATE.                                       *)
(***************************************************************************)
EXTENDS SandboxLifecycle

CONSTANT Callers

VARIABLES
  status,     \* sandbox_instances.status
  deleted,    \* sandbox_instances.deleted_at IS NOT NULL
  wants,      \* wants[c]: the events c's call may stand for; {} when idle
  answer      \* answer[c]: how c's latest finished call ended

vars == <<status, deleted, wants, answer>>

\* A call stands for one event, except that a report of readiness means one
\* event while reconnecting and another while initializing.
Calls ==
  {{e} : e \in Events}
    \cup {{"runtime_ready", "bootstrap_reattached_ready"}}

Init ==
  /\ status \in Statuses
  /\ deleted = FALSE
  /\ wants = [c \in Callers |-> {}]
  /\ answer = [c \in Callers |-> "none"]

\* A call begins; a caller makes one call at a time.
Begin(c) ==
  /\ wants[c] = {}
  /\ \E es \in Calls : wants' = [wants EXCEPT ![c] = es]
  /\ answer' = [answer EXCEPT ![c] = "none"]
  /\ UNCHANGED <<status, deleted>>

Finish(c, a) ==
  /\ wants' = [wants EXCEPT ![c] = {}]
  /\ answer' = [answer EXCEPT ![c] = a]

\* The row takes the event, from a status the rule table allows, or has
\* already taken it.
Apply(c) ==
  /\ ~deleted
  /\ \E e \in wants[c] : /\ ~Invalid(status, e)
                         /\ status' = After(status, e)
  /\ Finish(c, "applied")
  /\ UNCHANGED deleted

\* The call changes nothing: it throws, or the report it makes does not
\* concern the row any more.
Refuse(c) ==
  /\ wants[c] # {}
  /\ \E a \in {"ignored", "error"} : Finish(c, a)
  /\ UNCHANGED <<status, deleted>>

\* deleteSandboxInstance of the API stamps deleted_at.
Delete ==
  /\ deleted' = TRUE
  /\ UNCHANGED <<status, wants, answer>>

Next == Delete \/ \E c \in Callers : Begin(c) \/ Apply(c) \/ Refuse(c)

Spec == Init /\ [][Next]_vars
=============================================================================
