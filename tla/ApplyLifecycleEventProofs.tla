--------------------- MODULE ApplyLifecycleEventProofs ---------------------
(***************************************************************************)
(* For any set of callers: the type invariant of ApplyLifecycleEvent, that *)
(* a terminal status is only restarted, and that the read / conditional    *)
(* update / second read implements the indivisible LifecycleRegister.      *)
(***************************************************************************)
EXTENDS ApplyLifecycleEvent, TLAPS

\* The rule table leads from statuses to a status.
LEMMA RuleShape ==
  ASSUME NEW e \in Events
  PROVE  /\ Rule[e].from \subseteq Statuses
         /\ Rule[e].to \in Statuses
         /\ Rule[e].to \notin Rule[e].from
  BY DEF Rule, Events, Statuses

\* What resolveLifecycleEvent makes of a report is an event, or nothing.
LEMMA ResolveShape ==
  ASSUME NEW s, NEW r
  PROVE  ResolveLifecycleEvent(s, r) \in Events \cup {"none"}
  BY DEF ResolveLifecycleEvent, Events

\* "none" marks the absence of an event, a report or a status.
LEMMA NoneIsNothing ==
  "none" \notin Events /\ "none" \notin Reports /\ "none" \notin Statuses
  BY DEF Events, Reports, Statuses

\* What each step of a call may count on about what it holds: a call that is
\* about to write has planned a row of the rule table from the status it read,
\* for the event it was asked for.
CallWellFormed ==
  \A c \in Callers :
    LET k == call[c] IN
    /\ k.pc # "idle" /\ k.via = "worker" =>
         k.asked \in Events /\ k.event = k.asked
    /\ k.pc # "idle" /\ k.via = "runtime" => k.asked \in Reports
    /\ k.pc = "owner" => k.via = "runtime"
    /\ k.pc = "reread" => k.via = "worker"
    /\ k.pc = "swap" => /\ k.event \in Events
                        /\ Transitions(k.seen, k.event)
                        /\ k.event = EventFor(c, k.seen)

\* The inductive invariant.
Inv == TypeOK /\ CallWellFormed

\* No call is under way initially.
LEMMA InitInv == Init => Inv
<1>1. Init => TypeOK
  <2> SUFFICES ASSUME Init PROVE TypeOK
    OBVIOUS
  <2>1. Idle \in [pc : Steps, via : {"worker", "runtime"},
                  asked : Events \cup Reports \cup {"none"},
                  event : Events \cup {"none"},
                  seen : Statuses \cup {"none"}]
    BY DEF Idle, Steps
  <2> QED BY <2>1 DEF Init, TypeOK
<1>2. Init => CallWellFormed
  BY DEF Init, CallWellFormed, Idle
<1> QED BY <1>1, <1>2 DEF Inv

\* Every step of every caller, and a deletion, preserves the invariant.
LEMMA NextInv == Inv /\ [Next]_vars => Inv'
<1> SUFFICES ASSUME Inv, [Next]_vars PROVE Inv'
  OBVIOUS
<1> USE DEF Inv
<1>1. CASE Delete
  BY <1>1 DEF Delete, TypeOK, CallWellFormed, EventFor
<1>2. ASSUME NEW c \in Callers, NEW e \in Events, CallWorker(c, e) PROVE Inv'
  <2>1. TypeOK'
    BY <1>2 DEF CallWorker, TypeOK, Steps
  <2>2. CallWellFormed'
    BY <1>2, NoneIsNothing DEF CallWorker, TypeOK, CallWellFormed, EventFor
  <2> QED BY <2>1, <2>2
<1>3. ASSUME NEW c \in Callers, NEW r \in Reports, CallRuntime(c, r) PROVE Inv'
  <2>1. TypeOK'
    BY <1>3 DEF CallRuntime, TypeOK, Steps
  <2>2. CallWellFormed'
    BY <1>3, NoneIsNothing DEF CallRuntime, TypeOK, CallWellFormed, EventFor
  <2> QED BY <2>1, <2>2
<1>4. ASSUME NEW c \in Callers, CheckOwner(c) PROVE Inv'
  <2>1. TypeOK'
    BY <1>4 DEF CheckOwner, Goto, Return, Idle, TypeOK, Steps
  <2>2. CallWellFormed'
    BY <1>4 DEF CheckOwner, Goto, Return, Idle, TypeOK, CallWellFormed, EventFor
  <2> QED BY <2>1, <2>2
<1>5. ASSUME NEW c \in Callers, ReadRow(c) PROVE Inv'
  <2>1. EventFor(c, status) \in Events \cup {"none"} \/ call[c].pc # "read"
    BY ResolveShape DEF EventFor, CallWellFormed
  <2>2. TypeOK'
    BY <1>5, <2>1 DEF ReadRow, Return, Idle, TypeOK, Steps
  <2>3. CallWellFormed'
    BY <1>5, <2>1 DEF ReadRow, Return, Idle, TypeOK, CallWellFormed, EventFor
  <2> QED BY <2>2, <2>3
<1>6. ASSUME NEW c \in Callers, Swap(c) PROVE Inv'
  <2>1. TypeOK'
    BY <1>6, RuleShape
    DEF Swap, Return, Goto, Idle, After, TypeOK, CallWellFormed, Steps
  <2>2. CallWellFormed'
    BY <1>6 DEF Swap, Return, Goto, Idle, TypeOK, CallWellFormed, EventFor
  <2> QED BY <2>1, <2>2
<1>7. ASSUME NEW c \in Callers, Reread(c) PROVE Inv'
  BY <1>7 DEF Reread, Return, Idle, TypeOK, CallWellFormed, EventFor, Steps
<1>8. CASE UNCHANGED vars
  BY <1>8 DEF vars, TypeOK, CallWellFormed, EventFor
<1> QED
  BY <1>1, <1>2, <1>3, <1>4, <1>5, <1>6, <1>7, <1>8 DEF Next

\* Type correctness: what the callers hold and the row they write stay in
\* their domains, whatever the interleaving.
THEOREM TypeCorrect == Spec => []TypeOK
<1> QED BY InitInv, NextInv, PTL DEF Spec, Inv

-----------------------------------------------------------------------------

\* Only a row of the rule table leaves stopped or failed.
LEMMA TerminalRules ==
  ASSUME NEW e \in Events, NEW s \in {"stopped", "failed"}, Transitions(s, e)
  PROVE  After(s, e) \in {"starting", "failed"}
  BY DEF Transitions, After, Rule, Events, Statuses

\* No interleaving of worker steps, gateway reports and deletion revives a
\* stopped or failed instance other than by starting it again.
THEOREM TerminalRestarts == Spec => TerminalOnlyRestarts
<1>1. Inv /\ [Next]_vars =>
        [(status \in {"stopped", "failed"}) =>
           status' \in {status, "starting", "failed"}]_vars
  <2> SUFFICES ASSUME Inv, Next, status \in {"stopped", "failed"},
                      status' # status
               PROVE  status' \in {"starting", "failed"}
    BY DEF vars
  <2>1. PICK c \in Callers : Swap(c)
    BY DEF Next, Delete, CallWorker, CallRuntime, CheckOwner, ReadRow, Reread
  <2> QED
    BY <2>1, TerminalRules DEF Swap, Inv, CallWellFormed
<1> QED
  BY <1>1, InitInv, NextInv, PTL DEF Spec, TerminalOnlyRestarts

-----------------------------------------------------------------------------

\* The register reads the same rule table.
LEMMA SameRules ==
  /\ Register!Events = Events
  /\ Register!Statuses = Statuses
  /\ Register!Rule = Rule
  BY DEF Register!Events, Events, Register!Statuses, Statuses,
         Register!Rule, Rule

\* A report only ever turns into one of the events it stands for.
LEMMA ResolveWithin ==
  ASSUME NEW s, NEW r \in Reports, ResolveLifecycleEvent(s, r) # "none"
  PROVE  ResolveLifecycleEvent(s, r) \in ReportEvents[r]
  BY DEF ResolveLifecycleEvent, ReportEvents, Reports

\* What callers ask for is something the register may be asked for.
LEMMA AskedCalls ==
  /\ \A e \in Events : {e} \in Register!Calls
  /\ \A r \in Reports : ReportEvents[r] \in Register!Calls
<1>1. \A e \in Events : {e} \in Register!Calls
  BY SameRules DEF Register!Calls
<1>2. ASSUME NEW r \in Reports PROVE ReportEvents[r] \in Register!Calls
  <2>1. CASE r = "ready"
    BY <2>1 DEF ReportEvents, Register!Calls
  <2>2. CASE r # "ready"
    <3>1. PICK e \in Events : ReportEvents[r] = {e}
      BY <2>2 DEF ReportEvents, Reports, Events
    <3> QED BY <3>1, <1>1
  <2> QED BY <2>1, <2>2
<1> QED BY <1>1, <1>2

\* The initial states map to initial states of the register.
LEMMA InitRefines == Init => Register!Init
  BY SameRules DEF Init, Register!Init, Idle, EventsOf

\* Every step of a call is a step of the register, or invisible to it.
LEMMA NextRefines == Inv /\ [Next]_vars => [Register!Next]_(Register!vars)
<1> DEFINE W == [c \in Callers |-> EventsOf(call[c])]
<1> SUFFICES ASSUME Inv, [Next]_vars
             PROVE  Register!Next \/ UNCHANGED Register!vars
  OBVIOUS
<1> USE DEF Inv
<1>1. CASE Delete
  BY <1>1 DEF Delete, Register!Next, Register!Delete, EventsOf
<1>2. ASSUME NEW c \in Callers, NEW e \in Events, CallWorker(c, e)
      PROVE  Register!Begin(c)
  <2>1. W' = [W EXCEPT ![c] = {e}]
    BY <1>2 DEF CallWorker, EventsOf, TypeOK
  <2>2. W[c] = {}
    BY <1>2 DEF CallWorker, EventsOf
  <2> QED BY <1>2, <2>1, <2>2, AskedCalls DEF CallWorker, Register!Begin
<1>3. ASSUME NEW c \in Callers, NEW r \in Reports, CallRuntime(c, r)
      PROVE  Register!Begin(c)
  <2>1. W' = [W EXCEPT ![c] = ReportEvents[r]]
    BY <1>3 DEF CallRuntime, EventsOf, TypeOK
  <2>2. W[c] = {}
    BY <1>3 DEF CallRuntime, EventsOf
  <2> QED BY <1>3, <2>1, <2>2, AskedCalls DEF CallRuntime, Register!Begin
\* A call that returns leaves the register's table of calls, and any call
\* under way stands for something.
<1>4. ASSUME NEW c \in Callers, NEW a, Return(c, a)
      PROVE  Register!Finish(c, a)
  <2>1. W' = [W EXCEPT ![c] = {}]
    BY <1>4 DEF Return, Idle, EventsOf, TypeOK
  <2> QED BY <1>4, <2>1 DEF Return, Register!Finish
<1>5. ASSUME NEW c \in Callers, call[c].pc # "idle" PROVE W[c] # {}
  <2>1. \A r \in Reports : ReportEvents[r] # {}
    BY DEF Reports, ReportEvents
  <2>2. call[c].via = "worker" \/ call[c].asked \in Reports
    BY <1>5 DEF CallWellFormed, TypeOK
  <2> QED BY <1>5, <2>1, <2>2 DEF EventsOf
<1>6. ASSUME NEW c \in Callers, NEW a \in {"ignored", "error"},
             call[c].pc # "idle", Return(c, a), UNCHANGED <<status, deleted>>
      PROVE  Register!Refuse(c)
  <2>1. Register!Finish(c, a)
    BY <1>4, <1>6
  <2>2. W[c] # {}
    BY <1>5, <1>6
  <2> QED BY <1>6, <2>1, <2>2 DEF Register!Refuse
<1>7. ASSUME NEW c \in Callers, NEW e \in W[c], Return(c, "applied"),
             ~deleted, ~Invalid(status, e), status' = After(status, e),
             UNCHANGED deleted
      PROVE  Register!Apply(c)
  BY <1>4, <1>7, SameRules
  DEF Register!Apply, Register!Invalid, Register!Transitions,
      Register!Unchanged, Register!After, Invalid, Transitions, Unchanged, After
<1>8. ASSUME NEW c \in Callers, CheckOwner(c)
      PROVE  Register!Refuse(c) \/ UNCHANGED Register!vars
  <2>1. CASE Goto(c, "read")
    <3>1. W' = W
      BY <1>8, <2>1 DEF CheckOwner, Goto, EventsOf, TypeOK
    <3> QED BY <1>8, <2>1, <3>1 DEF CheckOwner, Goto, Register!vars
  <2>2. CASE Return(c, IF deleted THEN "error" ELSE "ignored")
    BY <1>8, <1>6, <2>2 DEF CheckOwner
  <2> QED BY <1>8, <2>1, <2>2 DEF CheckOwner
<1>9. ASSUME NEW c \in Callers, call[c].pc \notin {"idle", "owner"}, NEW s,
             EventFor(c, s) # "none"
      PROVE  EventFor(c, s) \in W[c]
  BY <1>9, ResolveWithin DEF EventFor, EventsOf, CallWellFormed, TypeOK
<1>10. ASSUME NEW c \in Callers, ReadRow(c)
       PROVE  Register!Next \/ UNCHANGED Register!vars
  <2> DEFINE e == EventFor(c, status)
  <2>1. CASE Return(c, "error") \/ Return(c, "ignored")
    BY <1>6, <1>10, <2>1 DEF ReadRow, Register!Next
  <2>2. CASE Return(c, "applied") /\ ~deleted /\ e # "none"
               /\ Unchanged(status, e)
    <3>1. e \in W[c]
      BY <1>9, <1>10, <2>2 DEF ReadRow
    <3>2. Register!Apply(c)
      BY <1>7, <1>10, <2>2, <3>1 DEF ReadRow, Unchanged, After, Invalid
    <3> QED BY <3>2 DEF Register!Next
  <2>3. CASE call' = [call EXCEPT ![c].pc = "swap", ![c].event = e,
                                  ![c].seen = status]
             /\ UNCHANGED answer
    <3>1. /\ call[c].pc # "idle" /\ call'[c].pc # "idle"
          /\ call'[c].via = call[c].via /\ call'[c].asked = call[c].asked
          /\ \A d \in Callers : d # c => call'[d] = call[d]
      BY <1>10, <2>3 DEF ReadRow, TypeOK
    <3>2. W' = W
      BY <3>1 DEF EventsOf
    <3> QED BY <1>10, <2>3, <3>2 DEF ReadRow, Register!vars
  <2> QED BY <1>10, <2>1, <2>2, <2>3 DEF ReadRow
<1>11. ASSUME NEW c \in Callers, Swap(c)
       PROVE  Register!Next \/ UNCHANGED Register!vars
  <2>1. CASE status = call[c].seen /\ ~deleted
    <3>1. call[c].event \in W[c]
      BY <1>9, <1>11, NoneIsNothing DEF Swap, CallWellFormed
    <3>2. Register!Apply(c)
      BY <1>7, <1>11, <2>1, <3>1 DEF Swap, CallWellFormed, Invalid
    <3> QED BY <3>2 DEF Register!Next
  <2>2. CASE (status # call[c].seen \/ deleted) /\ call[c].via = "worker"
    <3>1. /\ call[c].pc # "idle" /\ call'[c].pc # "idle"
          /\ call'[c].via = call[c].via /\ call'[c].asked = call[c].asked
          /\ \A d \in Callers : d # c => call'[d] = call[d]
      BY <1>11, <2>2 DEF Swap, Goto, TypeOK
    <3>2. W' = W
      BY <3>1 DEF EventsOf
    <3> QED BY <1>11, <2>2, <3>2 DEF Swap, Goto, Register!vars
  <2>3. CASE (status # call[c].seen \/ deleted) /\ call[c].via # "worker"
    BY <1>6, <1>11, <2>3 DEF Swap, Register!Next
  <2> QED BY <1>11, <2>1, <2>2, <2>3 DEF Swap
<1>12. ASSUME NEW c \in Callers, Reread(c) PROVE Register!Next
  <2>1. CASE ~deleted /\ Unchanged(status, call[c].event)
    <3>1. call[c].event \in W[c]
      BY <1>12 DEF Reread, EventsOf, CallWellFormed
    <3>2. Register!Apply(c)
      BY <1>7, <1>12, <2>1, <3>1 DEF Reread, Unchanged, After, Invalid
    <3> QED BY <3>2 DEF Register!Next
  <2>2. CASE ~(~deleted /\ Unchanged(status, call[c].event))
    BY <1>6, <1>12, <2>2 DEF Reread, Register!Next
  <2> QED BY <2>1, <2>2
<1>13. CASE UNCHANGED vars
  BY <1>13 DEF vars, Register!vars, EventsOf
<1> QED
  BY <1>1, <1>2, <1>3, <1>8, <1>10, <1>11, <1>12, <1>13
  DEF Next, Register!Next

\* The status column, written by any number of callers through read,
\* conditional UPDATE and second read, is an atomic register of the rule
\* table.
THEOREM RegisterImplemented == Spec => ImplementsRegister
<1> QED
  BY InitInv, NextInv, InitRefines, NextRefines, PTL
  DEF Spec, ImplementsRegister, Register!Spec
=============================================================================
