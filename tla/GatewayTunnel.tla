---------------------------- MODULE GatewayTunnel ----------------------------
(***************************************************************************)
(* The bootstrap tunnel of one sandbox as the gateway nodes see it. Every  *)
(* connection of the sandbox's bootstrap peer carries a lease of its own.  *)
(* Opening it, closing it, a readiness message, a health signal and a      *)
(* presence renewal each enqueue an operation on the node's lifecycle      *)
(* coordinator, which runs them one after the other; the attachment record *)
(* and the API they write to are shared by the nodes.                      *)
(***************************************************************************)
EXTENDS SandboxRow, Sequences

CONSTANTS
  Nodes,          \* gateway processes
  MaxTouches,     \* bound: presence renewals and keepalive messages
  MaxFaults,      \* bound: calls of the gateway to the API that fail
  MaxCrashes,     \* bound: gateway processes that die
  Messages,       \* bound: which of the reports about a session occur
  MaxLine         \* bound: operations waiting on one coordinator when a
                  \* message or a renewal adds another

ASSUME GatewayAssumption ==
  /\ Nodes # {}
  /\ MaxTouches \in Nat /\ MaxFaults \in Nat /\ MaxCrashes \in Nat
  /\ MaxLine \in Nat

VARIABLES
  session,   \* session[l]: the tunnel connection that carries lease l
  peer,      \* peer[n]: the node's current bootstrap peer (relay coordinator)
  line,      \* line[n]: the coordinator's queue, the head being under way
  budget     \* what is left of the bounds above

gatewayVars == <<session, peer, line, budget>>

Sockets == {"unused", "open", "closed", "lost"}

\* activateBootstrapAttachment: writing the attachment, waiting for the
\* coordinator, renewing the lease.
Activations == {"off", "upsert", "queued", "renewing"}

Operations == {"attach", "detach", "touch", "ready", "not_ready", "degraded",
               "recovered"}

OpSteps == {"start", "announce", "put_idle", "clear_idle", "judge", "report",
            "put_disconnect"}

GatewayTypeOK ==
  /\ session \in [Leases -> [socket : Sockets, node : Nodes,
                             activation : Activations, writing : BOOLEAN]]
  /\ peer \in [Nodes -> LeaseOrNone]
  /\ line \in [Nodes -> Seq([op : Operations, lease : LeaseOrNone,
                             step : OpSteps])]
  /\ budget \in [touches : Nat, faults : Nat, crashes : Nat]

GatewayInit ==
  /\ session = [l \in Leases |->
                  [socket |-> "unused", node |-> CHOOSE n \in Nodes : TRUE,
                   activation |-> "off", writing |-> FALSE]]
  /\ peer = [n \in Nodes |-> NoLease]
  /\ line = [n \in Nodes |-> <<>>]
  /\ budget = [touches |-> MaxTouches, faults |-> MaxFaults,
               crashes |-> MaxCrashes]

Op(o, l) == [op |-> o, lease |-> l, step |-> "start"]
Enqueue(n, o, l) == line' = [line EXCEPT ![n] = Append(@, Op(o, l))]

\* The operation under way on node n is o, at step s.
At(n, o, s) == line[n] # <<>> /\ Head(line[n]).op = o /\ Head(line[n]).step = s
Lease(n) == Head(line[n]).lease
Proceed(n, s) == line' = [line EXCEPT ![n][1].step = s]
Done(n) == line' = [line EXCEPT ![n] = Tail(@)]

\* A node talks to Valkey over one connection: its commands take effect in the
\* order it issued them, so none overtakes the attachment write that an
\* earlier connection of the same node issued.
Flushed(n, l) ==
  \A k \in Leases : session[k].node = n /\ k < l =>
                     session[k].activation # "upsert"
AllFlushed(n) ==
  \A k \in Leases : session[k].node = n => session[k].activation # "upsert"

Open(l) == session[l].socket = "open"
Current(l) == peer[session[l].node] = l

-----------------------------------------------------------------------------
(* Connecting and closing. *)

\* attachBootstrapPeer: the newest connection becomes the node's current peer.
Connect(l, n) ==
  /\ session[l].socket = "unused"
  /\ \A k \in Leases : k < l => session[k].socket # "unused"
  /\ session' = [session EXCEPT ![l] =
       [socket |-> "open", node |-> n, activation |-> "upsert",
        writing |-> FALSE]]
  /\ peer' = [peer EXCEPT ![n] = l]
  /\ UNCHANGED <<rowVars, line, budget>>

\* activateBootstrapAttachment checked the socket and the peer when the tunnel
\* connected; the write is unconditional and lands later, when the socket may
\* have closed or been replaced. Then the attach operation waits its turn.
UpsertAttachment(l) ==
  /\ session[l].activation = "upsert" /\ Flushed(session[l].node, l)
  /\ attachment' = l
  /\ session' = [session EXCEPT ![l].activation = "queued"]
  /\ Enqueue(session[l].node, "attach", l)
  /\ UNCHANGED <<status, deleted, ready, deadline, jobs, peer, budget>>

\* The socket closes: the sandbox died, the network failed, the health check
\* gave up, or a newer connection replaced it. detachBootstrapPeer has no side
\* effects unless the session is still its node's current peer.
CloseSocket(l) ==
  /\ Open(l)
  /\ session' = [session EXCEPT ![l].socket = "closed"]
  /\ IF Current(l) THEN Enqueue(session[l].node, "detach", l)
                   ELSE UNCHANGED line
  /\ UNCHANGED <<rowVars, peer, budget>>

\* startRuntimeAttachmentRenewal: read the attachment and, when it is still
\* this session's, write it again; otherwise the lease is lost and the socket
\* is closed. The write is a step of its own, which a detach or a newer
\* connection may precede; a renewal that a newer session of the node starts
\* later cannot, as it was issued later.
RenewRead(l) ==
  /\ session[l].activation = "renewing" /\ Open(l) /\ ~session[l].writing
  /\ \A k \in Leases : session[k].node = session[l].node => ~session[k].writing
  /\ attachment = l /\ AllFlushed(session[l].node)
  /\ session' = [session EXCEPT ![l].writing = TRUE]
  /\ UNCHANGED <<rowVars, peer, line, budget>>

RenewWrite(l) ==
  /\ session[l].writing /\ AllFlushed(session[l].node)
  /\ attachment' = l
  /\ session' = [session EXCEPT ![l].writing = FALSE]
  /\ UNCHANGED <<status, deleted, ready, deadline, jobs, peer, line, budget>>

RenewLost(l) ==
  /\ session[l].activation = "renewing" /\ ~session[l].writing
  /\ attachment # l /\ AllFlushed(session[l].node)
  /\ CloseSocket(l)

-----------------------------------------------------------------------------
(* The operations of the lifecycle coordinator. Each step is one call to the *)
(* API or to Valkey.                                                         *)

\* An attach that is over, completed or not, starts the lease renewal.
Renewing(l) == session' = [session EXCEPT ![l].activation = "renewing"]

\* handleBootstrapAttach. A deleted row makes the API throw; the operation is
\* given up and the failure logged.
AttachStart(n) ==
  LET l == Lease(n) IN
  /\ At(n, "attach", "start")
  /\ IF peer[n] = l /\ ~deleted
     THEN /\ status' = StatusAfterReport("recovered")
          /\ Proceed(n, "announce")
          /\ UNCHANGED session
     ELSE Done(n) /\ Renewing(l) /\ UNCHANGED status
  /\ UNCHANGED <<deleted, attachment, ready, deadline, jobs, peer, budget>>

\* Mutant: the reattachment is not reported.
AttachAnnounceSilent(n) ==
  /\ At(n, "attach", "announce")
  /\ Proceed(n, "put_idle")
  /\ UNCHANGED <<rowVars, session, peer, budget>>

AttachAnnounce(n) ==
  /\ At(n, "attach", "announce")
  /\ IF ~deleted
     THEN /\ status' = StatusAfterReport("not_ready")
          /\ Proceed(n, "put_idle")
          /\ UNCHANGED session
     ELSE Done(n) /\ Renewing(Lease(n)) /\ UNCHANGED status
  /\ UNCHANGED <<deleted, attachment, ready, deadline, jobs, peer, budget>>

AttachPutIdle(n) ==
  /\ At(n, "attach", "put_idle")
  /\ PutDeadline("idle", Lease(n))
  /\ Done(n) /\ Renewing(Lease(n))
  /\ UNCHANGED <<status, deleted, attachment, ready, peer, budget>>

\* detachBootstrapPeer's operation: give the attachment up if it is ours,
\* then handleBootstrapDisconnect.
DetachStart(n) ==
  LET l == Lease(n) IN
  /\ At(n, "detach", "start") /\ AllFlushed(n)
  /\ IF peer[n] = l
     THEN /\ attachment' = IF attachment = l THEN NoLease ELSE attachment
          /\ Proceed(n, "clear_idle")
     ELSE Done(n) /\ UNCHANGED attachment
  /\ UNCHANGED <<status, deleted, ready, deadline, jobs, session, peer,
                 budget>>

DetachClearIdle(n) ==
  /\ At(n, "detach", "clear_idle")
  /\ DeleteDeadline("idle", Lease(n))
  /\ Proceed(n, "judge")
  /\ UNCHANGED <<status, deleted, attachment, ready, jobs, session, peer,
                 budget>>

\* The API ignores the detach of an owner that is no longer current; a deleted
\* row makes it throw, and the disconnect deadline is not armed.
DetachJudge(n) ==
  /\ At(n, "detach", "judge")
  /\ \/ OwnerCurrent(Lease(n)) /\ Proceed(n, "report")
     \/ ~OwnerCurrent(Lease(n)) /\ ~deleted /\ Proceed(n, "put_disconnect")
     \/ ~OwnerCurrent(Lease(n)) /\ deleted /\ Done(n)
  /\ UNCHANGED <<rowVars, session, peer, budget>>

\* Mutant: a detach the status has no event for is an error.
DetachReportStrict(n) ==
  /\ At(n, "detach", "report")
  /\ IF ResolveLifecycleEvent(status, "detached") # "none"
     THEN /\ status' = StatusAfterReport("detached")
          /\ Proceed(n, "put_disconnect")
     ELSE Done(n) /\ UNCHANGED status
  /\ UNCHANGED <<deleted, attachment, ready, deadline, jobs, session, peer,
                 budget>>

DetachReport(n) ==
  /\ At(n, "detach", "report")
  /\ IF ~deleted
     THEN /\ status' = StatusAfterReport("detached")
          /\ Proceed(n, "put_disconnect")
     ELSE Done(n) /\ UNCHANGED status
  /\ UNCHANGED <<deleted, attachment, ready, deadline, jobs, session, peer,
                 budget>>

\* Only a detach that went all the way removes the peer from its node.
DetachPutDisconnect(n) ==
  LET l == Lease(n) IN
  /\ At(n, "detach", "put_disconnect")
  /\ PutDeadline("disconnect", l)
  /\ Done(n)
  /\ peer' = [peer EXCEPT ![n] = IF @ = l THEN NoLease ELSE @]
  /\ UNCHANGED <<status, deleted, attachment, ready, session, budget>>

\* The sandbox says whether its runtime is ready, on an activated current
\* session; applyControlMessage drops it when the attachment has moved on.
RuntimeMessage(l, r) ==
  LET n == session[l].node IN
  /\ r \in Messages
  /\ Open(l) /\ Current(l) /\ session[l].activation = "renewing"
  /\ Len(line[n]) < MaxLine
  /\ Enqueue(n, r, l)
  /\ UNCHANGED <<rowVars, session, peer, budget>>

ReadinessStart(n, r) ==
  LET l == Lease(n) IN
  /\ At(n, r, "start") /\ AllFlushed(n)
  /\ IF attachment = l
     THEN /\ ready' = CASE r = "ready" -> l
                        [] r = "not_ready" -> NoLease
          /\ Proceed(n, "report")
     ELSE Done(n) /\ UNCHANGED ready
  /\ UNCHANGED <<status, deleted, attachment, deadline, jobs, session, peer,
                 budget>>

ReadinessReport(n, r) ==
  /\ At(n, r, "report")
  /\ status' = IF deleted THEN status ELSE StatusAfterReport(r)
  /\ Done(n)
  /\ UNCHANGED <<deleted, attachment, ready, deadline, jobs, session, peer,
                 budget>>

\* The websocket health monitor misses a pong, or sees one again.
HealthSignal(l, r) ==
  LET n == session[l].node IN
  /\ r \in Messages
  /\ Open(l)
  /\ Len(line[n]) < MaxLine
  /\ Enqueue(n, r, l)
  /\ UNCHANGED <<rowVars, session, peer, budget>>

HealthReport(n, r) ==
  /\ At(n, r, "start")
  /\ status' = IF deleted \/ peer[n] # Lease(n) THEN status
               ELSE StatusAfterReport(r)
  /\ Done(n)
  /\ UNCHANGED <<deleted, attachment, ready, deadline, jobs, session, peer,
                 budget>>

\* A connection peer's presence lease was renewed, on whichever node the
\* connection is: touch the idle deadline of the attached session.
Presence(n) ==
  /\ budget.touches > 0
  /\ Len(line[n]) < MaxLine
  /\ Enqueue(n, "touch", NoLease)
  /\ budget' = [budget EXCEPT !.touches = @ - 1]
  /\ UNCHANGED <<rowVars, session, peer>>

\* The sandbox says that it is busy, on an activated current session. It may
\* touch the deadline of its own session only.
Keepalive(l) ==
  LET n == session[l].node IN
  /\ Open(l) /\ Current(l) /\ session[l].activation = "renewing"
  /\ budget.touches > 0
  /\ Len(line[n]) < MaxLine
  /\ Enqueue(n, "touch", l)
  /\ budget' = [budget EXCEPT !.touches = @ - 1]
  /\ UNCHANGED <<rowVars, session, peer>>

\* Mutant: a missing attachment is not noticed.
TouchStartUnchecked(n) ==
  /\ At(n, "touch", "start") /\ AllFlushed(n)
  /\ line' = [line EXCEPT ![n][1].lease = attachment,
                          ![n][1].step = "put_idle"]
  /\ UNCHANGED <<rowVars, session, peer, budget>>

TouchStart(n) ==
  /\ At(n, "touch", "start") /\ AllFlushed(n)
  /\ IF attachment # NoLease /\ Lease(n) \in {NoLease, attachment}
     THEN line' = [line EXCEPT ![n][1].lease = attachment,
                               ![n][1].step = "put_idle"]
     ELSE Done(n)
  /\ UNCHANGED <<rowVars, session, peer, budget>>

TouchPutIdle(n) ==
  /\ At(n, "touch", "put_idle")
  /\ PutDeadline("idle", Lease(n))
  /\ Done(n)
  /\ UNCHANGED <<status, deleted, attachment, ready, session, peer, budget>>

-----------------------------------------------------------------------------
(* Failures. *)

\* A call of the operation under way fails before it had an effect, or, for a
\* deadline, after it was persisted and before its run was enqueued. The
\* operation is over; the next one in line starts.
CallFails(n) ==
  LET h == Head(line[n]) IN
  /\ line[n] # <<>> /\ budget.faults > 0
  /\ budget' = [budget EXCEPT !.faults = @ - 1]
  /\ \/ UNCHANGED <<deadline, jobs>>
     \/ h.step = "put_idle" /\ PutDeadlineUnqueued("idle", h.lease)
     \/ h.step = "put_disconnect" /\ PutDeadlineUnqueued("disconnect", h.lease)
  /\ Done(n)
  /\ IF h.op = "attach" THEN Renewing(h.lease) ELSE UNCHANGED session
  /\ UNCHANGED <<status, deleted, attachment, ready, peer>>

\* A gateway process dies with its sockets and its queue. Writes it had under
\* way are lost.
NodeCrash(n) ==
  /\ budget.crashes > 0
  /\ budget' = [budget EXCEPT !.crashes = @ - 1]
  /\ session' = [l \in Leases |->
       IF session[l].node = n /\ session[l].socket # "unused"
       THEN [session[l] EXCEPT !.socket = "lost", !.activation = "off",
                               !.writing = FALSE]
       ELSE session[l]]
  /\ peer' = [peer EXCEPT ![n] = NoLease]
  /\ line' = [line EXCEPT ![n] = <<>>]
  /\ UNCHANGED rowVars

\* The attachment's TTL runs out once nobody renews it.
AttachmentExpires ==
  /\ attachment # NoLease
  /\ ~Open(attachment) /\ ~session[attachment].writing
  /\ session[attachment].activation # "upsert"
  /\ attachment' = NoLease
  /\ UNCHANGED <<status, deleted, ready, deadline, jobs, gatewayVars>>

-----------------------------------------------------------------------------

CoordinatorStep(n) ==
  \/ AttachStart(n) \/ AttachAnnounce(n) \/ AttachPutIdle(n)
  \/ DetachStart(n) \/ DetachClearIdle(n) \/ DetachJudge(n)
  \/ DetachReport(n) \/ DetachPutDisconnect(n)
  \/ \E r \in {"ready", "not_ready"} :
       ReadinessStart(n, r) \/ ReadinessReport(n, r)
  \/ \E r \in {"degraded", "recovered"} : HealthReport(n, r)
  \/ TouchStart(n) \/ TouchPutIdle(n)

SessionStep(l) ==
  UpsertAttachment(l) \/ RenewWrite(l) \/ RenewLost(l)

\* What only a live sandbox sends.
SandboxSignal(l) ==
  \/ \E r \in {"ready", "not_ready"} : RuntimeMessage(l, r)
  \/ HealthSignal(l, "recovered") \/ Keepalive(l)

GatewayNext ==
  \/ \E n \in Nodes : CoordinatorStep(n) \/ Presence(n) \/ CallFails(n)
                        \/ NodeCrash(n)
  \/ \E l \in Leases : SessionStep(l) \/ RenewRead(l) \/ CloseSocket(l)
                        \/ HealthSignal(l, "degraded")
  \/ AttachmentExpires
=============================================================================
