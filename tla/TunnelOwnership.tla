-------------------------- MODULE TunnelOwnership --------------------------
(***************************************************************************)
(* The gateway nodes on their own, for a sandbox whose compute stays up    *)
(* and whose tunnel comes and goes: who owns the tunnel, what the row says *)
(* of it, and which deadlines are armed. The deadline runs are enqueued    *)
(* and not handled; SandboxInstance adds the worker that handles them.     *)
(***************************************************************************)
EXTENDS GatewayTunnel

vars == <<rowVars, gatewayVars>>

\* The start workflow has initialized the runtime and waits for its tunnel.
Init == RowInit("initializing") /\ GatewayInit

Next ==
  \/ GatewayNext
  \/ \E l \in Leases : SandboxSignal(l) \/ \E n \in Nodes : Connect(l, n)

\* The event loop of a live process gets to every callback and every promise,
\* and a lease nobody renews runs out.
Fairness ==
  /\ \A n \in Nodes : WF_vars(CoordinatorStep(n))
  /\ \A l \in Leases : WF_vars(SessionStep(l))
  /\ WF_vars(AttachmentExpires)

Spec == Init /\ [][Next]_vars
FairSpec == Spec /\ Fairness

-----------------------------------------------------------------------------

TypeOK == RowTypeOK /\ GatewayTypeOK

\* No operation is waiting or under way and no write is in flight.
Quiet ==
  /\ \A n \in Nodes : line[n] = <<>>
  /\ \A l \in Leases : /\ session[l].activation \in {"renewing", "off"}
                       /\ ~session[l].writing

\* No call of the gateway has failed, and no process has died.
NoCallFailed == budget.faults = MaxFaults
NoCrash == budget.crashes = MaxCrashes

\* Lease l's session is up and owns the tunnel.
Owns(l) == attachment = l /\ Open(l) /\ Current(l)

\* Once everything has settled, the row of a sandbox whose tunnel is up does
\* not say that the tunnel is gone: the detach of an older session cannot
\* overtake the attach of the session that replaced it, and a crashed process
\* leaves nothing behind that does. An attach whose report fails is given up.
AttachedIsNotReconnecting ==
  Quiet /\ NoCallFailed => \A l \in Leases : Owns(l) => status # "reconnecting"

\* Once everything has settled, the session that owns the tunnel has its idle
\* deadline armed, so a forgotten sandbox is stopped; unless a call failed.
OwnerHasIdleDeadline ==
  Quiet /\ NoCallFailed =>
    \A l \in Leases :
      Owns(l) => deadline["idle"].armed /\ deadline["idle"].lease = l

\* "must fence writes and clears by the owner lease that established it so
\* stale sessions cannot overwrite newer ones": once a lease is attached, the
\* record is cleared or passes to a later lease, never to an earlier one.
StaleSessionNeverOverwrites ==
  [][(attachment' < attachment) => (attachment' = NoLease)]_vars

\* A closed tunnel that no newer connection replaces ends with the disconnect
\* deadline armed for it: the sandbox is reconciled sooner or later. Nobody
\* takes over the detach of a process that dies or whose call fails.
ClosedTunnelArmsDisconnect ==
  \A l \in Leases :
    session[l].socket = "closed" ~>
      \/ deadline["disconnect"].armed /\ deadline["disconnect"].lease >= l
      \/ \E k \in Leases : k > l /\ session[k].socket # "unused"
      \/ ~NoCallFailed \/ ~NoCrash
=============================================================================
