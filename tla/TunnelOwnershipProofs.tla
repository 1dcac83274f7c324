----------------------- MODULE TunnelOwnershipProofs -----------------------
(***************************************************************************)
(* The gateway on its own: its type invariant and the meaning of a         *)
(* deadline's generation, from what GatewayTunnelProofs shows of a step,   *)
(* and the agreement of the quiet gateway of one node with its tunnel,     *)
(* from OneNodeGatewayProofs.                                              *)
(***************************************************************************)
EXTENDS TunnelOwnership, OneNodeGatewayProofs

\* Every step preserves the invariant, and what a generation stands for.
LEMMA NextOK == GatewayInv /\ [Next]_vars => Kept
<1> SUFFICES ASSUME GatewayInv, [Next]_vars PROVE Kept
  OBVIOUS
<1>1. CASE GatewayNext
  BY <1>1, GatewayNextOK
<1>2. ASSUME NEW l \in Leases, SandboxSignal(l) PROVE Kept
  BY <1>2, SandboxSignalOK
<1>3. ASSUME NEW l \in Leases, NEW n \in Nodes, Connect(l, n) PROVE Kept
  BY <1>3, ConnectOK
<1>4. CASE UNCHANGED vars
  BY <1>4, StutterOK DEF vars
<1> QED
  BY <1>1, <1>2, <1>3, <1>4 DEF Next

\* The start workflow waits for the first tunnel.
LEMMA InitOK == Init => GatewayInv /\ GenerationsIdentifyLeases
  BY GatewayInitOK DEF Init, Statuses

-----------------------------------------------------------------------------

\* The variables of the gateway, of the row and of the deadlines stay in their
\* domains: in particular an enqueued deadline run always names a lease, so a
\* touch never arms a deadline for an attachment that is gone.
THEOREM TypeCorrect == Spec => []TypeOK
<1>1. GatewayInv /\ [Next]_vars => GatewayInv'
  BY NextOK DEF Kept
<1>2. GatewayInv => TypeOK
  BY GatewayTypes DEF TypeOK
<1> QED
  BY <1>1, <1>2, InitOK, PTL DEF Spec

\* However many nodes put deadlines at once, calls fail and nodes die, a
\* generation belongs to one lease: the worker's check of a run's generation
\* (handleSandboxInstanceDeadline) tells a superseded run from a current one.
THEOREM GenerationsUnambiguous == Spec => []GenerationsIdentifyLeases
<1>1. GatewayInv /\ GenerationsIdentifyLeases /\ [Next]_vars
        => GatewayInv' /\ GenerationsIdentifyLeases'
  BY NextOK DEF Kept
<1> QED
  BY <1>1, InitOK, PTL DEF Spec

-----------------------------------------------------------------------------
(* The quiet gateway of one node. *)

\* Nobody ends the instance here: its compute stays up.
OwnerInv == AgreeInv /\ status \notin Terminal

\* Every step keeps the agreement.
LEMMA OwnerNext == OwnerInv /\ [Next]_vars => OwnerInv'
<1> SUFFICES ASSUME OwnerInv, [Next]_vars PROVE OwnerInv'
  OBVIOUS
<1>1. GatewayInv'
  BY NextOK DEF Kept, OwnerInv, AgreeInv, LinkPart
<1>2. AgreeInv'
  BY <1>1, GatewayAgrees, SandboxAgrees, ConnectAgrees, StutterAgrees
     DEF OwnerInv, Next, vars
<1>3. status' \notin Terminal
  BY GatewayStatus DEF OwnerInv, Next, vars, rowVars, Between
<1> QED BY <1>2, <1>3 DEF OwnerInv

\* Before any tunnel connected nothing is in service.
LEMMA OwnerInit == OneNode /\ Init => OwnerInv
  BY InitOK, UnusedAgrees DEF Init, RowInit, OwnerInv, Terminal

\* A session that owns the tunnel of a quiet gateway is in service.
LEMMA OwnerSettled ==
  ASSUME LinkPart, Quiet, NoCallFailed, NEW l \in Leases, Owns(l)
  PROVE  Settled(l) /\ attachment = l
<1>1. session[l].activation \in {"renewing", "off"}
  BY DEF Quiet
<1>2. session[l].activation # "off"
  BY DEF Owns, Open, LinkPart, ConnectPart
<1> QED BY <1>1, <1>2 DEF Owns, Settled, NoCallFailed, Faultless

\* With one node, the attach of a session that replaces another is not overtaken
\* by the detach of the older one, and no late renewal, touch or detach undoes it
\* (activateBootstrapAttachment, detachBootstrapPeer): once everything settled,
\* and unless a call failed, a sandbox whose tunnel is up is not reconnecting.
THEOREM AttachedIsNotReconnectingHolds ==
  ASSUME OneNode
  PROVE  Spec => []AttachedIsNotReconnecting
<1>1. Init => OwnerInv
  BY OwnerInit
<1>2. OwnerInv /\ [Next]_vars => OwnerInv'
  BY OwnerNext
<1>3. OwnerInv => AttachedIsNotReconnecting
  BY OwnerSettled
     DEF AttachedIsNotReconnecting, OwnerInv, AgreeInv, StatusPart
<1> QED BY <1>1, <1>2, <1>3, PTL DEF Spec

\* With one node, the session that owns the tunnel has its idle deadline armed
\* once everything settled, whatever touches and detaches of older sessions came
\* in between; unless a call failed (handleBootstrapAttach, touchIdleDeadline).
THEOREM OwnerHasIdleDeadlineHolds ==
  ASSUME OneNode
  PROVE  Spec => []OwnerHasIdleDeadline
<1>1. Init => OwnerInv
  BY OwnerInit
<1>2. OwnerInv /\ [Next]_vars => OwnerInv'
  BY OwnerNext
<1>3. OwnerInv => OwnerHasIdleDeadline
  BY OwnerSettled
     DEF OwnerHasIdleDeadline, OwnerInv, AgreeInv, IdlePart
<1> QED BY <1>1, <1>2, <1>3, PTL DEF Spec
=============================================================================
