------------------------ MODULE GatewayTunnelProofs ------------------------
(***************************************************************************)
(* What the gateway's steps preserve, wherever they are taken: the types   *)
(* of its state, of the row and of the deadlines, and the meaning of a     *)
(* deadline's generation; for any number of nodes, leases, renewals,       *)
(* failing calls and crashes.                                              *)
(***************************************************************************)
EXTENDS GatewayTunnel, TLAPS

\* An operation names the lease it acts for, except a touch that has not read
\* the attachment yet: the part that makes the type invariant inductive.
OpRecords ==
  {r \in [op : Operations, lease : LeaseOrNone, step : OpSteps] :
     r.lease \in Leases \/ (r.op = "touch" /\ r.step = "start")}

Lines == [Nodes -> Seq(OpRecords)]

Deadlines ==
  [DeadlineKinds -> [lease : LeaseOrNone, generation : Nat, armed : BOOLEAN]]

Sessions ==
  [Leases -> [socket : Sockets, node : Nodes, activation : Activations,
              writing : BOOLEAN]]

\* The parts of the inductive invariant.
RowPart ==
  /\ status \in Statuses /\ deleted \in BOOLEAN
  /\ attachment \in LeaseOrNone /\ ready \in LeaseOrNone
DeadlinePart == deadline \in Deadlines /\ jobs \subseteq Jobs
SessionPart ==
  /\ session \in Sessions
  /\ peer \in [Nodes -> LeaseOrNone]
  /\ budget \in [touches : Nat, faults : Nat, crashes : Nat]
LinePart == line \in Lines

GatewayInv == RowPart /\ DeadlinePart /\ SessionPart /\ LinePart

-----------------------------------------------------------------------------
(* Leases and reports. *)

\* A lease is one of the values an owner may have; null is not a lease.
LEMMA LeaseFacts ==
  /\ Leases \subseteq LeaseOrNone
  /\ NoLease \in LeaseOrNone
  /\ \A l \in LeaseOrNone : l # NoLease => l \in Leases
  BY LeaseAssumption DEF Leases, LeaseOrNone, NoLease

\* What a report of the gateway makes of the status is a status.
LEMMA ReportStatus ==
  ASSUME NEW r \in Reports, status \in Statuses
  PROVE  StatusAfterReport(r) \in Statuses
  BY DEF StatusAfterReport, ResolveLifecycleEvent, After, Rule, Reports,
         Statuses

-----------------------------------------------------------------------------
(* The coordinator's queue. *)

\* The operation under way is an operation.
LEMMA HeadOK ==
  ASSUME LinePart, NEW n \in Nodes, line[n] # <<>>
  PROVE  Head(line[n]) \in OpRecords
  BY DEF LinePart, Lines

\* Past its start, and always unless it is a touch, it names a lease.
LEMMA AtLease ==
  ASSUME LinePart, NEW n \in Nodes, NEW o, NEW s, At(n, o, s),
         o # "touch" \/ s # "start"
  PROVE  Lease(n) \in Leases /\ line[n] # <<>>
  BY HeadOK DEF At, Lease, OpRecords

\* Appending an operation keeps the queue well formed.
LEMMA EnqueueOK ==
  ASSUME LinePart, NEW n \in Nodes, NEW o \in Operations,
         NEW l \in LeaseOrNone, l \in Leases \/ o = "touch",
         Enqueue(n, o, l)
  PROVE  LinePart'
<1>1. Op(o, l) \in OpRecords
  BY DEF Op, OpRecords, OpSteps
<1>2. Append(line[n], Op(o, l)) \in Seq(OpRecords)
  BY <1>1 DEF LinePart, Lines
<1> QED
  BY <1>2 DEF Enqueue, LinePart, Lines

\* So does ending the operation under way.
LEMMA DoneOK ==
  ASSUME LinePart, NEW n \in Nodes, line[n] # <<>>, Done(n)
  PROVE  LinePart'
<1>1. Tail(line[n]) \in Seq(OpRecords)
  BY DEF LinePart, Lines
<1> QED
  BY <1>1 DEF Done, LinePart, Lines

\* And going on to its next step, once it names a lease.
LEMMA ProceedOK ==
  ASSUME LinePart, NEW n \in Nodes, line[n] # <<>>, NEW s \in OpSteps,
         Lease(n) \in Leases, Proceed(n, s)
  PROVE  LinePart'
<1>1. line[n] \in Seq(OpRecords) /\ Len(line[n]) > 0 /\ 1 \in DOMAIN line[n]
  BY DEF LinePart, Lines
<1>2. line[n][1] = Head(line[n]) /\ line[n][1] \in OpRecords
  BY <1>1
<1> DEFINE h == [line[n][1] EXCEPT !.step = s]
<1>3. h \in OpRecords
  BY <1>2 DEF OpRecords, Lease
<1>4. [line[n] EXCEPT ![1] = h] \in Seq(OpRecords)
  BY <1>1, <1>3
<1>5. line' = [line EXCEPT ![n] = [line[n] EXCEPT ![1] = h]]
  BY DEF Proceed
<1> QED
  BY <1>4, <1>5 DEF LinePart, Lines

-----------------------------------------------------------------------------
(* Deadlines. *)

\* A put stores a deadline of the lease, its generation as it was or one more.
LEMMA NextDeadlineOK ==
  ASSUME DeadlinePart, NEW k \in DeadlineKinds, NEW l \in Leases,
         NEW d \in NextDeadlines(k, l)
  PROVE  /\ d \in [lease : LeaseOrNone, generation : Nat, armed : BOOLEAN]
         /\ d.lease = l
         /\ \/ d.generation = deadline[k].generation + 1
            \/ d = deadline[k]
<1> DEFINE old == deadline[k]
           renewed == [lease |-> l, generation |-> old.generation + 1,
                       armed |-> TRUE]
<1>1. /\ old \in [lease : LeaseOrNone, generation : Nat, armed : BOOLEAN]
      /\ old.generation \in Nat
  BY DEF DeadlinePart, Deadlines
<1>2. d = renewed \/ (old.lease = l /\ d = old)
  BY DEF NextDeadlines
<1>3. CASE d = renewed
  <2>1. l \in LeaseOrNone /\ old.generation + 1 \in Nat
    BY <1>1, LeaseFacts
  <2> QED BY <1>3, <2>1
<1>4. CASE old.lease = l /\ d = old
  BY <1>1, <1>4
<1> QED BY <1>2, <1>3, <1>4

\* A put keeps deadlines and runs in their domains, and the generations
\* unambiguous: the run it enqueues carries the generation it stores.
LEMMA PutOK ==
  ASSUME DeadlinePart, NEW k \in DeadlineKinds, NEW l \in Leases,
         PutDeadline(k, l)
  PROVE  /\ DeadlinePart'
         /\ GenerationsIdentifyLeases => GenerationsIdentifyLeases'
<1> PICK d \in NextDeadlines(k, l) :
           /\ deadline' = [deadline EXCEPT ![k] = d]
           /\ jobs' = jobs \cup
                {[kind |-> k, lease |-> l, generation |-> d.generation]}
  BY DEF PutDeadline
<1>1. /\ d \in [lease : LeaseOrNone, generation : Nat, armed : BOOLEAN]
      /\ d.lease = l /\ d.generation \in Nat
      /\ d.generation = deadline[k].generation + 1 \/ d = deadline[k]
  BY NextDeadlineOK
<1>2. deadline' \in Deadlines
  BY <1>1 DEF DeadlinePart, Deadlines
<1>3. jobs' \subseteq Jobs
  BY <1>1 DEF DeadlinePart, Jobs
<1>4. ASSUME GenerationsIdentifyLeases, NEW j \in jobs'
      PROVE  /\ j.generation <= deadline'[j.kind].generation
             /\ j.generation = deadline'[j.kind].generation
                  => j.lease = deadline'[j.kind].lease
  <2>1. deadline'[k] = d
    BY DEF DeadlinePart, Deadlines
  <2>2. CASE j = [kind |-> k, lease |-> l, generation |-> d.generation]
    BY <1>1, <2>1, <2>2
  <2>3. CASE j \in jobs
    <3>1. /\ j.kind \in DeadlineKinds /\ j.generation \in Nat
          /\ j.generation <= deadline[j.kind].generation
          /\ j.generation = deadline[j.kind].generation
               => j.lease = deadline[j.kind].lease
          /\ deadline[j.kind].generation \in Nat
      BY <1>4, <2>3 DEF DeadlinePart, Deadlines, Jobs,
                        GenerationsIdentifyLeases
    <3>2. CASE j.kind # k
      <4>1. deadline'[j.kind] = deadline[j.kind]
        BY <3>1, <3>2 DEF DeadlinePart, Deadlines
      <4> QED BY <3>1, <4>1
    <3>3. CASE j.kind = k
      BY <1>1, <2>1, <3>1, <3>3
    <3> QED BY <3>2, <3>3
  <2> QED BY <2>2, <2>3
<1> QED
  BY <1>2, <1>3, <1>4 DEF DeadlinePart, GenerationsIdentifyLeases

\* The same when enqueueing the run failed.
LEMMA PutUnqueuedOK ==
  ASSUME DeadlinePart, NEW k \in DeadlineKinds, NEW l \in Leases,
         PutDeadlineUnqueued(k, l)
  PROVE  /\ DeadlinePart'
         /\ GenerationsIdentifyLeases => GenerationsIdentifyLeases'
<1> PICK d \in NextDeadlines(k, l) : deadline' = [deadline EXCEPT ![k] = d]
  BY DEF PutDeadlineUnqueued
<1>1. /\ d \in [lease : LeaseOrNone, generation : Nat, armed : BOOLEAN]
      /\ d.lease = l /\ d.generation \in Nat
      /\ d.generation = deadline[k].generation + 1 \/ d = deadline[k]
  BY NextDeadlineOK
<1>2. deadline' \in Deadlines /\ jobs' = jobs
  BY <1>1 DEF DeadlinePart, Deadlines, PutDeadlineUnqueued
<1>3. ASSUME GenerationsIdentifyLeases, NEW j \in jobs
      PROVE  /\ j.generation <= deadline'[j.kind].generation
             /\ j.generation = deadline'[j.kind].generation
                  => j.lease = deadline'[j.kind].lease
  <2>1. deadline'[k] = d
    BY DEF DeadlinePart, Deadlines
  <2>2. /\ j.kind \in DeadlineKinds /\ j.generation \in Nat
        /\ j.generation <= deadline[j.kind].generation
        /\ j.generation = deadline[j.kind].generation
             => j.lease = deadline[j.kind].lease
        /\ deadline[j.kind].generation \in Nat
    BY <1>3 DEF DeadlinePart, Deadlines, Jobs, GenerationsIdentifyLeases
  <2>3. CASE j.kind # k
    <3>1. deadline'[j.kind] = deadline[j.kind]
      BY <2>2, <2>3 DEF DeadlinePart, Deadlines
    <3> QED BY <2>2, <3>1
  <2>4. CASE j.kind = k
    BY <1>1, <2>1, <2>2, <2>4
  <2> QED BY <2>3, <2>4
<1> QED
  BY <1>2, <1>3 DEF DeadlinePart, GenerationsIdentifyLeases

\* Clearing a deadline leaves its lease and its generation as they are.
LEMMA DeleteOK ==
  ASSUME DeadlinePart, NEW k \in DeadlineKinds, NEW l \in Leases,
         DeleteDeadline(k, l), UNCHANGED jobs
  PROVE  /\ DeadlinePart'
         /\ GenerationsIdentifyLeases => GenerationsIdentifyLeases'
<1>1. deadline' \in Deadlines
  BY DEF DeadlinePart, Deadlines, DeleteDeadline
<1>2. ASSUME NEW i \in DeadlineKinds
      PROVE  /\ deadline'[i].lease = deadline[i].lease
             /\ deadline'[i].generation = deadline[i].generation
  BY DEF DeadlinePart, Deadlines, DeleteDeadline
<1>3. \A j \in jobs : j.kind \in DeadlineKinds
  BY DEF DeadlinePart, Jobs
<1> QED
  BY <1>1, <1>2, <1>3 DEF DeadlinePart, GenerationsIdentifyLeases

\* And a step that touches neither deadlines nor runs.
LEMMA KeepOK ==
  ASSUME DeadlinePart, UNCHANGED <<deadline, jobs>>
  PROVE  /\ DeadlinePart'
         /\ GenerationsIdentifyLeases => GenerationsIdentifyLeases'
  BY DEF DeadlinePart, GenerationsIdentifyLeases

-----------------------------------------------------------------------------
(* The steps. *)

\* What every step has to preserve.
Kept == GatewayInv' /\ (GenerationsIdentifyLeases => GenerationsIdentifyLeases')

\* A step that keeps each part keeps the whole.
LEMMA Parts ==
  ASSUME RowPart', SessionPart', LinePart', DeadlinePart',
         GenerationsIdentifyLeases => GenerationsIdentifyLeases'
  PROVE  Kept
  BY DEF GatewayInv, Kept

\* A tunnel connects.
LEMMA ConnectOK ==
  ASSUME GatewayInv, NEW l \in Leases, NEW n \in Nodes, Connect(l, n)
  PROVE  Kept
<1>1. RowPart'
  BY DEF GatewayInv, RowPart, Connect, rowVars
<1>2. SessionPart'
  BY LeaseFacts DEF GatewayInv, SessionPart, Sessions, Sockets, Activations, Connect
<1>3. LinePart'
  BY DEF GatewayInv, LinePart, Connect
<1>4. /\ DeadlinePart'
      /\ GenerationsIdentifyLeases => GenerationsIdentifyLeases'
  BY KeepOK DEF GatewayInv, Connect, rowVars
<1> QED BY <1>1, <1>2, <1>3, <1>4, Parts

\* Its attachment is written and its attach operation queued.
LEMMA UpsertAttachmentOK ==
  ASSUME GatewayInv, NEW l \in Leases, UpsertAttachment(l)
  PROVE  Kept
<1>1. RowPart'
  BY LeaseFacts DEF GatewayInv, RowPart, UpsertAttachment
<1>2. SessionPart'
  BY LeaseFacts
     DEF GatewayInv, SessionPart, Sessions, Sockets, Activations, UpsertAttachment
<1>3. LinePart'
  <2>1. session[l].node \in Nodes
    BY DEF GatewayInv, SessionPart, Sessions
  <2> QED BY <2>1, LeaseFacts, EnqueueOK DEF GatewayInv, UpsertAttachment, Operations
<1>4. /\ DeadlinePart'
      /\ GenerationsIdentifyLeases => GenerationsIdentifyLeases'
  BY KeepOK DEF GatewayInv, UpsertAttachment, rowVars
<1> QED BY <1>1, <1>2, <1>3, <1>4, Parts

\* A tunnel closes.
LEMMA CloseSocketOK ==
  ASSUME GatewayInv, NEW l \in Leases, CloseSocket(l)
  PROVE  Kept
<1>1. RowPart'
  BY DEF GatewayInv, RowPart, CloseSocket, rowVars
<1>2. SessionPart'
  BY LeaseFacts
     DEF GatewayInv, SessionPart, Sessions, Sockets, Activations, CloseSocket
<1>3. LinePart'
  <2>1. session[l].node \in Nodes
    BY DEF GatewayInv, SessionPart, Sessions
  <2>2. CASE Current(l)
    BY <2>1, <2>2, LeaseFacts, EnqueueOK DEF GatewayInv, CloseSocket, Operations
  <2>3. CASE ~Current(l)
    BY <2>3 DEF GatewayInv, CloseSocket, LinePart
  <2> QED BY <2>2, <2>3
<1>4. /\ DeadlinePart'
      /\ GenerationsIdentifyLeases => GenerationsIdentifyLeases'
  BY KeepOK DEF GatewayInv, CloseSocket, rowVars
<1> QED BY <1>1, <1>2, <1>3, <1>4, Parts

\* The lease renewal reads the attachment.
LEMMA RenewReadOK ==
  ASSUME GatewayInv, NEW l \in Leases, RenewRead(l)
  PROVE  Kept
<1>1. RowPart'
  BY DEF GatewayInv, RowPart, RenewRead, rowVars
<1>2. SessionPart'
  BY LeaseFacts
     DEF GatewayInv, SessionPart, Sessions, Sockets, Activations, RenewRead
<1>3. LinePart'
  BY DEF GatewayInv, LinePart, RenewRead
<1>4. /\ DeadlinePart'
      /\ GenerationsIdentifyLeases => GenerationsIdentifyLeases'
  BY KeepOK DEF GatewayInv, RenewRead, rowVars
<1> QED BY <1>1, <1>2, <1>3, <1>4, Parts

\* The lease renewal writes the attachment.
LEMMA RenewWriteOK ==
  ASSUME GatewayInv, NEW l \in Leases, RenewWrite(l)
  PROVE  Kept
<1>1. RowPart'
  BY LeaseFacts DEF GatewayInv, RowPart, RenewWrite
<1>2. SessionPart'
  BY LeaseFacts
     DEF GatewayInv, SessionPart, Sessions, Sockets, Activations, RenewWrite
<1>3. LinePart'
  BY DEF GatewayInv, LinePart, RenewWrite
<1>4. /\ DeadlinePart'
      /\ GenerationsIdentifyLeases => GenerationsIdentifyLeases'
  BY KeepOK DEF GatewayInv, RenewWrite, rowVars
<1> QED BY <1>1, <1>2, <1>3, <1>4, Parts

\* handleBootstrapAttach begins.
LEMMA AttachStartOK ==
  ASSUME GatewayInv, NEW n \in Nodes, AttachStart(n)
  PROVE  Kept
<1>1. RowPart'
  BY ReportStatus DEF GatewayInv, RowPart, Reports, AttachStart
<1>2. SessionPart'
  <2>1. Lease(n) \in Leases
    BY AtLease DEF GatewayInv, AttachStart
  <2> QED BY <2>1
       DEF GatewayInv, SessionPart, Sessions, Activations, AttachStart, Renewing
<1>3. LinePart'
  <2>1. Lease(n) \in Leases /\ line[n] # <<>>
    BY AtLease DEF GatewayInv, AttachStart
  <2>2. CASE peer[n] = Lease(n) /\ ~deleted
    BY <2>1, <2>2, ProceedOK DEF GatewayInv, AttachStart, OpSteps
  <2>3. CASE ~(peer[n] = Lease(n) /\ ~deleted)
    BY <2>1, <2>3, DoneOK DEF GatewayInv, AttachStart
  <2> QED BY <2>2, <2>3
<1>4. /\ DeadlinePart'
      /\ GenerationsIdentifyLeases => GenerationsIdentifyLeases'
  BY KeepOK DEF GatewayInv, AttachStart, rowVars
<1> QED BY <1>1, <1>2, <1>3, <1>4, Parts

\* handleBootstrapAttach reports the attachment.
LEMMA AttachAnnounceOK ==
  ASSUME GatewayInv, NEW n \in Nodes, AttachAnnounce(n)
  PROVE  Kept
<1>1. RowPart'
  BY ReportStatus DEF GatewayInv, RowPart, Reports, AttachAnnounce
<1>2. SessionPart'
  <2>1. Lease(n) \in Leases
    BY AtLease DEF GatewayInv, AttachAnnounce
  <2> QED BY <2>1
       DEF GatewayInv, SessionPart, Sessions, Activations, AttachAnnounce, Renewing
<1>3. LinePart'
  <2>1. Lease(n) \in Leases /\ line[n] # <<>>
    BY AtLease DEF GatewayInv, AttachAnnounce
  <2>2. CASE ~deleted
    BY <2>1, <2>2, ProceedOK DEF GatewayInv, AttachAnnounce, OpSteps
  <2>3. CASE ~(~deleted)
    BY <2>1, <2>3, DoneOK DEF GatewayInv, AttachAnnounce
  <2> QED BY <2>2, <2>3
<1>4. /\ DeadlinePart'
      /\ GenerationsIdentifyLeases => GenerationsIdentifyLeases'
  BY KeepOK DEF GatewayInv, AttachAnnounce, rowVars
<1> QED BY <1>1, <1>2, <1>3, <1>4, Parts

\* handleBootstrapAttach arms the idle deadline.
LEMMA AttachPutIdleOK ==
  ASSUME GatewayInv, NEW n \in Nodes, AttachPutIdle(n)
  PROVE  Kept
<1>1. RowPart'
  BY DEF GatewayInv, RowPart, AttachPutIdle, rowVars
<1>2. SessionPart'
  <2>1. Lease(n) \in Leases
    BY AtLease DEF GatewayInv, AttachPutIdle
  <2> QED BY <2>1
       DEF GatewayInv, SessionPart, Sessions, Activations, AttachPutIdle, Renewing
<1>3. LinePart'
  <2>1. Lease(n) \in Leases /\ line[n] # <<>>
    BY AtLease DEF GatewayInv, AttachPutIdle
  <2> QED BY <2>1, DoneOK DEF GatewayInv, AttachPutIdle
<1>4. /\ DeadlinePart'
      /\ GenerationsIdentifyLeases => GenerationsIdentifyLeases'
  <2>1. Lease(n) \in Leases
    BY AtLease DEF GatewayInv, AttachPutIdle
  <2> QED BY <2>1, PutOK DEF GatewayInv, AttachPutIdle, DeadlineKinds
<1> QED BY <1>1, <1>2, <1>3, <1>4, Parts

\* The detach gives its attachment up.
LEMMA DetachStartOK ==
  ASSUME GatewayInv, NEW n \in Nodes, DetachStart(n)
  PROVE  Kept
<1>1. RowPart'
  BY LeaseFacts DEF GatewayInv, RowPart, DetachStart
<1>2. SessionPart'
  BY DEF GatewayInv, SessionPart, DetachStart
<1>3. LinePart'
  <2>1. Lease(n) \in Leases /\ line[n] # <<>>
    BY AtLease DEF GatewayInv, DetachStart
  <2>2. CASE peer[n] = Lease(n)
    BY <2>1, <2>2, ProceedOK DEF GatewayInv, DetachStart, OpSteps
  <2>3. CASE ~(peer[n] = Lease(n))
    BY <2>1, <2>3, DoneOK DEF GatewayInv, DetachStart
  <2> QED BY <2>2, <2>3
<1>4. /\ DeadlinePart'
      /\ GenerationsIdentifyLeases => GenerationsIdentifyLeases'
  BY KeepOK DEF GatewayInv, DetachStart, rowVars
<1> QED BY <1>1, <1>2, <1>3, <1>4, Parts

\* The detach clears its idle deadline.
LEMMA DetachClearIdleOK ==
  ASSUME GatewayInv, NEW n \in Nodes, DetachClearIdle(n)
  PROVE  Kept
<1>1. RowPart'
  BY DEF GatewayInv, RowPart, DetachClearIdle, rowVars
<1>2. SessionPart'
  BY DEF GatewayInv, SessionPart, DetachClearIdle
<1>3. LinePart'
  <2>1. Lease(n) \in Leases /\ line[n] # <<>>
    BY AtLease DEF GatewayInv, DetachClearIdle
  <2> QED BY <2>1, ProceedOK DEF GatewayInv, DetachClearIdle, OpSteps
<1>4. /\ DeadlinePart'
      /\ GenerationsIdentifyLeases => GenerationsIdentifyLeases'
  <2>1. Lease(n) \in Leases
    BY AtLease DEF GatewayInv, DetachClearIdle
  <2> QED BY <2>1, DeleteOK DEF GatewayInv, DetachClearIdle, DeadlineKinds
<1> QED BY <1>1, <1>2, <1>3, <1>4, Parts

\* The API judges whether the detached owner is current.
LEMMA DetachJudgeOK ==
  ASSUME GatewayInv, NEW n \in Nodes, DetachJudge(n)
  PROVE  Kept
<1>1. RowPart'
  BY DEF GatewayInv, RowPart, DetachJudge, rowVars
<1>2. SessionPart'
  BY DEF GatewayInv, SessionPart, DetachJudge
<1>3. LinePart'
  <2>1. Lease(n) \in Leases /\ line[n] # <<>>
    BY AtLease DEF GatewayInv, DetachJudge
  <2>2. CASE OwnerCurrent(Lease(n)) \/ ~deleted
    BY <2>1, <2>2, ProceedOK DEF GatewayInv, DetachJudge, OpSteps
  <2>3. CASE ~(OwnerCurrent(Lease(n)) \/ ~deleted)
    BY <2>1, <2>3, DoneOK DEF GatewayInv, DetachJudge
  <2> QED BY <2>2, <2>3
<1>4. /\ DeadlinePart'
      /\ GenerationsIdentifyLeases => GenerationsIdentifyLeases'
  BY KeepOK DEF GatewayInv, DetachJudge, rowVars
<1> QED BY <1>1, <1>2, <1>3, <1>4, Parts

\* The API records the detach.
LEMMA DetachReportOK ==
  ASSUME GatewayInv, NEW n \in Nodes, DetachReport(n)
  PROVE  Kept
<1>1. RowPart'
  BY ReportStatus DEF GatewayInv, RowPart, Reports, DetachReport
<1>2. SessionPart'
  BY DEF GatewayInv, SessionPart, DetachReport
<1>3. LinePart'
  <2>1. Lease(n) \in Leases /\ line[n] # <<>>
    BY AtLease DEF GatewayInv, DetachReport
  <2>2. CASE ~deleted
    BY <2>1, <2>2, ProceedOK DEF GatewayInv, DetachReport, OpSteps
  <2>3. CASE ~(~deleted)
    BY <2>1, <2>3, DoneOK DEF GatewayInv, DetachReport
  <2> QED BY <2>2, <2>3
<1>4. /\ DeadlinePart'
      /\ GenerationsIdentifyLeases => GenerationsIdentifyLeases'
  BY KeepOK DEF GatewayInv, DetachReport, rowVars
<1> QED BY <1>1, <1>2, <1>3, <1>4, Parts

\* The detach arms the disconnect deadline.
LEMMA DetachPutDisconnectOK ==
  ASSUME GatewayInv, NEW n \in Nodes, DetachPutDisconnect(n)
  PROVE  Kept
<1>1. RowPart'
  BY DEF GatewayInv, RowPart, DetachPutDisconnect, rowVars
<1>2. SessionPart'
  BY LeaseFacts DEF GatewayInv, SessionPart, DetachPutDisconnect
<1>3. LinePart'
  <2>1. Lease(n) \in Leases /\ line[n] # <<>>
    BY AtLease DEF GatewayInv, DetachPutDisconnect
  <2> QED BY <2>1, DoneOK DEF GatewayInv, DetachPutDisconnect
<1>4. /\ DeadlinePart'
      /\ GenerationsIdentifyLeases => GenerationsIdentifyLeases'
  <2>1. Lease(n) \in Leases
    BY AtLease DEF GatewayInv, DetachPutDisconnect
  <2> QED BY <2>1, PutOK DEF GatewayInv, DetachPutDisconnect, DeadlineKinds
<1> QED BY <1>1, <1>2, <1>3, <1>4, Parts

\* A readiness message is recorded.
LEMMA ReadinessStartOK ==
  ASSUME GatewayInv, NEW n \in Nodes, NEW r \in {"ready", "not_ready"},
         ReadinessStart(n, r)
  PROVE  Kept
<1>1. RowPart'
  <2>1. Lease(n) \in LeaseOrNone
    BY AtLease, LeaseFacts DEF GatewayInv, ReadinessStart
  <2> QED BY <2>1, LeaseFacts DEF GatewayInv, RowPart, ReadinessStart
<1>2. SessionPart'
  BY DEF GatewayInv, SessionPart, ReadinessStart
<1>3. LinePart'
  <2>1. Lease(n) \in Leases /\ line[n] # <<>>
    BY AtLease DEF GatewayInv, ReadinessStart
  <2>2. CASE attachment = Lease(n)
    BY <2>1, <2>2, ProceedOK DEF GatewayInv, ReadinessStart, OpSteps
  <2>3. CASE ~(attachment = Lease(n))
    BY <2>1, <2>3, DoneOK DEF GatewayInv, ReadinessStart
  <2> QED BY <2>2, <2>3
<1>4. /\ DeadlinePart'
      /\ GenerationsIdentifyLeases => GenerationsIdentifyLeases'
  BY KeepOK DEF GatewayInv, ReadinessStart, rowVars
<1> QED BY <1>1, <1>2, <1>3, <1>4, Parts

\* A readiness message is reported.
LEMMA ReadinessReportOK ==
  ASSUME GatewayInv, NEW n \in Nodes, NEW r \in {"ready", "not_ready"},
         ReadinessReport(n, r)
  PROVE  Kept
<1>1. RowPart'
  BY ReportStatus DEF GatewayInv, RowPart, Reports, ReadinessReport
<1>2. SessionPart'
  BY DEF GatewayInv, SessionPart, ReadinessReport
<1>3. LinePart'
  <2>1. Lease(n) \in Leases /\ line[n] # <<>>
    BY AtLease DEF GatewayInv, ReadinessReport
  <2> QED BY <2>1, DoneOK DEF GatewayInv, ReadinessReport
<1>4. /\ DeadlinePart'
      /\ GenerationsIdentifyLeases => GenerationsIdentifyLeases'
  BY KeepOK DEF GatewayInv, ReadinessReport, rowVars
<1> QED BY <1>1, <1>2, <1>3, <1>4, Parts

\* A health signal is reported.
LEMMA HealthReportOK ==
  ASSUME GatewayInv, NEW n \in Nodes, NEW r \in {"degraded", "recovered"},
         HealthReport(n, r)
  PROVE  Kept
<1>1. RowPart'
  BY ReportStatus DEF GatewayInv, RowPart, Reports, HealthReport
<1>2. SessionPart'
  BY DEF GatewayInv, SessionPart, HealthReport
<1>3. LinePart'
  <2>1. Lease(n) \in Leases /\ line[n] # <<>>
    BY AtLease DEF GatewayInv, HealthReport
  <2> QED BY <2>1, DoneOK DEF GatewayInv, HealthReport
<1>4. /\ DeadlinePart'
      /\ GenerationsIdentifyLeases => GenerationsIdentifyLeases'
  BY KeepOK DEF GatewayInv, HealthReport, rowVars
<1> QED BY <1>1, <1>2, <1>3, <1>4, Parts

\* The sandbox's message is queued.
LEMMA RuntimeMessageOK ==
  ASSUME GatewayInv, NEW l \in Leases, NEW r \in {"ready", "not_ready"},
         RuntimeMessage(l, r)
  PROVE  Kept
<1>1. RowPart'
  BY DEF GatewayInv, RowPart, RuntimeMessage, rowVars
<1>2. SessionPart'
  BY DEF GatewayInv, SessionPart, RuntimeMessage
<1>3. LinePart'
  <2>1. session[l].node \in Nodes
    BY DEF GatewayInv, SessionPart, Sessions
  <2> QED BY <2>1, LeaseFacts, EnqueueOK DEF GatewayInv, RuntimeMessage, Operations
<1>4. /\ DeadlinePart'
      /\ GenerationsIdentifyLeases => GenerationsIdentifyLeases'
  BY KeepOK DEF GatewayInv, RuntimeMessage, rowVars
<1> QED BY <1>1, <1>2, <1>3, <1>4, Parts

\* It is queued.
LEMMA HealthSignalOK ==
  ASSUME GatewayInv, NEW l \in Leases, NEW r \in {"degraded", "recovered"},
         HealthSignal(l, r)
  PROVE  Kept
<1>1. RowPart'
  BY DEF GatewayInv, RowPart, HealthSignal, rowVars
<1>2. SessionPart'
  BY DEF GatewayInv, SessionPart, HealthSignal
<1>3. LinePart'
  <2>1. session[l].node \in Nodes
    BY DEF GatewayInv, SessionPart, Sessions
  <2> QED BY <2>1, LeaseFacts, EnqueueOK DEF GatewayInv, HealthSignal, Operations
<1>4. /\ DeadlinePart'
      /\ GenerationsIdentifyLeases => GenerationsIdentifyLeases'
  BY KeepOK DEF GatewayInv, HealthSignal, rowVars
<1> QED BY <1>1, <1>2, <1>3, <1>4, Parts

\* A presence renewal is queued.
LEMMA PresenceOK ==
  ASSUME GatewayInv, NEW n \in Nodes, Presence(n)
  PROVE  Kept
<1>1. RowPart'
  BY DEF GatewayInv, RowPart, Presence, rowVars
<1>2. SessionPart'
  BY DEF GatewayInv, SessionPart, Presence
<1>3. LinePart'
  BY LeaseFacts, EnqueueOK DEF GatewayInv, Presence, Operations
<1>4. /\ DeadlinePart'
      /\ GenerationsIdentifyLeases => GenerationsIdentifyLeases'
  BY KeepOK DEF GatewayInv, Presence, rowVars
<1> QED BY <1>1, <1>2, <1>3, <1>4, Parts

\* A keepalive message is queued.
LEMMA KeepaliveOK ==
  ASSUME GatewayInv, NEW l \in Leases, Keepalive(l)
  PROVE  Kept
<1>1. RowPart'
  BY DEF GatewayInv, RowPart, Keepalive, rowVars
<1>2. SessionPart'
  BY DEF GatewayInv, SessionPart, Keepalive
<1>3. LinePart'
  <2>1. session[l].node \in Nodes
    BY DEF GatewayInv, SessionPart, Sessions
  <2> QED BY <2>1, LeaseFacts, EnqueueOK DEF GatewayInv, Keepalive, Operations
<1>4. /\ DeadlinePart'
      /\ GenerationsIdentifyLeases => GenerationsIdentifyLeases'
  BY KeepOK DEF GatewayInv, Keepalive, rowVars
<1> QED BY <1>1, <1>2, <1>3, <1>4, Parts

\* A touch reads the attachment.
LEMMA TouchStartOK ==
  ASSUME GatewayInv, NEW n \in Nodes, TouchStart(n)
  PROVE  Kept
<1>1. RowPart'
  BY DEF GatewayInv, RowPart, TouchStart, rowVars
<1>2. SessionPart'
  BY DEF GatewayInv, SessionPart, TouchStart
<1>3. LinePart'
  <2> DEFINE h == [line[n][1] EXCEPT !.lease = attachment,
                                     !.step = "put_idle"]
  <2>1. line[n] # <<>>
    BY DEF TouchStart, At
  <2>2. CASE attachment # NoLease /\ Lease(n) \in {NoLease, attachment}
    <3>1. line[n] \in Seq(OpRecords) /\ Len(line[n]) > 0
          /\ 1 \in DOMAIN line[n]
      BY <2>1 DEF GatewayInv, LinePart, Lines
    <3>2. line[n][1] = Head(line[n]) /\ line[n][1] \in OpRecords
      BY <3>1
    <3>3. attachment \in Leases /\ attachment \in LeaseOrNone
      BY <2>2, LeaseFacts DEF GatewayInv, RowPart
    <3>4. h \in OpRecords
      BY <3>2, <3>3 DEF OpRecords, OpSteps
    <3>5. [line[n] EXCEPT ![1] = h] \in Seq(OpRecords)
      BY <3>1, <3>4
    <3>6. line' = [line EXCEPT ![n] = [line[n] EXCEPT ![1] = h]]
      BY <2>2, <3>1 DEF TouchStart, GatewayInv, LinePart, Lines
    <3> QED BY <3>5, <3>6 DEF GatewayInv, LinePart, Lines
  <2>3. CASE ~(attachment # NoLease /\ Lease(n) \in {NoLease, attachment})
    BY <2>1, <2>3, DoneOK DEF GatewayInv, TouchStart
  <2> QED BY <2>2, <2>3
<1>4. /\ DeadlinePart'
      /\ GenerationsIdentifyLeases => GenerationsIdentifyLeases'
  BY KeepOK DEF GatewayInv, TouchStart, rowVars
<1> QED BY <1>1, <1>2, <1>3, <1>4, Parts

\* A touch arms the idle deadline anew.
LEMMA TouchPutIdleOK ==
  ASSUME GatewayInv, NEW n \in Nodes, TouchPutIdle(n)
  PROVE  Kept
<1>1. RowPart'
  BY DEF GatewayInv, RowPart, TouchPutIdle, rowVars
<1>2. SessionPart'
  BY DEF GatewayInv, SessionPart, TouchPutIdle
<1>3. LinePart'
  <2>1. Lease(n) \in Leases /\ line[n] # <<>>
    BY AtLease DEF GatewayInv, TouchPutIdle
  <2> QED BY <2>1, DoneOK DEF GatewayInv, TouchPutIdle
<1>4. /\ DeadlinePart'
      /\ GenerationsIdentifyLeases => GenerationsIdentifyLeases'
  <2>1. Lease(n) \in Leases
    BY AtLease DEF GatewayInv, TouchPutIdle
  <2> QED BY <2>1, PutOK DEF GatewayInv, TouchPutIdle, DeadlineKinds
<1> QED BY <1>1, <1>2, <1>3, <1>4, Parts

\* A call fails.
LEMMA CallFailsOK ==
  ASSUME GatewayInv, NEW n \in Nodes, CallFails(n)
  PROVE  Kept
<1>1. RowPart'
  BY DEF GatewayInv, RowPart, CallFails, rowVars
<1>2. SessionPart'
  <2>1. Head(line[n]) \in OpRecords
    BY HeadOK DEF GatewayInv, CallFails
  <2>2. session' \in Sessions
    <3>1. CASE Head(line[n]).op = "attach"
      BY <2>1, <3>1
         DEF GatewayInv, SessionPart, Sessions, Activations, CallFails, Renewing,
             OpRecords
    <3>2. CASE Head(line[n]).op # "attach"
      BY <3>2 DEF GatewayInv, SessionPart, CallFails
    <3> QED BY <3>1, <3>2
  <2> QED BY <2>2 DEF GatewayInv, SessionPart, CallFails
<1>3. LinePart'
  BY DoneOK DEF GatewayInv, CallFails
<1>4. /\ DeadlinePart'
      /\ GenerationsIdentifyLeases => GenerationsIdentifyLeases'
  <2>1. line[n] # <<>> /\ Head(line[n]) \in OpRecords
    BY HeadOK DEF GatewayInv, CallFails
  <2> DEFINE h == Head(line[n])
  <2>2. CASE UNCHANGED <<deadline, jobs>>
    BY <2>2, KeepOK DEF GatewayInv
  <2>3. CASE h.step = "put_idle" /\ PutDeadlineUnqueued("idle", h.lease)
    BY <2>1, <2>3, PutUnqueuedOK DEF GatewayInv, OpRecords, DeadlineKinds
  <2>4. CASE h.step = "put_disconnect"
             /\ PutDeadlineUnqueued("disconnect", h.lease)
    BY <2>1, <2>4, PutUnqueuedOK DEF GatewayInv, OpRecords, DeadlineKinds
  <2> QED BY <2>2, <2>3, <2>4 DEF CallFails
<1> QED BY <1>1, <1>2, <1>3, <1>4, Parts

\* A node dies.
LEMMA NodeCrashOK ==
  ASSUME GatewayInv, NEW n \in Nodes, NodeCrash(n)
  PROVE  Kept
<1>1. RowPart'
  BY DEF GatewayInv, RowPart, NodeCrash, rowVars
<1>2. SessionPart'
  <2>1. ASSUME NEW l \in Leases
        PROVE  session'[l] \in [socket : Sockets, node : Nodes,
                                activation : Activations, writing : BOOLEAN]
    <3> DEFINE dead == [session[l] EXCEPT !.socket = "lost",
                                          !.activation = "off",
                                          !.writing = FALSE]
    <3>1. session[l] \in [socket : Sockets, node : Nodes,
                           activation : Activations, writing : BOOLEAN]
      BY DEF GatewayInv, SessionPart, Sessions
    <3>2. dead \in [socket : Sockets, node : Nodes, activation : Activations,
                     writing : BOOLEAN]
      BY <3>1 DEF Sockets, Activations
    <3>3. session'[l] = dead \/ session'[l] = session[l]
      BY DEF NodeCrash
    <3> QED BY <3>1, <3>2, <3>3
  <2>2. session' \in Sessions
    BY <2>1 DEF NodeCrash, Sessions
  <2>3. budget' \in [touches : Nat, faults : Nat, crashes : Nat]
    <3>1. /\ budget' = [budget EXCEPT !.crashes = @ - 1]
          /\ budget.crashes > 0
          /\ budget \in [touches : Nat, faults : Nat, crashes : Nat]
      BY DEF GatewayInv, SessionPart, NodeCrash
    <3>2. budget.crashes - 1 \in Nat
      BY <3>1
    <3> QED BY <3>1, <3>2
  <2>4. peer' \in [Nodes -> LeaseOrNone]
    BY LeaseFacts DEF GatewayInv, SessionPart, NodeCrash
  <2> QED BY <2>2, <2>3, <2>4 DEF SessionPart
<1>3. LinePart'
  <2>1. <<>> \in Seq(OpRecords)
    OBVIOUS
  <2> QED BY <2>1 DEF GatewayInv, LinePart, Lines, NodeCrash
<1>4. /\ DeadlinePart'
      /\ GenerationsIdentifyLeases => GenerationsIdentifyLeases'
  BY KeepOK DEF GatewayInv, NodeCrash, rowVars
<1> QED BY <1>1, <1>2, <1>3, <1>4, Parts

\* The attachment runs out.
LEMMA AttachmentExpiresOK ==
  ASSUME GatewayInv, AttachmentExpires
  PROVE  Kept
<1>1. RowPart' /\ SessionPart' /\ LinePart'
  BY LeaseFacts DEF GatewayInv, RowPart, SessionPart, LinePart, AttachmentExpires,
                    gatewayVars
<1>2. /\ DeadlinePart'
      /\ GenerationsIdentifyLeases => GenerationsIdentifyLeases'
  BY KeepOK DEF GatewayInv, AttachmentExpires
<1> QED BY <1>1, <1>2, Parts

\* A step that changes nothing.
LEMMA StutterOK ==
  ASSUME GatewayInv, UNCHANGED <<rowVars, gatewayVars>>
  PROVE  Kept
<1>1. RowPart' /\ SessionPart' /\ LinePart'
  BY DEF GatewayInv, RowPart, SessionPart, LinePart, rowVars, gatewayVars
<1>2. /\ DeadlinePart'
      /\ GenerationsIdentifyLeases => GenerationsIdentifyLeases'
  BY KeepOK DEF GatewayInv, rowVars
<1> QED BY <1>1, <1>2, Parts

\* Every step of the gateway nodes preserves the invariant, and what a
\* generation stands for.
LEMMA GatewayNextOK ==
  ASSUME GatewayInv, GatewayNext
  PROVE  Kept
<1>1. ASSUME NEW n \in Nodes, CoordinatorStep(n) PROVE Kept
  BY <1>1, AttachStartOK, AttachAnnounceOK, AttachPutIdleOK, DetachStartOK,
     DetachClearIdleOK, DetachJudgeOK, DetachReportOK, DetachPutDisconnectOK,
     ReadinessStartOK, ReadinessReportOK, HealthReportOK, TouchStartOK,
     TouchPutIdleOK
     DEF CoordinatorStep
<1>2. ASSUME NEW n \in Nodes, Presence(n) \/ CallFails(n) \/ NodeCrash(n)
      PROVE  Kept
  BY <1>2, PresenceOK, CallFailsOK, NodeCrashOK
<1>3. ASSUME NEW l \in Leases, SessionStep(l) PROVE Kept
  BY <1>3, UpsertAttachmentOK, RenewWriteOK, CloseSocketOK
     DEF SessionStep, RenewLost
<1>4. ASSUME NEW l \in Leases,
             RenewRead(l) \/ CloseSocket(l) \/ HealthSignal(l, "degraded")
      PROVE  Kept
  BY <1>4, RenewReadOK, CloseSocketOK, HealthSignalOK
<1> QED
  BY <1>1, <1>2, <1>3, <1>4, AttachmentExpiresOK DEF GatewayNext

\* So does everything a live sandbox sends.
LEMMA SandboxSignalOK ==
  ASSUME GatewayInv, NEW l \in Leases, SandboxSignal(l)
  PROVE  Kept
  BY RuntimeMessageOK, HealthSignalOK, KeepaliveOK DEF SandboxSignal

\* The invariant holds before any tunnel connected, when no run is enqueued.
LEMMA GatewayInitOK ==
  ASSUME NEW s \in Statuses, RowInit(s), GatewayInit
  PROVE  GatewayInv /\ GenerationsIdentifyLeases
<1>1. RowPart
  BY LeaseFacts DEF RowInit, RowPart
<1>2. DeadlinePart /\ GenerationsIdentifyLeases
  BY LeaseFacts DEF RowInit, DeadlinePart, Deadlines, Jobs,
                    GenerationsIdentifyLeases
<1>3. (CHOOSE n \in Nodes : TRUE) \in Nodes
  BY GatewayAssumption
<1>4. SessionPart
  BY <1>3, LeaseFacts, GatewayAssumption
     DEF GatewayInit, SessionPart, Sessions, Sockets, Activations
<1>5. LinePart
  BY DEF GatewayInit, LinePart, Lines
<1> QED BY <1>1, <1>2, <1>4, <1>5 DEF GatewayInv

\* The inductive invariant contains the type invariant.
LEMMA GatewayTypes == GatewayInv => RowTypeOK /\ GatewayTypeOK
<1> SUFFICES ASSUME GatewayInv PROVE RowTypeOK /\ GatewayTypeOK
  OBVIOUS
<1>1. RowTypeOK
  BY DEF GatewayInv, RowPart, DeadlinePart, Deadlines, RowTypeOK
<1>2. ASSUME NEW n \in Nodes
      PROVE  line[n] \in Seq([op : Operations, lease : LeaseOrNone,
                              step : OpSteps])
  <2> DEFINE S == [op : Operations, lease : LeaseOrNone, step : OpSteps]
  <2>1. line[n] \in Seq(OpRecords) /\ OpRecords \subseteq S
    BY DEF GatewayInv, LinePart, Lines, OpRecords
  <2> HIDE DEF S
  <2>2. line[n] \in Seq(S)
    BY <2>1
  <2> QED BY <2>2 DEF S
<1>3. GatewayTypeOK
  BY <1>2 DEF GatewayInv, SessionPart, Sessions, LinePart, Lines, GatewayTypeOK
<1> QED BY <1>1, <1>3

-----------------------------------------------------------------------------
(* What the gateway does to the status. *)

Terminal == {"stopped", "failed"}

\* The statuses between the start of a startup and the end of the instance.
Between == Statuses \ (Terminal \cup {"pending", "starting"})

\* What a report of the gateway makes of the status.
LEMMA ReportBetween ==
  ASSUME NEW r \in Reports
  PROVE  \/ StatusAfterReport(r) = status
         \/ {status, StatusAfterReport(r)} \subseteq Between
  BY DEF StatusAfterReport, ResolveLifecycleEvent, After, Rule, Reports,
         Between, Terminal, Statuses

\* The gateway never touches a terminal row, nor one that is still to start.
LEMMA GatewayStatus ==
  ASSUME \/ GatewayNext
         \/ \E l \in Leases : SandboxSignal(l)
         \/ \E l \in Leases, n \in Nodes : Connect(l, n)
  PROVE  status' = status \/ {status, status'} \subseteq Between
<1>1. ASSUME NEW n \in Nodes,
             \/ AttachStart(n) \/ AttachAnnounce(n) \/ DetachJudge(n)
             \/ DetachReport(n) \/ DetachStart(n)
      PROVE  status' = status \/ {status, status'} \subseteq Between
  BY <1>1, ReportBetween
     DEF Reports, AttachStart, AttachAnnounce, DetachJudge, DetachReport,
         DetachStart, rowVars
<1>2. ASSUME NEW n \in Nodes, NEW r \in Reports,
             ReadinessReport(n, r) \/ HealthReport(n, r) \/ ReadinessStart(n, r)
      PROVE  status' = status \/ {status, status'} \subseteq Between
  BY <1>2, ReportBetween DEF ReadinessReport, HealthReport, ReadinessStart
<1>3. ASSUME NEW n \in Nodes,
             \/ AttachPutIdle(n) \/ DetachClearIdle(n) \/ DetachPutDisconnect(n)
             \/ TouchStart(n) \/ TouchPutIdle(n) \/ Presence(n) \/ CallFails(n)
             \/ NodeCrash(n)
      PROVE  status' = status
  BY <1>3 DEF AttachPutIdle, DetachClearIdle, DetachPutDisconnect, TouchStart,
     TouchPutIdle, Presence, CallFails, NodeCrash, rowVars
<1>4. ASSUME NEW n \in Nodes, CoordinatorStep(n)
      PROVE  status' = status \/ {status, status'} \subseteq Between
  BY <1>1, <1>2, <1>3, <1>4 DEF CoordinatorStep, Reports
<1>5. ASSUME NEW l \in Leases,
             \/ UpsertAttachment(l) \/ RenewWrite(l) \/ RenewLost(l)
             \/ RenewRead(l) \/ CloseSocket(l)
             \/ \E r \in Reports : HealthSignal(l, r) \/ RuntimeMessage(l, r)
             \/ Keepalive(l)
      PROVE  status' = status
  BY <1>5 DEF UpsertAttachment, RenewWrite, RenewLost, RenewRead, CloseSocket,
     HealthSignal, RuntimeMessage, Keepalive, rowVars
<1>6. CASE GatewayNext
  BY <1>3, <1>4, <1>5, <1>6
     DEF GatewayNext, SessionStep, AttachmentExpires, Reports
<1>7. CASE \E l \in Leases : SandboxSignal(l)
  BY <1>5, <1>7 DEF SandboxSignal, Reports
<1>8. CASE \E l \in Leases, n \in Nodes : Connect(l, n)
  BY <1>8 DEF Connect, rowVars
<1> QED BY <1>6, <1>7, <1>8
=============================================================================
