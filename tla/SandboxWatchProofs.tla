-------------------------- MODULE SandboxWatchProofs --------------------------
(***************************************************************************)
(* A sandbox that is up is watched: once everything has settled, the run   *)
(* of an armed deadline is still to come or is recorded as failed. That    *)
(* takes the gateway, the deadlines and the worker together: the newest    *)
(* tunnel's session is the peer, or its detach arms the disconnect         *)
(* deadline; every armed deadline has its run; and a run that was taken up *)
(* and is over ended the instance, failed, or found a deadline or a tunnel *)
(* that is not the one it was for.                                         *)
(***************************************************************************)
EXTENDS SandboxInstanceProofs, OneNodeGatewayProofs, WellFoundedInduction

\* The gateway has one node, none of its calls fails and it does not die, and
\* nobody resumes or deletes the instance. Whatever else the worker, the
\* provider, the tunnels and the user do is unrestricted.
Undisturbed ==
  /\ OneNode /\ MaxFaults = 0 /\ MaxCrashes = 0
  /\ Requests \cap {"resume", "delete"} = {}

-----------------------------------------------------------------------------
(* The inductive invariant. *)

\* A lease whose tunnel has connected; the last of them; and one whose
\* attachment was written.
Connected(l) == session[l].socket # "unused"
Newest(p) == Connected(p) /\ \A l \in Leases : Connected(l) => l <= p
NoneConnected == \A l \in Leases : ~Connected(l)
Landed(l) == Connected(l) /\ session[l].activation # "upsert"

\* What is undisturbed. Runs that were taken up had been enqueued.
QuietPart ==
  /\ budget.faults = 0 /\ budget.crashes = 0 /\ ~deleting
  /\ \A w \in Workers : run[w].flow \notin {"resume", "delete"}
  /\ engine.taken \subseteq jobs

\* The newest tunnel, while it is open, is the peer.
PeerPart == \A p \in Leases : Newest(p) /\ Open(p) => Current(p)

\* The queue q has the detach of lease p; a detach is under way in it.
Waiting(q, p) ==
  \E i \in 1 .. Len(q) : q[i].op = "detach" /\ q[i].lease = p
Midway(q) == q # <<>> /\ Head(q).op = "detach" /\ Head(q).step # "start"

\* Once the newest tunnel is closed, its detach is to come, or has armed the
\* disconnect deadline, which nothing takes away from it.
Disconnected(p) ==
  /\ deadline["disconnect"].armed /\ deadline["disconnect"].lease = p
  /\ \A n \in Nodes : peer[n] = NoLease /\ ~Midway(line[n])
ClosedPart ==
  \A p \in Leases : Newest(p) /\ ~Open(p) =>
    \/ status \in Terminal
    \/ \E n \in Nodes : peer[n] = p /\ Waiting(line[n], p)
    \/ Disconnected(p)

\* Only renewals write, and what is attached was written.
LandPart ==
  /\ \A l \in Leases :
       session[l].writing => session[l].activation = "renewing"
  /\ \A l \in Leases : attachment = l => Landed(l)

\* A touch and a detach that are under way act for a lease whose attachment was
\* written; a detach for one that is the last of them.
HeadPart ==
  \A n \in Nodes : \A l \in Leases : line[n] # <<>> /\ Lease(n) = l =>
    /\ At(n, "touch", "put_idle") => Landed(l)
    /\ Midway(line[n]) => \A k \in Leases : k <= l => Landed(k)

\* An armed deadline has its run. A run is for a lease that was attached, and
\* that of a disconnect for one that is closed.
JobOf(k) ==
  [kind |-> k, lease |-> deadline[k].lease,
   generation |-> deadline[k].generation]
JobOK(j) ==
  /\ Landed(j.lease)
  /\ j.kind = "disconnect" =>
       /\ ~Open(j.lease)
       /\ \A k \in Leases : k <= j.lease => Landed(k)
JobPart ==
  /\ \A k \in DeadlineKinds : deadline[k].armed => JobOf(k) \in jobs
  /\ \A j \in jobs : JobOK(j)

TunnelInv == PeerPart /\ ClosedPart /\ LandPart /\ HeadPart /\ JobPart

\* Before any tunnel connected, the start run has still to succeed or to mark
\* the instance failed. Only presence touches wait in the queues.
BeforeAttach ==
  EarlySteps \cup {"allocated_usage", "mark_initializing", "initialize",
                   "await_attached", "undo", "undo_mark"}
TouchesOnly(q) ==
  \A i \in 1 .. Len(q) : q[i].op = "touch" /\ q[i].step = "start"
FirstPart ==
  NoneConnected =>
    /\ \A n \in Nodes : TouchesOnly(line[n])
    /\ status \in StartupStatuses \cup Terminal
    /\ \A w \in Workers :
         /\ run[w].flow \in {"none", "start", "read"}
         /\ run[w].flow = "start" =>
              run[w].pc \in BeforeAttach \cup {"terminal_usage"}
    /\ \/ status \in Terminal
       \/ \E w \in Workers : run[w].flow = "start" /\ run[w].pc \in BeforeAttach

\* The start run begins with a pending row.
Beginning(r) == r.flow = "start" /\ r.pc \in {"prepare", "mark_starting"}
BeginPart == \A w \in Workers : Beginning(run[w]) => status = "pending"

\* The tunnel of lease l is no longer one that an idle run would stop.
Passed(l) ==
  \/ ~Open(l) \/ ~Current(l)
  \/ attachment # l /\ session[l].activation # "upsert"

\* Nothing is attached, nor will be before another tunnel connects.
Sealed ==
  /\ attachment = NoLease
  /\ \A l \in Leases : /\ ~Open(l) /\ ~session[l].writing
                       /\ session[l].activation # "upsert"

\* A tunnel newer than that of lease l has connected.
Replaced(l) == \E k \in Leases : l < k /\ Connected(k)

\* The run r is that of the deadline run j.
Carries(r, j) ==
  r.flow = j.kind /\ r.lease = j.lease /\ r.generation = j.generation

\* What became of a deadline run that was taken up.
Handled(j) ==
  \/ j \in engine.failed
  \/ \E w \in Workers : Carries(run[w], j)
  \/ ~CurrentRun(j)
  \/ status \in Terminal
  \/ j.kind = "idle" /\ Passed(j.lease)
  \/ j.kind = "disconnect" /\ Replaced(j.lease)
DonePart == \A j \in engine.taken : Handled(j)

\* A disconnect run finds nothing attached, unless a newer tunnel connected.
GonePart ==
  \A w \in Workers : run[w].flow = "disconnect" =>
    /\ Connected(run[w].lease)
    /\ Replaced(run[w].lease) \/ (run[w].saw = NoLease /\ Sealed)

WatchInv ==
  /\ Inv /\ GenerationsIdentifyLeases /\ AgreeInv
  /\ QuietPart /\ TunnelInv /\ FirstPart /\ BeginPart /\ DonePart /\ GonePart

-----------------------------------------------------------------------------
(* What a step of the gateway leads to. *)

\* What has ended has ended.
EndKept == status \in Terminal => status' \in Terminal

\* What was enqueued stays, and what a run was superseded by stays.
JobsOnward ==
  /\ jobs \subseteq jobs'
  /\ \A j \in jobs : CurrentRun(j)' => CurrentRun(j)

\* Tunnels only connect and close, and their attachments are written once.
Closing ==
  \A l \in Leases :
    /\ Connected(l) => Connected(l)' /\ (~Open(l) => ~Open(l)')
    /\ Landed(l) => Landed(l)'

\* A tunnel that was passed stays so, and a sealed instance too until another
\* tunnel connects.
Onward ==
  /\ Closing /\ JobsOnward
  /\ \A l \in Leases : Landed(l) /\ Passed(l) => Passed(l)'
  /\ Sealed => \/ Sealed'
               \/ \E k \in Leases : /\ Connected(k)'
                                    /\ \A l \in Leases : Connected(l) => l < k

-----------------------------------------------------------------------------
(* The deadlines and their runs. *)

\* What is known of a run stays known.
LEMMA JobKept ==
  ASSUME GatewayInv, Closing, NEW j \in jobs, JobOK(j)
  PROVE  JobOK(j)'
<1>1. j.lease \in Leases
  BY DEF GatewayInv, DeadlinePart, Jobs
<1> QED BY <1>1 DEF JobOK, Closing, Landed

\* No deadline changes.
LEMMA JobsSame ==
  ASSUME GatewayInv, JobPart, Closing, UNCHANGED <<deadline, jobs>>
  PROVE  JobsOnward /\ JobPart'
<1>1. \A j \in jobs' : JobOK(j)'
  BY JobKept DEF JobPart
<1>2. \A k \in DeadlineKinds : deadline'[k].armed => JobOf(k)' \in jobs'
  BY DEF JobPart, JobOf
<1> QED BY <1>1, <1>2 DEF JobPart, JobsOnward, CurrentRun

\* A deadline is put: a generation that is new is that of no earlier run.
LEMMA JobsPut ==
  ASSUME GatewayInv, GenerationsIdentifyLeases, JobPart, Closing,
         NEW k \in DeadlineKinds, NEW l \in Leases, PutDeadline(k, l),
         Landed(l)',
         k = "disconnect" => /\ ~Open(l)'
                             /\ \A i \in Leases : i <= l => Landed(i)'
  PROVE  JobsOnward /\ JobPart'
<1>1. PICK d \in NextDeadlines(k, l) :
        /\ deadline' = [deadline EXCEPT ![k] = d]
        /\ jobs' = jobs \cup
             {[kind |-> k, lease |-> l, generation |-> d.generation]}
  BY DEF PutDeadline
<1>2. deadline \in Deadlines /\ jobs \subseteq Jobs
  BY DEF GatewayInv, DeadlinePart
<1> DEFINE new == [kind |-> k, lease |-> l, generation |-> d.generation]
           next == [lease |-> l, generation |-> deadline[k].generation + 1,
                    armed |-> TRUE]
<1>3. d = next \/ (d = deadline[k] /\ d.armed /\ d.lease = l)
  BY DEF NextDeadlines
<1>4. /\ next.lease = l /\ next.armed
      /\ next.generation = deadline[k].generation + 1
  OBVIOUS
<1> HIDE DEF next
<1>5. d.lease = l /\ d.armed
  BY <1>3, <1>4
<1>6. /\ deadline'[k] = d
      /\ \A i \in DeadlineKinds : i # k => deadline'[i] = deadline[i]
  BY <1>1, <1>2 DEF Deadlines
<1>7. \A i \in DeadlineKinds : deadline'[i].armed => JobOf(i)' \in jobs'
  <2> SUFFICES ASSUME NEW i \in DeadlineKinds, deadline'[i].armed
               PROVE  JobOf(i)' \in jobs'
    OBVIOUS
  <2>1. CASE i = k
    BY <1>1, <1>5, <1>6, <2>1 DEF JobOf
  <2>2. CASE i # k
    <3>1. deadline'[i] = deadline[i]
      BY <1>6, <2>2
    <3>2. JobOf(i)' = JobOf(i)
      BY <3>1 DEF JobOf
    <3> QED BY <1>1, <3>1, <3>2 DEF JobPart
  <2> QED BY <2>1, <2>2
<1>8. \A j \in jobs' : JobOK(j)'
  <2>1. \A j \in jobs : JobOK(j)'
    BY JobKept DEF JobPart
  <2>2. new.kind = k /\ new.lease = l
    OBVIOUS
  <2> HIDE DEF new
  <2>3. JobOK(new)'
    BY <2>2 DEF JobOK
  <2> QED BY <1>1, <2>1, <2>3 DEF new
<1>9. ASSUME NEW j \in jobs, CurrentRun(j)' PROVE CurrentRun(j)
  <2>1. j.kind \in DeadlineKinds /\ j.generation \in Nat
    BY <1>2 DEF Jobs
  <2>2. CASE j.kind # k
    BY <1>6, <1>9, <2>1, <2>2 DEF CurrentRun
  <2>3. CASE j.kind = k /\ d = deadline[k]
    BY <1>6, <1>9, <2>3 DEF CurrentRun
  <2>4. CASE j.kind = k /\ d = next
    <3>1. j.generation <= deadline[k].generation /\ deadline[k].generation \in Nat
      BY <1>2, <2>4 DEF GenerationsIdentifyLeases, Deadlines
    <3>2. deadline'[k] = [lease |-> j.lease, generation |-> j.generation,
                           armed |-> TRUE]
      BY <1>9, <2>4 DEF CurrentRun
    <3>3. deadline'[k].generation = j.generation
      BY <3>2
    <3>4. j.generation = deadline[k].generation + 1
      BY <1>4, <1>6, <2>4, <3>3
    <3> QED BY <2>1, <3>1, <3>4
  <2> QED BY <1>3, <2>2, <2>3, <2>4
<1> QED BY <1>1, <1>7, <1>8, <1>9 DEF JobsOnward, JobPart

\* A deadline is cleared, or both are.
LEMMA JobsCleared ==
  ASSUME GatewayInv, JobPart, Closing, jobs' = jobs,
         \A k \in DeadlineKinds :
           \/ deadline'[k] = deadline[k] \/ ~deadline'[k].armed
  PROVE  JobsOnward /\ JobPart'
<1>1. \A j \in jobs' : JobOK(j)'
  BY JobKept DEF JobPart
<1>2. \A k \in DeadlineKinds : deadline'[k].armed => JobOf(k)' \in jobs'
  BY DEF JobPart, JobOf
<1>3. ASSUME NEW j \in jobs, CurrentRun(j)' PROVE CurrentRun(j)
  <2>1. j.kind \in DeadlineKinds
    BY DEF GatewayInv, DeadlinePart, Jobs
  <2>2. deadline'[j.kind] = [lease |-> j.lease, generation |-> j.generation,
                             armed |-> TRUE]
    BY <1>3 DEF CurrentRun
  <2>3. deadline'[j.kind].armed
    BY <2>2
  <2> QED BY <2>1, <2>2, <2>3 DEF CurrentRun
<1> QED BY <1>1, <1>2, <1>3 DEF JobsOnward, JobPart

-----------------------------------------------------------------------------
(* Steps of the gateway that neither open nor close a tunnel. *)

\* What a step may do to a session other than to open or to close it.
Steady ==
  /\ \A l \in Leases :
       /\ session'[l].socket = session[l].socket
       /\ session[l].activation # "upsert" => session'[l].activation # "upsert"
       /\ session[l].activation = "renewing" =>
            session'[l].activation = "renewing"
       /\ session'[l].writing =>
            session[l].writing \/ (Open(l) /\ session[l].activation = "renewing")
  /\ peer' = peer

\* It keeps what is open and what has landed.
LEMMA SteadyCloses ==
  ASSUME Steady
  PROVE  Closing
  BY DEF Steady, Closing, Connected, Landed, Open

\* The operation under way is the same, or one that has yet to begin, or an
\* operation other than a touch and a detach; a detach may have gone on.
HeadKept(q, p) ==
  \/ p = <<>> \/ Head(p).step = "start" \/ Head(p).op \notin {"touch", "detach"}
  \/ q # <<>> /\ Head(p) = Head(q)
  \/ /\ Midway(q) /\ Head(p).op = "detach" /\ Head(p).lease = Head(q).lease

\* What is known of the lease of the operation under way stays known.
LEMMA HeadKeeps ==
  ASSUME HeadPart, Closing, \A n \in Nodes : HeadKept(line[n], line'[n])
  PROVE  HeadPart'
<1> SUFFICES ASSUME NEW n \in Nodes, NEW l \in Leases, line'[n] # <<>>,
                    Lease(n)' = l
             PROVE  /\ At(n, "touch", "put_idle")' => Landed(l)'
                    /\ Midway(line'[n]) =>
                         \A k \in Leases : k <= l => Landed(k)'
  BY DEF HeadPart
<1>1. CASE Head(line'[n]).step = "start"
  BY <1>1 DEF At, Midway
<1>2. CASE Head(line'[n]).op \notin {"touch", "detach"}
  BY <1>2 DEF At, Midway
<1>3. CASE line[n] # <<>> /\ Head(line'[n]) = Head(line[n])
  <2>1. Lease(n) = l /\ (At(n, "touch", "put_idle")' => At(n, "touch", "put_idle"))
        /\ (Midway(line'[n]) => Midway(line[n]))
    BY <1>3 DEF Lease, At, Midway
  <2> QED BY <1>3, <2>1 DEF HeadPart, Closing
<1>4. CASE /\ Midway(line[n]) /\ Head(line'[n]).op = "detach"
           /\ Head(line'[n]).lease = Head(line[n]).lease
  <2>1. Lease(n) = l /\ line[n] # <<>> /\ ~At(n, "touch", "put_idle")'
    BY <1>4 DEF Lease, At, Midway
  <2> QED BY <1>4, <2>1 DEF HeadPart, Closing
<1> QED BY <1>1, <1>2, <1>3, <1>4 DEF HeadKept

\* A step that is steady, writes an attachment only where one is due, and leaves
\* the detach that waits and the disconnect deadline alone.
LEMMA SteadyKeeps ==
  ASSUME AgreeInv, TunnelInv, GatewayInv', Steady,
         \A l \in Leases : attachment' = l =>
           \/ attachment = l
           \/ session[l].activation = "upsert" /\ session'[l].activation # "upsert"
           \/ session[l].writing,
         EndKept,
         \A n \in Nodes : \A p \in Leases :
           peer[n] = p /\ Waiting(line[n], p) => Waiting(line'[n], p),
         \A n \in Nodes :
           Midway(line'[n]) => Midway(line[n]) \/ peer[n] # NoLease,
         \/ status' \in Terminal
         \/ deadline'["disconnect"] = deadline["disconnect"],
         HeadPart', JobsOnward, JobPart'
  PROVE  Onward /\ TunnelInv'
<1>1. Closing
  BY SteadyCloses
<1>2. /\ \A l \in Leases : session[l].node \in Nodes /\ session'[l].node \in Nodes
      /\ \A l \in Leases : session'[l].node = session[l].node
  BY DEF AgreeInv, LinkPart, OneNode, GatewayInv, SessionPart, Sessions
<1>3. \A l \in Leases : /\ Connected(l)' <=> Connected(l)
                        /\ Open(l)' <=> Open(l)
                        /\ Current(l)' <=> Current(l)
  BY <1>2 DEF Steady, Connected, Open, Current
<1>4. \A p \in Leases : Newest(p)' <=> Newest(p)
  BY <1>3 DEF Newest
<1>5. PeerPart'
  BY <1>3, <1>4 DEF TunnelInv, PeerPart
<1>6. ClosedPart'
  <2> SUFFICES ASSUME NEW p \in Leases, Newest(p)', ~Open(p)',
                      status' \notin Terminal
               PROVE  \/ \E n \in Nodes : peer'[n] = p /\ Waiting(line'[n], p)
                      \/ Disconnected(p)'
    BY DEF ClosedPart
  <2>1. \/ \E n \in Nodes : peer[n] = p /\ Waiting(line[n], p)
        \/ Disconnected(p)
    BY <1>3, <1>4 DEF TunnelInv, ClosedPart, EndKept
  <2>2. CASE \E n \in Nodes : peer[n] = p /\ Waiting(line[n], p)
    BY <2>2 DEF Steady
  <2>3. CASE Disconnected(p)
    BY <2>3 DEF Disconnected, Steady
  <2> QED BY <2>1, <2>2, <2>3
<1>7. LandPart'
  <2>1. ASSUME NEW l \in Leases, session'[l].writing
        PROVE  session'[l].activation = "renewing"
    BY <2>1 DEF Steady, TunnelInv, LandPart
  <2>2. ASSUME NEW l \in Leases, attachment' = l
        PROVE  Landed(l)'
    <3>1. session[l].writing => session[l].activation = "renewing"
      BY DEF TunnelInv, LandPart
    <3>2. session[l].activation # "off" => Connected(l)
      BY DEF AgreeInv, LinkPart, ConnectPart, Connected
    <3>3. attachment = l => Landed(l)
      BY DEF TunnelInv, LandPart
    <3> QED BY <1>1, <1>3, <2>2, <3>1, <3>2, <3>3 DEF Closing, Landed
  <2> QED BY <2>1, <2>2 DEF LandPart
<1>8. ASSUME NEW l \in Leases, Landed(l), Passed(l)
      PROVE  Passed(l)'
  <2>1. session[l].activation # "upsert" /\ session'[l].activation # "upsert"
    BY <1>8 DEF Landed, Steady
  <2>2. CASE Open(l) /\ Current(l)
    <3>1. attachment # l
      BY <1>8, <2>1, <2>2 DEF Passed
    <3>2. ~session[l].writing
      BY <2>2, <3>1 DEF AgreeInv, LinkPart, WritePart
    <3> QED BY <2>1, <3>1, <3>2 DEF Passed
  <2>3. CASE ~(Open(l) /\ Current(l))
    BY <1>3, <2>3 DEF Passed
  <2> QED BY <2>2, <2>3
<1>9. Sealed => Sealed'
  <2> SUFFICES ASSUME Sealed PROVE Sealed'
    OBVIOUS
  <2>1. \A l \in Leases : /\ ~Open(l)' /\ ~session'[l].writing
                          /\ session'[l].activation # "upsert"
    BY <1>3 DEF Sealed, Steady
  <2>2. \A l \in Leases : attachment' # l
    BY DEF Sealed, Leases, NoLease
  <2>3. attachment' = NoLease
    BY <2>2, LeaseFacts DEF GatewayInv, RowPart
  <2> QED BY <2>1, <2>3 DEF Sealed
<1> QED BY <1>1, <1>5, <1>6, <1>7, <1>8, <1>9 DEF Onward, TunnelInv

-----------------------------------------------------------------------------
(* The detach that waits in the queue. *)

\* What is added waits behind what is there.
LEMMA EnqueueWaits ==
  ASSUME LinkPart, NEW n \in Nodes, NEW o, NEW l, Enqueue(n, o, l)
  PROVE  \A m \in Nodes :
           /\ HeadKept(line[m], line'[m])
           /\ Midway(line'[m]) => Midway(line[m])
           /\ \A p \in Leases : Waiting(line[m], p) => Waiting(line'[m], p)
           /\ o = "detach" => Waiting(line'[m], l)
<1> DEFINE q == line[n]
           e == Op(o, l)
           p == Append(q, e)
<1>1. line \in Lines
  BY DEF LinkPart, GatewayInv, LinePart
<1>2. q \in Seq(OpRecords) /\ line'[n] = p
  BY <1>1 DEF Enqueue, Lines
<1>3. e.op = o /\ e.lease = l /\ e.step = "start"
  BY DEF Op
<1> HIDE DEF e
<1>4. /\ Len(p) = Len(q) + 1 /\ Len(q) \in Nat /\ p[Len(q) + 1] = e
      /\ \A i \in 1 .. Len(q) : p[i] = q[i]
      /\ q = <<>> => Head(p) = e
      /\ q # <<>> => Head(p) = Head(q)
  BY <1>2
<1> HIDE DEF p, q
<1>5. HeadKept(q, p) /\ (Midway(p) => Midway(q))
  BY <1>3, <1>4 DEF HeadKept, Midway
<1>6. \A i \in 1 .. Len(q) : i \in 1 .. Len(p)
  BY <1>4
<1>7. \A k \in Leases : Waiting(q, k) => Waiting(p, k)
  BY <1>4, <1>6 DEF Waiting
<1>8. o = "detach" => Waiting(p, l)
  <2>1. Len(q) + 1 \in 1 .. Len(p)
    BY <1>4
  <2> QED BY <1>3, <1>4, <2>1 DEF Waiting
<1> QED BY <1>2, <1>5, <1>7, <1>8 DEF LinkPart, OneNode, q

\* When an operation is over, all that waits is the rest.
LEMMA DoneWaits ==
  ASSUME LinkPart, NEW n \in Nodes, line[n] # <<>>, Done(n)
  PROVE  \A m \in Nodes :
           /\ HeadKept(line[m], line'[m])
           /\ ~Midway(line'[m])
           /\ \A p \in Leases :
                Waiting(line[m], p) =>
                  \/ Waiting(line'[m], p)
                  \/ Head(line[n]).op = "detach" /\ Head(line[n]).lease = p
<1>1. \A m \in Nodes :
        /\ line'[m] = Tail(line[m])
        /\ line'[m] # <<>> => Head(line'[m]).step = "start"
  BY DoneQueue
<1>2. \A m \in Nodes : HeadKept(line[m], line'[m]) /\ ~Midway(line'[m])
  BY <1>1 DEF HeadKept, Midway
<1>3. ASSUME NEW p \in Leases, Waiting(line[n], p)
      PROVE  \/ Waiting(line'[n], p)
             \/ Head(line[n]).op = "detach" /\ Head(line[n]).lease = p
  <2> DEFINE q == line[n]
  <2>1. q \in Seq(OpRecords) /\ line'[n] = Tail(q) /\ q # <<>>
    BY <1>1 DEF LinkPart, GatewayInv, LinePart, Lines
  <2>2. PICK i \in 1 .. Len(q) : q[i].op = "detach" /\ q[i].lease = p
    BY <1>3 DEF Waiting
  <2> HIDE DEF q
  <2>3. CASE i = 1
    <3>1. Head(q) = q[1]
      BY <2>1
    <3> QED BY <2>2, <2>3, <3>1 DEF q
  <2>4. CASE i # 1
    <3>1. i - 1 \in 1 .. Len(Tail(q)) /\ Tail(q)[i - 1] = q[i]
      BY <2>1, <2>4
    <3> QED BY <2>1, <2>2, <3>1 DEF Waiting
  <2> QED BY <2>3, <2>4
<1> QED BY <1>2, <1>3 DEF LinkPart, OneNode

\* When it goes on, the queue has the same operations.
LEMMA ProceedWaits ==
  ASSUME LinkPart, NEW n \in Nodes, line[n] # <<>>, NEW s \in OpSteps,
         Proceed(n, s)
  PROVE  \A m \in Nodes :
           /\ line'[m] # <<>> /\ Head(line'[m]).op = Head(line[m]).op
           /\ Head(line'[m]).lease = Head(line[m]).lease
           /\ Head(line'[m]).step = s
           /\ \A p \in Leases : Waiting(line[m], p) => Waiting(line'[m], p)
<1> DEFINE q == line[n]
           h == [q[1] EXCEPT !.step = s]
           r == [q EXCEPT ![1] = h]
<1>1. line \in Lines
  BY DEF LinkPart, GatewayInv, LinePart
<1>2. /\ q \in Seq(OpRecords) /\ q[1] \in OpRecords /\ Head(q) = q[1]
      /\ 1 \in DOMAIN q /\ line'[n] = r /\ q # <<>>
  BY <1>1 DEF Proceed, Lines
<1>3. h.step = s /\ h.op = q[1].op /\ h.lease = q[1].lease
  BY <1>2 DEF OpRecords
<1> HIDE DEF h
<1>4. /\ Len(r) = Len(q) /\ r[1] = h /\ r # <<>> /\ Head(r) = h
      /\ \A i \in 1 .. Len(q) : i # 1 => r[i] = q[i]
  BY <1>2
<1> HIDE DEF r, q
<1>5. \A i \in 1 .. Len(q) : r[i].op = q[i].op /\ r[i].lease = q[i].lease
  BY <1>3, <1>4
<1>6. \A p \in Leases : Waiting(q, p) => Waiting(r, p)
  BY <1>4, <1>5 DEF Waiting
<1> QED BY <1>2, <1>3, <1>4, <1>6 DEF LinkPart, OneNode, q

-----------------------------------------------------------------------------
(* The steps of the coordinator. *)

\* The deadlines and the sessions stay as they are.
LEMMA RoutineKeeps ==
  ASSUME AgreeInv, TunnelInv, GatewayInv', EndKept,
         session' = session, peer' = peer, UNCHANGED <<deadline, jobs>>,
         attachment' \in {attachment, NoLease},
         \A n \in Nodes : \A p \in Leases :
           peer[n] = p /\ Waiting(line[n], p) => Waiting(line'[n], p),
         \A n \in Nodes :
           Midway(line'[n]) => Midway(line[n]) \/ peer[n] # NoLease,
         HeadPart'
  PROVE  Onward /\ TunnelInv'
<1>1. Steady
  BY DEF Steady
<1>2. JobsOnward /\ JobPart'
  BY <1>1, SteadyCloses, JobsSame DEF TunnelInv, AgreeInv, LinkPart
<1>3. \A l \in Leases : attachment' = l => attachment = l
  BY DEF Leases, NoLease
<1> QED BY <1>1, <1>2, <1>3, SteadyKeeps

\* An operation other than a detach is queued.
LEMMA SignalKeeps ==
  ASSUME AgreeInv, TunnelInv, GatewayInv', NEW n \in Nodes, NEW o, NEW l,
         Enqueue(n, o, l), UNCHANGED <<rowVars, session, peer>>
  PROVE  Onward /\ TunnelInv'
<1>1. \A m \in Nodes :
        /\ HeadKept(line[m], line'[m])
        /\ Midway(line'[m]) => Midway(line[m])
        /\ \A p \in Leases : Waiting(line[m], p) => Waiting(line'[m], p)
  BY EnqueueWaits DEF AgreeInv
<1>2. Closing
  BY DEF Closing, Connected, Landed, Open
<1>3. HeadPart'
  BY <1>1, <1>2, HeadKeeps DEF TunnelInv
<1> QED BY <1>1, <1>3, RoutineKeeps DEF rowVars, EndKept

\* An operation is over that was not the detach of the peer.
LEMMA OverKeeps ==
  ASSUME AgreeInv, TunnelInv, GatewayInv', EndKept, NEW n \in Nodes,
         line[n] # <<>>, Done(n), Head(line[n]).op # "detach" \/ peer[n] # Lease(n),
         session' = session, peer' = peer, UNCHANGED <<deadline, jobs>>,
         attachment' \in {attachment, NoLease}
  PROVE  Onward /\ TunnelInv'
<1>1. \A m \in Nodes :
        /\ HeadKept(line[m], line'[m])
        /\ ~Midway(line'[m])
        /\ \A p \in Leases : peer[m] = p /\ Waiting(line[m], p) =>
             Waiting(line'[m], p)
  BY DoneWaits DEF AgreeInv, LinkPart, OneNode, Lease
<1>2. Closing
  BY DEF Closing, Connected, Landed, Open
<1>3. HeadPart'
  BY <1>1, <1>2, HeadKeeps DEF TunnelInv
<1> QED BY <1>1, <1>3, RoutineKeeps

\* An operation goes on that is neither a touch nor a detach that begins.
LEMMA GoesOnKeeps ==
  ASSUME AgreeInv, TunnelInv, GatewayInv', EndKept, NEW n \in Nodes,
         line[n] # <<>>, NEW s \in OpSteps, Proceed(n, s),
         Head(line[n]).op \notin {"touch", "detach"} \/ Midway(line[n]),
         session' = session, peer' = peer, UNCHANGED <<deadline, jobs>>,
         attachment' \in {attachment, NoLease}
  PROVE  Onward /\ TunnelInv'
<1>1. \A m \in Nodes :
        /\ line'[m] # <<>> /\ Head(line'[m]).op = Head(line[m]).op
        /\ Head(line'[m]).lease = Head(line[m]).lease
        /\ \A p \in Leases : Waiting(line[m], p) => Waiting(line'[m], p)
  BY ProceedWaits DEF AgreeInv
<1>2. \A m \in Nodes :
        /\ HeadKept(line[m], line'[m])
        /\ Midway(line'[m]) => Midway(line[m])
  BY <1>1 DEF AgreeInv, LinkPart, OneNode, HeadKept, Midway
<1>3. Closing
  BY DEF Closing, Connected, Landed, Open
<1>4. HeadPart'
  BY <1>2, <1>3, HeadKeeps DEF TunnelInv
<1> QED BY <1>1, <1>2, <1>4, RoutineKeeps

\* The attach is over, given up or with the idle deadline armed.
LEMMA AttachedKeeps ==
  ASSUME AgreeInv, TunnelInv, GenerationsIdentifyLeases, GatewayInv', EndKept,
         NEW n \in Nodes, line[n] # <<>>, Head(line[n]).op = "attach",
         Done(n), Renewing(Lease(n)), peer' = peer, attachment' = attachment,
         UNCHANGED <<deadline, jobs>> \/ PutDeadline("idle", Lease(n))
  PROVE  Onward /\ TunnelInv'
<1>1. /\ Lease(n) \in Leases /\ Landed(Lease(n))
  BY UnderWay DEF AgreeInv, Landed, Connected
<1>2. \A k \in Leases :
        /\ session'[k].socket = session[k].socket
        /\ session'[k].writing = session[k].writing
        /\ session'[k].activation =
             IF k = Lease(n) THEN "renewing" ELSE session[k].activation
  BY <1>1, RenewingSession DEF AgreeInv, LinkPart, GatewayInv
<1>3. Steady
  BY <1>2 DEF Steady
<1>4. Closing
  BY <1>3, SteadyCloses
<1>5. \A m \in Nodes :
        /\ HeadKept(line[m], line'[m])
        /\ ~Midway(line'[m])
        /\ \A p \in Leases : Waiting(line[m], p) => Waiting(line'[m], p)
  BY DoneWaits DEF AgreeInv
<1>6. HeadPart'
  BY <1>4, <1>5, HeadKeeps DEF TunnelInv
<1>7. JobsOnward /\ JobPart'
  <2>1. CASE UNCHANGED <<deadline, jobs>>
    BY <1>4, <2>1, JobsSame DEF TunnelInv, AgreeInv, LinkPart
  <2>2. CASE PutDeadline("idle", Lease(n))
    <3>1. /\ \E l \in Leases : l = Lease(n) /\ PutDeadline("idle", l) /\ Landed(l)'
          /\ "idle" \in DeadlineKinds
      BY <1>1, <1>4, <2>2 DEF Closing, DeadlineKinds
    <3> QED BY <1>4, <3>1, JobsPut DEF TunnelInv, AgreeInv, LinkPart
  <2> QED BY <2>1, <2>2
<1>8. deadline'["disconnect"] = deadline["disconnect"]
  BY DEF PutDeadline, AgreeInv, LinkPart, GatewayInv, DeadlinePart, Deadlines,
         DeadlineKinds
<1> QED BY <1>3, <1>5, <1>6, <1>7, <1>8, SteadyKeeps

\* The detach begins. The writes of all sessions have landed.
LEMMA DetachStartKeeps ==
  ASSUME AgreeInv, TunnelInv, GatewayInv', EndKept, NEW n \in Nodes,
         DetachStart(n)
  PROVE  Onward /\ TunnelInv'
<1>1. /\ line[n] # <<>> /\ Head(line[n]).op = "detach" /\ session' = session
      /\ peer' = peer /\ UNCHANGED <<deadline, jobs>>
      /\ attachment' \in {attachment, NoLease}
  BY DEF DetachStart, At
<1>2. CASE peer[n] # Lease(n)
  BY <1>1, <1>2, OverKeeps DEF DetachStart
<1>3. CASE peer[n] = Lease(n)
  <2>1. Proceed(n, "clear_idle") /\ "clear_idle" \in OpSteps
    BY <1>3 DEF DetachStart, OpSteps
  <2>2. \A m \in Nodes :
          /\ line'[m] # <<>> /\ Head(line'[m]).op = "detach"
          /\ Head(line'[m]).lease = Lease(n)
          /\ \A p \in Leases : Waiting(line[m], p) => Waiting(line'[m], p)
    BY <1>1, <2>1, ProceedWaits DEF AgreeInv, LinkPart, OneNode, Lease
  <2>3. Lease(n) \in Leases
    BY AtLease DEF DetachStart, AgreeInv, LinkPart, GatewayInv
  <2>4. \A k \in Leases : k <= Lease(n) => Landed(k)
    <3>1. \A k \in Leases : session[k].activation # "upsert"
      BY SessionFacts DEF DetachStart, AllFlushed, AgreeInv, LinkPart, OneNode
    <3>2. Connected(Lease(n))
      BY <1>3, <2>3 DEF AgreeInv, LinkPart, ConnectPart, Connected, Leases,
         NoLease
    <3> QED BY <2>3, <3>1, <3>2
            DEF Landed, Connected, AgreeInv, LinkPart, ConnectPart, Leases
  <2>5. HeadPart'
    <3>1. \A m \in Nodes : ~At(m, "touch", "put_idle")' /\ Lease(m)' = Lease(n)
      BY <2>2 DEF At, Lease
    <3>2. \A k \in Leases : Landed(k)' <=> Landed(k)
      BY <1>1 DEF Landed, Connected
    <3> HIDE DEF Lease
    <3> QED BY <2>4, <3>1, <3>2 DEF HeadPart
  <2>6. \A m \in Nodes : peer[m] # NoLease
    BY <1>3, <2>3 DEF AgreeInv, LinkPart, OneNode, Leases, NoLease
  <2> QED BY <1>1, <2>2, <2>5, <2>6, RoutineKeeps
<1> QED BY <1>2, <1>3

\* The detach clears the idle deadline of its lease.
LEMMA DetachClearIdleKeeps ==
  ASSUME AgreeInv, TunnelInv, GatewayInv', NEW n \in Nodes, DetachClearIdle(n)
  PROVE  Onward /\ TunnelInv'
<1>1. /\ line[n] # <<>> /\ Midway(line[n]) /\ session' = session /\ peer' = peer
      /\ attachment' = attachment /\ status' = status /\ jobs' = jobs
      /\ Proceed(n, "judge") /\ "judge" \in OpSteps
      /\ DeleteDeadline("idle", Lease(n))
  BY DEF DetachClearIdle, At, Midway, OpSteps
<1>2. \A m \in Nodes :
        /\ line'[m] # <<>> /\ Head(line'[m]).op = Head(line[m]).op
        /\ Head(line'[m]).lease = Head(line[m]).lease
        /\ \A p \in Leases : Waiting(line[m], p) => Waiting(line'[m], p)
  BY <1>1, ProceedWaits DEF AgreeInv
<1>3. \A m \in Nodes : HeadKept(line[m], line'[m]) /\ Midway(line[m])
  BY <1>1, <1>2 DEF AgreeInv, LinkPart, OneNode, HeadKept, Midway
<1>4. Steady
  BY <1>1 DEF Steady
<1>5. Closing
  BY <1>4, SteadyCloses
<1>6. HeadPart'
  BY <1>3, <1>5, HeadKeeps DEF TunnelInv
<1>7. /\ deadline'["disconnect"] = deadline["disconnect"]
      /\ deadline'["idle"] = deadline["idle"] \/ ~deadline'["idle"].armed
  <2> DEFINE a == deadline["idle"].armed /\ deadline["idle"].lease # Lease(n)
             d == [deadline["idle"] EXCEPT !.armed = a]
  <2>1. deadline \in Deadlines /\ deadline["idle"] \in
          [lease : LeaseOrNone, generation : Nat, armed : BOOLEAN]
    BY DEF AgreeInv, LinkPart, GatewayInv, DeadlinePart, Deadlines, DeadlineKinds
  <2>2. deadline' = [deadline EXCEPT !["idle"] = d]
    BY <1>1 DEF DeleteDeadline
  <2>3. d.armed = a
    BY <2>1
  <2>4. a => d = deadline["idle"]
    BY <2>1
  <2> HIDE DEF d
  <2> QED BY <2>1, <2>2, <2>3, <2>4 DEF Deadlines, DeadlineKinds
<1>8. JobsOnward /\ JobPart'
  BY <1>1, <1>5, <1>7, JobsCleared
     DEF TunnelInv, AgreeInv, LinkPart, DeadlineKinds
<1> QED BY <1>1, <1>2, <1>3, <1>4, <1>6, <1>7, <1>8, SteadyKeeps DEF EndKept

\* A touch goes on for the lease that is attached.
LEMMA TouchStartKeeps ==
  ASSUME AgreeInv, TunnelInv, GatewayInv', NEW n \in Nodes, TouchStart(n)
  PROVE  Onward /\ TunnelInv'
<1>1. /\ line[n] # <<>> /\ Head(line[n]).op = "touch" /\ session' = session
      /\ peer' = peer /\ UNCHANGED rowVars
  BY DEF TouchStart, At
<1>2. EndKept
  BY <1>1 DEF EndKept, rowVars
<1>3. CASE attachment # NoLease /\ Lease(n) \in {NoLease, attachment}
  <2> DEFINE q == line[n]
             h == [q[1] EXCEPT !.lease = attachment, !.step = "put_idle"]
             r == [q EXCEPT ![1] = h]
  <2>1. /\ line \in Lines /\ q \in Seq(OpRecords) /\ q # <<>>
        /\ q[1] \in OpRecords /\ Head(q) = q[1] /\ 1 \in DOMAIN q
    BY <1>1 DEF AgreeInv, LinkPart, GatewayInv, LinePart, Lines
  <2>2. line' = [line EXCEPT ![n][1].lease = attachment,
                             ![n][1].step = "put_idle"]
    BY <1>3 DEF TouchStart
  <2>3. line'[n] = r
    BY <2>1, <2>2 DEF Lines
  <2>4. h.op = "touch" /\ h.lease = attachment /\ q[1].op = "touch"
    BY <1>1, <2>1 DEF OpRecords
  <2> HIDE DEF h
  <2>5. /\ Len(r) = Len(q) /\ r[1] = h /\ r # <<>> /\ Head(r) = h
        /\ \A i \in 1 .. Len(q) : i # 1 => r[i] = q[i]
    BY <2>1
  <2> HIDE DEF r, q
  <2>6. \A p \in Leases : Waiting(q, p) => Waiting(r, p)
    BY <2>4, <2>5 DEF Waiting
  <2>7. \A m \in Nodes :
          /\ line'[m] # <<>> /\ Head(line'[m]).op = "touch"
          /\ Head(line'[m]).lease = attachment
          /\ \A p \in Leases : Waiting(line[m], p) => Waiting(line'[m], p)
    BY <2>3, <2>4, <2>5, <2>6 DEF AgreeInv, LinkPart, OneNode, q
  <2>8. HeadPart'
    <3>1. \A m \in Nodes : ~Midway(line'[m]) /\ Lease(m)' = attachment
      BY <2>7 DEF Midway, Lease
    <3>2. \A l \in Leases : attachment = l => Landed(l)'
      BY <1>1 DEF TunnelInv, LandPart, Landed, Connected
    <3> HIDE DEF Lease
    <3> QED BY <3>1, <3>2 DEF HeadPart
  <2>9. \A m \in Nodes : ~Midway(line'[m])
    BY <2>7 DEF Midway
  <2> QED BY <1>1, <1>2, <2>7, <2>8, <2>9, RoutineKeeps DEF rowVars
<1>4. CASE ~(attachment # NoLease /\ Lease(n) \in {NoLease, attachment})
  <2>1. Done(n)
    BY <1>4 DEF TouchStart
  <2> QED BY <1>1, <1>2, <2>1, OverKeeps DEF rowVars
<1> QED BY <1>3, <1>4

\* And arms the idle deadline for it.
LEMMA TouchPutIdleKeeps ==
  ASSUME AgreeInv, TunnelInv, GenerationsIdentifyLeases, GatewayInv',
         NEW n \in Nodes, TouchPutIdle(n)
  PROVE  Onward /\ TunnelInv'
<1>1. /\ line[n] # <<>> /\ Head(line[n]).op = "touch" /\ session' = session
      /\ peer' = peer /\ attachment' = attachment /\ status' = status /\ Done(n)
      /\ PutDeadline("idle", Lease(n)) /\ At(n, "touch", "put_idle")
  BY DEF TouchPutIdle, At
<1>2. Lease(n) \in Leases
  BY <1>1, AtLease DEF AgreeInv, LinkPart, GatewayInv
<1>3. Steady
  BY <1>1 DEF Steady
<1>4. Closing
  BY <1>3, SteadyCloses
<1>5. \A m \in Nodes :
        /\ HeadKept(line[m], line'[m])
        /\ ~Midway(line'[m])
        /\ \A p \in Leases : Waiting(line[m], p) => Waiting(line'[m], p)
  BY <1>1, DoneWaits DEF AgreeInv
<1>6. HeadPart'
  BY <1>4, <1>5, HeadKeeps DEF TunnelInv
<1>7. /\ \E l \in Leases : l = Lease(n) /\ PutDeadline("idle", l) /\ Landed(l)'
      /\ "idle" \in DeadlineKinds
  BY <1>1, <1>2, <1>4 DEF Closing, DeadlineKinds, TunnelInv, HeadPart
<1>8. JobsOnward /\ JobPart'
  BY <1>4, <1>7, JobsPut DEF TunnelInv, AgreeInv, LinkPart
<1>9. deadline'["disconnect"] = deadline["disconnect"]
  BY <1>1 DEF PutDeadline, AgreeInv, LinkPart, GatewayInv, DeadlinePart,
     Deadlines, DeadlineKinds
<1> QED BY <1>1, <1>3, <1>5, <1>6, <1>8, <1>9, SteadyKeeps DEF EndKept

\* The detach arms the disconnect deadline and removes the peer, if that is
\* still its lease.
LEMMA DetachPutDisconnectKeeps ==
  ASSUME AgreeInv, TunnelInv, GenerationsIdentifyLeases, GatewayInv',
         NEW n \in Nodes, DetachPutDisconnect(n)
  PROVE  Onward /\ TunnelInv'
<1>0. PICK l \in Leases : l = Lease(n)
  BY AtLease DEF DetachPutDisconnect, AgreeInv, LinkPart, GatewayInv
<1>1. /\ line[n] # <<>> /\ Head(line[n]).op = "detach" /\ Midway(line[n])
      /\ session' = session /\ attachment' = attachment /\ status' = status
      /\ Done(n) /\ PutDeadline("disconnect", l)
      /\ peer' = [peer EXCEPT ![n] = IF peer[n] = l THEN NoLease ELSE peer[n]]
      /\ At(n, "detach", "put_disconnect")
  BY <1>0 DEF DetachPutDisconnect, At, Midway
<1>2. l # NoLease
  BY DEF Leases, NoLease
<1>3. ~Open(l)
  <2>1. line[n] \in Seq(OpRecords) /\ QueueOK(line[n], session)
    BY SessionFacts DEF AgreeInv
  <2>2. 1 \in 1 .. Len(line[n]) /\ Head(line[n]) = line[n][1]
    BY <1>1, <2>1
  <2> QED BY <1>0, <1>1, <2>1, <2>2 DEF QueueOK, Open, Lease
<1>4. \A k \in Leases : k <= l => Landed(k)
  BY <1>0, <1>1 DEF TunnelInv, HeadPart
<1>5. \A m \in Nodes : m = n /\ peer'[m] = IF peer[m] = l THEN NoLease ELSE peer[m]
  BY <1>1 DEF AgreeInv, LinkPart, OneNode, GatewayInv, SessionPart
<1>6. \A k \in Leases :
        /\ Connected(k)' <=> Connected(k)
        /\ Open(k)' <=> Open(k)
        /\ Landed(k)' <=> Landed(k)
        /\ session[k].node \in Nodes
  BY <1>1, SessionFacts DEF Connected, Open, Landed, AgreeInv
<1>7. \A k \in Leases :
        /\ Current(k)' => Current(k)
        /\ k # l => (Current(k)' <=> Current(k))
  BY <1>1, <1>5, <1>6 DEF Current, Leases, NoLease
<1>8. Closing
  BY <1>6 DEF Closing
<1>9. \A m \in Nodes :
        /\ HeadKept(line[m], line'[m])
        /\ ~Midway(line'[m])
        /\ \A p \in Leases :
             Waiting(line[m], p) => Waiting(line'[m], p) \/ l = p
  BY <1>0, <1>1, DoneWaits DEF AgreeInv, Lease
<1>10. HeadPart'
  BY <1>8, <1>9, HeadKeeps DEF TunnelInv
<1>11. JobsOnward /\ JobPart'
  <2>1. /\ Landed(l)' /\ ~Open(l)' /\ \A i \in Leases : i <= l => Landed(i)'
        /\ "disconnect" \in DeadlineKinds
    <3>1. l <= l
      BY <1>2 DEF Leases
    <3> QED BY <1>2, <1>3, <1>4, <1>6, <3>1 DEF DeadlineKinds
  <2>2. GatewayInv /\ JobPart
    BY DEF TunnelInv, AgreeInv, LinkPart
  <2> QED BY <1>1, <1>2, <1>8, <2>1, <2>2, JobsPut
<1>12. PeerPart'
  BY <1>3, <1>6, <1>7 DEF TunnelInv, PeerPart, Newest
<1>13. ClosedPart'
  <2> SUFFICES ASSUME NEW p \in Leases, Newest(p)', ~Open(p)',
                      status' \notin Terminal
               PROVE  \/ \E m \in Nodes : peer'[m] = p /\ Waiting(line'[m], p)
                      \/ Disconnected(p)'
    BY DEF ClosedPart
  <2>1. \E m \in Nodes : peer[m] = p /\ Waiting(line[m], p)
    BY <1>1, <1>6 DEF TunnelInv, ClosedPart, Newest, Disconnected
  <2>2. CASE l = p
    <3>1. deadline'["disconnect"].armed /\ deadline'["disconnect"].lease = l
      BY <1>1, <1>2
         DEF AgreeInv, LinkPart, GatewayInv, DeadlinePart, Deadlines,
             PutDeadline, NextDeadlines, DeadlineKinds
    <3>2. \A m \in Nodes : peer'[m] = NoLease
      BY <1>5, <2>1, <2>2
    <3> QED BY <1>9, <2>2, <3>1, <3>2 DEF Disconnected
  <2>3. CASE l # p
    BY <1>5, <1>9, <2>1, <2>3
  <2> QED BY <2>2, <2>3
<1>14. LandPart'
  BY <1>1, <1>6 DEF TunnelInv, LandPart
<1>15. \A k \in Leases : Passed(k) => Passed(k)'
  BY <1>1, <1>6, <1>7 DEF Passed
<1>16. Sealed => Sealed'
  BY <1>1, <1>6 DEF Sealed
<1> QED BY <1>8, <1>10, <1>11, <1>12, <1>13, <1>14, <1>15, <1>16
        DEF Onward, TunnelInv

-----------------------------------------------------------------------------
(* The steps of the sessions. *)

\* The attachment is written, and its attach operation waits.
LEMMA UpsertAttachmentKeeps ==
  ASSUME AgreeInv, TunnelInv, GatewayInv', NEW l \in Leases, UpsertAttachment(l)
  PROVE  Onward /\ TunnelInv'
<1>1. /\ session[l].activation = "upsert" /\ attachment' = l
      /\ session' = [session EXCEPT ![l].activation = "queued"]
      /\ Enqueue(session[l].node, "attach", l) /\ peer' = peer
      /\ status' = status /\ UNCHANGED <<deadline, jobs>>
  BY DEF UpsertAttachment
<1>2. \A k \in Leases :
        /\ session'[k].socket = session[k].socket
        /\ session'[k].writing = session[k].writing
        /\ session'[k].activation =
             IF k = l THEN "queued" ELSE session[k].activation
  BY <1>1, SessionFacts DEF AgreeInv, Sessions
<1>3. Steady
  BY <1>1, <1>2 DEF Steady
<1>4. Closing
  BY <1>3, SteadyCloses
<1>5. PICK n \in Nodes : n = session[l].node
  BY SessionFacts DEF AgreeInv
<1>6. \A m \in Nodes :
        /\ HeadKept(line[m], line'[m])
        /\ Midway(line'[m]) => Midway(line[m])
        /\ \A p \in Leases : Waiting(line[m], p) => Waiting(line'[m], p)
  BY <1>1, <1>5, EnqueueWaits DEF AgreeInv
<1>7. HeadPart'
  BY <1>4, <1>6, HeadKeeps DEF TunnelInv
<1>8. JobsOnward /\ JobPart'
  BY <1>1, <1>4, JobsSame DEF TunnelInv, AgreeInv, LinkPart
<1>9. \A k \in Leases : attachment' = k =>
        session[k].activation = "upsert" /\ session'[k].activation # "upsert"
  BY <1>1, <1>2
<1> QED BY <1>1, <1>3, <1>6, <1>7, <1>8, <1>9, SteadyKeeps DEF EndKept

\* A renewal reads, or writes.
LEMMA RenewKeeps ==
  ASSUME AgreeInv, TunnelInv, GatewayInv', NEW l \in Leases,
         RenewRead(l) \/ RenewWrite(l)
  PROVE  Onward /\ TunnelInv'
<1>1. /\ line' = line /\ peer' = peer /\ status' = status
      /\ UNCHANGED <<deadline, jobs>>
  BY DEF RenewRead, RenewWrite, rowVars
<1>2. \A k \in Leases :
        /\ session'[k].socket = session[k].socket
        /\ session'[k].activation = session[k].activation
        /\ session'[k].writing =>
             session[k].writing \/ (Open(k) /\ session[k].activation = "renewing")
  <2>1. CASE RenewRead(l)
    BY <2>1, SessionFacts DEF AgreeInv, Sessions, RenewRead
  <2>2. CASE RenewWrite(l)
    BY <2>2, SessionFacts DEF AgreeInv, Sessions, RenewWrite
  <2> QED BY <2>1, <2>2
<1>3. Steady
  BY <1>1, <1>2 DEF Steady
<1>4. Closing
  BY <1>3, SteadyCloses
<1>5. \A m \in Nodes : HeadKept(line[m], line'[m])
  BY <1>1 DEF HeadKept
<1>6. HeadPart'
  BY <1>4, <1>5, HeadKeeps DEF TunnelInv
<1>7. JobsOnward /\ JobPart'
  BY <1>1, <1>4, JobsSame DEF TunnelInv, AgreeInv, LinkPart
<1>8. \A k \in Leases : attachment' = k => attachment = k \/ session[k].writing
  BY DEF RenewRead, RenewWrite, rowVars
<1> QED BY <1>1, <1>3, <1>6, <1>7, <1>8, SteadyKeeps DEF EndKept

\* An attachment that nobody renews runs out.
LEMMA AttachmentExpiresKeeps ==
  ASSUME AgreeInv, TunnelInv, GatewayInv', AttachmentExpires
  PROVE  Onward /\ TunnelInv'
<1>1. /\ attachment' = NoLease /\ line' = line /\ session' = session
      /\ peer' = peer /\ status' = status /\ UNCHANGED <<deadline, jobs>>
  BY DEF AttachmentExpires, gatewayVars
<1>2. \A m \in Nodes : HeadKept(line[m], line'[m])
  BY <1>1 DEF HeadKept
<1>3. Closing
  BY <1>1 DEF Closing, Connected, Landed, Open
<1>4. HeadPart'
  BY <1>2, <1>3, HeadKeeps DEF TunnelInv
<1> QED BY <1>1, <1>4, RoutineKeeps DEF EndKept

\* A tunnel closes. When it was the newest, it was the peer and its detach waits.
LEMMA ClosesKeeps ==
  ASSUME AgreeInv, TunnelInv, GatewayInv', NEW l \in Leases, Closes(l)
  PROVE  Onward /\ TunnelInv'
<1>1. /\ Open(l) /\ session' = [session EXCEPT ![l].socket = "closed"]
      /\ peer' = peer /\ status' = status /\ UNCHANGED <<deadline, jobs>>
      /\ attachment' = attachment \/ (attachment = l /\ attachment' = NoLease)
  BY DEF Closes
<1>2. \A k \in Leases :
        /\ session'[k].socket = IF k = l THEN "closed" ELSE session[k].socket
        /\ session'[k].node = session[k].node
        /\ session'[k].writing = session[k].writing
        /\ session'[k].activation = session[k].activation
  BY <1>1, SessionFacts DEF AgreeInv, Sessions
<1>3. \A k \in Leases :
        /\ Connected(k)' <=> Connected(k)
        /\ Landed(k)' <=> Landed(k)
        /\ Open(k)' <=> (Open(k) /\ k # l)
        /\ Current(k)' <=> Current(k)
  BY <1>1, <1>2 DEF Connected, Landed, Open, Current
<1>4. Closing
  BY <1>3 DEF Closing
<1>5. PICK n \in Nodes : n = session[l].node
  BY SessionFacts DEF AgreeInv
<1>6. \A m \in Nodes :
        /\ HeadKept(line[m], line'[m])
        /\ Midway(line'[m]) => Midway(line[m])
        /\ \A p \in Leases : Waiting(line[m], p) => Waiting(line'[m], p)
        /\ Current(l) => Waiting(line'[m], l)
  <2>1. CASE Current(l)
    <3>1. Enqueue(n, "detach", l)
      BY <1>5, <2>1 DEF Closes
    <3> QED BY <3>1, EnqueueWaits DEF AgreeInv
  <2>2. CASE ~Current(l)
    BY <2>2 DEF Closes, HeadKept
  <2> QED BY <2>1, <2>2
<1>7. HeadPart'
  BY <1>4, <1>6, HeadKeeps DEF TunnelInv
<1>8. JobsOnward /\ JobPart'
  BY <1>1, <1>4, JobsSame DEF TunnelInv, AgreeInv, LinkPart
<1>9. \A p \in Leases : Newest(p)' <=> Newest(p)
  BY <1>3 DEF Newest
<1>10. PeerPart'
  BY <1>3, <1>9 DEF TunnelInv, PeerPart
<1>11. ClosedPart'
  <2> SUFFICES ASSUME NEW p \in Leases, Newest(p)', ~Open(p)',
                      status' \notin Terminal
               PROVE  \/ \E m \in Nodes : peer'[m] = p /\ Waiting(line'[m], p)
                      \/ Disconnected(p)'
    BY DEF ClosedPart
  <2>1. CASE p = l
    <3>1. Current(l)
      BY <1>1, <1>9, <2>1 DEF TunnelInv, PeerPart
    <3> QED BY <1>1, <1>5, <1>6, <2>1, <3>1 DEF Current
  <2>2. CASE p # l
    <3>1. \/ \E m \in Nodes : peer[m] = p /\ Waiting(line[m], p)
          \/ Disconnected(p)
      BY <1>1, <1>3, <1>9, <2>2 DEF TunnelInv, ClosedPart
    <3> QED BY <1>1, <1>6, <3>1 DEF Disconnected
  <2> QED BY <2>1, <2>2
<1>12. LandPart'
  <2>1. \A k \in Leases : attachment' = k => attachment = k
    BY <1>1 DEF Leases, NoLease
  <2> QED BY <1>2, <1>3, <2>1 DEF TunnelInv, LandPart
<1>13. \A k \in Leases : Passed(k) => Passed(k)'
  <2>1. \A k \in Leases : attachment' = k => attachment = k
    BY <1>1 DEF Leases, NoLease
  <2> QED BY <1>2, <1>3, <2>1 DEF Passed
<1>14. ~Sealed
  BY <1>1 DEF Sealed
<1> QED BY <1>4, <1>7, <1>8, <1>10, <1>11, <1>12, <1>13, <1>14
        DEF Onward, TunnelInv

\* A tunnel connects. It is the newest, and the peer.
LEMMA ConnectKeeps ==
  ASSUME AgreeInv, TunnelInv, GatewayInv', NEW l \in Leases, NEW n \in Nodes,
         Connect(l, n)
  PROVE  Onward /\ TunnelInv'
<1>1. /\ session[l].socket = "unused" /\ line' = line
      /\ \A k \in Leases : k < l => session[k].socket # "unused"
      /\ session' = [session EXCEPT ![l] =
           [socket |-> "open", node |-> n, activation |-> "upsert",
            writing |-> FALSE]]
      /\ peer' = [peer EXCEPT ![n] = l]
      /\ attachment' = attachment /\ status' = status
      /\ UNCHANGED <<deadline, jobs>>
  BY DEF Connect, rowVars
<1>2. \A k \in Leases :
        IF k = l
        THEN /\ session'[k].socket = "open" /\ session'[k].activation = "upsert"
             /\ session'[k].node = n /\ ~session'[k].writing
        ELSE session'[k] = session[k]
  BY <1>1, SessionFacts DEF AgreeInv, Sessions
<1>3. \A m \in Nodes : m = n /\ peer'[m] = l
  BY <1>1 DEF AgreeInv, LinkPart, OneNode, GatewayInv, SessionPart
<1>4. \A k \in Leases : Connected(k) => k < l
  BY <1>1 DEF AgreeInv, LinkPart, ConnectPart, Leases, Connected
<1>5. /\ ~Connected(l) /\ ~Landed(l) /\ Connected(l)' /\ Open(l)' /\ Current(l)'
      /\ \A k \in Leases : k # l =>
           /\ Connected(k)' <=> Connected(k)
           /\ Landed(k)' <=> Landed(k)
           /\ Open(k)' <=> Open(k)
           /\ ~Current(k)'
  <2>1. \A k \in Leases : k # l =>
          /\ Connected(k)' <=> Connected(k)
          /\ Landed(k)' <=> Landed(k)
          /\ Open(k)' <=> Open(k)
    BY <1>2 DEF Connected, Landed, Open
  <2>2. \A k \in Leases : Current(k)' <=> k = l
    <3>1. \A k \in Leases : session'[k].node \in Nodes
      BY DEF GatewayInv, SessionPart, Sessions
    <3> QED BY <1>3, <3>1 DEF Current
  <2>3. ~Connected(l) /\ ~Landed(l) /\ Connected(l)' /\ Open(l)'
    BY <1>1, <1>2 DEF Connected, Landed, Open
  <2> QED BY <2>1, <2>2, <2>3
<1>6. Closing
  BY <1>5 DEF Closing
<1>7. HeadPart'
  <2>1. \A m \in Nodes : HeadKept(line[m], line'[m])
    BY <1>1 DEF HeadKept
  <2> QED BY <1>6, <2>1, HeadKeeps DEF TunnelInv
<1>8. JobsOnward /\ JobPart'
  BY <1>1, <1>6, JobsSame DEF TunnelInv, AgreeInv, LinkPart
<1>9. \A p \in Leases : Newest(p)' => p = l
  BY <1>4, <1>5 DEF Newest, Leases
<1>10. PeerPart' /\ ClosedPart'
  BY <1>5, <1>9 DEF PeerPart, ClosedPart
<1>11. LandPart'
  <2>1. attachment # l
    BY <1>5 DEF TunnelInv, LandPart
  <2> QED BY <1>1, <1>2, <1>5, <2>1 DEF TunnelInv, LandPart
<1>12. \A k \in Leases : Landed(k) => Passed(k)'
  BY <1>5 DEF Passed
<1> QED BY <1>4, <1>5, <1>6, <1>7, <1>8, <1>10, <1>11, <1>12
        DEF Onward, TunnelInv

-----------------------------------------------------------------------------
(* All steps of the gateway. *)

\* An attach, as long as nothing is deleted.
LEMMA AttachKeeps ==
  ASSUME AgreeInv, TunnelInv, GenerationsIdentifyLeases, GatewayInv', EndKept,
         NEW n \in Nodes, AttachStart(n) \/ AttachAnnounce(n) \/ AttachPutIdle(n)
  PROVE  Onward /\ TunnelInv'
<1>1. /\ line[n] # <<>> /\ Head(line[n]).op = "attach" /\ ~deleted
      /\ peer' = peer /\ attachment' = attachment
  BY DEF AttachStart, AttachAnnounce, AttachPutIdle, At, AgreeInv, StatusPart
<1>2. \/ /\ Done(n) /\ Renewing(Lease(n))
         /\ UNCHANGED <<deadline, jobs>> \/ PutDeadline("idle", Lease(n))
      \/ /\ \E s \in OpSteps : Proceed(n, s)
         /\ session' = session /\ UNCHANGED <<deadline, jobs>>
  BY <1>1 DEF AttachStart, AttachAnnounce, AttachPutIdle, OpSteps
<1>3. CASE /\ Done(n) /\ Renewing(Lease(n))
           /\ UNCHANGED <<deadline, jobs>> \/ PutDeadline("idle", Lease(n))
  BY <1>1, <1>3, AttachedKeeps
<1>4. CASE /\ \E s \in OpSteps : Proceed(n, s)
           /\ session' = session /\ UNCHANGED <<deadline, jobs>>
  <2>1. PICK s \in OpSteps : Proceed(n, s)
    BY <1>4
  <2> QED BY <1>1, <1>4, <2>1, GoesOnKeeps
<1> QED BY <1>2, <1>3, <1>4

\* The owner check and the report of a detach.
LEMMA DetachReportKeeps ==
  ASSUME AgreeInv, TunnelInv, GatewayInv', EndKept, NEW n \in Nodes,
         DetachJudge(n) \/ DetachReport(n)
  PROVE  Onward /\ TunnelInv'
<1>1. /\ line[n] # <<>> /\ Midway(line[n]) /\ ~deleted
      /\ peer' = peer /\ session' = session /\ attachment' = attachment
      /\ UNCHANGED <<deadline, jobs>>
  BY DEF DetachJudge, DetachReport, At, Midway, AgreeInv, StatusPart, rowVars
<1>2. \E s \in OpSteps : Proceed(n, s)
  BY <1>1 DEF DetachJudge, DetachReport, OpSteps
<1>3. PICK s \in OpSteps : Proceed(n, s)
  BY <1>2
<1> QED BY <1>1, <1>3, GoesOnKeeps

\* Reports of readiness and of the health of the connection.
LEMMA ReportKeeps ==
  ASSUME AgreeInv, TunnelInv, GatewayInv', EndKept, NEW n \in Nodes,
         NEW r \in Reports, r # "detached",
         ReadinessStart(n, r) \/ ReadinessReport(n, r) \/ HealthReport(n, r)
  PROVE  Onward /\ TunnelInv'
<1>1. /\ line[n] # <<>> /\ Head(line[n]).op \notin {"touch", "detach"}
      /\ peer' = peer /\ session' = session /\ attachment' = attachment
      /\ UNCHANGED <<deadline, jobs>>
  BY DEF ReadinessStart, ReadinessReport, HealthReport, At, Reports
<1>2. Done(n) \/ (Proceed(n, "report") /\ "report" \in OpSteps)
  BY DEF ReadinessStart, ReadinessReport, HealthReport, OpSteps
<1>3. CASE Done(n)
  BY <1>1, <1>3, OverKeeps
<1>4. CASE Proceed(n, "report") /\ "report" \in OpSteps
  BY <1>1, <1>4, GoesOnKeeps
<1> QED BY <1>2, <1>3, <1>4

\* A step of the coordinator.
LEMMA CoordinatorKeeps ==
  ASSUME AgreeInv, TunnelInv, GenerationsIdentifyLeases, GatewayInv', EndKept,
         NEW n \in Nodes, CoordinatorStep(n)
  PROVE  Onward /\ TunnelInv'
<1>1. CASE AttachStart(n) \/ AttachAnnounce(n) \/ AttachPutIdle(n)
  BY <1>1, AttachKeeps
<1>2. CASE \/ DetachStart(n) \/ DetachClearIdle(n) \/ DetachJudge(n)
           \/ DetachReport(n) \/ DetachPutDisconnect(n)
  BY <1>2, DetachStartKeeps, DetachClearIdleKeeps, DetachReportKeeps,
     DetachPutDisconnectKeeps
<1>3. ASSUME NEW r \in {"ready", "not_ready", "degraded", "recovered"},
             ReadinessStart(n, r) \/ ReadinessReport(n, r) \/ HealthReport(n, r)
      PROVE  Onward /\ TunnelInv'
  <2>1. r \in Reports /\ r # "detached"
    BY DEF Reports
  <2> QED BY <1>3, <2>1, ReportKeeps
<1>4. CASE TouchStart(n) \/ TouchPutIdle(n)
  BY <1>4, TouchStartKeeps, TouchPutIdleKeeps
<1> QED BY <1>1, <1>2, <1>3, <1>4 DEF CoordinatorStep

\* What a live sandbox sends, a missed pong and a presence.
LEMMA SignalsKeep ==
  ASSUME AgreeInv, TunnelInv, GatewayInv', NEW l \in Leases,
         \/ SandboxSignal(l) \/ HealthSignal(l, "degraded")
         \/ \E n \in Nodes : Presence(n)
  PROVE  Onward /\ TunnelInv'
<1>1. /\ \E n \in Nodes, o \in Messages \cup {"touch"}, k \in LeaseOrNone :
           Enqueue(n, o, k)
      /\ UNCHANGED <<rowVars, session, peer>>
  BY SessionFacts, LeaseFacts
     DEF SandboxSignal, RuntimeMessage, HealthSignal, Keepalive, Presence,
         AgreeInv
<1>2. PICK n \in Nodes, o \in Messages \cup {"touch"}, k \in LeaseOrNone :
        Enqueue(n, o, k)
  BY <1>1
<1> QED BY <1>1, <1>2, SignalKeeps

\* A step of the gateway that neither fails nor dies.
LEMMA GatewayKeeps ==
  ASSUME AgreeInv, TunnelInv, GenerationsIdentifyLeases, GatewayInv', EndKept,
         GatewayNext, budget.faults = 0, budget.crashes = 0
  PROVE  Onward /\ TunnelInv'
<1>1. ASSUME NEW n \in Nodes, CoordinatorStep(n) \/ Presence(n)
      PROVE  Onward /\ TunnelInv'
  <2>1. 1 \in Leases
    BY LeaseAssumption DEF Leases
  <2> QED BY <1>1, <2>1, CoordinatorKeeps, SignalsKeep
<1>2. ASSUME NEW n \in Nodes, CallFails(n) \/ NodeCrash(n)
      PROVE  FALSE
  BY <1>2 DEF CallFails, NodeCrash
<1>3. ASSUME NEW l \in Leases, CloseSocket(l)
      PROVE  Onward /\ TunnelInv'
  <2>1. Closes(l)
    BY <1>3 DEF CloseSocket, Closes, rowVars
  <2> QED BY <2>1, ClosesKeeps
<1>4. ASSUME NEW l \in Leases,
             \/ SessionStep(l) \/ RenewRead(l) \/ CloseSocket(l)
             \/ HealthSignal(l, "degraded")
      PROVE  Onward /\ TunnelInv'
  BY <1>3, <1>4, UpsertAttachmentKeeps, RenewKeeps, SignalsKeep
     DEF SessionStep, RenewLost
<1> QED BY <1>1, <1>2, <1>4, AttachmentExpiresKeeps DEF GatewayNext

-----------------------------------------------------------------------------
(* What becomes of the deadline runs that were taken up. *)

\* Why the deadline run r may end.
JobRun(r) == [kind |-> r.flow, lease |-> r.lease, generation |-> r.generation]
Excused(r) ==
  \/ JobRun(r) \in engine'.failed
  \/ ~CurrentRun(JobRun(r))
  \/ status' \in Terminal
  \/ r.flow = "idle" /\ attachment # r.lease
  \/ r.flow = "disconnect" /\ (attachment # NoLease \/ r.saw # NoLease)

\* A deadline run goes on, or ends for one of those reasons; no other run turns
\* into one of a disconnect.
GoesOn(d, r) ==
  /\ r.flow = d.flow /\ r.lease = d.lease /\ r.generation = d.generation
  /\ r.saw \in {d.saw, attachment}
Fate(w) ==
  \/ run'[w] = run[w]
  \/ run[w].flow \notin DeadlineKinds /\ run'[w].flow # "disconnect"
  \/ /\ run[w].flow \in DeadlineKinds
     /\ \/ GoesOn(run[w], run'[w])
        \/ run'[w].flow = "none" /\ Excused(run[w])

\* No run is taken up, and what failed stays failed.
EngineKept == engine'.taken = engine.taken /\ engine.failed \subseteq engine'.failed

\* What was handled stays handled.
LEMMA DoneKept ==
  ASSUME GatewayInv, QuietPart, JobPart, DonePart, GonePart, RecordPart,
         Onward, EndKept, EngineKept, \A w \in Workers : Fate(w)
  PROVE  DonePart'
<1> SUFFICES ASSUME NEW j \in engine.taken
             PROVE  Handled(j)'
  BY DEF DonePart, EngineKept
<1>1. j \in jobs /\ j \in Jobs /\ JobOK(j)
  BY DEF QuietPart, GatewayInv, DeadlinePart, JobPart
<1>2. j.kind \in DeadlineKinds /\ j.lease \in Leases /\ Landed(j.lease)
  BY <1>1 DEF Jobs, JobOK
<1>3. CASE j \in engine.failed
  BY <1>3 DEF EngineKept, Handled
<1>4. CASE ~CurrentRun(j)
  BY <1>1, <1>4 DEF Onward, JobsOnward, Handled
<1>5. CASE status \in Terminal
  BY <1>5 DEF EndKept, Handled
<1>6. CASE j.kind = "idle" /\ Passed(j.lease)
  BY <1>2, <1>6 DEF Onward, Handled
<1>7. CASE j.kind = "disconnect" /\ Replaced(j.lease)
  BY <1>7 DEF Onward, Closing, Replaced, Handled
<1>8. CASE \E w \in Workers : Carries(run[w], j)
  <2>1. PICK w \in Workers : Carries(run[w], j)
    BY <1>8
  <2>2. run[w].flow \in DeadlineKinds /\ JobRun(run[w]) = j
    BY <1>1, <1>2, <2>1 DEF Carries, JobRun, Jobs
  <2>3. CASE run'[w] = run[w] \/ GoesOn(run[w], run'[w])
    <3>1. Carries(run'[w], j)
      BY <2>1, <2>3 DEF Carries, GoesOn
    <3> QED BY <3>1 DEF Handled, Carries
  <2>4. CASE Excused(run[w])
    <3>1. CASE j \in engine'.failed \/ status' \in Terminal
      BY <3>1 DEF Handled
    <3>2. CASE ~CurrentRun(j)
      BY <1>4, <3>2
    <3>3. CASE run[w].flow = "idle" /\ attachment # run[w].lease
      <4>1. j.kind = "idle" /\ Passed(j.lease)
        BY <1>2, <2>1, <3>3 DEF Carries, Passed, Landed
      <4> QED BY <1>6, <4>1
    <3>4. CASE /\ run[w].flow = "disconnect"
               /\ attachment # NoLease \/ run[w].saw # NoLease
      <4>1. j.kind = "disconnect" /\ Replaced(j.lease)
        BY <2>1, <3>4 DEF Carries, GonePart, Sealed
      <4> QED BY <1>7, <4>1
    <3> QED BY <2>2, <2>4, <3>1, <3>2, <3>3, <3>4 DEF Excused
  <2> QED BY <2>2, <2>3, <2>4 DEF Fate
<1> QED BY <1>3, <1>4, <1>5, <1>6, <1>7, <1>8 DEF DonePart, Handled

\* And a disconnect run still finds nothing attached.
LEMMA GoneKept ==
  ASSUME GonePart, RecordPart, Onward, \A w \in Workers : Fate(w)
  PROVE  GonePart'
<1> SUFFICES ASSUME NEW w \in Workers, run'[w].flow = "disconnect"
             PROVE  \E l \in Leases :
                      /\ run'[w].lease = l /\ Connected(l)'
                      /\ Replaced(l)' \/ (run'[w].saw = NoLease /\ Sealed')
  BY DEF GonePart, Connected, Replaced
<1>1. /\ run[w].flow = "disconnect" /\ run'[w].lease = run[w].lease
      /\ run'[w].saw \in {run[w].saw, attachment}
  BY DEF Fate, GoesOn
<1>2. PICK l \in Leases : l = run[w].lease
  BY <1>1 DEF RecordPart, RecordOK
<1>3. Connected(l) /\ (Replaced(l) \/ (run[w].saw = NoLease /\ Sealed))
  BY <1>1, <1>2 DEF GonePart
<1>4. Connected(l)'
  BY <1>3 DEF Onward, Closing
<1>5. Replaced(l)' \/ (run'[w].saw = NoLease /\ Sealed')
  <2>1. CASE Replaced(l)
    BY <2>1 DEF Onward, Closing, Replaced
  <2>2. CASE run[w].saw = NoLease /\ Sealed
    <3>1. run'[w].saw = NoLease
      BY <1>1, <2>2 DEF Sealed
    <3> QED BY <1>3, <2>2, <3>1 DEF Onward, Replaced
  <2> QED BY <1>3, <2>1, <2>2
<1> QED BY <1>1, <1>2, <1>4, <1>5

-----------------------------------------------------------------------------
(* What the rest of the invariant needs of a step of the gateway. *)

\* The gateway leaves the ends of a life alone.
LEMMA TunnelEnd ==
  ASSUME \/ GatewayNext
         \/ \E l \in Leases : SandboxSignal(l)
         \/ \E l \in Leases, n \in Nodes : Connect(l, n)
  PROVE  EndKept /\ (status = "pending" => status' = "pending")
<1>1. status' = status \/ {status, status'} \subseteq Between
  BY GatewayStatus
<1> QED BY <1>1 DEF EndKept, Between, Terminal

\* A call does not fail where none can.
LEMMA TunnelBudget ==
  ASSUME SessionPart, budget.faults = 0, budget.crashes = 0,
         \/ GatewayNext
         \/ \E l \in Leases : SandboxSignal(l)
         \/ \E l \in Leases, n \in Nodes : Connect(l, n)
  PROVE  budget'.faults = 0 /\ budget'.crashes = 0
<1>1. ASSUME NEW n \in Nodes, CoordinatorStep(n)
      PROVE  budget' = budget
  BY <1>1 DEF CoordinatorStep, AttachStart, AttachAnnounce, AttachPutIdle,
     DetachStart, DetachClearIdle, DetachJudge, DetachReport,
     DetachPutDisconnect, ReadinessStart, ReadinessReport, HealthReport,
     TouchStart, TouchPutIdle
<1>2. ASSUME NEW n \in Nodes, Presence(n) \/ CallFails(n) \/ NodeCrash(n)
      PROVE  budget'.faults = 0 /\ budget'.crashes = 0
  <2>1. budget' = [budget EXCEPT !.touches = budget.touches - 1]
    BY <1>2 DEF Presence, CallFails, NodeCrash
  <2> QED BY <2>1 DEF SessionPart
<1>3. ASSUME NEW l \in Leases,
             \/ SessionStep(l) \/ RenewRead(l) \/ CloseSocket(l)
             \/ \E r \in Messages : HealthSignal(l, r) \/ RuntimeMessage(l, r)
             \/ \E n \in Nodes : Connect(l, n)
      PROVE  budget' = budget
  BY <1>3 DEF SessionStep, UpsertAttachment, RenewWrite, RenewLost, RenewRead,
     CloseSocket, HealthSignal, RuntimeMessage, Connect
<1>4. ASSUME NEW l \in Leases, Keepalive(l)
      PROVE  budget'.faults = 0 /\ budget'.crashes = 0
  <2>1. budget' = [budget EXCEPT !.touches = budget.touches - 1]
    BY <1>4 DEF Keepalive
  <2> QED BY <2>1 DEF SessionPart
<1>5. \A l \in Leases : \A r :
        /\ HealthSignal(l, r) => r \in Messages
        /\ RuntimeMessage(l, r) => r \in Messages
  BY DEF HealthSignal, RuntimeMessage
<1>6. CASE GatewayNext
  <2>1. AttachmentExpires => budget' = budget
    BY DEF AttachmentExpires, gatewayVars
  <2> QED BY <1>1, <1>2, <1>3, <1>5, <1>6, <2>1 DEF GatewayNext
<1>7. CASE \E l \in Leases : SandboxSignal(l)
  BY <1>3, <1>4, <1>5, <1>7 DEF SandboxSignal
<1> QED BY <1>3, <1>6, <1>7

\* Before a tunnel connected nothing is attached, open or being written.
LEMMA NothingConnected ==
  ASSUME AgreeInv, TunnelInv, NoneConnected
  PROVE  /\ attachment = NoLease
         /\ \A l \in Leases : /\ ~Open(l) /\ ~session[l].writing
                              /\ session[l].activation = "off"
<1>1. \A l \in Leases : /\ ~Open(l) /\ ~session[l].writing
                        /\ session[l].activation = "off"
  BY DEF AgreeInv, LinkPart, ConnectPart, NoneConnected, Connected, Open
<1>2. attachment = NoLease
  BY LeaseFacts
     DEF AgreeInv, LinkPart, GatewayInv, RowPart, TunnelInv, LandPart, Landed,
         NoneConnected
<1> QED BY <1>1, <1>2

\* A queue of such touches, when one is added, or dropped.
LEMMA TouchesKept ==
  ASSUME NEW q \in Seq(OpRecords), TouchesOnly(q)
  PROVE  /\ TouchesOnly(Append(q, Op("touch", NoLease)))
         /\ q # <<>> => TouchesOnly(Tail(q))
<1> DEFINE e == Op("touch", NoLease)
           p == Append(q, e)
<1>1. e.op = "touch" /\ e.step = "start"
  BY DEF Op
<1> HIDE DEF e
<1>2. \A i \in 1 .. Len(p) : p[i] = e \/ (i \in 1 .. Len(q) /\ p[i] = q[i])
  OBVIOUS
<1> HIDE DEF p
<1>3. TouchesOnly(p)
  BY <1>1, <1>2 DEF TouchesOnly
<1>4. q # <<>> => \A i \in 1 .. Len(Tail(q)) :
        i + 1 \in 1 .. Len(q) /\ Tail(q)[i] = q[i + 1]
  OBVIOUS
<1>5. q # <<>> => TouchesOnly(Tail(q))
  BY <1>4 DEF TouchesOnly
<1> QED BY <1>3, <1>5 DEF p, e

\* So before a tunnel connects, the start run is all there is.
LEMMA TunnelFirst ==
  ASSUME AgreeInv, TunnelInv, FirstPart, Closing, run' = run, GatewayInv',
         budget.faults = 0, budget.crashes = 0,
         \/ GatewayNext
         \/ \E l \in Leases : SandboxSignal(l)
         \/ \E l \in Leases, n \in Nodes : Connect(l, n)
  PROVE  FirstPart'
<1> SUFFICES ASSUME NoneConnected' PROVE FirstPart'
  BY DEF FirstPart
<1>1. NoneConnected
  BY DEF NoneConnected, Closing
<1>2. /\ attachment = NoLease
      /\ \A l \in Leases : /\ ~Open(l) /\ ~session[l].writing
                           /\ session[l].activation = "off"
  BY <1>1, NothingConnected
<1>3. \A n \in Nodes : TouchesOnly(line[n]) /\ line[n] \in Seq(OpRecords)
  BY <1>1, SessionFacts DEF FirstPart, AgreeInv
<1>4. \A n \in Nodes : line[n] # <<>> =>
        Head(line[n]).op = "touch" /\ Head(line[n]).step = "start"
  <2> SUFFICES ASSUME NEW n \in Nodes, line[n] # <<>>
               PROVE  Head(line[n]).op = "touch" /\ Head(line[n]).step = "start"
    OBVIOUS
  <2>1. Head(line[n]) = line[n][1] /\ 1 \in 1 .. Len(line[n])
    BY <1>3
  <2> QED BY <1>3, <2>1 DEF TouchesOnly
<1>5. ASSUME NEW l \in Leases,
             \/ SessionStep(l) \/ RenewRead(l) \/ CloseSocket(l)
             \/ HealthSignal(l, "degraded") \/ SandboxSignal(l)
             \/ \E n \in Nodes : Connect(l, n)
      PROVE  FALSE
  <2>1. CASE \E n \in Nodes : Connect(l, n)
    <3>1. PICK n \in Nodes : Connect(l, n)
      BY <2>1
    <3>2. session'[l].socket = "open"
      BY <3>1, SessionFacts DEF Connect, AgreeInv, Sessions
    <3> QED BY <3>2 DEF NoneConnected, Connected
  <2> QED BY <1>2, <1>5, <2>1
      DEF SessionStep, UpsertAttachment, RenewWrite, RenewLost, RenewRead,
          CloseSocket, HealthSignal, SandboxSignal, RuntimeMessage, Keepalive
<1>6. ~AttachmentExpires
  BY <1>2 DEF AttachmentExpires
<1>7. ASSUME NEW n \in Nodes, CallFails(n) \/ NodeCrash(n)
      PROVE  FALSE
  BY <1>7 DEF CallFails, NodeCrash
<1>8. ASSUME NEW n \in Nodes, CoordinatorStep(n)
      PROVE  line[n] # <<>> /\ Done(n) /\ status' = status
  BY <1>2, <1>4, <1>8
     DEF CoordinatorStep, AttachStart, AttachAnnounce, AttachPutIdle,
         DetachStart, DetachClearIdle, DetachJudge, DetachReport,
         DetachPutDisconnect, ReadinessStart, ReadinessReport, HealthReport,
         TouchStart, TouchPutIdle, At, rowVars
<1>9. PICK n \in Nodes :
        \/ line[n] # <<>> /\ Done(n) /\ status' = status
        \/ Enqueue(n, "touch", NoLease) /\ status' = status
  BY <1>5, <1>6, <1>7, <1>8 DEF GatewayNext, Presence, rowVars
<1>10. \A m \in Nodes : m = n
  BY DEF AgreeInv, LinkPart, OneNode
<1>11. TouchesOnly(line'[n])
  <2>1. \/ line'[n] = Tail(line[n]) /\ line[n] # <<>>
        \/ line'[n] = Append(line[n], Op("touch", NoLease))
    BY <1>9 DEF Done, Enqueue, AgreeInv, LinkPart, GatewayInv, LinePart, Lines
  <2> QED BY <1>3, <2>1, TouchesKept
<1>12. \A m \in Nodes : TouchesOnly(line'[m])
  BY <1>10, <1>11
<1> QED BY <1>1, <1>9, <1>12 DEF FirstPart

\* Who starts the instance still finds its row pending.
LEMMA TunnelBegin ==
  ASSUME BeginPart, run' = run, status = "pending" => status' = "pending"
  PROVE  BeginPart'
  BY DEF BeginPart, Beginning

\* The runs stay as they are.
LEMMA SameFate ==
  ASSUME run' = run
  PROVE  \A w \in Workers : Fate(w)
  BY DEF Fate

\* A step of the gateway or of the sandbox keeps all of it.
LEMMA WatchTunnel ==
  ASSUME WatchInv, Inv', GenerationsIdentifyLeases', TunnelStep
  PROVE  WatchInv'
<1>1. /\ AgreeInv /\ TunnelInv /\ GenerationsIdentifyLeases /\ GatewayInv
      /\ GatewayInv' /\ SessionPart /\ FirstPart /\ BeginPart /\ QuietPart
      /\ DonePart /\ GonePart /\ RecordPart /\ JobPart
      /\ budget.faults = 0 /\ budget.crashes = 0
  BY DEF WatchInv, Inv, TypePart, GatewayInv, QuietPart, TunnelInv
<1>2. /\ \/ GatewayNext
         \/ \E l \in Leases : SandboxSignal(l)
         \/ \E l \in Leases, n \in Nodes : Connect(l, n)
      /\ run' = run /\ engine' = engine /\ deleting' = deleting
  BY DEF TunnelStep, Tunnel, TunnelConnects, workerVars
<1>3. /\ EndKept /\ (status = "pending" => status' = "pending")
      /\ budget'.faults = 0 /\ budget'.crashes = 0
  BY <1>1, <1>2, TunnelEnd, TunnelBudget
<1>4. Onward /\ TunnelInv'
  BY <1>1, <1>2, <1>3, GatewayKeeps, SignalsKeep, ConnectKeeps
<1>5. AgreeInv'
  BY <1>1, <1>2, GatewayAgrees, SandboxAgrees, ConnectAgrees
<1>6. QuietPart'
  BY <1>1, <1>2, <1>3, <1>4 DEF QuietPart, Onward, JobsOnward
<1>7. FirstPart'
  BY <1>1, <1>2, <1>4, TunnelFirst DEF Onward
<1>8. BeginPart'
  BY <1>1, <1>2, <1>3, TunnelBegin
<1>9. DonePart' /\ GonePart'
  <2>1. EngineKept /\ \A w \in Workers : Fate(w)
    BY <1>2, SameFate DEF EngineKept
  <2> QED BY <1>1, <1>3, <1>4, <2>1, DoneKept, GoneKept
<1> QED BY <1>4, <1>5, <1>6, <1>7, <1>8, <1>9 DEF WatchInv

-----------------------------------------------------------------------------
(* The steps of the worker's runs. *)

\* How a run may go on, or end.
LEMMA RunGoes ==
  ASSUME run \in [Workers -> RunRecords], NEW w \in Workers
  PROVE  /\ \A pc : Goto(w, pc) =>
              GoesOn(run[w], run'[w]) /\ run'[w].pc = pc
         /\ Throw(w) =>
              GoesOn(run[w], run'[w]) /\ run'[w].pc \in {"failed", StepStart(run[w])}
         /\ Finish(w) => run'[w] = Free
         /\ \A pc, t : run' = [run EXCEPT ![w].pc = pc, ![w].seen = t] =>
              GoesOn(run[w], run'[w])
         /\ \A pc, t : run' = [run EXCEPT ![w].seen = t, ![w].pc = pc] =>
              GoesOn(run[w], run'[w])
         /\ \A pc, t : run' = [run EXCEPT ![w].pc = pc, ![w].found = t] =>
              GoesOn(run[w], run'[w]) /\ run'[w].pc = pc
         /\ \A pc : \A t \in {run[w].saw, attachment} :
              run' = [run EXCEPT ![w].pc = pc, ![w].saw = t] =>
                GoesOn(run[w], run'[w])
         /\ \A pc, t : run' = [run EXCEPT ![w].pc = pc, ![w].saw = t] =>
              run'[w].flow = run[w].flow
         /\ \A pc : run' = [run EXCEPT ![w].pc = pc] => GoesOn(run[w], run'[w])
<1> DEFINE d == run[w]
<1>1. d \in RunRecords /\ DOMAIN run = Workers
  OBVIOUS
<1> HIDE DEF d
<1>2. \A pc, t :
        /\ GoesOn(d, [d EXCEPT !.pc = pc, !.tries = t])
        /\ [d EXCEPT !.pc = pc, !.tries = t].pc = pc
        /\ GoesOn(d, [d EXCEPT !.tries = t, !.pc = pc])
        /\ [d EXCEPT !.tries = t, !.pc = pc].pc = pc
        /\ GoesOn(d, [d EXCEPT !.pc = pc])
        /\ [d EXCEPT !.pc = pc].pc = pc
  BY <1>1 DEF RunRecords, GoesOn
<1>3. \A x : run' = [run EXCEPT ![w] = x] => run'[w] = x
  BY <1>1
<1>4. ASSUME NEW pc, Goto(w, pc)
      PROVE  GoesOn(run[w], run'[w]) /\ run'[w].pc = pc
  <2> DEFINE t == IF pc \in OwnSteps THEN MaxTries ELSE run[w].tries
             x == [d EXCEPT !.pc = pc, !.tries = t]
  <2>1. run' = [run EXCEPT ![w] = x]
    BY <1>4 DEF Goto, d
  <2> HIDE DEF t
  <2>2. GoesOn(d, x) /\ x.pc = pc
    BY <1>2
  <2> HIDE DEF x
  <2> QED BY <1>3, <2>1, <2>2 DEF d
<1>5. ASSUME Throw(w)
      PROVE  GoesOn(run[w], run'[w]) /\ run'[w].pc \in {"failed", StepStart(run[w])}
  <2> DEFINE s == StepStart(d)
             t == d.tries - 1
             x == IF d.tries = 0 THEN [d EXCEPT !.pc = "failed"]
                  ELSE [d EXCEPT !.tries = t, !.pc = s]
  <2>1. run' = [run EXCEPT ![w] = x]
    BY <1>5 DEF Throw, d
  <2> HIDE DEF s, t
  <2>2. GoesOn(d, x) /\ x.pc \in {"failed", s}
    BY <1>2
  <2> HIDE DEF x
  <2> QED BY <1>3, <2>1, <2>2 DEF d, s
<1>6. Finish(w) => run'[w] = Free
  BY <1>3 DEF Finish
<1>7. ASSUME NEW pc, NEW t
      PROVE  /\ run' = [run EXCEPT ![w].pc = pc, ![w].seen = t] =>
                  GoesOn(run[w], run'[w])
             /\ run' = [run EXCEPT ![w].seen = t, ![w].pc = pc] =>
                  GoesOn(run[w], run'[w])
             /\ run' = [run EXCEPT ![w].pc = pc, ![w].found = t] =>
                  GoesOn(run[w], run'[w]) /\ run'[w].pc = pc
             /\ t \in {run[w].saw, attachment} =>
                  (run' = [run EXCEPT ![w].pc = pc, ![w].saw = t] =>
                     GoesOn(run[w], run'[w]))
             /\ run' = [run EXCEPT ![w].pc = pc, ![w].saw = t] =>
                  run'[w].flow = run[w].flow
             /\ run' = [run EXCEPT ![w].pc = pc] => GoesOn(run[w], run'[w])
  <2>1. ASSUME run' = [run EXCEPT ![w].pc = pc, ![w].seen = t]
        PROVE  GoesOn(run[w], run'[w])
    <3>1. run'[w] = [d EXCEPT !.pc = pc, !.seen = t]
      BY <1>1, <2>1 DEF d
    <3> QED BY <1>1, <3>1 DEF d, RunRecords, GoesOn
  <2>2. ASSUME run' = [run EXCEPT ![w].seen = t, ![w].pc = pc]
        PROVE  GoesOn(run[w], run'[w])
    <3>1. run'[w] = [d EXCEPT !.seen = t, !.pc = pc]
      BY <1>1, <2>2 DEF d
    <3> QED BY <1>1, <3>1 DEF d, RunRecords, GoesOn
  <2>3. ASSUME run' = [run EXCEPT ![w].pc = pc, ![w].found = t]
        PROVE  GoesOn(run[w], run'[w]) /\ run'[w].pc = pc
    <3>1. run'[w] = [d EXCEPT !.pc = pc, !.found = t]
      BY <1>1, <2>3 DEF d
    <3> QED BY <1>1, <3>1 DEF d, RunRecords, GoesOn
  <2>4. ASSUME run' = [run EXCEPT ![w].pc = pc, ![w].saw = t]
        PROVE  /\ run'[w].flow = run[w].flow
               /\ t \in {run[w].saw, attachment} => GoesOn(run[w], run'[w])
    <3>1. run'[w] = [d EXCEPT !.pc = pc, !.saw = t]
      BY <1>1, <2>4 DEF d
    <3> QED BY <1>1, <3>1 DEF d, RunRecords, GoesOn
  <2>5. ASSUME run' = [run EXCEPT ![w].pc = pc]
        PROVE  GoesOn(run[w], run'[w])
    <3>1. run'[w] = [d EXCEPT !.pc = pc]
      BY <1>1, <2>5 DEF d
    <3> QED BY <1>1, <3>1 DEF d, RunRecords, GoesOn
  <2> QED BY <2>1, <2>2, <2>3, <2>4, <2>5
<1> QED BY <1>4, <1>5, <1>6, <1>7

\* A run that goes on.
LEMMA FateGoes ==
  ASSUME NEW w \in Workers, GoesOn(run[w], run'[w])
  PROVE  Fate(w)
  BY DEF GoesOn, Fate, DeadlineKinds

\* A deadline run that ends for a reason, or any other run that ends.
LEMMA FateEnds ==
  ASSUME NEW w \in Workers, run'[w] = Free,
         run[w].flow \in DeadlineKinds => Excused(run[w])
  PROVE  Fate(w)
  BY FreeOK DEF Fate

\* The deadline of a run is checked.
LEMMA CheckDeadlineFate ==
  ASSUME run \in [Workers -> RunRecords], NEW w \in Workers, CheckDeadline(w)
  PROVE  Fate(w)
<1>1. CASE DeadlineCurrent(w)
  BY <1>1, RunGoes, FateGoes DEF CheckDeadline
<1>2. CASE ~DeadlineCurrent(w)
  <2>1. run'[w] = Free
    BY <1>2, RunGoes DEF CheckDeadline
  <2>2. ~CurrentRun(JobRun(run[w]))
    BY <1>2 DEF DeadlineCurrent, CurrentRun, JobRun
  <2> QED BY <2>1, <2>2, FateEnds DEF Excused
<1> QED BY <1>1, <1>2

\* The steps of a stop.
LEMMA StopFate ==
  ASSUME run \in [Workers -> RunRecords], NEW w \in Workers, StopStep(w)
  PROVE  Fate(w)
<1>1. run[w].flow \in StopFlows
  BY DEF StopStep, StopFence, StopLoad, StopInspect, StopRequest, StopHalt,
     StopInspectAgain, StopMark, StopCommit, StopMarkFailed, StopUsage, In,
     StopFlows
<1>2. run[w].flow \in DeadlineKinds => run[w].flow = "idle"
  BY <1>1 DEF StopFlows, DeadlineKinds
<1>3. ASSUME Finish(w), status' \in Terminal \/ ~StopPermitted(w) \/ run[w].flow = "stop"
      PROVE  Fate(w)
  <2>1. run'[w] = Free
    BY <1>3, RunGoes
  <2>2. run[w].flow \in DeadlineKinds => Excused(run[w])
    BY <1>2, <1>3 DEF Excused, StopPermitted
  <2> QED BY <2>1, <2>2, FateEnds
<1>4. ASSUME StopOver(w), status' \in Terminal \/ run[w].flow = "stop"
      PROVE  Fate(w)
  BY <1>3, <1>4, RunGoes, FateGoes DEF StopOver
<1>5. ASSUME NEW from, NEW to, StopFence(w, from, to)
      PROVE  Fate(w)
  <2>1. CASE StopPermitted(w)
    <3> DEFINE t == IF from = "fence_mark" THEN run[w].saw ELSE attachment
    <3>1. run' = [run EXCEPT ![w].pc = to, ![w].saw = t]
      BY <1>5, <2>1 DEF StopFence
    <3>2. t \in {run[w].saw, attachment}
      OBVIOUS
    <3> HIDE DEF t
    <3> QED BY <3>1, <3>2, RunGoes, FateGoes
  <2>2. CASE ~StopPermitted(w)
    BY <1>3, <1>5, <2>2 DEF StopFence
  <2> QED BY <2>1, <2>2
<1>6. ASSUME StopLoad(w) PROVE Fate(w)
  <2>1. CASE status = "stopped" /\ StopOver(w)
    BY <1>4, <1>6, <2>1 DEF StopLoad, rowVars, Terminal
  <2> QED BY <1>6, <2>1, RunGoes, FateGoes DEF StopLoad
<1>7. ASSUME \/ StopInspect(w) \/ StopHalt(w) \/ StopInspectAgain(w)
      PROVE  Fate(w)
  BY <1>7, RunGoes, FateGoes DEF StopInspect, StopHalt, StopInspectAgain
<1>8. ASSUME StopRequest(w) PROVE Fate(w)
  <2> DEFINE pc == IF run[w].found = "active" THEN "halt" ELSE "mark_stopped"
  <2>1. run' = [run EXCEPT ![w].seen = "stopping", ![w].pc = pc] \/ Throw(w)
    BY <1>8 DEF StopRequest
  <2> HIDE DEF pc
  <2> QED BY <2>1, RunGoes, FateGoes
<1>9. ASSUME StopMark(w) \/ StopMarkFailed(w) PROVE Fate(w)
  <2>1. \/ status' \in Terminal /\ (StopOver(w) \/ Finish(w))
        \/ Throw(w) \/ \E pc : Goto(w, pc)
        \/ ~StopPermitted(w) /\ Finish(w)
    BY <1>9 DEF StopMark, StopMarkFailed, Terminal
  <2> QED BY <1>3, <1>4, <2>1, RunGoes, FateGoes
<1>10. ASSUME NEW pc, NEW target \in Terminal, StopCommit(w, pc, target)
       PROVE  Fate(w)
  <2>1. CASE run[w].flow = "stop"
    <3>1. \E t : run' = [run EXCEPT ![w].pc = "usage", ![w].saw = t]
      <4> DEFINE t == IF target = "failed" THEN NoLease ELSE run[w].saw
      <4>1. run' = [run EXCEPT ![w].pc = "usage", ![w].saw = t]
        BY <1>10, <2>1 DEF StopCommit
      <4> QED BY <4>1
    <3>2. PICK t : run' = [run EXCEPT ![w].pc = "usage", ![w].saw = t]
      BY <3>1
    <3>3. run'[w].flow = run[w].flow
      BY <3>2, RunGoes
    <3> QED BY <2>1, <3>3 DEF Fate, DeadlineKinds
  <2>2. CASE run[w].flow # "stop"
    BY <1>3, <1>10, <2>2 DEF StopCommit
  <2> QED BY <2>1, <2>2
<1>11. ASSUME StopUsage(w) PROVE Fate(w)
  BY <1>4, <1>11 DEF StopUsage, In
<1> QED BY <1>5, <1>6, <1>7, <1>8, <1>9, <1>10, <1>11 DEF StopStep, Terminal

\* The steps of a reconciliation.
LEMMA ReconcileFate ==
  ASSUME run \in [Workers -> RunRecords], NEW w \in Workers, ReconcileStep(w)
  PROVE  Fate(w)
<1>1. run[w].flow \in ReconcileFlows
  BY DEF ReconcileStep, ReconcileSnapshot, ReconcileLoad, ReconcileFence,
     ReconcileInspect, ReconcileRequest, ReconcileHalt, ReconcileMark,
     ReconcileCommit, ReconcileUsage, In, ReconcileFlows
<1>2. run[w].flow \in DeadlineKinds => run[w].flow = "disconnect"
  BY <1>1 DEF ReconcileFlows, DeadlineKinds
<1>3. ASSUME Finish(w),
             \/ status' \in Terminal \/ attachment # NoLease
             \/ run[w].saw # NoLease
      PROVE  Fate(w)
  <2>1. run'[w] = Free
    BY <1>3, RunGoes
  <2>2. run[w].flow \in DeadlineKinds => Excused(run[w])
    BY <1>2, <1>3 DEF Excused
  <2> QED BY <2>1, <2>2, FateEnds
<1>4. ASSUME NEW pc, NEW t, run' = [run EXCEPT ![w].pc = pc, ![w].saw = t],
             run[w].flow = "reconcile"
      PROVE  Fate(w)
  <2>1. run'[w].flow = "reconcile"
    BY <1>4, RunGoes
  <2> QED BY <1>4, <2>1 DEF Fate, DeadlineKinds
<1>5. ASSUME ReconcileOver(w), status' \in Terminal
      PROVE  Fate(w)
  <2>1. CASE run[w].flow = "reconcile"
    BY <1>4, <1>5, <2>1 DEF ReconcileOver
  <2>2. CASE run[w].flow # "reconcile"
    BY <1>3, <1>5, <2>2 DEF ReconcileOver
  <2> QED BY <2>1, <2>2
<1>6. ASSUME ReconcileSnapshot(w) PROVE Fate(w)
  <2>1. run' = [run EXCEPT ![w].pc = "load", ![w].saw = attachment]
    BY <1>6 DEF ReconcileSnapshot
  <2> QED BY <2>1, RunGoes, FateGoes
<1>7. ASSUME ReconcileLoad(w) PROVE Fate(w)
  <2>1. \/ status' \in Terminal /\ (ReconcileOver(w) \/ Finish(w))
        \/ Throw(w)
        \/ run' = [run EXCEPT ![w].pc = "fence_inspect", ![w].seen = status]
        \/ run[w].saw # NoLease /\ Finish(w)
    BY <1>7 DEF ReconcileLoad, rowVars, Terminal
  <2> QED BY <1>3, <1>5, <2>1, RunGoes, FateGoes
<1>8. ASSUME NEW from, NEW to, ReconcileFence(w, from, to)
      PROVE  Fate(w)
  BY <1>3, <1>8, RunGoes, FateGoes DEF ReconcileFence, ReconcilePermitted
<1>9. ASSUME ReconcileInspect(w) PROVE Fate(w)
  <2>1. Throw(w) \/ \E pc : run' = [run EXCEPT ![w].pc = pc, ![w].found = compute]
    BY <1>9 DEF ReconcileInspect
  <2>2. ASSUME NEW pc, run' = [run EXCEPT ![w].pc = pc, ![w].found = compute]
        PROVE  GoesOn(run[w], run'[w])
    BY <2>2, RunGoes
  <2> QED BY <2>1, <2>2, RunGoes, FateGoes
<1>10. ASSUME ReconcileRequest(w) PROVE Fate(w)
  <2>1. \/ run' = [run EXCEPT ![w].seen = "stopping", ![w].pc = "halt"]
        \/ Throw(w)
    BY <1>10 DEF ReconcileRequest
  <2> QED BY <2>1, RunGoes, FateGoes
<1>11. ASSUME ReconcileHalt(w) \/ ReconcileUsage(w) PROVE Fate(w)
  BY <1>11, RunGoes, FateGoes DEF ReconcileHalt, ReconcileUsage
<1>12. ASSUME NEW pc, NEW target \in Terminal, NEW commit,
              ReconcileMark(w, pc, target, commit)
       PROVE  Fate(w)
  <2>1. \/ status' \in Terminal /\ (ReconcileOver(w) \/ Finish(w))
        \/ Throw(w) \/ Goto(w, commit)
        \/ attachment # NoLease /\ Finish(w)
    BY <1>12 DEF ReconcileMark, ReconcilePermitted
  <2> QED BY <1>3, <1>5, <2>1, RunGoes, FateGoes
<1>13. ASSUME NEW pc, NEW target \in Terminal, ReconcileCommit(w, pc, target)
       PROVE  Fate(w)
  <2>1. CASE run[w].flow = "reconcile"
    BY <1>4, <1>13, <2>1 DEF ReconcileCommit
  <2>2. CASE run[w].flow # "reconcile"
    BY <1>3, <1>13, <2>2 DEF ReconcileCommit
  <2> QED BY <2>1, <2>2
<1> QED BY <1>6, <1>7, <1>8, <1>9, <1>10, <1>11, <1>12, <1>13
        DEF ReconcileStep, Terminal

\* A step of a start run or of a request that reads, and the end of a stop or a
\* reconciliation that had the tunnel closed: these are of no deadline.
LEMMA OtherFate ==
  ASSUME NEW w \in Workers, NEW r, RecordEffect(w, r),
         run \in [Workers -> RunRecords], run[w].flow \notin DeadlineKinds
  PROVE  Fate(w)
<1>1. run'[w] = r
  BY DEF RecordEffect, Moves
<1> QED BY <1>1, FreeOK DEF RecordEffect, Fate, DeadlineKinds

\* A run fails, or its worker dies.
LEMMA LossFate ==
  ASSUME run \in [Workers -> RunRecords], engine \in Engines, NEW w \in Workers,
         RunFails(w) \/ WorkerDies(w)
  PROVE  Fate(w) /\ EngineKept
<1>1. CASE RunFails(w)
  <2> DEFINE f == engine.failed \cup {JobRun(run[w])}
  <2>1. run'[w] = Free
    BY <1>1, RunGoes DEF RunFails
  <2>2. CASE run[w].flow \in DeadlineKinds
    <3>1. engine' = [engine EXCEPT !.failed = f]
      BY <1>1, <2>2 DEF RunFails, JobRun
    <3>2. engine'.failed = f /\ engine'.taken = engine.taken
      BY <3>1 DEF Engines
    <3>3. Excused(run[w]) /\ EngineKept
      BY <3>2 DEF Excused, EngineKept
    <3> QED BY <2>1, <3>3, FateEnds
  <2>3. CASE run[w].flow \notin DeadlineKinds
    <3>1. engine' = engine
      BY <1>1, <2>3 DEF RunFails
    <3> QED BY <2>1, <2>3, <3>1, FateEnds DEF EngineKept
  <2> QED BY <2>2, <2>3
<1>2. CASE WorkerDies(w)
  <2>1. \E pc : run' = [run EXCEPT ![w].pc = pc]
    BY <1>2 DEF WorkerDies
  <2>2. engine' = [engine EXCEPT !.deaths = engine.deaths - 1]
    BY <1>2 DEF WorkerDies
  <2>3. EngineKept
    BY <2>2 DEF Engines, EngineKept
  <2> QED BY <2>1, <2>3, RunGoes, FateGoes
<1> QED BY <1>1, <1>2

\* What a step of a run does to the row and to the engine.
RowFate(w) ==
  /\ status' # status =>
       status' # "reconnecting" /\ (status' = "starting" => Beginning(run[w]))
  /\ \/ deadline' = deadline
     \/ deadline' = DeadlinesCleared /\ status' \in Terminal
  /\ EngineKept

\* A stop, a reconciliation and the check before them.
LEMMA EndRowFate ==
  ASSUME NEW w \in Workers, CheckDeadline(w) \/ StopStep(w) \/ ReconcileStep(w)
  PROVE  RowFate(w)
<1>1. ASSUME UNCHANGED <<rowVars, engine>> PROVE RowFate(w)
  BY <1>1 DEF RowFate, rowVars, EngineKept
<1>2. ASSUME NEW from, NEW to,
             \/ CheckDeadline(w) \/ StopFence(w, from, to) \/ StopLoad(w)
             \/ StopInspect(w) \/ StopHalt(w) \/ StopInspectAgain(w)
             \/ StopUsage(w) \/ ReconcileSnapshot(w) \/ ReconcileLoad(w)
             \/ ReconcileFence(w, from, to) \/ ReconcileInspect(w)
             \/ ReconcileHalt(w) \/ ReconcileUsage(w)
      PROVE  RowFate(w)
  <2>1. UNCHANGED <<rowVars, engine>>
    BY <1>2 DEF CheckDeadline, StopFence, StopLoad, StopInspect, StopHalt,
       StopInspectAgain, StopUsage, ReconcileSnapshot, ReconcileLoad,
       ReconcileFence, ReconcileInspect, ReconcileHalt, ReconcileUsage
  <2> QED BY <1>1, <2>1
<1>3. ASSUME StopRequest(w) \/ ReconcileRequest(w) PROVE RowFate(w)
  BY <1>3 DEF StopRequest, ReconcileRequest, RowFate, EngineKept
<1>4. ASSUME NEW pc, NEW target \in Terminal, NEW commit,
             \/ StopMark(w) \/ StopMarkFailed(w)
             \/ ReconcileMark(w, pc, target, commit)
      PROVE  RowFate(w)
  BY <1>4 DEF StopMark, StopMarkFailed, ReconcileMark, RowFate, EngineKept,
     Terminal
<1>5. ASSUME NEW pc, NEW target \in Terminal,
             StopCommit(w, pc, target) \/ ReconcileCommit(w, pc, target)
      PROVE  RowFate(w)
  BY <1>5 DEF StopCommit, ReconcileCommit, RowFate, EngineKept, Terminal
<1> QED BY <1>2, <1>3, <1>4, <1>5 DEF StopStep, ReconcileStep, Terminal

\* The start run.
LEMMA StartRowFate ==
  ASSUME NEW w \in Workers, StartStep(w)
  PROVE  RowFate(w)
<1>1. ASSUME \/ StartPrepare(w) \/ StartAllocate(w) \/ StartUsage(w)
             \/ StartInitialize(w) \/ StartUndo(w) \/ StartTerminalUsage(w)
             \/ SetupHalt(w)
             \/ \E from, happened, to : StartAwait(w, from, happened, to)
      PROVE  RowFate(w)
  <2>1. UNCHANGED <<rowVars, engine>>
    BY <1>1 DEF StartPrepare, StartAllocate, StartUsage, StartInitialize,
       StartUndo, StartTerminalUsage, SetupHalt, StartAwait
  <2> QED BY <2>1 DEF RowFate, rowVars, EngineKept
<1>2. ASSUME StartEvent(w, "mark_starting", "provider_start_requested",
                        "allocate", "undo_mark")
      PROVE  RowFate(w)
  BY <1>2 DEF StartEvent, RowFate, EngineKept, After, Rule, Beginning, Starting,
     In
<1>3. ASSUME StartEvent(w, "mark_initializing",
                        "provider_runtime_initialization_started", "initialize",
                        "undo")
      PROVE  RowFate(w)
  BY <1>3 DEF StartEvent, RowFate, EngineKept, After, Rule
<1>4. ASSUME StartPersist(w) \/ StartMarkRunning(w) \/ SetupRequest(w)
      PROVE  RowFate(w)
  BY <1>4 DEF StartPersist, StartMarkRunning, SetupRequest, RowFate, EngineKept
<1>5. ASSUME StartUndoMark(w) \/ SetupMark(w)
      PROVE  RowFate(w)
  BY <1>5 DEF StartUndoMark, SetupMark, RowFate, EngineKept, Terminal
<1>6. \/ StartPrepare(w) \/ StartAllocate(w) \/ StartUsage(w)
      \/ StartInitialize(w) \/ StartUndo(w) \/ StartTerminalUsage(w)
      \/ SetupHalt(w)
      \/ \E from, happened, to : StartAwait(w, from, happened, to)
      \/ StartEvent(w, "mark_starting", "provider_start_requested", "allocate",
                    "undo_mark")
      \/ StartEvent(w, "mark_initializing",
                    "provider_runtime_initialization_started", "initialize",
                    "undo")
      \/ StartPersist(w) \/ StartMarkRunning(w) \/ SetupRequest(w)
      \/ StartUndoMark(w) \/ SetupMark(w)
  BY DEF StartStep
<1> QED BY <1>1, <1>2, <1>3, <1>4, <1>5, <1>6

\* A read, the failure of a run and the death of its worker.
LEMMA OtherRowFate ==
  ASSUME Inv, NEW w \in Workers, ReadStep(w) \/ RunFails(w) \/ WorkerDies(w)
  PROVE  RowFate(w)
<1>1. CASE ReadLoad(w) \/ ReadInspect(w)
  BY <1>1 DEF ReadLoad, ReadInspect, RowFate, rowVars, EngineKept
<1>2. CASE ReadMark(w)
  <2>1. Verdict(run[w].seen, run[w].found) \in Terminal
    <3>1. Verdict(run[w].seen, run[w].found) # run[w].seen
      BY <1>2, RunFacts DEF ReadMark, Reading, In, RecordOK
    <3> QED BY <3>1 DEF Verdict, Terminal
  <2>2. status' = status \/ status' \in Terminal
    BY <1>2, <2>1 DEF ReadMark
  <2>3. EngineKept
    BY <1>2, RunFacts DEF ReadMark, Engines, EngineKept
  <2>4. deadline' = deadline
    BY <1>2 DEF ReadMark
  <2> QED BY <2>2, <2>3, <2>4 DEF RowFate, Terminal
<1>3. CASE RunFails(w) \/ WorkerDies(w)
  BY <1>3, LossFate, RunFacts DEF RunFails, WorkerDies, RowFate, rowVars
<1> QED BY <1>1, <1>2, <1>3 DEF ReadStep

\* Before a tunnel connected there is the start run, perhaps reads, and no other
\* run. What is still to attach a tunnel goes on, or it has ended the instance.
FirstRun(r) ==
  /\ r.flow \in {"none", "start", "read"}
  /\ r.flow = "start" => r.pc \in BeforeAttach \cup {"terminal_usage"}
Attaching(r) == r.flow = "start" /\ r.pc \in BeforeAttach
FirstFate(w) ==
  /\ attachment = NoLease /\ status \in StartupStatuses \cup Terminal
  /\ FirstRun(run[w])
  => /\ status' \in StartupStatuses \cup Terminal
     /\ FirstRun(run'[w])
     /\ Attaching(run[w]) => status' \in Terminal \/ Attaching(run'[w])

\* And a run that begins with a pending row has changed nothing.
BeginFate(w) == Beginning(run'[w]) => Beginning(run[w]) /\ status' = status

\* The steps of the start run.
LEMMA StartFate ==
  ASSUME Inv, Inv', NEW w \in Workers, StartStep(w)
  PROVE  FirstFate(w) /\ BeginFate(w)
<1>1. /\ run \in [Workers -> RunRecords] /\ RecordOK(run[w])
      /\ RecordOK(run'[w])
  BY RunFacts DEF Inv, RecordPart, RecordOK, Verdict
<1>2. /\ "failed" \notin StartSteps /\ StartSteps \subseteq OwnSteps
      /\ Free.flow = "none"
  BY StepFacts, FreeOK DEF StartSteps, OwnSteps
<1>3. ASSUME NEW pc, Goto(w, pc), run[w].flow = "start"
      PROVE  run'[w].flow = "start" /\ run'[w].pc = pc
  BY <1>1, <1>3, RunGoes DEF GoesOn
<1>4. ASSUME NEW pc, StartStepFails(w, pc), run[w].flow = "start"
      PROVE  run'[w].flow = "start" /\ run'[w].pc \in {run[w].pc, pc}
  <2>1. CASE Throw(w)
    <3>1. /\ run'[w].flow = "start"
          /\ run'[w].pc \in {"failed", StepStart(run[w])}
      BY <1>1, <1>4, <2>1, RunGoes DEF GoesOn
    <3> QED BY <1>1, <1>2, <1>4, <3>1 DEF RecordOK, StepStart
  <2> QED BY <1>3, <1>4, <2>1 DEF StartStepFails
<1>5. ASSUME Finish(w) PROVE run'[w].flow = "none"
  BY <1>1, <1>2, <1>5, RunGoes
<1>6. CASE StartPrepare(w)
  BY <1>3, <1>4, <1>6
     DEF StartPrepare, Starting, In, rowVars, FirstFate, BeginFate, FirstRun,
         Attaching, Beginning, BeforeAttach, EarlySteps
<1>7. CASE StartEvent(w, "mark_starting", "provider_start_requested",
                      "allocate", "undo_mark")
  BY <1>3, <1>4, <1>7
     DEF StartEvent, Starting, In, FirstFate, BeginFate, FirstRun, Attaching,
         Beginning, BeforeAttach, EarlySteps, After, Rule, StartupStatuses
<1>8. CASE StartEvent(w, "mark_initializing",
                      "provider_runtime_initialization_started", "initialize",
                      "undo")
  BY <1>3, <1>4, <1>8
     DEF StartEvent, Starting, In, FirstFate, BeginFate, FirstRun, Attaching,
         Beginning, BeforeAttach, EarlySteps, After, Rule, StartupStatuses
<1>9. CASE StartAllocate(w) \/ StartUsage(w) \/ StartInitialize(w)
  BY <1>3, <1>4, <1>9
     DEF StartAllocate, StartUsage, StartInitialize, Starting, In, rowVars,
         FirstFate, BeginFate, FirstRun, Attaching, Beginning, BeforeAttach,
         EarlySteps
<1>10. CASE StartPersist(w)
  BY <1>3, <1>4, <1>10
     DEF StartPersist, Starting, In, FirstFate, BeginFate, FirstRun, Attaching,
         Beginning, BeforeAttach, EarlySteps, StartupStatuses
<1>11. CASE StartAwait(w, "await_attached", attachment # NoLease, "await_ready")
  BY <1>3, <1>11
     DEF StartAwait, Starting, In, rowVars, FirstFate, BeginFate, FirstRun,
         Attaching, Beginning, BeforeAttach, EarlySteps
<1>12. CASE \/ StartAwait(w, "await_ready", RuntimeReady, "mark_running")
            \/ StartMarkRunning(w) \/ SetupRequest(w) \/ SetupHalt(w)
            \/ SetupMark(w)
  <2>1. ~FirstRun(run[w])
    BY <1>12
       DEF StartAwait, StartMarkRunning, SetupRequest, SetupHalt, SetupMark,
           Starting, In, FirstRun, BeforeAttach, EarlySteps
  <2>2. ~Beginning(run'[w])
    BY <1>3, <1>4, <1>5, <1>12
       DEF StartAwait, StartMarkRunning, SetupRequest, SetupHalt, SetupMark,
           Starting, In, Beginning
  <2> QED BY <2>1, <2>2 DEF FirstFate, BeginFate
<1>13. CASE StartUndo(w)
  <2>1. run'[w].flow = "start" /\ run'[w].pc = "undo_mark"
    BY <1>1, <1>3, <1>13, RunGoes DEF StartUndo, Starting, In, GoesOn
  <2> QED BY <1>13, <2>1
       DEF StartUndo, Starting, In, rowVars, FirstFate, BeginFate, FirstRun,
           Attaching, Beginning, BeforeAttach, EarlySteps
<1>14. CASE StartUndoMark(w)
  <2>1. status \in StartupStatuses \cup Terminal => status' \in Terminal
    BY <1>14 DEF StartUndoMark, StartupStatuses, Terminal
  <2>2. \/ run'[w].flow = "none"
        \/ run'[w].flow = "start" /\ run'[w].pc = "terminal_usage"
    BY <1>3, <1>5, <1>14 DEF StartUndoMark, Starting, In
  <2> QED BY <2>1, <2>2
       DEF FirstFate, BeginFate, FirstRun, Attaching, Beginning
<1>15. CASE StartTerminalUsage(w)
  BY <1>5, <1>15
     DEF StartTerminalUsage, Starting, In, rowVars, FirstFate, BeginFate,
         FirstRun, Attaching, Beginning, BeforeAttach, EarlySteps
<1> QED BY <1>6, <1>7, <1>8, <1>9, <1>10, <1>11, <1>12, <1>13, <1>14, <1>15
       DEF StartStep

\* The step of a run other than the start run that leaves the status as it is, or
\* ends the instance.
LEMMA OtherFirstFate ==
  ASSUME Inv, NEW w \in Workers, NEW r, RecordEffect(w, r),
         run[w].flow # "start", status' \in {status} \cup Terminal
  PROVE  FirstFate(w) /\ BeginFate(w)
<1>1. run'[w] = r
  BY OtherRuns DEF RecordEffect
<1>2. run'[w].flow = run[w].flow \/ run'[w].flow = "none"
  BY <1>1, FreeOK DEF RecordEffect
<1> QED BY <1>2 DEF FirstFate, BeginFate, FirstRun, Attaching, Beginning

\* A worker dies: the start run goes on where it was.
LEMMA DeathFate ==
  ASSUME Inv, NEW w \in Workers, WorkerDies(w)
  PROVE  FirstFate(w) /\ BeginFate(w)
<1>1. run \in [Workers -> RunRecords] /\ RecordOK(run[w])
  BY RunFacts
<1>2. PICK pc \in {StepStart(run[w])} \cup
                  (IF run[w].pc = "usage" THEN {FirstStep[run[w].flow]} ELSE {}) :
        run' = [run EXCEPT ![w].pc = pc]
  BY DEF WorkerDies
<1>3. run'[w].flow = run[w].flow
  BY <1>1, <1>2, RunGoes DEF GoesOn
<1>4. run[w].flow = "start" => run'[w].pc = run[w].pc
  <2>1. run[w].flow = "start" => pc = run[w].pc
    BY <1>1, <1>2, StepFacts DEF RecordOK, StepStart, StartSteps
  <2>2. run[w] \in RunRecords /\ run'[w] = [run[w] EXCEPT !.pc = pc]
    BY <1>1, <1>2
  <2> QED BY <2>1, <2>2 DEF RunRecords
<1>5. status' = status
  BY DEF WorkerDies, rowVars
<1> QED BY <1>3, <1>4, <1>5
     DEF FirstFate, BeginFate, FirstRun, Attaching, Beginning

-----------------------------------------------------------------------------
(* All steps of the worker's runs. *)

\* A step that leaves the tunnels alone, and the deadlines of a row that it does
\* not end.
LEMMA CalmKeeps ==
  ASSUME AgreeInv, TunnelInv, GatewayInv', StatusCalm,
         \/ deadline' = deadline
         \/ deadline' = DeadlinesCleared /\ status' \in Terminal,
         UNCHANGED <<deleted, attachment, jobs, gatewayVars>>
  PROVE  AgreeInv' /\ Onward /\ TunnelInv'
<1>1. /\ session' = session /\ peer' = peer /\ line' = line /\ budget' = budget
      /\ attachment' = attachment /\ jobs' = jobs /\ deleted' = deleted
  BY DEF gatewayVars
<1>2. AgreeInv'
  <2>1. \A n \in Nodes : QueueOK(line'[n], session) /\ line'[n] = line[n]
    BY <1>1, SessionFacts DEF AgreeInv
  <2>2. budget'.faults <= budget.faults
    BY <1>1, SessionFacts DEF AgreeInv
  <2>3. status' \in Terminal \/ deadline'["idle"] = deadline["idle"]
    OBVIOUS
  <2> QED BY <1>1, <2>1, <2>2, <2>3, Routine
<1>3. Steady /\ EndKept
  BY <1>1 DEF Steady, EndKept, StatusCalm
<1>4. Closing
  BY <1>3, SteadyCloses
<1>5. JobsOnward /\ JobPart'
  <2>1. \A k \in DeadlineKinds :
          deadline'[k] = deadline[k] \/ ~deadline'[k].armed
    BY DEF DeadlinesCleared, AgreeInv, LinkPart, GatewayInv, DeadlinePart,
       Deadlines
  <2> QED BY <1>1, <1>4, <2>1, JobsCleared DEF AgreeInv, LinkPart, TunnelInv
<1>6. HeadPart'
  <2>1. \A n \in Nodes : HeadKept(line[n], line'[n])
    BY <1>1 DEF HeadKept
  <2> QED BY <1>4, <2>1, HeadKeeps DEF TunnelInv
<1>7. \/ status' \in Terminal
      \/ deadline'["disconnect"] = deadline["disconnect"]
  OBVIOUS
<1> QED BY <1>1, <1>2, <1>3, <1>5, <1>6, <1>7, SteadyKeeps

\* What is known before any tunnel connected.
LEMMA FirstKept ==
  ASSUME AgreeInv, TunnelInv, FirstPart, EndKept, NEW w \in Workers,
         FirstFate(w), \A v \in Workers : v # w => run'[v] = run[v],
         UNCHANGED gatewayVars
  PROVE  FirstPart'
<1>1. session' = session /\ line' = line
  BY DEF gatewayVars
<1> SUFFICES ASSUME NoneConnected
             PROVE  FirstPart'
  BY <1>1 DEF FirstPart, NoneConnected, Connected
<1>2. /\ attachment = NoLease /\ status \in StartupStatuses \cup Terminal
      /\ \A v \in Workers : FirstRun(run[v])
      /\ status \in Terminal \/ \E v \in Workers : Attaching(run[v])
  BY NothingConnected DEF FirstPart, FirstRun, Attaching
<1>3. /\ status' \in StartupStatuses \cup Terminal
      /\ \A v \in Workers : FirstRun(run'[v])
  BY <1>2 DEF FirstFate
<1>4. status' \in Terminal \/ \E v \in Workers : Attaching(run'[v])
  <2>1. CASE status \in Terminal
    BY <2>1 DEF EndKept
  <2>2. ASSUME NEW v \in Workers, Attaching(run[v])
        PROVE  status' \in Terminal \/ Attaching(run'[v])
    BY <1>2, <2>2 DEF FirstFate
  <2> QED BY <1>2, <2>1, <2>2
<1> QED BY <1>1, <1>3, <1>4 DEF FirstPart, FirstRun, Attaching

\* A step of a run keeps all of it.
LEMMA WatchRun ==
  ASSUME WatchInv, Inv', GenerationsIdentifyLeases', NEW w \in Workers, NEW r,
         RunEffect(w, r), RowFate(w), Fate(w), FirstFate(w), BeginFate(w),
         UNCHANGED <<gatewayVars, left, deleting>>
  PROVE  WatchInv'
<1>1. /\ Inv /\ AgreeInv /\ TunnelInv /\ GatewayInv /\ GatewayInv' /\ FirstPart
      /\ BeginPart /\ QuietPart /\ DonePart /\ GonePart /\ RecordPart /\ JobPart
  BY DEF WatchInv, Inv, TypePart, TunnelInv
<1>2. /\ RecordEffect(w, r) /\ StatusEffect(w) /\ jobs' = jobs
      /\ deleted' = deleted /\ attachment' = attachment /\ budget' = budget
      /\ deleting' = deleting
  BY DEF RunEffect, RowEffect, gatewayVars
<1>3. run'[w] = r /\ \A v \in Workers : v # w => run'[v] = run[v]
  BY <1>1, <1>2, OtherRuns DEF RecordEffect
<1>4. EndKept
  <2>1. status \in Terminal /\ status' = "starting" => FALSE
    BY <1>1 DEF RowFate, BeginPart, Terminal
  <2> QED BY <1>2, <2>1 DEF EndKept, StatusEffect, Terminal
<1>5. StatusCalm
  BY <1>4 DEF StatusCalm, EndKept, RowFate
<1>6. AgreeInv' /\ Onward /\ TunnelInv'
  BY <1>1, <1>2, <1>5, CalmKeeps DEF RowFate
<1>7. QuietPart'
  <2>1. \A v \in Workers : run'[v].flow \notin {"resume", "delete"}
    BY <1>1, <1>2, <1>3, FreeOK DEF QuietPart, RecordEffect
  <2> QED BY <1>1, <1>2, <2>1 DEF QuietPart, RowFate, EngineKept
<1>8. FirstPart'
  BY <1>1, <1>3, <1>4, FirstKept
<1>9. BeginPart'
  <2> SUFFICES ASSUME NEW v \in Workers, Beginning(run'[v])
               PROVE  status' = "pending"
    BY DEF BeginPart, Beginning
  <2>1. CASE v = w
    BY <1>1, <2>1 DEF BeginFate, BeginPart
  <2>2. CASE v # w
    <3>1. Beginning(run[v]) /\ status = "pending"
      BY <1>1, <1>3, <2>2 DEF BeginPart
    <3>2. Early(v) /\ run[v].flow = "start"
      BY <3>1 DEF Beginning, Early, EarlySteps
    <3>3. run[w].flow # "start" /\ run[w].pc \notin KnowingSteps
      BY <1>1, <2>2, <3>2, StartFacts
    <3> QED BY <1>1, <1>2, <3>1, <3>3 DEF StatusEffect, QuietPart
  <2> QED BY <2>1, <2>2
<1>10. DonePart' /\ GonePart'
  <2>1. \A v \in Workers : Fate(v)
    BY <1>3 DEF Fate
  <2> QED BY <1>1, <1>4, <1>6, <2>1, DoneKept, GoneKept DEF RowFate
<1> QED BY <1>6, <1>7, <1>8, <1>9, <1>10 DEF WatchInv

\* A run that would end the instance, or checks whether it would, is none of
\* those that are there before a tunnel connected.
LEMMA EndFirstFate ==
  ASSUME Inv, NEW w \in Workers, NEW r, RecordEffect(w, r),
         run[w].flow \in {"stop", "reconcile", "idle", "disconnect"}
  PROVE  FirstFate(w) /\ BeginFate(w)
<1>1. run'[w] = r
  BY OtherRuns DEF RecordEffect
<1> QED BY <1>1, FreeOK
     DEF RecordEffect, FirstFate, FirstRun, BeginFate, Beginning

\* A stop, a reconciliation, or the check of a deadline.
LEMMA WatchEnd ==
  ASSUME WatchInv, Inv', GenerationsIdentifyLeases', NEW w \in Workers,
         CheckDeadline(w) \/ StopStep(w) \/ ReconcileStep(w),
         UNCHANGED <<gatewayVars, left, deleting>>
  PROVE  WatchInv'
<1>1. Inv /\ run \in [Workers -> RunRecords]
  BY RunFacts DEF WatchInv
<1>2. PICK r : RunEffect(w, r)
  BY <1>1, StopStepEffect, ReconcileStepEffect
<1>3. run[w].flow \in {"stop", "reconcile", "idle", "disconnect"}
  <2>1. StopStep(w) => run[w].flow \in StopFlows
    BY DEF StopStep, StopFence, StopLoad, StopInspect, StopRequest, StopHalt,
       StopInspectAgain, StopMark, StopCommit, StopMarkFailed, StopUsage, In,
       StopFlows
  <2>2. ReconcileStep(w) => run[w].flow \in ReconcileFlows
    BY DEF ReconcileStep, ReconcileSnapshot, ReconcileLoad, ReconcileFence,
       ReconcileInspect, ReconcileRequest, ReconcileHalt, ReconcileMark,
       ReconcileCommit, ReconcileUsage, In, ReconcileFlows
  <2>3. CheckDeadline(w) => run[w].flow \in DeadlineKinds
    BY DEF CheckDeadline, In
  <2> QED BY <2>1, <2>2, <2>3 DEF StopFlows, ReconcileFlows, DeadlineKinds
<1>4. FirstFate(w) /\ BeginFate(w)
  BY <1>1, <1>2, <1>3, EndFirstFate DEF RunEffect
<1>5. RowFate(w) /\ Fate(w)
  BY <1>1, EndRowFate, CheckDeadlineFate, StopFate, ReconcileFate
<1> QED BY <1>2, <1>4, <1>5, WatchRun

\* The start run.
LEMMA WatchStart ==
  ASSUME WatchInv, Inv', GenerationsIdentifyLeases', NEW w \in Workers,
         StartStep(w), UNCHANGED <<gatewayVars, left, deleting>>
  PROVE  WatchInv'
<1>1. Inv /\ run \in [Workers -> RunRecords]
  BY RunFacts DEF WatchInv
<1>2. PICK r : RunEffect(w, r)
  BY <1>1, StartStepEffect
<1>3. run[w].flow = "start"
  BY DEF StartStep, StartPrepare, StartEvent, StartAllocate, StartPersist,
     StartUsage, StartInitialize, StartAwait, StartMarkRunning, StartUndo,
     StartUndoMark, StartTerminalUsage, SetupRequest, SetupHalt, SetupMark,
     Starting, In
<1>4. Fate(w)
  BY <1>1, <1>2, <1>3, OtherFate DEF RunEffect, DeadlineKinds
<1> QED BY <1>1, <1>2, <1>4, StartFate, StartRowFate, WatchRun

\* A request that reads.
LEMMA WatchRead ==
  ASSUME WatchInv, Inv', GenerationsIdentifyLeases', NEW w \in Workers,
         ReadStep(w), UNCHANGED <<gatewayVars, left, deleting>>
  PROVE  WatchInv'
<1>1. Inv /\ run \in [Workers -> RunRecords] /\ RecordOK(run[w])
  BY RunFacts DEF WatchInv
<1>2. PICK r : RunEffect(w, r)
  BY <1>1, ReadStepEffect
<1>3. run[w].flow = "read"
  BY DEF ReadStep, ReadLoad, ReadInspect, ReadMark, Reading, In
<1>4. Fate(w)
  BY <1>1, <1>2, <1>3, OtherFate DEF RunEffect, DeadlineKinds
<1>5. status' \in {status} \cup Terminal
  <2>1. CASE ReadLoad(w) \/ ReadInspect(w)
    BY <2>1 DEF ReadLoad, ReadInspect, rowVars
  <2>2. CASE ReadMark(w)
    BY <1>1, <2>2
       DEF ReadMark, Reading, In, RecordOK, Verdict, Terminal
  <2> QED BY <2>1, <2>2 DEF ReadStep
<1>6. FirstFate(w) /\ BeginFate(w)
  BY <1>1, <1>2, <1>3, <1>5, OtherFirstFate DEF RunEffect
<1> QED BY <1>1, <1>2, <1>4, <1>6, OtherRowFate, WatchRun

\* A run fails, or its worker dies.
LEMMA WatchLoss ==
  ASSUME WatchInv, Inv', GenerationsIdentifyLeases', NEW w \in Workers,
         RunFails(w) \/ WorkerDies(w), UNCHANGED <<gatewayVars, left, deleting>>
  PROVE  WatchInv'
<1>1. /\ Inv /\ run \in [Workers -> RunRecords] /\ RecordOK(run[w])
      /\ engine \in Engines
  BY RunFacts DEF WatchInv
<1>2. PICK r : RunEffect(w, r)
  BY <1>1, RunFailsEffect, WorkerDiesEffect
<1>3. Fate(w)
  BY <1>1, LossFate
<1>4. FirstFate(w) /\ BeginFate(w)
  <2>1. CASE WorkerDies(w)
    BY <1>1, <2>1, DeathFate
  <2>2. CASE RunFails(w)
    <3>1. run[w].flow # "start" /\ status' = status
      BY <1>1, <2>2 DEF RunFails, RecordOK, StartSteps, OwnSteps, rowVars
    <3> QED BY <1>1, <1>2, <3>1, OtherFirstFate DEF RunEffect
  <2> QED BY <2>1, <2>2
<1> QED BY <1>1, <1>2, <1>3, <1>4, OtherRowFate, WatchRun

\* The route that a stop or a reconciliation calls closes the tunnel it saw, if
\* that is still attached.
LEMMA TerminateTunnel ==
  ASSUME WatchInv, Inv', NEW w \in Workers, Terminate(w)
  PROVE  AgreeInv' /\ Onward /\ TunnelInv'
<1>1. AgreeInv /\ TunnelInv /\ GatewayInv' /\ RecordOK(run[w])
  BY RunFacts DEF WatchInv, Inv, TypePart
<1>2. PICK l \in Leases : l = run[w].saw
  BY <1>1 DEF Terminate, In, RecordOK
<1>3. /\ UNCHANGED <<status, deleted, deadline, jobs, peer, budget>>
      /\ status' = status /\ deleted' = deleted /\ deadline' = deadline
      /\ jobs' = jobs /\ peer' = peer /\ budget' = budget
      /\ l # NoLease
  BY DEF Terminate, Leases, NoLease
<1>4. CASE attachment = l /\ Open(l)
  <2>1. Closes(l)
    BY <1>2, <1>3, <1>4 DEF Terminate, Closes
  <2> QED BY <1>1, <2>1, ClosesAgrees, ClosesKeeps
<1>5. CASE attachment = l /\ ~Open(l)
  <2>1. /\ attachment' = NoLease /\ line' = line /\ session' = session
        /\ \A k \in Leases : Open(k) => attachment # k
    BY <1>2, <1>5 DEF Terminate
  <2>2. budget'.faults <= budget.faults
    BY <1>1, <1>3, SessionFacts DEF AgreeInv
  <2>3. \A n \in Nodes : QueueOK(line'[n], session) /\ line'[n] = line[n]
    BY <1>1, <2>1, SessionFacts DEF AgreeInv
  <2>4. AgreeInv'
    BY <1>1, <1>3, <2>1, <2>2, <2>3, Routine DEF StatusCalm
  <2>5. HeadPart'
    <3>1. \A m \in Nodes : HeadKept(line[m], line'[m])
      BY <2>1 DEF HeadKept
    <3>2. Closing
      BY <2>1 DEF Closing, Connected, Landed, Open
    <3> QED BY <1>1, <3>1, <3>2, HeadKeeps DEF TunnelInv
  <2>6. EndKept
    BY <1>3 DEF EndKept
  <2> QED BY <1>1, <1>3, <2>1, <2>3, <2>4, <2>5, <2>6, RoutineKeeps
<1>6. CASE attachment # l
  <2>1. UNCHANGED <<deleted, attachment, jobs, gatewayVars>>
    BY <1>2, <1>3, <1>6 DEF Terminate, gatewayVars
  <2> QED BY <1>1, <1>3, <2>1, CalmKeeps DEF StatusCalm
<1> QED BY <1>4, <1>5, <1>6

\* The run that called it is over.
LEMMA WatchTerminate ==
  ASSUME WatchInv, Inv', GenerationsIdentifyLeases', NEW w \in Workers,
         Terminate(w)
  PROVE  WatchInv'
<1>1. /\ Inv /\ GatewayInv /\ FirstPart /\ BeginPart /\ QuietPart /\ DonePart
      /\ GonePart /\ RecordPart /\ JobPart
  BY DEF WatchInv, Inv, TypePart, TunnelInv
<1>2. /\ run[w].flow \in {"stop", "reconcile"} /\ Finish(w)
      /\ budget' = budget /\ engine' = engine /\ jobs' = jobs
      /\ deleting' = deleting /\ status' = status
  BY DEF Terminate, In
<1>3. /\ run'[w] = Free /\ \A v \in Workers : v # w => run'[v] = run[v]
  BY <1>1, <1>2, FinishOK, OtherRuns
<1>4. AgreeInv' /\ Onward /\ TunnelInv'
  BY TerminateTunnel
<1>5. QuietPart'
  BY <1>1, <1>2, <1>3, FreeOK DEF QuietPart
<1>6. FirstPart'
  <2>1. ~NoneConnected
    BY <1>1, <1>2 DEF FirstPart
  <2>2. ~NoneConnected'
    BY <1>4, <2>1 DEF NoneConnected, Onward, Closing
  <2> QED BY <2>2 DEF FirstPart
<1>7. BeginPart'
  BY <1>1, <1>2, <1>3, FreeOK DEF BeginPart, Beginning
<1>8. DonePart' /\ GonePart'
  <2>1. \A v \in Workers : Fate(v)
    BY <1>2, <1>3, FreeOK DEF Fate, DeadlineKinds
  <2>2. EndKept /\ EngineKept
    BY <1>2 DEF EndKept, EngineKept
  <2> QED BY <1>1, <1>4, <2>1, <2>2, DoneKept, GoneKept
<1> QED BY <1>4, <1>5, <1>6, <1>7, <1>8 DEF WatchInv

\* A step of a run, or of a request that reads.
LEMMA WatchWorkflow ==
  ASSUME WatchInv, Inv', GenerationsIdentifyLeases', NEW w \in Workers,
         WorkflowStep(w)
  PROVE  WatchInv'
<1>1. run[w].flow \notin {"resume", "delete"}
  BY DEF WatchInv, QuietPart
<1>2. ~ResumeStep(w) /\ ~DeleteStep(w)
  <2>1. ResumeStep(w) => run[w].flow = "resume"
    BY DEF ResumeStep, ResumeResolve, ResumeEvent, ResumePreflight,
       ResumeCompute, ResumeUsage, ResumeGuardedEvent, ResumeInitialize,
       ResumeAwaitReady, ResumeTimesOut, ResumeUndo,
       ResumeUndoMark, Resuming, In
  <2>2. DeleteStep(w) => run[w].flow = "delete"
    BY DEF DeleteStep, DeleteLoad, DeleteDestroy, DeleteMark, DeleteUsage, In
  <2> QED BY <1>1, <2>1, <2>2
<1> QED BY <1>2, WatchTerminate, WatchEnd, WatchStart, WatchRead, WatchLoss
     DEF WorkflowStep

-----------------------------------------------------------------------------
(* Requests, deadline runs that come due, and what happens elsewhere. *)

\* The run of a request is taken up.
LEMMA WatchBegun ==
  ASSUME WatchInv, Inv', GenerationsIdentifyLeases', NEW w \in Workers,
         NEW flow \in {"stop", "read", "reconcile"}, NEW l,
         Begin(w, flow, l, 0),
         \/ status' = status
         \/ /\ status \in UserStopEligible \cup {"stopping"}
            /\ status' = "stopping" /\ ~NoneConnected,
         flow = "read" \/ ~NoneConnected,
         UNCHANGED <<deleted, attachment, deadline, jobs, gatewayVars, engine,
                     deleting>>
  PROVE  WatchInv'
<1>1. /\ Inv /\ AgreeInv /\ TunnelInv /\ GatewayInv /\ GatewayInv' /\ FirstPart
      /\ BeginPart /\ QuietPart /\ DonePart /\ GonePart /\ RecordPart /\ JobPart
  BY DEF WatchInv, Inv, TypePart, TunnelInv
<1>2. /\ run[w].flow = "none" /\ run'[w].flow = flow
      /\ \A v \in Workers : v # w => run'[v] = run[v]
  <2>1. run[w] = Free /\ run' = [run EXCEPT ![w] = Begun(flow, l, 0)]
    BY DEF Begin
  <2>2. Begun(flow, l, 0).flow = flow
    BY FreeOK DEF Begun, Free
  <2>3. run \in [Workers -> RunRecords]
    BY <1>1, RunFacts
  <2> QED BY <2>1, <2>2, <2>3, FreeOK
<1>3. StatusCalm /\ EndKept /\ (status = "pending" => status' = status)
  BY DEF StatusCalm, EndKept, Terminal, UserStopEligible
<1>4. AgreeInv' /\ Onward /\ TunnelInv'
  BY <1>1, <1>3, CalmKeeps
<1>5. QuietPart'
  BY <1>1, <1>2 DEF QuietPart, gatewayVars
<1>6. FirstPart'
  <2>1. CASE NoneConnected
    <3>1. FirstFate(w)
      BY <1>2, <2>1 DEF FirstFate, FirstRun, Attaching
    <3> QED BY <1>1, <1>2, <1>3, <3>1, FirstKept
  <2>2. CASE ~NoneConnected
    BY <2>2 DEF FirstPart, NoneConnected, Connected, gatewayVars
  <2> QED BY <2>1, <2>2
<1>7. BeginPart'
  BY <1>1, <1>2, <1>3 DEF BeginPart, Beginning
<1>8. DonePart' /\ GonePart'
  <2>1. \A v \in Workers : Fate(v)
    BY <1>2 DEF Fate, DeadlineKinds
  <2>2. EngineKept
    BY DEF EngineKept
  <2> QED BY <1>1, <1>3, <1>4, <2>1, <2>2, DoneKept, GoneKept
<1> QED BY <1>4, <1>5, <1>6, <1>7, <1>8 DEF WatchInv

\* A request of the user.
LEMMA WatchApi ==
  ASSUME Undisturbed, WatchInv, Inv', GenerationsIdentifyLeases', ApiStep
  PROVE  WatchInv'
<1>1. QuietPart /\ FirstPart
  BY DEF WatchInv
<1>2. ASSUME NEW w \in Workers, RequestStop(w)
      PROVE  WatchInv'
  <2>1. /\ status \in UserStopEligible \cup {"stopping"} /\ status' = "stopping"
        /\ Begin(w, "stop", NoLease, 0)
        /\ UNCHANGED <<deleted, attachment, deadline, jobs, gatewayVars, engine,
                       deleting>>
    BY <1>2 DEF RequestStop
  <2>2. ~NoneConnected
    BY <1>1, <2>1
       DEF FirstPart, UserStopEligible, StartupStatuses, Terminal
  <2> QED BY <2>1, <2>2, WatchBegun
<1>3. ASSUME NEW w \in Workers, RequestRead(w)
      PROVE  WatchInv'
  BY <1>3, WatchBegun DEF RequestRead, rowVars
<1>4. ASSUME NEW w \in Workers, NEW l \in Leases, RequestReconcile(w, l)
      PROVE  WatchInv'
  <2>1. ~NoneConnected
    BY <1>4 DEF RequestReconcile, NoneConnected, Connected
  <2> QED BY <1>4, <2>1, WatchBegun DEF RequestReconcile, rowVars
<1>5. ASSUME NEW w \in Workers, RequestResume(w) \/ RequestDelete(w)
      PROVE  FALSE
  BY <1>5 DEF RequestResume, RequestDelete, Request, Undisturbed
<1>6. ~RequestStopUnqueued /\ ~StampDeleted
  BY <1>1 DEF QuietPart, RequestStopUnqueued, StampDeleted
<1> QED BY <1>2, <1>3, <1>4, <1>5, <1>6 DEF ApiStep

\* A step that only the provider sees, or none at all.
LEMMA WatchStutter ==
  ASSUME WatchInv, Inv', GenerationsIdentifyLeases',
         UNCHANGED <<rowVars, gatewayVars, run, engine, deleting>>
  PROVE  WatchInv'
<1>1. /\ AgreeInv /\ TunnelInv /\ GatewayInv /\ GatewayInv' /\ FirstPart
      /\ BeginPart /\ QuietPart /\ DonePart /\ GonePart /\ RecordPart /\ JobPart
  BY DEF WatchInv, Inv, TypePart, TunnelInv
<1>2. /\ status' = status /\ run' = run /\ engine' = engine /\ jobs' = jobs
      /\ UNCHANGED <<deleted, attachment, jobs, gatewayVars>>
      /\ deadline' = deadline
  BY DEF rowVars
<1>3. StatusCalm /\ EndKept /\ EngineKept
  BY <1>2 DEF StatusCalm, EndKept, EngineKept
<1>4. AgreeInv' /\ Onward /\ TunnelInv'
  BY <1>1, <1>2, <1>3, CalmKeeps
<1>5. QuietPart' /\ BeginPart'
  BY <1>1, <1>2 DEF QuietPart, BeginPart, Beginning, gatewayVars
<1>6. FirstPart'
  BY <1>1, <1>2
     DEF FirstPart, NoneConnected, Connected, gatewayVars
<1>7. DonePart' /\ GonePart'
  BY <1>1, <1>2, <1>3, <1>4, SameFate, DoneKept, GoneKept
<1> QED BY <1>4, <1>5, <1>6, <1>7 DEF WatchInv

\* What a disconnect run finds when it comes due.
LEMMA DueSealed ==
  ASSUME AgreeInv, TunnelInv, NEW j \in jobs, j.kind = "disconnect",
         \A k \in 1 .. j.lease : Gone(k, session[j.lease].node),
         ~Replaced(j.lease)
  PROVE  Sealed
<1>1. JobOK(j) /\ j.lease \in Leases
  BY DEF TunnelInv, JobPart, AgreeInv, LinkPart, GatewayInv, DeadlinePart, Jobs
<1>2. \A k \in Leases :
        /\ k <= j.lease => k \in 1 .. j.lease /\ Landed(k)
        /\ ~(k <= j.lease) => ~Connected(k)
        /\ session[k].node = session[j.lease].node
  <2>1. \A k \in Leases : session[k].node \in Nodes
    BY SessionFacts DEF AgreeInv
  <2> QED BY <1>1, <2>1
       DEF JobOK, Replaced, Leases, AgreeInv, LinkPart, OneNode
<1>3. ASSUME NEW k \in Leases
      PROVE  /\ ~Open(k) /\ ~session[k].writing
             /\ session[k].activation # "upsert" /\ attachment # k
  <2>1. CASE k <= j.lease
    BY <1>2, <2>1 DEF Gone, Landed
  <2>2. CASE ~(k <= j.lease)
    <3>1. session[k].socket = "unused"
      BY <1>2, <2>2 DEF Connected
    <3> QED BY <3>1
         DEF Open, AgreeInv, LinkPart, ConnectPart, TunnelInv, LandPart, Landed,
             Connected
  <2> QED BY <2>1, <2>2
<1>4. attachment = NoLease
  BY <1>3, LeaseFacts DEF AgreeInv, LinkPart, GatewayInv, RowPart
<1> QED BY <1>3, <1>4 DEF Sealed

\* A deadline run comes due.
LEMMA WatchDue ==
  ASSUME WatchInv, Inv', GenerationsIdentifyLeases', NEW w \in Workers,
         DeadlineDue(w)
  PROVE  WatchInv'
<1>1. /\ Inv /\ AgreeInv /\ TunnelInv /\ GatewayInv /\ GatewayInv' /\ FirstPart
      /\ BeginPart /\ QuietPart /\ DonePart /\ GonePart /\ RecordPart /\ JobPart
  BY DEF WatchInv, Inv, TypePart, TunnelInv
<1>2. PICK j \in jobs \ engine.taken :
        /\ \A k \in 1 .. j.lease :
             k < j.lease \/ j.kind = "disconnect" =>
               Gone(k, session[j.lease].node)
        /\ TakeDeadline(w, j)
  BY DEF DeadlineDue
<1>3. /\ UNCHANGED <<deleted, attachment, jobs, gatewayVars>> /\ status' = status
      /\ deadline' = deadline /\ jobs' = jobs /\ deleting' = deleting
      /\ session' = session /\ peer' = peer /\ attachment' = attachment
      /\ engine' = [engine EXCEPT !.taken = @ \cup {j}]
      /\ Begin(w, j.kind, j.lease, j.generation)
  BY <1>2 DEF TakeDeadline, DeadlineDue, rowVars, gatewayVars
<1>4. /\ j \in Jobs /\ j.kind \in DeadlineKinds /\ j.lease \in Leases /\ JobOK(j)
  BY <1>1 DEF GatewayInv, DeadlinePart, Jobs, JobPart
<1>5. engine'.taken = engine.taken \cup {j} /\ engine'.failed = engine.failed
  BY <1>1, <1>3, RunFacts DEF Engines
<1>6. /\ run[w].flow = "none" /\ run'[w].flow = j.kind /\ run'[w].lease = j.lease
      /\ run'[w].generation = j.generation /\ run'[w].saw = NoLease
      /\ \A v \in Workers : v # w => run'[v] = run[v]
  <2> DEFINE r == Begun(j.kind, j.lease, j.generation)
  <2>1. run[w] = Free /\ run' = [run EXCEPT ![w] = r]
    BY <1>3 DEF Begin
  <2>2. /\ r.flow = j.kind /\ r.lease = j.lease
        /\ r.generation = j.generation /\ r.saw = NoLease
    BY DEF Begun, Free
  <2>3. run \in [Workers -> RunRecords]
    BY <1>1, RunFacts
  <2> HIDE DEF r
  <2> QED BY <2>1, <2>2, <2>3, FreeOK
<1>7. AgreeInv' /\ Onward /\ TunnelInv'
  BY <1>1, <1>3, CalmKeeps DEF StatusCalm
<1>8. QuietPart'
  BY <1>1, <1>3, <1>4, <1>5, <1>6
     DEF QuietPart, DeadlineKinds, gatewayVars
<1>9. FirstPart'
  <2>1. ~NoneConnected
    BY <1>4 DEF JobOK, Landed, NoneConnected
  <2> QED BY <1>3, <2>1 DEF FirstPart, NoneConnected, Connected
<1>10. BeginPart'
  BY <1>1, <1>3, <1>4, <1>6 DEF BeginPart, Beginning, DeadlineKinds
<1>11. DonePart'
  <2>1. Handled(j)'
    BY <1>6 DEF Handled, Carries
  <2>2. ASSUME NEW i \in engine.taken PROVE Handled(i)'
    <3>1. i.kind \in DeadlineKinds
      BY <1>1 DEF QuietPart, GatewayInv, DeadlinePart, Jobs
    <3>2. \A v \in Workers : Carries(run[v], i) => Carries(run'[v], i)
      BY <1>6, <3>1 DEF Carries, DeadlineKinds
    <3>3. /\ CurrentRun(i)' <=> CurrentRun(i)
          /\ Passed(i.lease) => Passed(i.lease)'
          /\ Replaced(i.lease) => Replaced(i.lease)'
      BY <1>3 DEF CurrentRun, Passed, Open, Current, Replaced, Connected
    <3> QED BY <1>1, <1>3, <1>5, <3>2, <3>3 DEF DonePart, Handled
  <2> QED BY <1>5, <2>1, <2>2 DEF DonePart
<1>12. GonePart'
  <2> SUFFICES ASSUME NEW v \in Workers, run'[v].flow = "disconnect"
               PROVE  \E l \in Leases :
                        /\ run'[v].lease = l /\ Connected(l)
                        /\ Replaced(l) \/ (run'[v].saw = NoLease /\ Sealed)
    BY <1>3 DEF GonePart, Connected, Replaced, Sealed, Open
  <2>1. CASE v = w
    <3>1. j.kind = "disconnect" /\ \A k \in 1 .. j.lease :
            Gone(k, session[j.lease].node)
      BY <1>2, <1>6, <2>1
    <3>2. Replaced(j.lease) \/ Sealed
      BY <1>1, <3>1, DueSealed
    <3> QED BY <1>4, <1>6, <2>1, <3>2 DEF JobOK, Landed
  <2>2. CASE v # w
    <3>1. run[v].lease \in Leases
      BY <1>1, <1>6, <2>2 DEF RecordPart, RecordOK
    <3> QED BY <1>1, <1>6, <2>2, <3>1 DEF GonePart
  <2> QED BY <2>1, <2>2
<1> QED BY <1>7, <1>8, <1>9, <1>10, <1>11, <1>12 DEF WatchInv

-----------------------------------------------------------------------------
(* The beginning, and the theorem. *)

\* Once a tunnel has connected, one of them is the newest.
LEMMA NewestExists ==
  ASSUME ~NoneConnected
  PROVE  \E p \in Leases : Newest(p)
<1> DEFINE T == {n \in Nat : \E p \in Leases : Connected(p) /\ n = MaxLease - p}
<1>1. T \subseteq Nat
  OBVIOUS
<1>2. T # {}
  <2>1. PICK p \in Leases : Connected(p)
    BY DEF NoneConnected
  <2>2. MaxLease - p \in Nat
    BY LeaseAssumption DEF Leases
  <2> QED BY <2>1, <2>2
<1>3. PICK m \in T : \A n \in T : ~(<<n, m>> \in OpToRel(<, Nat))
  BY <1>1, <1>2, NatLessThanWellFounded, WFMin, Zenon
<1>4. \A n \in T : ~(n < m)
  BY <1>1, <1>3, Zenon DEF OpToRel
<1>5. PICK p \in Leases : Connected(p) /\ m = MaxLease - p
  OBVIOUS
<1>6. ASSUME NEW l \in Leases, Connected(l) PROVE l <= p
  <2>1. MaxLease - l \in T
    BY <1>6, LeaseAssumption DEF Leases
  <2> QED BY <1>4, <1>5, <2>1, LeaseAssumption DEF Leases
<1> QED BY <1>5, <1>6 DEF Newest

\* A compute stops or is lost, or a worker dies.
LEMMA WatchElsewhere ==
  ASSUME WatchInv, Inv', GenerationsIdentifyLeases', Elsewhere
  PROVE  WatchInv'
<1>1. CASE ComputeStops \/ ComputeLost
  <2>1. UNCHANGED <<rowVars, gatewayVars, run, engine, deleting>>
    BY <1>1 DEF Elsewhere, ComputeStops, ComputeLost
  <2> QED BY <2>1, WatchStutter
<1>2. ASSUME NEW w \in Workers, WorkerDies(w) PROVE WatchInv'
  <2>1. UNCHANGED <<gatewayVars, left, deleting>>
    BY DEF Elsewhere
  <2> QED BY <1>2, <2>1, WatchLoss
<1> QED BY <1>1, <1>2 DEF Elsewhere

\* Every step keeps all of it.
LEMMA WatchNext ==
  ASSUME Undisturbed, WatchInv, [Next]_vars
  PROVE  WatchInv'
<1>1. Inv' /\ GenerationsIdentifyLeases'
  BY NextOK DEF WatchInv, Kept
<1>2. ASSUME NEW w \in Workers, WorkflowStep(w) \/ DeadlineDue(w)
      PROVE  WatchInv'
  BY <1>1, <1>2, WatchWorkflow, WatchDue
<1>3. CASE UNCHANGED vars
  <2>1. UNCHANGED <<rowVars, gatewayVars, run, engine, deleting>>
    BY <1>3 DEF vars, workerVars
  <2> QED BY <1>1, <2>1, WatchStutter
<1> QED BY <1>1, <1>2, <1>3, WatchTunnel, WatchApi, WatchElsewhere DEF Next

-----------------------------------------------------------------------------
(* The beginning. *)

\* With the first tunnel up.
LEMMA RunningTunnel ==
  ASSUME Undisturbed, GatewayInv, InitRunning
  PROVE  AgreeInv /\ TunnelInv
<1> DEFINE first == CHOOSE n \in Nodes : TRUE
<1>1. first \in Nodes /\ \A n \in Nodes : n = first
  BY GatewayAssumption DEF Undisturbed, OneNode
<1>2. /\ \A l \in Leases :
           /\ session[l].node = first /\ ~session[l].writing
           /\ session[l].socket = IF l = 1 THEN "open" ELSE "unused"
           /\ session[l].activation = IF l = 1 THEN "renewing" ELSE "off"
      /\ \A n \in Nodes : peer[n] = 1
  BY <1>1 DEF InitRunning
<1> HIDE DEF first
<1>3. 1 \in Leases /\ \A l \in Leases : 1 <= l
  BY LeaseAssumption DEF Leases
<1>4. /\ attachment = 1 /\ status = "running" /\ ~deleted
      /\ \A n \in Nodes : line[n] = <<>>
      /\ budget.faults = MaxFaults
      /\ deadline["idle"] = [lease |-> 1, generation |-> 1, armed |-> TRUE]
      /\ ~deadline["disconnect"].armed
      /\ jobs = {[kind |-> "idle", lease |-> 1, generation |-> 1]}
  BY DEF InitRunning, DeadlineKinds
<1>5. \A l \in Leases : /\ Connected(l) <=> l = 1
                        /\ Open(l) <=> l = 1
                        /\ Current(l) <=> l = 1
                        /\ Landed(l) <=> l = 1
                        /\ Newest(l) <=> l = 1
  BY <1>1, <1>2, <1>3 DEF Connected, Open, Current, Landed, Newest
<1>6. LinkPart
  <2>1. ConnectPart
    BY <1>2, <1>3 DEF ConnectPart, Leases
  <2>2. UpsertPart /\ QueuePart /\ BudgetPart
    BY <1>2, <1>4, GatewayAssumption
       DEF UpsertPart, QueuePart, QueueOK, BudgetPart
  <2>3. WritePart
    BY <1>2 DEF WritePart
  <2> QED BY <2>1, <2>2, <2>3 DEF LinkPart, Undisturbed
<1>7. StatusPart /\ IdlePart
  <2>1. deadline["idle"].armed /\ deadline["idle"].lease = 1
    BY <1>4
  <2> QED BY <1>4, <1>5, <2>1 DEF StatusPart, IdlePart, At, Settled
<1>8. PeerPart /\ ClosedPart /\ LandPart /\ HeadPart
  BY <1>2, <1>4, <1>5 DEF PeerPart, ClosedPart, LandPart, HeadPart
<1>9. JobPart
  <2>1. /\ JobOf("idle").kind = "idle" /\ JobOf("idle").lease = 1
        /\ JobOf("idle").generation = 1 /\ JobOf("idle") \in jobs
    BY <1>4 DEF JobOf
  <2>2. \A j \in jobs : j.kind = "idle" /\ j.lease = 1
    BY <1>4
  <2>3. \A j \in jobs : JobOK(j)
    BY <1>3, <1>5, <2>2 DEF JobOK
  <2> QED BY <1>4, <2>1, <2>3 DEF JobPart, DeadlineKinds
<1> QED BY <1>6, <1>7, <1>8, <1>9 DEF AgreeInv, TunnelInv

\* With nothing but the start run.
LEMMA PendingTunnel ==
  ASSUME Undisturbed, GatewayInv, InitPending
  PROVE  AgreeInv /\ TunnelInv /\ NoneConnected
<1>1. /\ \A l \in Leases : session[l].socket = "unused"
           /\ session[l].activation = "off" /\ ~session[l].writing
      /\ \A n \in Nodes : peer[n] = NoLease /\ line[n] = <<>>
      /\ \A k \in DeadlineKinds : ~deadline[k].armed
      /\ jobs = {} /\ attachment = NoLease /\ ~deleted
  BY DEF InitPending, RowInit, GatewayInit
<1>2. AgreeInv
  BY <1>1, UnusedAgrees DEF InitPending, Undisturbed
<1>3. NoneConnected /\ \A l \in Leases : ~Connected(l)
  BY <1>1 DEF NoneConnected, Connected
<1>4. \A l \in Leases : attachment # l
  BY <1>1 DEF Leases, NoLease
<1>5. TunnelInv
  BY <1>1, <1>3, <1>4
     DEF TunnelInv, PeerPart, ClosedPart, LandPart, HeadPart, JobPart, Newest
<1> QED BY <1>2, <1>3, <1>5

\* The invariant holds at first.
LEMMA WatchInit ==
  ASSUME Undisturbed, Init
  PROVE  WatchInv
<1>1. Inv /\ GenerationsIdentifyLeases /\ GatewayInv
  BY InitOK DEF Inv, TypePart
<1> DEFINE start == Begun("start", NoLease, 0)
<1>2. PICK up \in BOOLEAN, s \in Workers :
        /\ run = IF up THEN [v \in Workers |-> Free]
                 ELSE [v \in Workers |-> IF v = s THEN start ELSE Free]
        /\ engine.taken = {}
        /\ IF up THEN InitRunning ELSE InitPending
  <2>1. CASE InitRunning
    <3>1. WorkerInit(TRUE)
      BY <2>1 DEF InitRunning
    <3>2. \E w \in Workers : run = [v \in Workers |-> Free]
      BY <3>1 DEF WorkerInit
    <3>3. engine.taken = {}
      BY <3>1 DEF WorkerInit
    <3> QED BY <2>1, <3>2, <3>3
  <2>2. CASE InitPending
    <3>1. WorkerInit(FALSE)
      BY <2>2 DEF InitPending
    <3>2. \E w \in Workers :
            run = [v \in Workers |-> IF v = w THEN start ELSE Free]
      BY <3>1 DEF WorkerInit
    <3>3. engine.taken = {}
      BY <3>1 DEF WorkerInit
    <3> QED BY <2>2, <3>2, <3>3
  <2> QED BY <2>1, <2>2 DEF Init
<1>3. start.flow = "start" /\ start.pc = "prepare"
  BY DEF Begun, Free, FirstStep
<1> HIDE DEF start
<1>4. \A v \in Workers :
        run[v] = Free \/ (~up /\ v = s /\ run[v] = start)
  BY <1>2
<1>5. QuietPart
  <2>1. budget = [touches |-> MaxTouches, faults |-> MaxFaults,
                  crashes |-> MaxCrashes]
    <3>1. InitRunning => budget = [touches |-> MaxTouches, faults |-> MaxFaults,
                                   crashes |-> MaxCrashes]
      BY DEF InitRunning
    <3>2. InitPending => budget = [touches |-> MaxTouches, faults |-> MaxFaults,
                                   crashes |-> MaxCrashes]
      BY DEF InitPending, GatewayInit
    <3> QED BY <1>2, <3>1, <3>2
  <2>2. budget.faults = 0 /\ budget.crashes = 0
    BY <2>1 DEF Undisturbed
  <2>3. ~deleting
    BY DEF Init
  <2> QED BY <1>2, <1>3, <1>4, <2>2, <2>3, FreeOK DEF QuietPart
<1>6. BeginPart
  <2>1. ~up => status = "pending"
    BY <1>2 DEF InitPending, RowInit
  <2> QED BY <1>4, <2>1, FreeOK DEF BeginPart, Beginning
<1>7. DonePart /\ GonePart
  BY <1>2, <1>3, <1>4, FreeOK DEF DonePart, GonePart
<1>8. CASE up
  <2>1. InitRunning
    BY <1>2, <1>8
  <2>2. AgreeInv /\ TunnelInv
    BY <1>1, <2>1, RunningTunnel
  <2>3. ~NoneConnected
    <3>1. 1 \in Leases
      BY LeaseAssumption DEF Leases
    <3>2. session[1].socket = "open"
      BY <2>1, <3>1 DEF InitRunning
    <3> QED BY <3>1, <3>2 DEF NoneConnected, Connected
  <2> QED BY <1>1, <1>5, <1>6, <1>7, <2>2, <2>3 DEF WatchInv, FirstPart
<1>9. CASE ~up
  <2>1. InitPending
    BY <1>2, <1>9
  <2>2. AgreeInv /\ TunnelInv
    BY <1>1, <2>1, PendingTunnel
  <2>3. FirstPart
    <3>1. status = "pending" /\ \A n \in Nodes : line[n] = <<>>
      BY <2>1 DEF InitPending, RowInit, GatewayInit
    <3>2. \A n \in Nodes : TouchesOnly(line[n])
      BY <3>1 DEF TouchesOnly
    <3>3. run[s] = start
      BY <1>2, <1>9
    <3> QED BY <1>3, <1>4, <3>1, <3>2, <3>3, FreeOK
         DEF FirstPart, StartupStatuses, BeforeAttach, EarlySteps
  <2> QED BY <1>1, <1>5, <1>6, <1>7, <2>2, <2>3 DEF WatchInv
<1> QED BY <1>8, <1>9

-----------------------------------------------------------------------------
(* The theorem. *)

\* The invariant holds throughout.
LEMMA WatchHolds ==
  ASSUME Undisturbed
  PROVE  Spec => []WatchInv
<1>1. Init => WatchInv
  BY WatchInit
<1>2. WatchInv /\ [Next]_vars => WatchInv'
  BY WatchNext
<1> QED BY <1>1, <1>2, PTL DEF Spec

\* Once everything has settled, a run that was enqueued for a deadline as it
\* is stored was not taken up or is recorded as failed, unless it had a reason
\* to leave the instance alone.
LEMMA SettledRun ==
  ASSUME WatchInv, NoRuns, status \notin Terminal,
         NEW k \in DeadlineKinds, deadline[k].armed,
         k = "idle" => ~Passed(deadline[k].lease),
         k = "disconnect" => ~Replaced(deadline[k].lease)
  PROVE  \E j \in (jobs \ engine.taken) \cup engine.failed : CurrentRun(j)
<1> DEFINE j == JobOf(k)
<1>1. /\ j.kind = k /\ j.lease = deadline[k].lease
      /\ j.generation = deadline[k].generation
  BY DEF JobOf
<1>2. j \in jobs
  BY DEF WatchInv, TunnelInv, JobPart
<1> HIDE DEF j
<1>3. CurrentRun(j)
  <2>1. deadline \in Deadlines
    BY DEF WatchInv, Inv, TypePart, GatewayInv, DeadlinePart
  <2>2. deadline[k] = [lease |-> deadline[k].lease,
                       generation |-> deadline[k].generation, armed |-> TRUE]
    BY <2>1 DEF Deadlines
  <2> QED BY <1>1, <2>2 DEF CurrentRun
<1>4. ASSUME j \in engine.taken PROVE j \in engine.failed
  <2>1. Handled(j)
    BY <1>4 DEF WatchInv, DonePart
  <2>2. \A w \in Workers : ~Carries(run[w], j)
    BY <1>1, FreeOK DEF NoRuns, Carries, DeadlineKinds
  <2> QED BY <1>1, <1>3, <2>1, <2>2 DEF Handled
<1> QED BY <1>2, <1>3, <1>4

\* The newest tunnel says which deadline watches.
LEMMA WatchSettled ==
  ASSUME Undisturbed, WatchInv
  PROVE  LiveSandboxIsWatched
<1> SUFFICES ASSUME NoRuns, Quiet, status \notin Terminal
             PROVE  \E j \in (jobs \ engine.taken) \cup engine.failed :
                      CurrentRun(j)
  BY DEF LiveSandboxIsWatched, Terminal
<1>1. AgreeInv /\ TunnelInv /\ FirstPart /\ budget.faults = 0
  BY DEF WatchInv, QuietPart
<1>2. ~NoneConnected
  BY <1>1, FreeOK DEF FirstPart, NoRuns
<1>3. PICK p \in Leases : Newest(p)
  BY <1>2, NewestExists
<1>4. CASE Open(p)
  <2>1. Current(p) /\ attachment = p /\ session[p].activation = "renewing"
    BY <1>1, <1>3, <1>4
       DEF TunnelInv, PeerPart, Quiet, Open, AgreeInv, LinkPart, ConnectPart
  <2>2. Settled(p)
    <3>1. budget.faults = MaxFaults
      BY <1>1 DEF Undisturbed
    <3> QED BY <1>4, <2>1, <3>1 DEF Settled, Faultless
  <2>3. deadline["idle"].armed /\ deadline["idle"].lease = p
    BY <1>1, <2>1, <2>2 DEF AgreeInv, IdlePart
  <2>4. ~Passed(p)
    BY <1>4, <2>1 DEF Passed
  <2> QED BY <2>3, <2>4, SettledRun DEF DeadlineKinds
<1>5. CASE ~Open(p)
  <2>1. \A n \in Nodes : ~Waiting(line[n], p)
    BY DEF Waiting, Quiet
  <2>2. Disconnected(p)
    BY <1>1, <1>3, <1>5, <2>1 DEF TunnelInv, ClosedPart
  <2>3. ~Replaced(p)
    BY <1>3 DEF Replaced, Newest, Leases
  <2> QED BY <2>2, <2>3, SettledRun DEF Disconnected, DeadlineKinds
<1> QED BY <1>4, <1>5

\* A sandbox that is up is never lost silently: once the tunnel, the deadlines
\* and the runs of the worker have settled, the idle or the disconnect deadline
\* is armed and its run is still to come or recorded as failed. Whatever starts,
\* stops, reconciliations, deaths of workers, lost computes, replaced tunnels and
\* lapsed attachments come in between, none of them disarms the deadline that
\* counts (TunnelSessionService, handleSandboxInstanceDeadline), and no run for
\* it ends without a trace. With one gateway node whose calls do not fail, and
\* without resumes and deletions: see Undisturbed.
THEOREM LiveSandboxIsWatchedHolds ==
  ASSUME Undisturbed
  PROVE  Spec => []LiveSandboxIsWatched
<1>1. WatchInv => LiveSandboxIsWatched
  BY WatchSettled
<1> QED BY <1>1, WatchHolds, PTL
=============================================================================
