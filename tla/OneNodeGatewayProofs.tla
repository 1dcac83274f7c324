------------------------- MODULE OneNodeGatewayProofs -------------------------
(***************************************************************************)
(* The gateway of one node, wherever its steps are taken: how its sessions *)
(* and its queue hang together, and what the row and the idle deadline say *)
(* of a session in service. Nearly all of it is about the coordinator's    *)
(* queue: in which order the attaches and detaches of the leases can wait  *)
(* in it.                                                                  *)
(***************************************************************************)
EXTENDS GatewayTunnelProofs

OneNode == \A m, n \in Nodes : m = n

\* The operations that take a lease in and out of service.
Turns == {"attach", "detach"}

\* Leases connect in their order, and the node's peer is the last that did.
ConnectPart ==
  /\ \A l \in Leases : session[l].socket = "unused" =>
       session[l].activation = "off" /\ ~session[l].writing
  /\ \A l \in Leases :
       session[l].socket = "open" => session[l].activation # "off"
  /\ \A k, l \in Leases :
       k < l /\ session[l].socket # "unused" => session[k].socket # "unused"
  /\ \A n \in Nodes : peer[n] # NoLease =>
       /\ session[peer[n]].socket # "unused"
       /\ \A l \in Leases : session[l].socket # "unused" => l <= peer[n]

\* Attachments are written in that order.
UpsertPart ==
  \A k, l \in Leases :
    /\ k < l /\ session[l].socket # "unused"
    /\ session[k].activation = "upsert"
    => session[l].activation = "upsert"

\* The operations q that wait while the sessions are s: only the first is under
\* way, a lease is detached after its socket closed, and nothing that waits
\* behind the attach of a lease, or is left once it is over, is about an older
\* lease.
QueueOK(q, s) ==
  \A i \in 1 .. Len(q) :
    /\ i # 1 => q[i].step = "start"
    /\ q[i].op \in Turns =>
         /\ s[q[i].lease].socket # "unused"
         /\ \A l \in Leases : s[l].activation = "renewing" => l <= q[i].lease
    /\ q[i].op = "attach" => s[q[i].lease].activation # "upsert"
    /\ q[i].op = "detach" => s[q[i].lease].socket # "open"
    /\ \A j \in 1 .. Len(q) :
         i < j /\ q[i].op = "attach" /\ q[j].op \in Turns =>
           q[i].lease <= q[j].lease
QueuePart == \A n \in Nodes : QueueOK(line[n], session)

\* One renewal at a time is writing, and that of the peer writes what is there.
WritePart ==
  /\ \A k, l \in Leases : session[k].writing /\ session[l].writing => k = l
  /\ \A l \in Leases : session[l].writing /\ Open(l) /\ Current(l) =>
       /\ attachment = l
       /\ \A k \in Leases : session[k].activation # "upsert"

\* Failed calls are counted down.
BudgetPart == budget.faults <= MaxFaults

\* How the sessions, the queue and the attachment hang together.
LinkPart ==
  /\ OneNode /\ GatewayInv
  /\ ConnectPart /\ UpsertPart /\ QueuePart /\ WritePart /\ BudgetPart

\* No call of the gateway has failed so far.
Faultless == budget.faults = MaxFaults

\* Lease l is in service: its session is the peer, and its attach was completed.
Settled(l) ==
  /\ Open(l) /\ Current(l) /\ session[l].activation = "renewing"
  /\ Faultless

\* The attach of a lease in service has taken the status out of reconnecting.
StatusPart ==
  /\ ~deleted
  /\ \A n \in Nodes : At(n, "attach", "put_idle") => status # "reconnecting"
  /\ \A l \in Leases : Settled(l) => status # "reconnecting"

\* And it armed its idle deadline, which only touches for itself arm again and
\* only the end of the instance clears.
IdlePart ==
  \A l \in Leases : Settled(l) /\ attachment = l =>
    /\ \/ status \in Terminal
       \/ deadline["idle"].armed /\ deadline["idle"].lease = l
    /\ \A n \in Nodes : At(n, "touch", "put_idle") => Lease(n) = l

AgreeInv == LinkPart /\ StatusPart /\ IdlePart

-----------------------------------------------------------------------------
(* The queue. *)

\* The lease of an attach or detach operation is one.
LEMMA TurnLease ==
  ASSUME NEW q \in Seq(OpRecords), NEW i \in 1 .. Len(q)
  PROVE  /\ q[i] \in OpRecords
         /\ q[i].op \in Turns => q[i].lease \in Leases
<1>1. q[i] \in OpRecords
  OBVIOUS
<1> QED BY <1>1 DEF OpRecords, Turns

\* What a queue keeps when sessions change.
LEMMA QueueSession ==
  ASSUME NEW q \in Seq(OpRecords), NEW s \in Sessions, NEW t \in Sessions,
         QueueOK(q, s),
         \A l \in Leases :
           /\ s[l].socket # "unused" =>
                /\ t[l].socket # "unused"
                /\ s[l].socket # "open" => t[l].socket # "open"
                /\ s[l].activation # "upsert" => t[l].activation # "upsert"
           /\ t[l].activation = "renewing" => s[l].activation = "renewing"
  PROVE  QueueOK(q, t)
<1> SUFFICES ASSUME NEW i \in 1 .. Len(q)
             PROVE  /\ i # 1 => q[i].step = "start"
                    /\ q[i].op \in Turns =>
                         /\ t[q[i].lease].socket # "unused"
                         /\ \A l \in Leases :
                              t[l].activation = "renewing" => l <= q[i].lease
                    /\ q[i].op = "attach" => t[q[i].lease].activation # "upsert"
                    /\ q[i].op = "detach" => t[q[i].lease].socket # "open"
                    /\ \A j \in 1 .. Len(q) :
                         i < j /\ q[i].op = "attach" /\ q[j].op \in Turns =>
                           q[i].lease <= q[j].lease
  BY DEF QueueOK
<1>1. q[i].op \in Turns => q[i].lease \in Leases
  BY TurnLease
<1> QED BY <1>1 DEF QueueOK, Turns

\* What it keeps when an operation is over.
LEMMA QueueTail ==
  ASSUME NEW q \in Seq(OpRecords), q # <<>>, NEW s \in Sessions, QueueOK(q, s)
  PROVE  /\ QueueOK(Tail(q), s)
         /\ Tail(q) # <<>> => Head(Tail(q)).step = "start"
<1>1. /\ Len(Tail(q)) = Len(q) - 1 /\ Len(q) \in Nat
      /\ \A i \in 1 .. Len(Tail(q)) :
           /\ i + 1 \in 1 .. Len(q) /\ i + 1 # 1
           /\ Tail(q)[i] = q[i + 1]
  OBVIOUS
<1>2. QueueOK(Tail(q), s)
  <2> SUFFICES ASSUME NEW i \in 1 .. Len(Tail(q))
      PROVE  /\ q[i + 1].step = "start"
             /\ q[i + 1].op \in Turns =>
                  /\ s[q[i + 1].lease].socket # "unused"
                  /\ \A l \in Leases :
                       s[l].activation = "renewing" => l <= q[i + 1].lease
             /\ q[i + 1].op = "attach" =>
                  s[q[i + 1].lease].activation # "upsert"
             /\ q[i + 1].op = "detach" => s[q[i + 1].lease].socket # "open"
             /\ \A j \in 1 .. Len(Tail(q)) :
                  i < j /\ q[i + 1].op = "attach" /\ q[j + 1].op \in Turns =>
                    q[i + 1].lease <= q[j + 1].lease
    BY <1>1 DEF QueueOK
  <2> QED BY <1>1 DEF QueueOK
<1>3. Tail(q) # <<>> => Head(Tail(q)) = q[2] /\ 2 \in 1 .. Len(q)
  OBVIOUS
<1> QED BY <1>2, <1>3 DEF QueueOK

\* When the attach at its head is over, all that is left is about its lease or a
\* later one.
LEMMA QueueAttached ==
  ASSUME NEW q \in Seq(OpRecords), q # <<>>, NEW s \in Sessions, QueueOK(q, s),
         Head(q).op = "attach"
  PROVE  QueueOK(Tail(q), [s EXCEPT ![Head(q).lease].activation = "renewing"])
<1> DEFINE l == Head(q).lease
           t == [s EXCEPT ![l].activation = "renewing"]
           p == Tail(q)
<1>1. /\ Head(q) = q[1] /\ 1 \in 1 .. Len(q) /\ Len(p) = Len(q) - 1
      /\ p \in Seq(OpRecords)
      /\ \A i \in 1 .. Len(p) :
           i + 1 \in 1 .. Len(q) /\ 1 < i + 1 /\ p[i] = q[i + 1]
  OBVIOUS
<1>2. l \in Leases
  BY <1>1, TurnLease DEF Turns
<1>3. QueueOK(p, s)
  BY QueueTail
<1>4. ASSUME NEW i \in 1 .. Len(p), p[i].op \in Turns
      PROVE  l <= p[i].lease
  BY <1>1, <1>4 DEF QueueOK
<1>5. ASSUME NEW k \in Leases
      PROVE  /\ t[k].socket = s[k].socket
             /\ \/ t[k].activation = s[k].activation
                \/ k = l /\ t[k].activation = "renewing"
  <2> DEFINE e == [s[l] EXCEPT !.activation = "renewing"]
  <2>1. e.socket = s[l].socket /\ e.activation = "renewing"
    BY <1>2 DEF Sessions
  <2>2. t = [s EXCEPT ![l] = e] /\ l \in DOMAIN s
    BY <1>2 DEF Sessions
  <2> HIDE DEF e, t, l
  <2>3. t[k] = IF k = l THEN e ELSE s[k]
    BY <2>2 DEF Sessions
  <2> QED BY <2>1, <2>3
<1> HIDE DEF t, p, l
<1> QED
<2> SUFFICES ASSUME NEW i \in 1 .. Len(p)
             PROVE  /\ i # 1 => p[i].step = "start"
                    /\ p[i].op \in Turns =>
                         /\ t[p[i].lease].socket # "unused"
                         /\ \A k \in Leases :
                              t[k].activation = "renewing" => k <= p[i].lease
                    /\ p[i].op = "attach" => t[p[i].lease].activation # "upsert"
                    /\ p[i].op = "detach" => t[p[i].lease].socket # "open"
                    /\ \A j \in 1 .. Len(p) :
                         i < j /\ p[i].op = "attach" /\ p[j].op \in Turns =>
                           p[i].lease <= p[j].lease
  BY DEF QueueOK, t, p, l
<2>1. p[i].op \in Turns => p[i].lease \in Leases
  BY <1>1, TurnLease
<2> QED BY <1>3, <1>4, <1>5, <2>1 DEF QueueOK, Turns

\* What it keeps when the operation under way goes on, or a touch learns of the
\* lease it is for.
LEMMA QueueHead ==
  ASSUME NEW q \in Seq(OpRecords), q # <<>>, NEW s \in Sessions, QueueOK(q, s),
         NEW p \in Seq(OpRecords), Len(p) = Len(q),
         \A i \in 1 .. Len(q) : i # 1 => p[i] = q[i],
         p[1].op = q[1].op, p[1].op \in Turns => p[1].lease = q[1].lease
  PROVE  QueueOK(p, s)
<1>1. \A i \in 1 .. Len(q) :
        /\ p[i].op = q[i].op /\ (i # 1 => p[i].step = q[i].step)
        /\ p[i].op \in Turns => p[i].lease = q[i].lease
  OBVIOUS
<1> SUFFICES ASSUME NEW i \in 1 .. Len(q)
             PROVE  /\ i # 1 => p[i].step = "start"
                    /\ p[i].op \in Turns =>
                         /\ s[p[i].lease].socket # "unused"
                         /\ \A k \in Leases :
                              s[k].activation = "renewing" => k <= p[i].lease
                    /\ p[i].op = "attach" => s[p[i].lease].activation # "upsert"
                    /\ p[i].op = "detach" => s[p[i].lease].socket # "open"
                    /\ \A j \in 1 .. Len(q) :
                         i < j /\ p[i].op = "attach" /\ p[j].op \in Turns =>
                           p[i].lease <= p[j].lease
  BY DEF QueueOK
<1> QED BY <1>1 DEF QueueOK, Turns

\* An operation is queued.
LEMMA QueueAppend ==
  ASSUME NEW q \in Seq(OpRecords), NEW s \in Sessions, QueueOK(q, s),
         NEW o \in Operations, NEW l \in LeaseOrNone, l \in Leases \/ o = "touch",
         o \in Turns =>
           /\ s[l].socket # "unused"
           /\ \A k \in Leases : s[k].activation = "renewing" => k <= l
           /\ \A i \in 1 .. Len(q) : q[i].op = "attach" => q[i].lease <= l,
         o = "attach" => s[l].activation # "upsert",
         o = "detach" => s[l].socket # "open"
  PROVE  /\ QueueOK(Append(q, Op(o, l)), s)
         /\ \/ Head(Append(q, Op(o, l))).step = "start"
            \/ q # <<>> /\ Head(Append(q, Op(o, l))) = Head(q)
<1> DEFINE e == Op(o, l)
           p == Append(q, e)
<1>1. e.op = o /\ e.lease = l /\ e.step = "start"
  BY DEF Op
<1> HIDE DEF e
<1>2. /\ Len(p) = Len(q) + 1 /\ Len(q) \in Nat /\ p[Len(q) + 1] = e
      /\ \A i \in 1 .. Len(q) : p[i] = q[i]
      /\ p # <<>> /\ Head(p) = p[1]
  OBVIOUS
<1> HIDE DEF p
<1>3. QueueOK(p, s)
  <2> SUFFICES ASSUME NEW i \in 1 .. Len(p)
             PROVE  /\ i # 1 => p[i].step = "start"
                    /\ p[i].op \in Turns =>
                         /\ s[p[i].lease].socket # "unused"
                         /\ \A k \in Leases :
                              s[k].activation = "renewing" => k <= p[i].lease
                    /\ p[i].op = "attach" => s[p[i].lease].activation # "upsert"
                    /\ p[i].op = "detach" => s[p[i].lease].socket # "open"
                    /\ \A j \in 1 .. Len(p) :
                         i < j /\ p[i].op = "attach" /\ p[j].op \in Turns =>
                           p[i].lease <= p[j].lease
    BY DEF QueueOK
  <2>1. CASE i = Len(q) + 1
    BY <1>1, <1>2, <2>1 DEF Turns
  <2>2. CASE i # Len(q) + 1
    <3>1. i \in 1 .. Len(q) /\ p[i] = q[i]
      BY <1>2, <2>2
    <3>2. ASSUME NEW j \in 1 .. Len(p), i < j, p[i].op = "attach", p[j].op \in Turns
          PROVE  p[i].lease <= p[j].lease
      <4>1. CASE j = Len(q) + 1
        BY <1>1, <1>2, <3>1, <3>2, <4>1
      <4>2. CASE j # Len(q) + 1
        <5>1. j \in 1 .. Len(q) /\ p[j] = q[j]
          BY <1>2, <4>2
        <5> QED BY <3>1, <3>2, <5>1 DEF QueueOK
      <4> QED BY <4>1, <4>2
    <3> QED BY <3>1, <3>2 DEF QueueOK
  <2> QED BY <2>1, <2>2
<1>4. p[1].step = "start" \/ (q # <<>> /\ p[1] = Head(q))
  <2>1. CASE q = <<>>
    BY <1>1, <1>2, <2>1
  <2>2. CASE q # <<>>
    BY <1>2, <2>2
  <2> QED BY <2>1, <2>2
<1> QED BY <1>2, <1>3, <1>4 DEF p, e

\* The three changes of a queue, seen by a step of the gateway of one node.
LEMMA DoneQueue ==
  ASSUME LinkPart, NEW n \in Nodes, line[n] # <<>>, Done(n)
  PROVE  \A m \in Nodes :
           /\ line'[m] = Tail(line[m]) /\ QueueOK(line'[m], session)
           /\ line'[m] # <<>> => Head(line'[m]).step = "start"
<1>1. line \in Lines /\ session \in Sessions /\ QueueOK(line[n], session)
  BY DEF LinkPart, GatewayInv, LinePart, SessionPart, QueuePart
<1>2. line[n] \in Seq(OpRecords) /\ line'[n] = Tail(line[n])
  BY <1>1 DEF Done, Lines
<1>3. /\ QueueOK(Tail(line[n]), session)
      /\ Tail(line[n]) # <<>> => Head(Tail(line[n])).step = "start"
  BY <1>1, <1>2, QueueTail
<1> QED BY <1>2, <1>3 DEF LinkPart, OneNode

\* A step of the operation under way changes nothing but its step.
LEMMA ProceedQueue ==
  ASSUME LinkPart, NEW n \in Nodes, line[n] # <<>>, NEW s \in OpSteps,
         Proceed(n, s), LinePart'
  PROVE  \A m \in Nodes :
           /\ QueueOK(line'[m], session)
           /\ line'[m] # <<>> /\ Head(line'[m]).step = s
           /\ Head(line'[m]).op = Head(line[m]).op
           /\ Head(line'[m]).lease = Head(line[m]).lease
<1>1. line \in Lines /\ session \in Sessions /\ QueueOK(line[n], session)
  BY DEF LinkPart, GatewayInv, LinePart, SessionPart, QueuePart
<1> DEFINE q == line[n]
           h == [q[1] EXCEPT !.step = s]
           p == [q EXCEPT ![1] = h]
<1>2. /\ q \in Seq(OpRecords) /\ q[1] \in OpRecords /\ Head(q) = q[1]
      /\ 1 \in DOMAIN q /\ line'[n] = p /\ p \in Seq(OpRecords)
  BY <1>1 DEF Proceed, Lines, LinePart
<1>3. h.step = s /\ h.op = q[1].op /\ h.lease = q[1].lease
  BY <1>2 DEF OpRecords
<1> HIDE DEF h
<1>4. /\ Len(p) = Len(q) /\ p[1] = h /\ p # <<>> /\ Head(p) = h
      /\ \A i \in 1 .. Len(q) : i # 1 => p[i] = q[i]
  BY <1>2
<1> HIDE DEF p, q
<1>5. QueueOK(p, session)
  BY <1>1, <1>2, <1>3, <1>4, QueueHead DEF q
<1> QED BY <1>2, <1>3, <1>4, <1>5 DEF LinkPart, OneNode, q

\* What is added waits at the end.
LEMMA EnqueueQueue ==
  ASSUME LinkPart, NEW n \in Nodes, NEW o \in Operations,
         NEW l \in LeaseOrNone, l \in Leases \/ o = "touch",
         NEW s \in Sessions, QueueOK(line[n], s),
         o \in Turns =>
           /\ s[l].socket # "unused"
           /\ \A k \in Leases : s[k].activation = "renewing" => k <= l
           /\ \A i \in 1 .. Len(line[n]) :
                line[n][i].op = "attach" => line[n][i].lease <= l,
         o = "attach" => s[l].activation # "upsert",
         o = "detach" => s[l].socket # "open",
         Enqueue(n, o, l)
  PROVE  \A m \in Nodes :
           /\ QueueOK(line'[m], s)
           /\ \/ Head(line'[m]).step = "start"
              \/ line[m] # <<>> /\ Head(line'[m]) = Head(line[m])
<1>1. line \in Lines
  BY DEF LinkPart, GatewayInv, LinePart
<1>2. line[n] \in Seq(OpRecords) /\ line'[n] = Append(line[n], Op(o, l))
  BY <1>1 DEF Enqueue, Lines
<1>3. /\ QueueOK(line'[n], s)
      /\ \/ Head(line'[n]).step = "start"
         \/ line[n] # <<>> /\ Head(line'[n]) = Head(line[n])
  BY <1>2, QueueAppend
<1> QED BY <1>3 DEF LinkPart, OneNode

-----------------------------------------------------------------------------
(* What a step keeps. *)

\* The status does not become reconnecting, and what has ended has ended.
StatusCalm ==
  /\ status' = status \/ status' # "reconnecting"
  /\ status \in Terminal => status' \in Terminal

\* Reports other than a detach do not lead to reconnecting.
LEMMA ReportKeepsConnected ==
  ASSUME NEW r \in Reports, r # "detached", StatusAfterReport(r) = "reconnecting"
  PROVE  status = "reconnecting" /\ r \notin {"ready", "not_ready"}
  BY DEF StatusAfterReport, ResolveLifecycleEvent, After, Rule, Reports

\* The links, when the sessions stay as they are.
LEMMA LinkKept ==
  ASSUME LinkPart, GatewayInv', session' = session,
         \A n \in Nodes : peer'[n] = peer[n] \/ peer'[n] = NoLease,
         \A n \in Nodes : QueueOK(line'[n], session),
         \/ attachment' = attachment
         \/ \A l \in Leases :
              session[l].writing /\ Open(l) /\ Current(l) => attachment # l,
         budget'.faults <= budget.faults
  PROVE  LinkPart'
<1>1. ConnectPart'
  BY DEF LinkPart, ConnectPart
<1>2. UpsertPart' /\ QueuePart'
  BY DEF LinkPart, UpsertPart, QueuePart
<1>3. WritePart'
  <2>1. \A l \in Leases : session[l].node \in Nodes
    BY DEF LinkPart, GatewayInv, SessionPart, Sessions
  <2>2. \A l \in Leases : Current(l)' => Current(l)
    BY <2>1, LeaseFacts DEF Current, NoLease, Leases
  <2>3. \A l \in Leases : Open(l)' <=> Open(l)
    BY DEF Open
  <2> QED BY <2>2, <2>3 DEF LinkPart, WritePart
<1>4. BudgetPart'
  BY GatewayAssumption
     DEF LinkPart, BudgetPart, GatewayInv, SessionPart
<1> QED BY <1>1, <1>2, <1>3, <1>4 DEF LinkPart, OneNode

\* The sessions in service, when none is added and no call is given back.
LEMMA SettledKept ==
  ASSUME LinkPart, GatewayInv',
         \A l \in Leases :
           /\ session'[l].socket = "open" => session[l].socket = "open"
           /\ session'[l].activation = "renewing" =>
                session[l].activation = "renewing",
         \A n \in Nodes : peer'[n] = peer[n] \/ peer'[n] = NoLease,
         budget'.faults <= budget.faults
  PROVE  \A l \in Leases : Settled(l)' => Settled(l)
<1> SUFFICES ASSUME NEW l \in Leases, Settled(l)'
             PROVE  Settled(l)
  OBVIOUS
<1>1. session[l].node \in Nodes /\ session'[l].node \in Nodes
  BY DEF LinkPart, GatewayInv, SessionPart, Sessions
<1>2. session'[l].node = session[l].node
  BY <1>1 DEF LinkPart, OneNode
<1>3. Open(l) /\ Current(l) /\ session[l].activation = "renewing"
  BY <1>1, <1>2, LeaseFacts DEF Settled, Open, Current, NoLease, Leases
<1>4. Faultless
  BY GatewayAssumption
     DEF Settled, Faultless, LinkPart, BudgetPart, GatewayInv, SessionPart
<1> QED BY <1>3, <1>4 DEF Settled

\* The agreement, when no session enters service and nothing is undone for those
\* that are in it.
LEMMA Calm ==
  ASSUME AgreeInv, LinkPart',
         \A l \in Leases : Settled(l)' => Settled(l),
         deleted' = deleted,
         \A n \in Nodes :
           \/ line'[n] = <<>>
           \/ Head(line'[n]).step # "put_idle"
           \/ line[n] # <<>> /\ Head(line'[n]) = Head(line[n]),
         StatusCalm,
         \A l \in Leases : Settled(l) /\ attachment' = l => attachment = l,
         status' \in Terminal \/ deadline'["idle"] = deadline["idle"]
  PROVE  AgreeInv'
<1>1. \A n \in Nodes : \A o :
        At(n, o, "put_idle")' =>
          At(n, o, "put_idle") /\ Lease(n)' = Lease(n)
  BY DEF At, Lease
<1>2. StatusPart'
  <2>1. \A n \in Nodes : At(n, "attach", "put_idle")' => status' # "reconnecting"
    BY <1>1 DEF AgreeInv, StatusPart, StatusCalm
  <2>2. \A l \in Leases : Settled(l)' => status' # "reconnecting"
    BY DEF AgreeInv, StatusPart, StatusCalm
  <2>3. ~deleted'
    BY DEF AgreeInv, StatusPart
  <2> QED BY <2>1, <2>2, <2>3 DEF StatusPart
<1>3. IdlePart'
  <2> SUFFICES ASSUME NEW l \in Leases, Settled(l)', attachment' = l
               PROVE  /\ \/ status' \in Terminal
                         \/ deadline'["idle"].armed /\ deadline'["idle"].lease = l
                      /\ \A n \in Nodes :
                           At(n, "touch", "put_idle")' => Lease(n)' = l
    BY DEF IdlePart
  <2>1. Settled(l) /\ attachment = l
    OBVIOUS
  <2>2. /\ \/ status \in Terminal
           \/ deadline["idle"].armed /\ deadline["idle"].lease = l
        /\ \A n \in Nodes : At(n, "touch", "put_idle") => Lease(n) = l
    BY <2>1 DEF AgreeInv, IdlePart
  <2> QED BY <1>1, <2>2 DEF StatusCalm
<1> QED BY <1>2, <1>3 DEF AgreeInv

\* No detach is waiting or under way while its session is in service: the queue
\* has one for the lease or a later one, and there is no later one.
LEMMA NoDetach ==
  ASSUME LinkPart, NEW n \in Nodes, line[n] # <<>>, Head(line[n]).op = "detach",
         NEW l \in Leases, Open(l) /\ Current(l)
  PROVE  /\ session[l].activation # "renewing"
         /\ Lease(n) # l
<1>1. line[n] \in Seq(OpRecords) /\ QueueOK(line[n], session)
  BY DEF LinkPart, GatewayInv, LinePart, Lines, QueuePart
<1>2. 1 \in 1 .. Len(line[n]) /\ Head(line[n]) = line[n][1]
  BY <1>1
<1>3. /\ session[Lease(n)].socket # "unused" /\ session[Lease(n)].socket # "open"
      /\ session[l].activation = "renewing" => l <= Lease(n)
      /\ Lease(n) \in Leases
  BY <1>1, <1>2, TurnLease DEF QueueOK, Lease, Turns
<1>4. session[l].node \in Nodes /\ peer[session[l].node] = l /\ l # NoLease
  BY DEF LinkPart, GatewayInv, SessionPart, Sessions, Current, Leases, NoLease
<1>5. Lease(n) <= l
  BY <1>3, <1>4 DEF LinkPart, ConnectPart
<1> QED BY <1>3, <1>5 DEF Open, Leases

\* The agreement, when no session is in service after the step.
LEMMA NoneSettled ==
  ASSUME AgreeInv, LinkPart', deleted' = deleted,
         \A n \in Nodes : line'[n] = <<>> \/ Head(line'[n]).step # "put_idle",
         \A l \in Leases : ~Settled(l)'
  PROVE  AgreeInv'
<1>1. \A n \in Nodes : ~At(n, "attach", "put_idle")'
  BY DEF At
<1>2. StatusPart' /\ IdlePart'
  BY <1>1 DEF AgreeInv, StatusPart, IdlePart
<1> QED BY <1>2 DEF AgreeInv

\* The agreement, when the sessions stay as they are and the step is none of
\* those that arm or clear the idle deadline.
LEMMA Routine ==
  ASSUME AgreeInv, GatewayInv', session' = session,
         \A n \in Nodes : peer'[n] = peer[n] \/ peer'[n] = NoLease,
         \A n \in Nodes :
           /\ QueueOK(line'[n], session)
           /\ \/ line'[n] = <<>>
              \/ Head(line'[n]).step # "put_idle"
              \/ line[n] # <<>> /\ Head(line'[n]) = Head(line[n]),
         \/ attachment' = attachment
         \/ /\ attachment' = NoLease
            /\ \A l \in Leases :
                 session[l].writing /\ Open(l) /\ Current(l) => attachment # l,
         budget'.faults <= budget.faults, deleted' = deleted,
         StatusCalm,
         status' \in Terminal \/ deadline'["idle"] = deadline["idle"]
  PROVE  AgreeInv'
<1>1. LinkPart'
  BY LinkKept DEF AgreeInv
<1>2. \A l \in Leases : Settled(l)' => Settled(l)
  BY SettledKept DEF AgreeInv
<1>3. \A l \in Leases : attachment' = l => attachment = l
  BY DEF Leases, NoLease
<1> QED BY <1>1, <1>2, <1>3, Calm

-----------------------------------------------------------------------------
(* The reports about a session, which wait behind what is there. *)

\* An operation that is no turn of a lease may be added at any time.
LEMMA SignalAgrees ==
  ASSUME AgreeInv, GatewayInv', NEW n \in Nodes,
         NEW o \in Operations \ Turns, NEW l \in LeaseOrNone,
         l \in Leases \/ o = "touch", Enqueue(n, o, l),
         UNCHANGED <<rowVars, session, peer>>, budget'.faults = budget.faults
  PROVE  AgreeInv'
<1>1. session \in Sessions /\ QueueOK(line[n], session)
  BY DEF AgreeInv, LinkPart, GatewayInv, SessionPart, QueuePart
<1>2. o \in Operations /\ o \notin Turns /\ o # "attach" /\ o # "detach"
  BY DEF Turns
<1>3. \A m \in Nodes :
        /\ QueueOK(line'[m], session)
        /\ \/ Head(line'[m]).step = "start"
           \/ line[m] # <<>> /\ Head(line'[m]) = Head(line[m])
  BY <1>1, <1>2, EnqueueQueue DEF AgreeInv
<1>4. budget.faults \in Nat
  BY DEF AgreeInv, LinkPart, GatewayInv, SessionPart
<1> QED BY <1>3, <1>4, Routine DEF rowVars, StatusCalm

\* The sandbox says whether its runtime is ready.
LEMMA RuntimeMessageAgrees ==
  ASSUME AgreeInv, GatewayInv', NEW l \in Leases, NEW r \in {"ready", "not_ready"},
         RuntimeMessage(l, r)
  PROVE  AgreeInv'
<1>1. session[l].node \in Nodes /\ l \in LeaseOrNone
  BY LeaseFacts DEF AgreeInv, LinkPart, GatewayInv, SessionPart, Sessions
<1>2. r \in Operations \ Turns
  BY DEF Operations, Turns
<1> QED BY <1>1, <1>2, SignalAgrees DEF RuntimeMessage

\* The health monitor misses a pong, or sees one again.
LEMMA HealthSignalAgrees ==
  ASSUME AgreeInv, GatewayInv', NEW l \in Leases,
         NEW r \in {"degraded", "recovered"}, HealthSignal(l, r)
  PROVE  AgreeInv'
<1>1. session[l].node \in Nodes /\ l \in LeaseOrNone
  BY LeaseFacts DEF AgreeInv, LinkPart, GatewayInv, SessionPart, Sessions
<1>2. r \in Operations \ Turns
  BY DEF Operations, Turns
<1> QED BY <1>1, <1>2, SignalAgrees DEF HealthSignal

\* The sandbox says that it is busy.
LEMMA KeepaliveAgrees ==
  ASSUME AgreeInv, GatewayInv', NEW l \in Leases, Keepalive(l)
  PROVE  AgreeInv'
<1>1. session[l].node \in Nodes /\ l \in LeaseOrNone
  BY LeaseFacts DEF AgreeInv, LinkPart, GatewayInv, SessionPart, Sessions
<1>2. "touch" \in Operations \ Turns
  BY DEF Operations, Turns
<1>3. budget'.faults = budget.faults
  BY DEF Keepalive, AgreeInv, LinkPart, GatewayInv, SessionPart
<1> QED BY <1>1, <1>2, <1>3, SignalAgrees DEF Keepalive

\* The presence lease of a connection peer was renewed.
LEMMA PresenceAgrees ==
  ASSUME AgreeInv, GatewayInv', NEW n \in Nodes, Presence(n)
  PROVE  AgreeInv'
<1>1. "touch" \in Operations \ Turns
  BY DEF Operations, Turns
<1>2. budget'.faults = budget.faults
  BY DEF Presence, AgreeInv, LinkPart, GatewayInv, SessionPart
<1> QED BY <1>1, <1>2, LeaseFacts, SignalAgrees DEF Presence

-----------------------------------------------------------------------------
(* The steps of the coordinator that leave the idle deadline alone. *)

\* A step after which the operation goes on, or is over, and that changes no
\* more than the status, for the better, and the records of the session.
LEMMA StepAgrees ==
  ASSUME AgreeInv, GatewayInv', NEW n \in Nodes, line[n] # <<>>,
         \/ Done(n)
         \/ \E s \in OpSteps \ {"put_idle"} : Proceed(n, s),
         session' = session, budget' = budget, deleted' = deleted,
         \A m \in Nodes : peer'[m] = peer[m] \/ peer'[m] = NoLease,
         \/ attachment' = attachment
         \/ /\ attachment' = NoLease
            /\ \A l \in Leases :
                 session[l].writing /\ Open(l) /\ Current(l) => attachment # l,
         StatusCalm,
         deadline'["idle"] = deadline["idle"]
  PROVE  AgreeInv'
<1>1. \A m \in Nodes :
        /\ QueueOK(line'[m], session)
        /\ line'[m] = <<>> \/ Head(line'[m]).step # "put_idle"
  <2>1. CASE Done(n)
    <3>1. \A m \in Nodes :
           /\ line'[m] = Tail(line[m]) /\ QueueOK(line'[m], session)
           /\ line'[m] # <<>> => Head(line'[m]).step = "start"
      BY <2>1, DoneQueue DEF AgreeInv
    <3> QED BY <3>1
  <2>2. ASSUME NEW s \in OpSteps \ {"put_idle"}, Proceed(n, s)
        PROVE  \A m \in Nodes :
                 QueueOK(line'[m], session) /\ Head(line'[m]).step = s
    BY <2>2, ProceedQueue DEF AgreeInv, GatewayInv
  <2> QED BY <2>1, <2>2
<1>2. budget'.faults <= budget.faults
  BY DEF AgreeInv, LinkPart, GatewayInv, SessionPart
<1> QED BY <1>1, <1>2, Routine

\* The attachment a detach gives up is that of a closed session.
LEMMA DetachStartAgrees ==
  ASSUME AgreeInv, GatewayInv', NEW n \in Nodes, DetachStart(n)
  PROVE  AgreeInv'
<1>1. line[n] # <<>> /\ Head(line[n]).op = "detach"
  BY DEF DetachStart, At
<1>2. \A l \in Leases : Open(l) /\ Current(l) => Lease(n) # l
  BY <1>1, NoDetach DEF AgreeInv
<1>3. \/ attachment' = attachment
      \/ attachment' = NoLease /\ attachment = Lease(n)
  BY DEF DetachStart
<1>4. Done(n) \/ \E s \in OpSteps \ {"put_idle"} : Proceed(n, s)
  BY DEF DetachStart, OpSteps
<1> QED BY <1>1, <1>2, <1>3, <1>4, StepAgrees DEF DetachStart, StatusCalm

\* Whether the detached owner is current changes nothing yet.
LEMMA DetachJudgeAgrees ==
  ASSUME AgreeInv, GatewayInv', NEW n \in Nodes, DetachJudge(n)
  PROVE  AgreeInv'
<1>1. line[n] # <<>>
  BY DEF DetachJudge, At
<1>2. Done(n) \/ \E s \in OpSteps \ {"put_idle"} : Proceed(n, s)
  BY DEF DetachJudge, OpSteps
<1> QED BY <1>1, <1>2, StepAgrees DEF DetachJudge, rowVars, StatusCalm

\* The disconnect deadline is not the idle deadline.
LEMMA DetachPutDisconnectAgrees ==
  ASSUME AgreeInv, GatewayInv', NEW n \in Nodes, DetachPutDisconnect(n)
  PROVE  AgreeInv'
<1>1. line[n] # <<>> /\ Done(n)
  BY DEF DetachPutDisconnect, At
<1>2. \A m \in Nodes : peer'[m] = peer[m] \/ peer'[m] = NoLease
  BY DEF DetachPutDisconnect, AgreeInv, LinkPart, GatewayInv, SessionPart
<1>3. deadline'["idle"] = deadline["idle"]
  BY DEF DetachPutDisconnect, PutDeadline, AgreeInv, LinkPart, GatewayInv,
         DeadlinePart, Deadlines, DeadlineKinds
<1> QED BY <1>1, <1>2, <1>3, StepAgrees DEF DetachPutDisconnect, StatusCalm

\* The readiness record is written.
LEMMA ReadinessStartAgrees ==
  ASSUME AgreeInv, GatewayInv', NEW n \in Nodes, NEW r \in {"ready", "not_ready"},
         ReadinessStart(n, r)
  PROVE  AgreeInv'
<1>1. line[n] # <<>>
  BY DEF ReadinessStart, At
<1>2. Done(n) \/ \E s \in OpSteps \ {"put_idle"} : Proceed(n, s)
  BY DEF ReadinessStart, OpSteps
<1> QED BY <1>1, <1>2, StepAgrees DEF ReadinessStart, StatusCalm

\* Readiness is reported: it never leads to reconnecting.
LEMMA ReadinessReportAgrees ==
  ASSUME AgreeInv, GatewayInv', NEW n \in Nodes, NEW r \in {"ready", "not_ready"},
         ReadinessReport(n, r)
  PROVE  AgreeInv'
<1>1. line[n] # <<>> /\ Done(n)
  BY DEF ReadinessReport, At
<1>2. StatusCalm
  BY ReportKeepsConnected, ReportBetween
     DEF ReadinessReport, Reports, StatusCalm, Between
<1> QED BY <1>1, <1>2, StepAgrees DEF ReadinessReport

\* Health is reported: it never leads to reconnecting.
LEMMA HealthReportAgrees ==
  ASSUME AgreeInv, GatewayInv', NEW n \in Nodes,
         NEW r \in {"degraded", "recovered"}, HealthReport(n, r)
  PROVE  AgreeInv'
<1>1. line[n] # <<>> /\ Done(n)
  BY DEF HealthReport, At
<1>2. StatusCalm
  BY ReportKeepsConnected, ReportBetween
     DEF HealthReport, Reports, StatusCalm, Between
<1> QED BY <1>1, <1>2, StepAgrees DEF HealthReport

-----------------------------------------------------------------------------
(* The attach of a lease, and the end of an operation whose call failed. *)

\* The lease of the operation under way, and what the queue says of it.
LEMMA UnderWay ==
  ASSUME LinkPart, NEW n \in Nodes, line[n] # <<>>, Head(line[n]).op = "attach"
  PROVE  /\ Lease(n) \in Leases
         /\ session[Lease(n)].socket # "unused"
         /\ session[Lease(n)].activation # "upsert"
         /\ \A l \in Leases : session[l].activation = "renewing" => l <= Lease(n)
<1>1. line[n] \in Seq(OpRecords) /\ QueueOK(line[n], session)
  BY DEF LinkPart, GatewayInv, LinePart, Lines, QueuePart
<1>2. 1 \in 1 .. Len(line[n]) /\ Head(line[n]) = line[n][1]
  BY <1>1
<1> QED BY <1>1, <1>2, TurnLease DEF QueueOK, Lease, Turns

\* What the start of a lease's renewal does to the sessions.
LEMMA RenewingSession ==
  ASSUME SessionPart, NEW l \in Leases, Renewing(l)
  PROVE  \A k \in Leases :
           /\ session'[k].socket = session[k].socket
           /\ session'[k].node = session[k].node
           /\ session'[k].writing = session[k].writing
           /\ session'[k].activation =
                IF k = l THEN "renewing" ELSE session[k].activation
  BY DEF SessionPart, Sessions, Renewing

\* The links, when an attach is over.
LEMMA LinkAttached ==
  ASSUME LinkPart, GatewayInv', NEW n \in Nodes, line[n] # <<>>,
         Head(line[n]).op = "attach", Done(n), Renewing(Lease(n)),
         peer' = peer, attachment' = attachment, budget'.faults <= budget.faults
  PROVE  LinkPart'
<1>1. /\ Lease(n) \in Leases
      /\ session[Lease(n)].socket # "unused"
      /\ session[Lease(n)].activation # "upsert"
  BY UnderWay
<1>2. \A k \in Leases :
        /\ session'[k].socket = session[k].socket
        /\ session'[k].node = session[k].node
        /\ session'[k].writing = session[k].writing
        /\ session'[k].activation =
             IF k = Lease(n) THEN "renewing" ELSE session[k].activation
  BY <1>1, RenewingSession DEF LinkPart, GatewayInv
<1>3. QueuePart'
  <2>1. line[n] \in Seq(OpRecords) /\ session \in Sessions
        /\ QueueOK(line[n], session)
    BY DEF LinkPart, GatewayInv, LinePart, SessionPart, Lines, QueuePart
  <2>2. QueueOK(Tail(line[n]),
                [session EXCEPT ![Head(line[n]).lease].activation = "renewing"])
    BY <2>1, QueueAttached
  <2>3. line'[n] = Tail(line[n])
    BY DEF Done, LinkPart, GatewayInv, LinePart, Lines
  <2>4. QueueOK(line'[n], session')
    BY <2>2, <2>3 DEF Renewing, Lease
  <2> QED BY <2>4 DEF LinkPart, OneNode, QueuePart
<1>4. ConnectPart'
  <2> HIDE DEF Lease
  <2>1. \A n_1 \in Nodes : peer[n_1] # NoLease => peer[n_1] \in Leases
    BY LeaseFacts DEF LinkPart, GatewayInv, SessionPart
  <2> QED BY <1>1, <1>2, <2>1 DEF LinkPart, ConnectPart
<1>5. UpsertPart'
  BY <1>1, <1>2 DEF LinkPart, UpsertPart
<1>6. WritePart'
  BY <1>2 DEF LinkPart, WritePart, Open, Current
<1>7. BudgetPart'
  BY GatewayAssumption
     DEF LinkPart, BudgetPart, GatewayInv, SessionPart
<1> QED BY <1>3, <1>4, <1>5, <1>6, <1>7 DEF LinkPart, OneNode

\* The idle deadline after it was put.
LEMMA PutIdle ==
  ASSUME DeadlinePart, NEW l \in Leases, PutDeadline("idle", l)
  PROVE  deadline'["idle"].armed /\ deadline'["idle"].lease = l
  BY DEF DeadlinePart, Deadlines, PutDeadline, NextDeadlines, DeadlineKinds

\* The operation of a failed call is over, and no session counts as settled
\* any more.
LEMMA CallFailsAgrees ==
  ASSUME AgreeInv, GatewayInv', NEW n \in Nodes, CallFails(n)
  PROVE  AgreeInv'
<1>1. /\ line[n] # <<>> /\ Done(n) /\ peer' = peer /\ attachment' = attachment
      /\ deleted' = deleted
  BY DEF CallFails
<1>2. /\ budget.faults \in Nat /\ budget'.faults = budget.faults - 1
      /\ budget.faults <= MaxFaults
  BY DEF CallFails, AgreeInv, LinkPart, GatewayInv, SessionPart, BudgetPart
<1>3. \A m \in Nodes :
        /\ QueueOK(line'[m], session)
        /\ line'[m] # <<>> => Head(line'[m]).step = "start"
  BY <1>1, DoneQueue DEF AgreeInv
<1>4. LinkPart'
  <2>1. CASE Head(line[n]).op = "attach"
    <3>1. Renewing(Lease(n))
      BY <2>1 DEF CallFails, Lease
    <3> QED BY <1>1, <1>2, <2>1, <3>1, LinkAttached DEF AgreeInv
  <2>2. CASE Head(line[n]).op # "attach"
    <3>1. session' = session
      BY <2>2 DEF CallFails
    <3> QED BY <1>1, <1>2, <1>3, <3>1, LinkKept DEF AgreeInv
  <2> QED BY <2>1, <2>2
<1>5. ~Faultless'
  BY <1>2, GatewayAssumption DEF Faultless
<1>6. \A l \in Leases : ~Settled(l)'
  BY <1>5 DEF Settled
<1> QED BY <1>1, <1>3, <1>4, <1>6, NoneSettled

\* The attach begins, or is given up because its session is no longer the peer,
\* which then is not in service either.
LEMMA AttachStartAgrees ==
  ASSUME AgreeInv, GatewayInv', NEW n \in Nodes, AttachStart(n)
  PROVE  AgreeInv'
<1>1. /\ line[n] # <<>> /\ Head(line[n]).op = "attach" /\ peer' = peer
      /\ attachment' = attachment /\ budget' = budget /\ deleted' = deleted
      /\ deadline' = deadline /\ ~deleted
  BY DEF AttachStart, At, AgreeInv, StatusPart
<1>2. CASE peer[n] = Lease(n)
  <2>1. status' = StatusAfterReport("recovered") /\ session' = session
    BY <1>1, <1>2 DEF AttachStart
  <2>2. StatusCalm
    BY <2>1, ReportKeepsConnected, ReportBetween
       DEF Reports, StatusCalm, Between
  <2>3. \E s \in OpSteps \ {"put_idle"} : Proceed(n, s)
    BY <1>1, <1>2 DEF AttachStart, OpSteps
  <2> QED BY <1>1, <2>1, <2>2, <2>3, StepAgrees
<1>3. CASE peer[n] # Lease(n)
  <2>1. Done(n) /\ Renewing(Lease(n)) /\ status' = status
    BY <1>3 DEF AttachStart
  <2>2. budget.faults \in Nat
    BY DEF AgreeInv, LinkPart, GatewayInv, SessionPart
  <2>3. LinkPart'
    BY <1>1, <2>1, <2>2, LinkAttached DEF AgreeInv
  <2>4. \A m \in Nodes : line'[m] # <<>> => Head(line'[m]).step = "start"
    BY <1>1, <2>1, DoneQueue DEF AgreeInv
  <2>5. ASSUME NEW l \in Leases, Settled(l)' PROVE Settled(l)
    <3>1. /\ session'[l].socket = session[l].socket
          /\ session'[l].node = session[l].node /\ session[l].node \in Nodes
          /\ session'[l].activation =
               IF l = Lease(n) THEN "renewing" ELSE session[l].activation
      BY <1>1, <2>1, UnderWay, RenewingSession
         DEF AgreeInv, LinkPart, GatewayInv, SessionPart, Sessions
    <3>2. l # Lease(n)
      BY <1>1, <1>3, <2>5, <3>1 DEF Settled, Current, AgreeInv, LinkPart, OneNode
    <3> QED BY <1>1, <2>5, <3>1, <3>2 DEF Settled, Open, Current, Faultless
  <2> QED BY <1>1, <2>1, <2>3, <2>4, <2>5, Calm DEF StatusCalm
<1> QED BY <1>2, <1>3

\* The reattachment is reported: the status is not reconnecting any more.
LEMMA AttachAnnounceAgrees ==
  ASSUME AgreeInv, GatewayInv', NEW n \in Nodes, AttachAnnounce(n)
  PROVE  AgreeInv'
<1>1. /\ line[n] # <<>> /\ Head(line[n]).op = "attach" /\ peer' = peer
      /\ attachment' = attachment /\ budget' = budget /\ deleted' = deleted
      /\ deadline' = deadline /\ ~deleted
      /\ status' = StatusAfterReport("not_ready") /\ session' = session
      /\ Proceed(n, "put_idle")
  BY DEF AttachAnnounce, At, AgreeInv, StatusPart
<1>2. status' # "reconnecting"
  BY <1>1, ReportKeepsConnected DEF Reports
<1>3. \A m \in Nodes :
        /\ QueueOK(line'[m], session)
        /\ Head(line'[m]).op = Head(line[m]).op
  BY <1>1, ProceedQueue DEF AgreeInv, GatewayInv, OpSteps
<1>4. budget.faults \in Nat
  BY DEF AgreeInv, LinkPart, GatewayInv, SessionPart
<1>5. LinkPart'
  BY <1>1, <1>3, <1>4, LinkKept DEF AgreeInv
<1>6. \A l \in Leases : Settled(l)' => Settled(l)
  BY <1>1, <1>4, SettledKept DEF AgreeInv
<1>7. \A m \in Nodes : ~At(m, "touch", "put_idle")'
  BY <1>1, <1>3 DEF At, AgreeInv, LinkPart, OneNode
<1>8. StatusPart'
  BY <1>1, <1>2 DEF StatusPart
<1>9. IdlePart'
  BY <1>1, <1>6, <1>7, ReportBetween
     DEF AgreeInv, IdlePart, Between, Reports
<1> QED BY <1>5, <1>8, <1>9 DEF AgreeInv

\* The attach arms the idle deadline and puts its session into service.
LEMMA AttachPutIdleAgrees ==
  ASSUME AgreeInv, GatewayInv', NEW n \in Nodes, AttachPutIdle(n)
  PROVE  AgreeInv'
<1>1. /\ line[n] # <<>> /\ Head(line[n]).op = "attach" /\ peer' = peer
      /\ attachment' = attachment /\ budget' = budget /\ deleted' = deleted
      /\ status' = status /\ Done(n) /\ Renewing(Lease(n))
      /\ PutDeadline("idle", Lease(n)) /\ At(n, "attach", "put_idle")
  BY DEF AttachPutIdle, At
<1>2. budget.faults \in Nat
  BY DEF AgreeInv, LinkPart, GatewayInv, SessionPart
<1>3. LinkPart'
  BY <1>1, <1>2, LinkAttached DEF AgreeInv
<1>4. \A m \in Nodes : line'[m] # <<>> => Head(line'[m]).step = "start"
  BY <1>1, DoneQueue DEF AgreeInv
<1>5. \A m \in Nodes : \A o : ~At(m, o, "put_idle")'
  BY <1>4 DEF At
<1>6. Lease(n) \in Leases
  BY <1>1, UnderWay DEF AgreeInv
<1>7. deadline'["idle"].armed /\ deadline'["idle"].lease = Lease(n)
  BY <1>1, <1>6, PutIdle DEF AgreeInv, LinkPart, GatewayInv
<1>8. ASSUME NEW l \in Leases, Settled(l)'
      PROVE  l = Lease(n)
  <2>1. /\ session'[l].node = session[l].node /\ session[l].node \in Nodes
        /\ session'[l].activation =
             IF l = Lease(n) THEN "renewing" ELSE session[l].activation
    BY <1>1, <1>6, RenewingSession
       DEF AgreeInv, LinkPart, GatewayInv, SessionPart, Sessions
  <2>2. session[l].activation = "renewing" => l <= Lease(n)
    BY <1>1, UnderWay DEF AgreeInv
  <2>3. peer[session[l].node] = l /\ l # NoLease
    BY <1>1, <1>8, <2>1 DEF Settled, Current, Leases, NoLease
  <2>4. Lease(n) <= l
    BY <1>1, <2>1, <2>3, UnderWay DEF AgreeInv, LinkPart, ConnectPart
  <2> QED BY <1>6, <1>8, <2>1, <2>2, <2>4 DEF Settled, Leases
<1>9. status # "reconnecting" /\ ~deleted
  BY <1>1 DEF AgreeInv, StatusPart
<1>10. StatusPart'
  BY <1>1, <1>9 DEF StatusPart
<1>11. IdlePart'
  BY <1>5, <1>7, <1>8 DEF IdlePart
<1> QED BY <1>3, <1>10, <1>11 DEF AgreeInv

-----------------------------------------------------------------------------
(* The detach, which finds no session in service, and the touch. *)

\* While a detach is under way and the sessions stay as they are, none is in
\* service.
LEMMA DetachFindsNone ==
  ASSUME AgreeInv, GatewayInv', NEW n \in Nodes, line[n] # <<>>,
         Head(line[n]).op = "detach", session' = session, peer' = peer,
         budget' = budget
  PROVE  \A l \in Leases : ~Settled(l)'
<1>1. \A l \in Leases : ~Settled(l)
  BY NoDetach DEF Settled, AgreeInv
<1>2. budget'.faults <= budget.faults
  BY DEF AgreeInv, LinkPart, GatewayInv, SessionPart
<1> QED BY <1>1, <1>2, SettledKept DEF AgreeInv

\* A detach clears the idle deadline of a session that is closed.
LEMMA DetachClearIdleAgrees ==
  ASSUME AgreeInv, GatewayInv', NEW n \in Nodes, DetachClearIdle(n)
  PROVE  AgreeInv'
<1>1. /\ line[n] # <<>> /\ Head(line[n]).op = "detach" /\ session' = session
      /\ peer' = peer /\ budget' = budget /\ attachment' = attachment
      /\ deleted' = deleted /\ Proceed(n, "judge")
  BY DEF DetachClearIdle, At
<1>2. \A m \in Nodes : QueueOK(line'[m], session) /\ Head(line'[m]).step = "judge"
  BY <1>1, ProceedQueue DEF AgreeInv, GatewayInv, OpSteps
<1>3. budget'.faults <= budget.faults
  BY <1>1 DEF AgreeInv, LinkPart, GatewayInv, SessionPart
<1>4. LinkPart'
  BY <1>1, <1>2, <1>3, LinkKept DEF AgreeInv
<1>5. \A l \in Leases : ~Settled(l)'
  BY <1>1, DetachFindsNone
<1> QED BY <1>1, <1>2, <1>4, <1>5, NoneSettled

\* A detach may make the status reconnecting: nothing is in service.
LEMMA DetachReportAgrees ==
  ASSUME AgreeInv, GatewayInv', NEW n \in Nodes, DetachReport(n)
  PROVE  AgreeInv'
<1>1. /\ line[n] # <<>> /\ Head(line[n]).op = "detach" /\ session' = session
      /\ peer' = peer /\ budget' = budget /\ attachment' = attachment
      /\ deleted' = deleted /\ Proceed(n, "put_disconnect")
  BY DEF DetachReport, At, AgreeInv, StatusPart
<1>2. \A m \in Nodes :
        QueueOK(line'[m], session) /\ Head(line'[m]).step = "put_disconnect"
  BY <1>1, ProceedQueue DEF AgreeInv, GatewayInv, OpSteps
<1>3. budget'.faults <= budget.faults
  BY <1>1 DEF AgreeInv, LinkPart, GatewayInv, SessionPart
<1>4. LinkPart'
  BY <1>1, <1>2, <1>3, LinkKept DEF AgreeInv
<1>5. \A l \in Leases : ~Settled(l)'
  BY <1>1, DetachFindsNone
<1> QED BY <1>1, <1>2, <1>4, <1>5, NoneSettled

\* A touch goes on for the attached lease only.
LEMMA TouchStartAgrees ==
  ASSUME AgreeInv, GatewayInv', NEW n \in Nodes, TouchStart(n)
  PROVE  AgreeInv'
<1>1. /\ line[n] # <<>> /\ Head(line[n]).op = "touch" /\ session' = session
      /\ peer' = peer /\ budget' = budget /\ UNCHANGED rowVars
  BY DEF TouchStart, At
<1>2. CASE attachment # NoLease /\ Lease(n) \in {NoLease, attachment}
  <2> DEFINE q == line[n]
             h == [q[1] EXCEPT !.lease = attachment, !.step = "put_idle"]
             p == [q EXCEPT ![1] = h]
  <2>1. line \in Lines /\ session \in Sessions /\ QueueOK(q, session)
    BY DEF AgreeInv, LinkPart, GatewayInv, LinePart, SessionPart, QueuePart
  <2>2. /\ q \in Seq(OpRecords) /\ q # <<>> /\ q[1] \in OpRecords
        /\ Head(q) = q[1] /\ 1 \in DOMAIN q
    BY <1>1, <2>1 DEF Lines
  <2>3. line' = [line EXCEPT ![n][1].lease = attachment,
                             ![n][1].step = "put_idle"]
    BY <1>2 DEF TouchStart
  <2>4. line'[n] = p
    BY <2>1, <2>2, <2>3 DEF Lines
  <2>5. h.step = "put_idle" /\ h.op = q[1].op /\ h.lease = attachment
    BY <2>2 DEF OpRecords
  <2>6. p \in Seq(OpRecords)
    <3> HIDE DEF p
    <3> QED BY <2>4 DEF GatewayInv, LinePart, Lines
  <2> HIDE DEF h
  <2>7. /\ Len(p) = Len(q) /\ p[1] = h /\ p # <<>> /\ Head(p) = h
        /\ \A i \in 1 .. Len(q) : i # 1 => p[i] = q[i]
    BY <2>2
  <2> HIDE DEF p, q
  <2>8. q[1].op \notin Turns
    BY <1>1, <2>2 DEF Turns, q
  <2>9. QueueOK(p, session)
    BY <2>1, <2>2, <2>5, <2>6, <2>7, <2>8, QueueHead
  <2>10. \A m \in Nodes :
           /\ QueueOK(line'[m], session)
           /\ Head(line'[m]).op = "touch" /\ Head(line'[m]).lease = attachment
    BY <1>1, <2>2, <2>4, <2>5, <2>7, <2>9
       DEF AgreeInv, LinkPart, OneNode, q
  <2>11. budget'.faults <= budget.faults
    BY <1>1 DEF AgreeInv, LinkPart, GatewayInv, SessionPart
  <2>12. LinkPart'
    BY <1>1, <2>10, <2>11, LinkKept DEF AgreeInv, rowVars
  <2>13. \A l \in Leases : Settled(l)' => Settled(l)
    BY <1>1, <2>11, SettledKept DEF AgreeInv
  <2>14. StatusPart'
    BY <1>1, <2>10, <2>13 DEF AgreeInv, StatusPart, At, rowVars
  <2>15. IdlePart'
    BY <1>1, <2>10, <2>13 DEF AgreeInv, IdlePart, Lease, rowVars
  <2> QED BY <2>12, <2>14, <2>15 DEF AgreeInv
<1>3. CASE ~(attachment # NoLease /\ Lease(n) \in {NoLease, attachment})
  <2>1. Done(n)
    BY <1>3 DEF TouchStart
  <2> QED BY <1>1, <2>1, StepAgrees DEF rowVars, StatusCalm
<1> QED BY <1>2, <1>3

\* The lease a touch read is still that of the session in service, if there is
\* one: no attach is completed while the touch is under way.
LEMMA TouchPutIdleAgrees ==
  ASSUME AgreeInv, GatewayInv', NEW n \in Nodes, TouchPutIdle(n)
  PROVE  AgreeInv'
<1>1. /\ line[n] # <<>> /\ session' = session /\ Done(n)
      /\ peer' = peer /\ budget' = budget /\ attachment' = attachment
      /\ deleted' = deleted /\ status' = status
      /\ PutDeadline("idle", Lease(n)) /\ At(n, "touch", "put_idle")
  BY DEF TouchPutIdle, At
<1>2. \A m \in Nodes :
        /\ QueueOK(line'[m], session)
        /\ line'[m] # <<>> => Head(line'[m]).step = "start"
  BY <1>1, DoneQueue DEF AgreeInv
<1>3. budget'.faults <= budget.faults
  BY <1>1 DEF AgreeInv, LinkPart, GatewayInv, SessionPart
<1>4. LinkPart'
  BY <1>1, <1>2, <1>3, LinkKept DEF AgreeInv
<1>5. \A l \in Leases : Settled(l)' => Settled(l)
  BY <1>1, <1>3, SettledKept DEF AgreeInv
<1>6. \A m \in Nodes : \A o : ~At(m, o, "put_idle")'
  BY <1>2 DEF At
<1>7. Lease(n) \in Leases
  BY <1>1, AtLease DEF AgreeInv, LinkPart, GatewayInv
<1>8. deadline'["idle"].armed /\ deadline'["idle"].lease = Lease(n)
  BY <1>1, <1>7, PutIdle DEF AgreeInv, LinkPart, GatewayInv
<1>9. StatusPart'
  BY <1>1, <1>5, <1>6 DEF AgreeInv, StatusPart
<1>10. IdlePart'
  BY <1>1, <1>5, <1>6, <1>8 DEF AgreeInv, IdlePart
<1> QED BY <1>4, <1>9, <1>10 DEF AgreeInv

-----------------------------------------------------------------------------
(* The sessions. *)

\* The fields of the sessions, and what the queue of the one node is.
LEMMA SessionFacts ==
  ASSUME LinkPart
  PROVE  /\ session \in Sessions
         /\ \A l \in Leases : session[l].node \in Nodes
         /\ \A n \in Nodes : peer[n] # NoLease => peer[n] \in Leases
         /\ \A n \in Nodes : line[n] \in Seq(OpRecords)
         /\ \A n \in Nodes : QueueOK(line[n], session)
         /\ budget.faults \in Nat
  BY LeaseFacts
     DEF LinkPart, GatewayInv, SessionPart, Sessions, LinePart, Lines, QueuePart

\* The attachment is written: no later lease can have been attached before.
LEMMA UpsertAttachmentAgrees ==
  ASSUME AgreeInv, GatewayInv', NEW l \in Leases, UpsertAttachment(l)
  PROVE  AgreeInv'
<1> DEFINE n == session[l].node
<1>1. /\ session[l].activation = "upsert" /\ attachment' = l
      /\ session' = [session EXCEPT ![l].activation = "queued"]
      /\ Enqueue(n, "attach", l) /\ peer' = peer /\ budget' = budget
      /\ UNCHANGED <<status, deleted, deadline>>
  BY DEF UpsertAttachment
<1>2. /\ session \in Sessions /\ n \in Nodes /\ line[n] \in Seq(OpRecords)
      /\ QueueOK(line[n], session) /\ l \in LeaseOrNone
      /\ \A m \in Nodes : peer[m] # NoLease => peer[m] \in Leases
  BY SessionFacts, LeaseFacts DEF AgreeInv
<1>3. \A k \in Leases : k < l => session[k].activation # "upsert"
  BY <1>2, SessionFacts DEF UpsertAttachment, Flushed, AgreeInv, LinkPart, OneNode
<1>4. session[l].socket # "unused"
  BY <1>1 DEF AgreeInv, LinkPart, ConnectPart
<1>5. \A k \in Leases :
        /\ session'[k].socket = session[k].socket
        /\ session'[k].node = session[k].node
        /\ session'[k].writing = session[k].writing
        /\ session'[k].activation =
             IF k = l THEN "queued" ELSE session[k].activation
  BY <1>1, <1>2 DEF Sessions
<1>6. \A k \in Leases :
        session[k].socket # "unused" /\ session[k].activation # "upsert" => k <= l
  BY <1>1 DEF AgreeInv, LinkPart, UpsertPart, Leases
<1>7. session' \in Sessions
  BY DEF GatewayInv, SessionPart
<1>8. QueueOK(line[n], session')
  BY <1>2, <1>5, <1>7, QueueSession
<1>9. \A k \in Leases : session'[k].activation = "renewing" => k <= l
  BY <1>5, <1>6 DEF AgreeInv, LinkPart, ConnectPart
<1>10. \A i \in 1 .. Len(line[n]) :
         line[n][i].op = "attach" => line[n][i].lease <= l
  <2> SUFFICES ASSUME NEW i \in 1 .. Len(line[n]), line[n][i].op = "attach"
               PROVE  line[n][i].lease <= l
    OBVIOUS
  <2>1. line[n][i].lease \in Leases
    BY <1>2, TurnLease DEF Turns
  <2>2. /\ session[line[n][i].lease].socket # "unused"
        /\ session[line[n][i].lease].activation # "upsert"
    BY <1>2 DEF QueueOK, Turns
  <2> QED BY <1>6, <2>1, <2>2
<1>11. "attach" \in Operations /\ session'[l].activation # "upsert"
       /\ session'[l].socket # "unused"
  BY <1>4, <1>5 DEF Operations
<1> HIDE DEF n
<1>12. \A m \in Nodes :
         /\ QueueOK(line'[m], session')
         /\ \/ Head(line'[m]).step = "start"
            \/ line[m] # <<>> /\ Head(line'[m]) = Head(line[m])
  BY <1>1, <1>2, <1>7, <1>8, <1>9, <1>10, <1>11, EnqueueQueue DEF AgreeInv
<1>13. LinkPart'
  <2>1. ConnectPart'
    BY <1>1, <1>2, <1>4, <1>5 DEF AgreeInv, LinkPart, ConnectPart
  <2>2. UpsertPart'
    BY <1>3, <1>5 DEF AgreeInv, LinkPart, UpsertPart
  <2>3. QueuePart'
    BY <1>12 DEF QueuePart
  <2>4. WritePart'
    <3>1. \A k \in Leases : session[k].writing => ~(Open(k) /\ Current(k))
      BY <1>1 DEF AgreeInv, LinkPart, WritePart
    <3> QED BY <1>1, <1>5, <3>1
            DEF AgreeInv, LinkPart, WritePart, Open, Current
  <2>5. BudgetPart'
    BY <1>1 DEF AgreeInv, LinkPart, BudgetPart
  <2> QED BY <2>1, <2>2, <2>3, <2>4, <2>5 DEF AgreeInv, LinkPart, OneNode
<1>14. \A k \in Leases : Settled(k)' => Settled(k)
  BY <1>1, <1>5, SessionFacts, SettledKept DEF AgreeInv
<1>15. ~Settled(l)
  BY <1>1 DEF Settled
<1> QED BY <1>1, <1>12, <1>13, <1>14, <1>15, Calm DEF StatusCalm

\* A tunnel closes, and its attachment may be given up with it.
Closes(l) ==
  /\ Open(l)
  /\ session' = [session EXCEPT ![l].socket = "closed"]
  /\ IF Current(l) THEN Enqueue(session[l].node, "detach", l)
                   ELSE UNCHANGED line
  /\ UNCHANGED <<status, deleted, deadline, jobs, peer, budget>>
  /\ attachment' = attachment \/ (attachment = l /\ attachment' = NoLease)

\* Its detach waits behind what is there.
LEMMA ClosesAgrees ==
  ASSUME AgreeInv, GatewayInv', NEW l \in Leases, Closes(l)
  PROVE  AgreeInv'
<1> DEFINE n == session[l].node
<1>1. /\ Open(l) /\ session' = [session EXCEPT ![l].socket = "closed"]
      /\ peer' = peer /\ budget' = budget
      /\ UNCHANGED <<status, deleted, deadline>>
      /\ attachment' = attachment \/ (attachment = l /\ attachment' = NoLease)
  BY DEF Closes
<1>2. /\ session \in Sessions /\ n \in Nodes /\ line[n] \in Seq(OpRecords)
      /\ QueueOK(line[n], session) /\ l \in LeaseOrNone
      /\ \A m \in Nodes : peer[m] # NoLease => peer[m] \in Leases
  BY SessionFacts, LeaseFacts DEF AgreeInv
<1>3. \A k \in Leases :
        /\ session'[k].socket = IF k = l THEN "closed" ELSE session[k].socket
        /\ session'[k].node = session[k].node
        /\ session'[k].writing = session[k].writing
        /\ session'[k].activation = session[k].activation
  BY <1>1, <1>2 DEF Sessions
<1>4. session' \in Sessions
  BY DEF GatewayInv, SessionPart
<1>5. QueueOK(line[n], session')
  <2>1. \A k \in Leases :
          /\ session[k].socket # "unused" =>
               /\ session'[k].socket # "unused"
               /\ session[k].socket # "open" => session'[k].socket # "open"
               /\ session[k].activation # "upsert" =>
                    session'[k].activation # "upsert"
          /\ session'[k].activation = "renewing" =>
               session[k].activation = "renewing"
    BY <1>3
  <2> HIDE DEF n
  <2> QED BY <1>2, <1>4, <2>1, QueueSession
<1> HIDE DEF n
<1>6. \A m \in Nodes :
        /\ QueueOK(line'[m], session')
        /\ \/ line'[m] = <<>>
           \/ Head(line'[m]).step # "put_idle"
           \/ line[m] # <<>> /\ Head(line'[m]) = Head(line[m])
  <2>1. CASE Current(l)
    <3>1. peer[n] = l /\ l # NoLease
      BY <2>1 DEF Current, n, Leases, NoLease
    <3>2. \A k \in Leases : session[k].socket # "unused" => k <= l
      BY <1>2, <3>1 DEF AgreeInv, LinkPart, ConnectPart
    <3>3. \A k \in Leases : session'[k].activation = "renewing" => k <= l
      BY <1>3, <3>2 DEF AgreeInv, LinkPart, ConnectPart
    <3>4. \A i \in 1 .. Len(line[n]) :
            line[n][i].op = "attach" => line[n][i].lease <= l
      <4> SUFFICES ASSUME NEW i \in 1 .. Len(line[n]), line[n][i].op = "attach"
                   PROVE  line[n][i].lease <= l
        OBVIOUS
      <4>1. line[n][i].lease \in Leases
        BY <1>2, TurnLease DEF Turns
      <4>2. session[line[n][i].lease].socket # "unused"
        BY <1>2 DEF QueueOK, Turns
      <4> QED BY <3>2, <4>1, <4>2
    <3>5. "detach" \in Operations /\ session'[l].socket = "closed"
      BY <1>3 DEF Operations
    <3>6. Enqueue(n, "detach", l)
      BY <2>1 DEF Closes, n
    <3>7. \A m \in Nodes :
            /\ QueueOK(line'[m], session')
            /\ \/ Head(line'[m]).step = "start"
               \/ line[m] # <<>> /\ Head(line'[m]) = Head(line[m])
      BY <1>2, <1>4, <1>5, <3>3, <3>4, <3>5, <3>6, EnqueueQueue DEF AgreeInv
    <3> QED BY <3>7
  <2>2. CASE ~Current(l)
    <3>1. line' = line
      BY <2>2 DEF Closes
    <3> QED BY <1>2, <1>5, <3>1 DEF AgreeInv, LinkPart, OneNode
  <2> QED BY <2>1, <2>2
<1>7. LinkPart'
  <2>1. ConnectPart'
    BY <1>1, <1>2, <1>3 DEF AgreeInv, LinkPart, ConnectPart, Open
  <2>2. UpsertPart'
    BY <1>1, <1>3 DEF AgreeInv, LinkPart, UpsertPart, Open
  <2>3. QueuePart'
    BY <1>6 DEF QueuePart
  <2>4. WritePart'
    BY <1>1, <1>3 DEF AgreeInv, LinkPart, WritePart, Open, Current
  <2>5. BudgetPart'
    BY <1>1 DEF AgreeInv, LinkPart, BudgetPart
  <2> QED BY <2>1, <2>2, <2>3, <2>4, <2>5 DEF AgreeInv, LinkPart, OneNode
<1>8. \A k \in Leases : Settled(k)' => Settled(k)
  BY <1>1, <1>3, SessionFacts, SettledKept DEF AgreeInv, Open
<1>9. \A k \in Leases : attachment' = k => attachment = k
  BY <1>1 DEF Leases, NoLease
<1> QED BY <1>1, <1>6, <1>7, <1>8, <1>9, Calm DEF StatusCalm

\* The socket closes.
LEMMA CloseSocketAgrees ==
  ASSUME AgreeInv, GatewayInv', NEW l \in Leases, CloseSocket(l)
  PROVE  AgreeInv'
<1>1. Closes(l)
  BY DEF CloseSocket, Closes, rowVars
<1> QED BY <1>1, ClosesAgrees

\* A renewal that writes: its read saw its own lease attached, and no attachment
\* write of a newer session had been issued.
LEMMA RenewReadAgrees ==
  ASSUME AgreeInv, GatewayInv', NEW l \in Leases, RenewRead(l)
  PROVE  AgreeInv'
<1>1. /\ session[l].activation = "renewing" /\ attachment = l
      /\ session' = [session EXCEPT ![l].writing = TRUE]
      /\ peer' = peer /\ budget' = budget /\ line' = line
      /\ UNCHANGED <<status, deleted, attachment, deadline>>
  BY DEF RenewRead, rowVars
<1>2. \A k \in Leases :
        /\ session'[k].socket = session[k].socket
        /\ session'[k].node = session[k].node
        /\ session'[k].writing = (k = l \/ session[k].writing)
        /\ session'[k].activation = session[k].activation
  BY <1>1, SessionFacts DEF AgreeInv, Sessions
<1>3. \A k \in Leases : ~session[k].writing /\ session[k].activation # "upsert"
  BY SessionFacts DEF RenewRead, AllFlushed, AgreeInv, LinkPart, OneNode
<1>4. session' \in Sessions
  BY DEF GatewayInv, SessionPart
<1>5. \A m \in Nodes : QueueOK(line[m], session')
  BY <1>2, <1>4, SessionFacts, QueueSession DEF AgreeInv
<1>6. LinkPart'
  <2>1. ConnectPart'
    <3>1. session[l].socket # "unused"
      BY <1>1 DEF AgreeInv, LinkPart, ConnectPart
    <3> QED BY <1>1, <1>2, <3>1, SessionFacts DEF AgreeInv, LinkPart, ConnectPart
  <2>2. UpsertPart'
    BY <1>1, <1>2 DEF AgreeInv, LinkPart, UpsertPart
  <2>3. QueuePart'
    BY <1>1, <1>5 DEF QueuePart
  <2>4. WritePart'
    BY <1>1, <1>2, <1>3 DEF WritePart
  <2>5. BudgetPart'
    BY <1>1 DEF AgreeInv, LinkPart, BudgetPart
  <2> QED BY <2>1, <2>2, <2>3, <2>4, <2>5 DEF AgreeInv, LinkPart, OneNode
<1>7. \A k \in Leases : Settled(k)' => Settled(k)
  BY <1>1, <1>2, SessionFacts, SettledKept DEF AgreeInv
<1> QED BY <1>1, <1>6, <1>7, Calm DEF StatusCalm

\* The renewal of a session in service writes what is there.
LEMMA RenewWriteAgrees ==
  ASSUME AgreeInv, GatewayInv', NEW l \in Leases, RenewWrite(l)
  PROVE  AgreeInv'
<1>1. /\ session[l].writing /\ attachment' = l
      /\ session' = [session EXCEPT ![l].writing = FALSE]
      /\ peer' = peer /\ budget' = budget /\ line' = line
      /\ UNCHANGED <<status, deleted, deadline>>
  BY DEF RenewWrite
<1>2. \A k \in Leases :
        /\ session'[k].socket = session[k].socket
        /\ session'[k].node = session[k].node
        /\ session'[k].writing = (k # l /\ session[k].writing)
        /\ session'[k].activation = session[k].activation
  BY <1>1, SessionFacts DEF AgreeInv, Sessions
<1>3. \A k \in Leases : ~session'[k].writing
  BY <1>1, <1>2 DEF AgreeInv, LinkPart, WritePart
<1>4. session' \in Sessions
  BY DEF GatewayInv, SessionPart
<1>5. \A m \in Nodes : QueueOK(line[m], session')
  BY <1>2, <1>4, SessionFacts, QueueSession DEF AgreeInv
<1>6. LinkPart'
  <2>1. ConnectPart'
    BY <1>1, <1>2, SessionFacts DEF AgreeInv, LinkPart, ConnectPart
  <2>2. UpsertPart'
    BY <1>1, <1>2 DEF AgreeInv, LinkPart, UpsertPart
  <2>3. QueuePart'
    BY <1>1, <1>5 DEF QueuePart
  <2>4. WritePart'
    BY <1>3 DEF WritePart
  <2>5. BudgetPart'
    BY <1>1 DEF AgreeInv, LinkPart, BudgetPart
  <2> QED BY <2>1, <2>2, <2>3, <2>4, <2>5 DEF AgreeInv, LinkPart, OneNode
<1>7. \A k \in Leases : Settled(k)' => Settled(k)
  BY <1>1, <1>2, SessionFacts, SettledKept DEF AgreeInv
<1>8. Settled(l) => attachment = l
  BY <1>1 DEF Settled, AgreeInv, LinkPart, WritePart
<1> QED BY <1>1, <1>6, <1>7, <1>8, Calm DEF StatusCalm

\* A tunnel connects: it becomes the peer, and no other session is in service.
LEMMA ConnectAgrees ==
  ASSUME AgreeInv, GatewayInv', NEW l \in Leases, NEW n \in Nodes, Connect(l, n)
  PROVE  AgreeInv'
<1>1. /\ session[l].socket = "unused" /\ budget' = budget /\ line' = line
      /\ \A k \in Leases : k < l => session[k].socket # "unused"
      /\ session' = [session EXCEPT ![l] =
           [socket |-> "open", node |-> n, activation |-> "upsert",
            writing |-> FALSE]]
      /\ peer' = [peer EXCEPT ![n] = l]
      /\ UNCHANGED <<status, deleted, attachment, deadline>>
  BY DEF Connect, rowVars
<1>2. \A k \in Leases :
        IF k = l
        THEN /\ session'[k].socket = "open" /\ session'[k].activation = "upsert"
             /\ ~session'[k].writing
        ELSE session'[k] = session[k]
  BY <1>1, SessionFacts DEF AgreeInv, Sessions
<1>3. \A m \in Nodes : m = n /\ peer'[m] = l
  BY <1>1 DEF AgreeInv, LinkPart, OneNode, GatewayInv, SessionPart
<1>4. session' \in Sessions
  BY DEF GatewayInv, SessionPart
<1>5. \A m \in Nodes : QueueOK(line[m], session')
  <2>1. \A k \in Leases :
          /\ session[k].socket # "unused" =>
               /\ session'[k].socket # "unused"
               /\ session[k].socket # "open" => session'[k].socket # "open"
               /\ session[k].activation # "upsert" =>
                    session'[k].activation # "upsert"
          /\ session'[k].activation = "renewing" =>
               session[k].activation = "renewing"
    BY <1>1, <1>2
  <2> QED BY <1>4, <2>1, SessionFacts, QueueSession DEF AgreeInv
<1>6. \A k \in Leases : Current(k)' => k = l
  <2>1. \A k \in Leases : session'[k].node \in Nodes
    BY <1>4 DEF Sessions
  <2> QED BY <1>3, <2>1 DEF Current
<1>7. \A k \in Leases : session[k].socket # "unused" => k < l
  BY <1>1 DEF AgreeInv, LinkPart, ConnectPart, Leases
<1>8. LinkPart'
  <2>1. ConnectPart'
    <3>1. \A k \in Leases : session'[k].socket = "unused" =>
            session'[k].activation = "off" /\ ~session'[k].writing
      BY <1>2 DEF AgreeInv, LinkPart, ConnectPart
    <3>2. \A k, m \in Leases :
            k < m /\ session'[m].socket # "unused" => session'[k].socket # "unused"
      BY <1>1, <1>2 DEF AgreeInv, LinkPart, ConnectPart
    <3>3. \A k \in Leases : session'[k].socket # "unused" => k <= l
      BY <1>2, <1>7 DEF Leases
    <3>4. session'[l].socket # "unused"
      BY <1>2
    <3>5. \A k \in Leases :
            session'[k].socket = "open" => session'[k].activation # "off"
      BY <1>2 DEF AgreeInv, LinkPart, ConnectPart
    <3> QED BY <1>3, <3>1, <3>2, <3>3, <3>4, <3>5 DEF ConnectPart
  <2>2. UpsertPart'
    BY <1>1, <1>2 DEF AgreeInv, LinkPart, UpsertPart, ConnectPart
  <2>3. QueuePart'
    BY <1>1, <1>5 DEF QueuePart
  <2>4. WritePart'
    BY <1>2, <1>6 DEF AgreeInv, LinkPart, WritePart
  <2>5. BudgetPart'
    BY <1>1 DEF AgreeInv, LinkPart, BudgetPart
  <2> QED BY <2>1, <2>2, <2>3, <2>4, <2>5 DEF AgreeInv, LinkPart, OneNode
<1>9. \A k \in Leases : ~Settled(k)'
  BY <1>2, <1>6 DEF Settled
<1> QED BY <1>1, <1>8, <1>9, Calm DEF StatusCalm

\* The node dies with its queue and its sessions.
LEMMA NodeCrashAgrees ==
  ASSUME AgreeInv, GatewayInv', NEW n \in Nodes, NodeCrash(n)
  PROVE  AgreeInv'
<1>1. /\ \A m \in Nodes : line'[m] = <<>> /\ peer'[m] = NoLease
      /\ budget'.faults = budget.faults
      /\ UNCHANGED <<status, deleted, attachment, deadline>>
  BY DEF NodeCrash, rowVars, AgreeInv, LinkPart, OneNode, GatewayInv, LinePart,
         Lines, SessionPart
<1>2. \A k \in Leases :
        IF session[k].socket # "unused"
        THEN /\ session'[k].socket = "lost" /\ session'[k].activation = "off"
             /\ ~session'[k].writing
        ELSE session'[k] = session[k]
  <2> TAKE k \in Leases
  <2>1. session[k].node = n
    BY SessionFacts DEF AgreeInv, LinkPart, OneNode
  <2>2. session[k] \in [socket : Sockets, node : Nodes,
                         activation : Activations, writing : BOOLEAN]
    BY SessionFacts DEF AgreeInv, Sessions
  <2>3. session'[k] = IF session[k].socket # "unused"
                      THEN [session[k] EXCEPT !.socket = "lost",
                              !.activation = "off", !.writing = FALSE]
                      ELSE session[k]
    BY <2>1 DEF NodeCrash
  <2> QED BY <2>2, <2>3
<1>3. LinkPart'
  <2>1. ConnectPart'
    BY <1>1, <1>2 DEF AgreeInv, LinkPart, ConnectPart
  <2>2. UpsertPart'
    BY <1>2 DEF AgreeInv, LinkPart, UpsertPart, ConnectPart
  <2>3. QueuePart'
    BY <1>1 DEF QueuePart, QueueOK
  <2>4. WritePart'
    BY <1>2 DEF AgreeInv, LinkPart, WritePart, ConnectPart
  <2>5. BudgetPart'
    BY <1>1 DEF AgreeInv, LinkPart, BudgetPart
  <2> QED BY <2>1, <2>2, <2>3, <2>4, <2>5 DEF AgreeInv, LinkPart, OneNode
<1>4. \A k \in Leases : ~Settled(k)'
  BY <1>2 DEF Settled, Open, AgreeInv, LinkPart, ConnectPart
<1> QED BY <1>1, <1>3, <1>4, NoneSettled

\* The attachment of a session that is closed runs out.
LEMMA AttachmentExpiresAgrees ==
  ASSUME AgreeInv, GatewayInv', AttachmentExpires
  PROVE  AgreeInv'
<1>1. attachment' = NoLease /\ \A l \in Leases : Open(l) => attachment # l
  BY DEF AttachmentExpires
<1>2. /\ line' = line /\ session' = session /\ peer' = peer /\ budget' = budget
      /\ UNCHANGED <<status, deleted, deadline>>
  BY DEF AttachmentExpires, gatewayVars
<1>3. budget'.faults <= budget.faults
  BY <1>2, SessionFacts DEF AgreeInv
<1>4. \A n \in Nodes : QueueOK(line'[n], session)
  BY <1>2, SessionFacts DEF AgreeInv
<1> QED BY <1>1, <1>2, <1>3, <1>4, Routine DEF StatusCalm

\* Nothing the gateway looks at changes.
LEMMA StutterAgrees ==
  ASSUME AgreeInv, GatewayInv', UNCHANGED <<rowVars, gatewayVars>>
  PROVE  AgreeInv'
<1>1. /\ line' = line /\ session' = session /\ peer' = peer /\ budget' = budget
      /\ attachment' = attachment /\ UNCHANGED <<status, deleted, deadline>>
  BY DEF rowVars, gatewayVars
<1>2. budget'.faults <= budget.faults
  BY <1>1, SessionFacts DEF AgreeInv
<1>3. \A n \in Nodes : QueueOK(line'[n], session)
  BY <1>1, SessionFacts DEF AgreeInv
<1> QED BY <1>1, <1>2, <1>3, Routine DEF StatusCalm

\* Every step of the gateway keeps the agreement.
LEMMA GatewayAgrees ==
  ASSUME AgreeInv, GatewayInv', GatewayNext
  PROVE  AgreeInv'
<1>1. ASSUME NEW n \in Nodes, CoordinatorStep(n) PROVE AgreeInv'
  BY <1>1, AttachStartAgrees, AttachAnnounceAgrees, AttachPutIdleAgrees,
     DetachStartAgrees, DetachClearIdleAgrees, DetachJudgeAgrees,
     DetachReportAgrees, DetachPutDisconnectAgrees, ReadinessStartAgrees,
     ReadinessReportAgrees, HealthReportAgrees, TouchStartAgrees,
     TouchPutIdleAgrees
     DEF CoordinatorStep
<1>2. ASSUME NEW n \in Nodes, Presence(n) \/ CallFails(n) \/ NodeCrash(n)
      PROVE  AgreeInv'
  BY <1>2, PresenceAgrees, CallFailsAgrees, NodeCrashAgrees
<1>3. ASSUME NEW l \in Leases, SessionStep(l) PROVE AgreeInv'
  BY <1>3, UpsertAttachmentAgrees, RenewWriteAgrees, CloseSocketAgrees
     DEF SessionStep, RenewLost
<1>4. ASSUME NEW l \in Leases,
             RenewRead(l) \/ CloseSocket(l) \/ HealthSignal(l, "degraded")
      PROVE  AgreeInv'
  BY <1>4, RenewReadAgrees, CloseSocketAgrees, HealthSignalAgrees
<1> QED
  BY <1>1, <1>2, <1>3, <1>4, AttachmentExpiresAgrees DEF GatewayNext

\* So does what the sandbox sends.
LEMMA SandboxAgrees ==
  ASSUME AgreeInv, GatewayInv', NEW l \in Leases, SandboxSignal(l)
  PROVE  AgreeInv'
  BY RuntimeMessageAgrees, HealthSignalAgrees, KeepaliveAgrees
     DEF SandboxSignal

\* Before any tunnel connected nothing is in service.
LEMMA UnusedAgrees ==
  ASSUME OneNode, GatewayInv, GatewayInit, ~deleted
  PROVE  AgreeInv
<1>1. /\ \A l \in Leases : session[l].socket = "unused"
           /\ session[l].activation = "off" /\ ~session[l].writing
      /\ \A n \in Nodes : peer[n] = NoLease /\ line[n] = <<>>
      /\ budget.faults = MaxFaults
  BY DEF GatewayInit
<1>2. LinkPart
  BY <1>1, GatewayAssumption
     DEF LinkPart, ConnectPart, UpsertPart, QueuePart, QueueOK, WritePart,
         BudgetPart
<1>3. StatusPart /\ IdlePart
  BY <1>1 DEF StatusPart, IdlePart, Settled, Open, At
<1> QED BY <1>2, <1>3 DEF AgreeInv
=============================================================================
