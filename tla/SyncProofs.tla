----------------------------- MODULE SyncProofs -----------------------------
(***************************************************************************)
(* Proofs about Sync, for every set of devices, every choice of addresses,  *)
(* any number of writes, pushes in flight and clock readings.               *)
(***************************************************************************)
EXTENDS Sync, ReplicaProofs

\* The vector of a replica that has seen nothing.
LEMMA EmptyVvType == EmptyVv \in VersionVector
BY DEF EmptyVv, VersionVector

\* The loop between two rounds.
LEMMA BetweenRoundsType ==
  ASSUME NEW n \in Device, NEW todo \in SUBSET Device
  PROVE  BetweenRounds(n, todo) \in ClientState
BY EmptyVvType DEF BetweenRounds, ClientState

\* Every batch in the system is a set of ops.
LEMMA OpsSinceType ==
  ASSUME NEW r \in ReplicaState, NEW vv
  PROVE  OpsSince(r, vv) \subseteq Op
BY DEF OpsSince, ReplicaState

-----------------------------------------------------------------------------
(***************************************************************************)
(* Type correctness.                                                       *)
(***************************************************************************)
LEMMA InitType == Init => TypeOK
<1> SUFFICES ASSUME Init PROVE TypeOK
  OBVIOUS
<1>1. \A n \in Device : NewReplica(n) \in ReplicaState
  BY NewReplicaType
<1>2. \A n \in Device : BetweenRounds(n, {}) \in ClientState
  BY BetweenRoundsType
<1> QED BY <1>1, <1>2 DEF Init, TypeOK

\* Every step of a node or a push keeps the types.
LEMMA NextType == TypeOK /\ [Next]_vars => TypeOK'
<1> SUFFICES ASSUME TypeOK, [Next]_vars PROVE TypeOK'
  OBVIOUS
<1> USE KnowsAssumption, FindsAssumption, ClockAssumption
<1>1. ASSUME NEW n \in Device, LocalWrite(n) PROVE TypeOK'
  <2>1. PICK e \in Entity, v \in Written, wall \in Clock :
          replica' = [replica EXCEPT ![n] =
                        LocalChange(replica[n], NewOp(replica[n], e, v, wall))]
    BY <1>1 DEF LocalWrite
  <2>2. replica[n] \in ReplicaState
    BY DEF TypeOK
  <2>3. LocalChange(replica[n], NewOp(replica[n], e, v, wall)) \in ReplicaState
    BY <2>2, NewOpType, LocalChangeType
  <2> QED BY <1>1, <2>1, <2>3 DEF LocalWrite, TypeOK
<1>2. ASSUME NEW n \in Device, SetOnline(n) PROVE TypeOK'
  BY <1>2 DEF SetOnline, TypeOK
<1>3. ASSUME NEW n \in Device, StartTick(n) PROVE TypeOK'
  <2>1. PICK found \in SUBSET Finds[n] :
          client' = [client EXCEPT ![n] = BetweenRounds(n, Knows[n] \cup found)]
    BY <1>3 DEF StartTick
  <2>2. Knows[n] \cup found \subseteq Device
    OBVIOUS
  <2>3. BetweenRounds(n, Knows[n] \cup found) \in ClientState
    BY <2>2, BetweenRoundsType
  <2> QED BY <1>3, <2>1, <2>3 DEF StartTick, TypeOK
<1>4. ASSUME NEW n \in Device, RequestOps(n) PROVE TypeOK'
  <2>1. PICK t \in client[n].todo :
          client' = [client EXCEPT ![n] =
                       [pc |-> "since", peer |-> t, todo |-> client[n].todo \ {t},
                        vv |-> replica[n].vv, ops |-> {}]]
    BY <1>4 DEF RequestOps
  <2>2. /\ replica[n] \in ReplicaState
        /\ client[n] \in ClientState
    BY DEF TypeOK
  <2>3. [pc |-> "since", peer |-> t, todo |-> client[n].todo \ {t},
         vv |-> replica[n].vv, ops |-> {}] \in ClientState
    BY <2>2 DEF ClientState, ReplicaState
  <2> QED BY <1>4, <2>1, <2>3 DEF RequestOps, TypeOK
<1>5. ASSUME NEW n \in Device, ServeOps(n) PROVE TypeOK'
  <2>1. client[n] \in ClientState
    BY DEF TypeOK
  <2>2. replica[client[n].peer] \in ReplicaState
    BY <2>1 DEF TypeOK, ClientState
  <2>3. OpsSince(replica[client[n].peer], client[n].vv) \subseteq Op
    BY <2>2, OpsSinceType
  <2> QED BY <1>5, <2>1, <2>3, EmptyVvType DEF ServeOps, TypeOK, ClientState
<1>6. ASSUME NEW n \in Device, ApplyPulled(n) PROVE TypeOK'
  <2>1. PICK o \in client[n].ops, wall \in Clock :
          /\ replica' = [replica EXCEPT ![n] = Apply(replica[n], o, wall)]
          /\ client' = [client EXCEPT ![n].ops = client[n].ops \ {o}]
    BY <1>6 DEF ApplyPulled
  <2>2. client[n] \in ClientState /\ replica[n] \in ReplicaState
    BY DEF TypeOK
  <2>3. Apply(replica[n], o, wall) \in ReplicaState
    BY <2>2, ApplyType DEF ClientState
  <2> QED BY <1>6, <2>1, <2>2, <2>3 DEF ApplyPulled, TypeOK, ClientState
<1>7. ASSUME NEW n \in Device, ServeVv(n) PROVE TypeOK'
  <2>1. client[n] \in ClientState
    BY DEF TypeOK
  <2>2. replica[client[n].peer] \in ReplicaState
    BY <2>1 DEF TypeOK, ClientState
  <2> QED BY <1>7, <2>1, <2>2 DEF ServeVv, TypeOK, ClientState, ReplicaState
<1>8. ASSUME NEW n \in Device, SendPush(n) PROVE TypeOK'
  <2> DEFINE mine == OpsSince(replica[n], client[n].vv)
  <2>1. client[n] \in ClientState /\ replica[n] \in ReplicaState
    BY DEF TypeOK
  <2>2. BetweenRounds(n, client[n].todo) \in ClientState
    BY <2>1, BetweenRoundsType DEF ClientState
  <2>3. [phase |-> "sent", from |-> n, to |-> client[n].peer, ops |-> mine] \in PushState
    BY <2>1, OpsSinceType DEF ClientState, PushState
  <2>4. push' \in [Slot -> PushState \cup {NoPush}]
    BY <1>8, <2>3 DEF SendPush, TypeOK
  <2> QED BY <1>8, <2>2, <2>4 DEF SendPush, TypeOK
<1>9. ASSUME NEW n \in Device, TimeOut(n) PROVE TypeOK'
  <2>1. BetweenRounds(n, client[n].todo) \in ClientState
    BY BetweenRoundsType DEF TypeOK, ClientState
  <2> QED BY <1>9, <2>1 DEF TimeOut, TypeOK
<1>10. ASSUME NEW k \in Slot, AcceptPush(k) PROVE TypeOK'
  <2>1. push[k] \in PushState
    BY <1>10 DEF AcceptPush, TypeOK
  <2> QED BY <1>10, <2>1 DEF AcceptPush, TypeOK, PushState
<1>11. ASSUME NEW k \in Slot, LosePush(k) PROVE TypeOK'
  BY <1>11 DEF LosePush, TypeOK
<1>12. ASSUME NEW k \in Slot, ApplyPushed(k) PROVE TypeOK'
  <2>1. PICK o \in push[k].ops, wall \in Clock :
          /\ replica' = [replica EXCEPT ![push[k].to] = Apply(replica[push[k].to], o, wall)]
          /\ push' = [push EXCEPT ![k].ops = push[k].ops \ {o}]
    BY <1>12 DEF ApplyPushed
  <2>2. push[k] \in PushState
    BY <1>12 DEF ApplyPushed, TypeOK
  <2>3. replica[push[k].to] \in ReplicaState
    BY <2>2 DEF TypeOK, PushState
  <2>4. Apply(replica[push[k].to], o, wall) \in ReplicaState
    BY <2>2, <2>3, ApplyType DEF PushState
  <2> QED BY <1>12, <2>1, <2>2, <2>4 DEF ApplyPushed, TypeOK, PushState
<1>13. ASSUME NEW k \in Slot, AnswerPush(k) PROVE TypeOK'
  BY <1>13 DEF AnswerPush, TypeOK
<1>14. CASE UNCHANGED vars
  BY <1>14 DEF vars, TypeOK
<1> QED
  BY <1>1, <1>2, <1>3, <1>4, <1>5, <1>6, <1>7, <1>8, <1>9, <1>10, <1>11, <1>12, <1>13,
     <1>14 DEF Next, NodeStep, PushStep

\* The state is well typed in every reachable state.
THEOREM TypeCorrect == Spec => []TypeOK
BY InitType, NextType, PTL DEF Spec

-----------------------------------------------------------------------------
(***************************************************************************)
(* The inductive invariant.  Two steps change a replica: a local write, and *)
(* the apply of an op that its writer has logged and that is at most one    *)
(* past the mark of its writer.  Nothing a replica knows is ever lost.      *)
(***************************************************************************)
Grows ==
  \A m \in Device :
    /\ VvLeq(replica[m].vv, replica'[m].vv)
    /\ replica[m].log \subseteq replica'[m].log

\* The typed parts of a node's replica.
LEMMA ReplicaFields ==
  ASSUME TypeOK, NEW n \in Device
  PROVE  /\ replica[n] \in ReplicaState
         /\ replica[n].log \subseteq Op
         /\ replica[n].seq \in Nat
         /\ replica[n].hlc \in Hlc
         /\ \A d \in Device : replica[n].vv[d] \in Nat
BY DEF TypeOK, ReplicaState, VersionVector

\* The next op of a batch that leaves no gap is at most one past the mark.
LEMMA NextOfBatch ==
  ASSUME TypeOK, NEW n \in Device, NEW ops \in SUBSET Op, LeavesNoGap(ops, n),
         NEW o \in ops, IsNext(o, ops)
  PROVE  o.seq <= replica[n].vv[o.device] + 1
<1> DEFINE s == replica[n].vv[o.device] + 1
<1>1. o.seq \in Nat /\ o.device \in Device /\ s \in Nat /\ s >= 1
  BY ReplicaFields DEF Op
<1>2. SUFFICES ASSUME s < o.seq PROVE FALSE
  BY <1>1
<1>3. s \in 1 .. o.seq /\ ~ (s <= replica[n].vv[o.device])
  BY <1>1, <1>2, ReplicaFields
<1>4. PICK p \in ops : p.device = o.device /\ p.seq = s
  BY <1>3 DEF LeavesNoGap
<1>5. o.device \in Nat
  BY <1>1, DeviceAssumption
<1>6. ~ (o.device < p.device)
  BY <1>4, <1>5
<1>7. o.seq <= p.seq
  BY <1>6 DEF IsNext
<1> QED BY <1>1, <1>2, <1>4, <1>7

\* An op that its writer has logged already is never applied again there.
LEMMA OwnOpsSeen ==
  ASSUME TypeOK, LogsInv, NEW n \in Device, NEW o \in replica[n].log, o.device = n
  PROVE  o.seq <= replica[n].vv[n]
<1>1. o.seq \in {x.seq : x \in {y \in replica[n].log : y.device = n}}
  OBVIOUS
<1>2. o.seq \in 1 .. replica[n].vv[n]
  BY <1>1 DEF LogsInv, NoGap
<1> QED BY <1>2, ReplicaFields

\* What an apply does to the replica it is called on.
LEMMA ApplyEffect ==
  ASSUME TypeOK, LogsInv, NEW n \in Device, NEW op \in Op, NEW wall \in Nat,
         op \in replica[op.device].log,
         ~ AlreadySeen(replica[n], op),
         replica' = [replica EXCEPT ![n] = Apply(replica[n], op, wall)]
  PROVE  /\ op.device # n
         /\ replica'[n].device = n
         /\ replica'[n].seq = replica[n].seq
         /\ replica'[n].hlc = Observe(replica[n].hlc, op.hlc, wall)
         /\ replica'[n].entries = MergeEntry(replica[n].entries, op)
         /\ replica'[n].vv = [replica[n].vv EXCEPT ![op.device] = op.seq]
         /\ replica'[n].log = replica[n].log \cup {op}
         /\ \A m \in Device : m # n => replica'[m] = replica[m]
<1>1. op.device # n
  BY OwnOpsSeen DEF AlreadySeen
<1>2. replica'[n] = Apply(replica[n], op, wall)
  BY DEF TypeOK
<1>3. replica[n].device = n
  BY DEF LogsInv, SeqIsOwnMark
<1>4. \A m \in Device : m # n => replica'[m] = replica[m]
  BY DEF TypeOK
<1> QED BY <1>1, <1>2, <1>3, <1>4 DEF Apply

\* apply, of a genuine op whose predecessors the node knows, keeps what is said
\* of the replicas, and the node knows the op afterwards.
LEMMA ApplyKeepsLogs ==
  ASSUME TypeOK, TypeOK', LogsInv, NEW n \in Device, NEW op \in Op, NEW wall \in Nat,
         op \in replica[op.device].log,
         op.seq <= replica[n].vv[op.device] + 1,
         replica' = [replica EXCEPT ![n] = Apply(replica[n], op, wall)]
  PROVE  LogsInv' /\ Grows /\ op.seq <= replica'[n].vv[op.device]
<1>0. op.device \in Device /\ op.seq \in Nat /\ op.hlc \in Hlc
  BY DEF Op
<1>1. CASE AlreadySeen(replica[n], op)
  <2>1. replica' = replica
    BY <1>1 DEF Apply, TypeOK
  <2> QED
    BY <1>0, <1>1, <2>1, ReplicaFields
    DEF AlreadySeen, Grows, VvLeq, LogsInv, SeqIsOwnMark, NoGap, LogsGenuine, Genuine,
        OwnOpsOrdered, OwnClockAhead, OwnedBy, EntriesAreWinners
<1>2. CASE ~ AlreadySeen(replica[n], op)
  <2>1. /\ op.device # n
        /\ replica'[n].device = n
        /\ replica'[n].seq = replica[n].seq
        /\ replica'[n].hlc = Observe(replica[n].hlc, op.hlc, wall)
        /\ replica'[n].entries = MergeEntry(replica[n].entries, op)
        /\ replica'[n].vv = [replica[n].vv EXCEPT ![op.device] = op.seq]
        /\ replica'[n].log = replica[n].log \cup {op}
        /\ \A m \in Device : m # n => replica'[m] = replica[m]
    BY <1>2, ApplyEffect
  <2>2. op.seq = replica[n].vv[op.device] + 1
    BY <1>0, <1>2, ReplicaFields DEF AlreadySeen
  <2>3. /\ replica[n].vv \in VersionVector
        /\ \A d \in Device : replica'[n].vv[d] =
             IF d = op.device THEN op.seq ELSE replica[n].vv[d]
    BY <1>0, <2>1 DEF TypeOK, ReplicaState, VersionVector
  <2>4. Grows
    BY <1>0, <2>1, <2>2, <2>3, ReplicaFields DEF Grows, VvLeq
  <2>5. SeqIsOwnMark'
    BY <1>0, <2>1, <2>3 DEF LogsInv, SeqIsOwnMark
  <2>6. NoGap'
    <3> SUFFICES ASSUME NEW m \in Device, NEW d \in Device
                 PROVE  {o.seq : o \in {x \in replica'[m].log : x.device = d}}
                          = 1 .. replica'[m].vv[d]
      BY DEF NoGap
    <3>1. {o.seq : o \in {x \in replica[m].log : x.device = d}} = 1 .. replica[m].vv[d]
      BY DEF LogsInv, NoGap
    <3>2. CASE m = n /\ d = op.device
      <4>1. {o.seq : o \in {x \in replica'[m].log : x.device = d}}
              = {o.seq : o \in {x \in replica[m].log : x.device = d}} \cup {op.seq}
        BY <2>1, <3>2
      <4>2. (1 .. replica[m].vv[d]) \cup {op.seq} = 1 .. op.seq
        BY <1>0, <2>2, <3>2, ReplicaFields
      <4> QED BY <2>3, <3>1, <3>2, <4>1, <4>2
    <3>3. CASE m = n /\ d # op.device
      <4>1. {x \in replica'[m].log : x.device = d} = {x \in replica[m].log : x.device = d}
        BY <2>1, <3>3
      <4> QED BY <2>3, <3>1, <3>3, <4>1
    <3>4. CASE m # n
      BY <2>1, <3>1, <3>4
    <3> QED BY <3>2, <3>3, <3>4
  <2>7. \A d \in Device : OwnedBy(d)' = OwnedBy(d)
    BY <2>1 DEF OwnedBy
  <2>8. LogsGenuine'
    <3> SUFFICES ASSUME NEW m \in Device, NEW o \in replica'[m].log
                 PROVE  o \in replica'[o.device].log
      BY DEF LogsGenuine, Genuine
    <3>1. o.device \in Device
      BY ReplicaFields, <2>1, <1>0 DEF Op
    <3>2. o \in replica[o.device].log
      BY <2>1 DEF LogsInv, LogsGenuine, Genuine
    <3> QED BY <2>4, <3>1, <3>2 DEF Grows
  <2>9. OwnOpsOrdered'
    BY <2>7 DEF LogsInv, OwnOpsOrdered
  <2>10. OwnClockAhead'
    <3> SUFFICES ASSUME NEW d \in Device, NEW o \in OwnedBy(d)
                 PROVE  o.hlc = replica'[d].hlc \/ HlcLess(o.hlc, replica'[d].hlc)
      BY <2>7 DEF OwnClockAhead
    <3>1. o.hlc = replica[d].hlc \/ HlcLess(o.hlc, replica[d].hlc)
      BY DEF LogsInv, OwnClockAhead
    <3>2. o.hlc \in Hlc /\ replica[d].hlc \in Hlc /\ replica'[d].hlc \in Hlc
      BY ReplicaFields, <1>0 DEF OwnedBy, Op, TypeOK, ReplicaState
    <3>3. replica'[d].hlc = replica[d].hlc \/ HlcLess(replica[d].hlc, replica'[d].hlc)
      <4>1. CASE d = n
        <5>1. LET h == Observe(replica[n].hlc, op.hlc, wall)
              IN  h = replica[n].hlc \/ HlcLess(replica[n].hlc, h)
          BY <1>0, <3>2, <4>1, ObserveAdvances
        <5> QED BY <2>1, <4>1, <5>1
      <4>2. CASE d # n
        BY <2>1, <4>2
      <4> QED BY <4>1, <4>2
    <3> QED BY <3>1, <3>2, <3>3, HlcOrder
  <2>11. EntriesAreWinners'
    <3> SUFFICES ASSUME NEW m \in Device PROVE EntriesWin(replica'[m])
      BY DEF EntriesAreWinners
    <3>1. EntriesWin(replica[m])
      BY DEF LogsInv, EntriesAreWinners
    <3>2. replica[m] \in ReplicaState /\ replica'[m] \in ReplicaState
      BY DEF TypeOK
    <3>3. CASE m = n
      BY <2>1, <3>1, <3>2, <3>3, MergeKeepsWinners
    <3> QED BY <2>1, <3>1, <3>3
  <2>12. LogsInv'
    BY <2>5, <2>6, <2>8, <2>9, <2>10, <2>11 DEF LogsInv
  <2> QED BY <1>0, <2>3, <2>4, <2>12
<1> QED BY <1>1, <1>2

\* A local write: its op is one past the own mark, and later than the own clock.
LEMMA WriteKeepsLogs ==
  ASSUME TypeOK, TypeOK', LogsInv, NEW n \in Device, NEW e \in Entity, NEW v \in Written,
         NEW wall \in Nat,
         replica' = [replica EXCEPT ![n] =
                       LocalChange(replica[n], NewOp(replica[n], e, v, wall))]
  PROVE  LogsInv' /\ Grows
<1> DEFINE op == NewOp(replica[n], e, v, wall)
<1>1. op \in Op
  BY ReplicaFields, NewOpType
<1>2. op.device = n /\ op.seq = replica[n].vv[n] + 1 /\ op.hlc = Tick(replica[n].hlc, wall)
  BY DEF NewOp, LogsInv, SeqIsOwnMark
<1> HIDE DEF op
<1>3. /\ replica'[n].device = n
      /\ replica'[n].seq = op.seq
      /\ replica'[n].hlc = op.hlc
      /\ replica'[n].entries = MergeEntry(replica[n].entries, op)
      /\ replica'[n].vv = [replica[n].vv EXCEPT ![n] = op.seq]
      /\ replica'[n].log = replica[n].log \cup {op}
      /\ \A m \in Device : m # n => replica'[m] = replica[m]
  BY DEF op, TypeOK, LocalChange, LogsInv, SeqIsOwnMark
<1>4. HlcLess(replica[n].hlc, op.hlc) /\ op.hlc \in Hlc /\ op.seq \in Nat
  BY <1>1, <1>2, ReplicaFields, TickAdvances DEF Op
<1>5. /\ replica[n].vv \in VersionVector
      /\ \A d \in Device : replica'[n].vv[d] = IF d = n THEN op.seq ELSE replica[n].vv[d]
  BY <1>3 DEF TypeOK, ReplicaState, VersionVector
<1>6. Grows
  BY <1>2, <1>3, <1>5, ReplicaFields DEF Grows, VvLeq
<1>7. SeqIsOwnMark'
  BY <1>3, <1>5 DEF LogsInv, SeqIsOwnMark
<1>8. NoGap'
  <2> SUFFICES ASSUME NEW m \in Device, NEW d \in Device
               PROVE  {o.seq : o \in {x \in replica'[m].log : x.device = d}}
                        = 1 .. replica'[m].vv[d]
    BY DEF NoGap
  <2>1. {o.seq : o \in {x \in replica[m].log : x.device = d}} = 1 .. replica[m].vv[d]
    BY DEF LogsInv, NoGap
  <2>2. CASE m = n /\ d = n
    <3>1. {o.seq : o \in {x \in replica'[m].log : x.device = d}}
            = {o.seq : o \in {x \in replica[m].log : x.device = d}} \cup {op.seq}
      BY <1>2, <1>3, <2>2
    <3>2. (1 .. replica[m].vv[d]) \cup {op.seq} = 1 .. op.seq
      BY <1>2, <1>4, <2>2, ReplicaFields
    <3> QED BY <1>5, <2>1, <2>2, <3>1, <3>2
  <2>3. CASE m = n /\ d # n
    <3>1. {x \in replica'[m].log : x.device = d} = {x \in replica[m].log : x.device = d}
      BY <1>2, <1>3, <2>3
    <3> QED BY <1>5, <2>1, <2>3, <3>1
  <2>4. CASE m # n
    BY <1>3, <2>1, <2>4
  <2> QED BY <2>2, <2>3, <2>4
<1>9. OwnedBy(n)' = OwnedBy(n) \cup {op} /\ \A d \in Device : d # n => OwnedBy(d)' = OwnedBy(d)
  BY <1>2, <1>3 DEF OwnedBy
<1>10. \A o \in OwnedBy(n) : /\ o.seq \in Nat /\ o.seq < op.seq
                             /\ o.hlc \in Hlc /\ HlcLess(o.hlc, op.hlc)
  <2> SUFFICES ASSUME NEW o \in OwnedBy(n)
               PROVE  /\ o.seq \in Nat /\ o.seq < op.seq
                      /\ o.hlc \in Hlc /\ HlcLess(o.hlc, op.hlc)
    OBVIOUS
  <2>1. o \in replica[n].log /\ o.device = n /\ o \in Op
    BY ReplicaFields DEF OwnedBy
  <2>2. o.seq \in Nat /\ o.hlc \in Hlc
    BY <2>1 DEF Op
  <2>3. o.seq < op.seq
    BY <1>2, <2>1, <2>2, OwnOpsSeen, ReplicaFields
  <2>4. o.hlc = replica[n].hlc \/ HlcLess(o.hlc, replica[n].hlc)
    BY DEF LogsInv, OwnClockAhead
  <2>5. HlcLess(o.hlc, op.hlc)
    BY <1>4, <2>2, <2>4, ReplicaFields, HlcOrder
  <2> QED BY <2>2, <2>3, <2>5
<1>11. LogsGenuine'
  <2> SUFFICES ASSUME NEW m \in Device, NEW o \in replica'[m].log
               PROVE  o \in replica'[o.device].log
    BY DEF LogsGenuine, Genuine
  <2>1. CASE o = op
    BY <1>2, <1>3, <2>1
  <2>2. CASE o \in replica[m].log
    <3>1. o.device \in Device
      BY <2>2, ReplicaFields DEF Op
    <3>2. o \in replica[o.device].log
      BY <2>2 DEF LogsInv, LogsGenuine, Genuine
    <3> QED BY <1>6, <3>1, <3>2 DEF Grows
  <2> QED BY <1>3, <2>1, <2>2
<1>12. OwnOpsOrdered'
  <2> SUFFICES ASSUME NEW d \in Device, NEW o \in OwnedBy(d)', NEW p \in OwnedBy(d)'
               PROVE  \/ o = p
                      \/ o.seq < p.seq /\ HlcLess(o.hlc, p.hlc)
                      \/ p.seq < o.seq /\ HlcLess(p.hlc, o.hlc)
    BY DEF OwnOpsOrdered
  <2>1. CASE o \in OwnedBy(d) /\ p \in OwnedBy(d)
    BY <2>1 DEF LogsInv, OwnOpsOrdered
  <2>2. CASE d = n /\ (o = op \/ p = op)
    BY <1>9, <1>10, <2>2
  <2> QED BY <1>9, <2>1, <2>2
<1>13. OwnClockAhead'
  <2> SUFFICES ASSUME NEW d \in Device, NEW o \in OwnedBy(d)'
               PROVE  o.hlc = replica'[d].hlc \/ HlcLess(o.hlc, replica'[d].hlc)
    BY DEF OwnClockAhead
  <2>1. CASE d = n
    BY <1>3, <1>9, <1>10, <2>1
  <2>2. CASE d # n
    BY <1>3, <1>9, <2>2 DEF LogsInv, OwnClockAhead
  <2> QED BY <2>1, <2>2
<1>14. EntriesAreWinners'
  <2> SUFFICES ASSUME NEW m \in Device PROVE EntriesWin(replica'[m])
    BY DEF EntriesAreWinners
  <2>1. EntriesWin(replica[m])
    BY DEF LogsInv, EntriesAreWinners
  <2>2. replica[m] \in ReplicaState /\ replica'[m] \in ReplicaState
    BY DEF TypeOK
  <2>3. CASE m = n
    BY <1>1, <1>3, <2>1, <2>2, <2>3, MergeKeepsWinners
  <2> QED BY <1>3, <2>1, <2>3
<1> QED BY <1>6, <1>7, <1>8, <1>11, <1>12, <1>13, <1>14 DEF LogsInv

(***************************************************************************)
(* Batches.                                                                *)
(***************************************************************************)
\* Genuine and LeavesNoGap of a batch after the step.
GenuineNext(ops) == \A o \in ops : o \in replica'[o.device].log

LeavesNoGapNext(ops, n) ==
  \A o \in ops : \A s \in 1 .. o.seq :
    \/ s <= replica'[n].vv[o.device]
    \/ \E p \in ops : p.device = o.device /\ p.seq = s

\* What is left of a batch once some of its ops are applied stays genuine and
\* still leaves no gap, however the replicas have grown meanwhile.
LEMMA BatchKept ==
  ASSUME TypeOK, TypeOK', Grows, NEW n \in Device,
         NEW ops \in SUBSET Op, Genuine(ops), LeavesNoGap(ops, n),
         NEW rest \in SUBSET ops,
         \A o \in ops \ rest : o.seq <= replica'[n].vv[o.device]
  PROVE  GenuineNext(rest) /\ LeavesNoGapNext(rest, n)
<1>1. GenuineNext(rest)
  BY DEF GenuineNext, Genuine, Grows, Op
<1>2. ASSUME NEW o \in rest, NEW s \in 1 .. o.seq, ~ (s <= replica'[n].vv[o.device])
      PROVE  \E p \in rest : p.device = o.device /\ p.seq = s
  <2>0. o.device \in Device /\ o.seq \in Nat
    BY DEF Op
  <2>1. /\ s \in Nat
        /\ replica[n].vv[o.device] \in Nat /\ replica'[n].vv[o.device] \in Nat
        /\ replica[n].vv[o.device] <= replica'[n].vv[o.device]
    BY <2>0 DEF TypeOK, ReplicaState, VersionVector, Grows, VvLeq
  <2>2. PICK p \in ops : p.device = o.device /\ p.seq = s
    BY <1>2, <2>1 DEF LeavesNoGap
  <2> QED BY <1>2, <2>2
<1> QED BY <1>1, <1>2 DEF LeavesNoGapNext

\* A batch that nobody touches stays good while replicas grow.
LEMMA BatchWhole ==
  ASSUME TypeOK, TypeOK', Grows, NEW n \in Device,
         NEW ops \in SUBSET Op, Genuine(ops), LeavesNoGap(ops, n)
  PROVE  GenuineNext(ops) /\ LeavesNoGapNext(ops, n)
<1>1. ops \in SUBSET ops /\ \A o \in ops \ ops : o.seq <= replica'[n].vv[o.device]
  OBVIOUS
<1> QED BY <1>1, BatchKept

\* So does a batch from which an op is taken that its receiver knows now.
LEMMA BatchWithout ==
  ASSUME TypeOK, TypeOK', Grows, NEW n \in Device,
         NEW ops \in SUBSET Op, Genuine(ops), LeavesNoGap(ops, n),
         NEW o \in ops, o.seq <= replica'[n].vv[o.device]
  PROVE  GenuineNext(ops \ {o}) /\ LeavesNoGapNext(ops \ {o}, n)
<1> DEFINE rest == ops \ {o}
<1>1. rest \in SUBSET ops /\ \A p \in ops \ rest : p.seq <= replica'[n].vv[p.device]
  OBVIOUS
<1> HIDE DEF rest
<1>2. GenuineNext(rest) /\ LeavesNoGapNext(rest, n)
  BY <1>1, BatchKept
<1> QED BY <1>2 DEF rest

\* The answer of ops_since, and the batch a push carries, leave no gap at a
\* node whose vector has not shrunk since it was read.
LEMMA OpsSinceLeavesNoGap ==
  ASSUME TypeOK, LogsInv, NEW m \in Device, NEW n \in Device,
         NEW vv \in VersionVector, VvLeq(vv, replica[n].vv)
  PROVE  /\ Genuine(OpsSince(replica[m], vv))
         /\ LeavesNoGap(OpsSince(replica[m], vv), n)
<1>1. Genuine(OpsSince(replica[m], vv))
  BY DEF LogsInv, LogsGenuine, Genuine, OpsSince
<1>2. ASSUME NEW o \in OpsSince(replica[m], vv), NEW s \in 1 .. o.seq,
             ~ (s <= replica[n].vv[o.device])
      PROVE  \E p \in OpsSince(replica[m], vv) : p.device = o.device /\ p.seq = s
  <2>1. /\ o \in replica[m].log /\ o.device \in Device /\ o.seq \in Nat
        /\ s \in Nat /\ s >= 1 /\ s <= o.seq
    BY ReplicaFields DEF OpsSince, Op
  <2>2. o.seq \in {x.seq : x \in {y \in replica[m].log : y.device = o.device}}
    BY <2>1
  <2>3. o.seq \in 1 .. replica[m].vv[o.device]
    BY <2>1, <2>2 DEF LogsInv, NoGap
  <2>4. s \in 1 .. replica[m].vv[o.device]
    BY <2>1, <2>3, ReplicaFields
  <2>5. s \in {x.seq : x \in {y \in replica[m].log : y.device = o.device}}
    BY <2>1, <2>4 DEF LogsInv, NoGap
  <2>6. PICK p \in replica[m].log : p.device = o.device /\ p.seq = s
    BY <2>5
  <2>7. p.seq > vv[p.device]
    BY <1>2, <2>1, <2>6, ReplicaFields DEF VvLeq, VersionVector
  <2> QED BY <2>6, <2>7 DEF OpsSince
<1> QED BY <1>1, <1>2 DEF LeavesNoGap

\* A loop or a push that the step leaves alone.
LEMMA OtherBatchesKept ==
  ASSUME TypeOK, TypeOK', SyncInv, Grows
  PROVE  /\ \A n \in Device : client'[n] = client[n] => ClientBatch(n)'
         /\ \A k \in Slot : push'[k] = push[k] => PushBatch(k)'
<1>1. ASSUME NEW n \in Device, client'[n] = client[n] PROVE ClientBatch(n)'
  <2>1. client[n].ops \in SUBSET Op /\ client[n].peer \in Device /\ ClientBatch(n)
    BY DEF TypeOK, ClientState, SyncInv
  <2>2. GenuineNext(client[n].ops) /\ LeavesNoGapNext(client[n].ops, n)
    BY <2>1, BatchWhole DEF ClientBatch
  <2>3. ASSUME NEW m \in Device, VvLeq(client[n].vv, replica[m].vv)
        PROVE  VvLeq(client'[n].vv, replica'[m].vv)
    BY <1>1, <2>3 DEF VvLeq, Grows, TypeOK, ClientState, ReplicaState, VersionVector
  <2> QED BY <1>1, <2>1, <2>2, <2>3
      DEF ClientBatch, GenuineNext, LeavesNoGapNext, Genuine, LeavesNoGap
<1>2. ASSUME NEW k \in Slot, push'[k] = push[k] PROVE PushBatch(k)'
  <2> SUFFICES ASSUME push[k] # NoPush
               PROVE  Genuine(push[k].ops)' /\ LeavesNoGap(push[k].ops, push[k].to)'
    BY <1>2 DEF PushBatch
  <2>1. push[k].ops \in SUBSET Op /\ push[k].to \in Device /\ PushBatch(k)
    BY DEF TypeOK, PushState, SyncInv
  <2>2. GenuineNext(push[k].ops) /\ LeavesNoGapNext(push[k].ops, push[k].to)
    BY <2>1, BatchWhole DEF PushBatch
  <2> QED BY <1>2, <2>2 DEF GenuineNext, LeavesNoGapNext, Genuine, LeavesNoGap
<1> QED BY <1>1, <1>2

\* A step that changes no replica.
LEMMA LogsUntouched ==
  ASSUME TypeOK, LogsInv, UNCHANGED replica
  PROVE  LogsInv' /\ Grows
BY ReplicaFields
DEF LogsInv, Grows, VvLeq, SeqIsOwnMark, NoGap, LogsGenuine, Genuine, OwnOpsOrdered,
    OwnClockAhead, OwnedBy, EntriesAreWinners

\* The invariant holds when no node has seen anything.
LEMMA InitSyncInv == Init => SyncInv
<1> SUFFICES ASSUME Init PROVE SyncInv
  OBVIOUS
<1>1. \A n \in Device : /\ replica[n] = NewReplica(n)
                        /\ client[n] = BetweenRounds(n, {})
  BY DEF Init
<1>2. \A k \in Slot : push[k] = NoPush
  BY DEF Init
<1>3. ASSUME NEW n \in Device
      PROVE  /\ replica[n].log = {}
             /\ \A d \in Device : replica[n].vv[d] = 0
             /\ replica[n].device = n /\ replica[n].seq = 0
             /\ \A e \in Entity : replica[n].entries[e] = NoEntry
  <2>1. replica[n] = NewReplica(n)
    BY <1>1
  <2> QED BY <2>1 DEF NewReplica, EmptyVv
<1>4. SeqIsOwnMark /\ EntriesAreWinners
  BY <1>3 DEF SeqIsOwnMark, EntriesAreWinners, EntriesWin
<1>5. NoGap
  <2> SUFFICES ASSUME NEW n \in Device, NEW d \in Device
               PROVE  {o.seq : o \in {x \in replica[n].log : x.device = d}}
                        = 1 .. replica[n].vv[d]
    BY DEF NoGap
  <2>1. {o.seq : o \in {x \in replica[n].log : x.device = d}} = {}
    BY <1>3
  <2>2. 1 .. replica[n].vv[d] = {}
    BY <1>3
  <2> QED BY <2>1, <2>2
<1>6. LogsGenuine /\ OwnOpsOrdered /\ OwnClockAhead
  BY <1>3 DEF LogsGenuine, Genuine, OwnOpsOrdered, OwnClockAhead, OwnedBy
<1>7. ASSUME NEW n \in Device PROVE ClientBatch(n)
  <2>0. client[n] = BetweenRounds(n, {})
    BY <1>1
  <2>1. client[n].pc = "loop" /\ client[n].ops = {}
    BY <2>0 DEF BetweenRounds
  <2> QED BY <2>1 DEF ClientBatch, Genuine, LeavesNoGap
<1>8. \A k \in Slot : PushBatch(k)
  BY <1>2 DEF PushBatch
<1> QED BY <1>4, <1>5, <1>6, <1>7, <1>8 DEF SyncInv, LogsInv

\* Every step of a node or a push keeps the invariant.
LEMMA NextSyncInv == TypeOK /\ TypeOK' /\ SyncInv /\ [Next]_vars => SyncInv'
<1> SUFFICES ASSUME TypeOK, TypeOK', SyncInv, [Next]_vars PROVE SyncInv'
  OBVIOUS
<1> USE ClockAssumption
<1>0. LogsInv
  BY DEF SyncInv
<1>a. ASSUME NEW n \in Device, UNCHANGED <<replica, push>>,
             \A m \in Device : m # n => client'[m] = client[m],
             ClientBatch(n)'
      PROVE  SyncInv'
  <2>1. LogsInv' /\ Grows
    BY <1>0, <1>a, LogsUntouched
  <2> QED BY <1>a, <2>1, OtherBatchesKept DEF SyncInv
<1>b. ASSUME NEW k \in Slot, UNCHANGED <<replica, client>>,
             \A j \in Slot : j # k => push'[j] = push[j],
             PushBatch(k)'
      PROVE  SyncInv'
  <2>1. LogsInv' /\ Grows
    BY <1>0, <1>b, LogsUntouched
  <2> QED BY <1>b, <2>1, OtherBatchesKept DEF SyncInv
<1>1. ASSUME NEW n \in Device, LocalWrite(n) PROVE SyncInv'
  <2>1. PICK e \in Entity, v \in Written, wall \in Clock :
          replica' = [replica EXCEPT ![n] =
                        LocalChange(replica[n], NewOp(replica[n], e, v, wall))]
    BY <1>1 DEF LocalWrite
  <2>2. LogsInv' /\ Grows
    BY <1>0, <2>1, WriteKeepsLogs
  <2> QED BY <1>1, <2>2, OtherBatchesKept DEF LocalWrite, SyncInv
<1>2. ASSUME NEW n \in Device, SetOnline(n) PROVE SyncInv'
  <2>1. LogsInv' /\ Grows
    BY <1>0, <1>2, LogsUntouched DEF SetOnline
  <2> QED BY <1>2, <2>1, OtherBatchesKept DEF SetOnline, SyncInv
<1>3. ASSUME NEW n \in Device, StartTick(n) PROVE SyncInv'
  <2>1. PICK found \in SUBSET Finds[n] :
          client'[n] = BetweenRounds(n, Knows[n] \cup found)
    BY <1>3 DEF StartTick, TypeOK
  <2>2. ClientBatch(n)'
    BY <2>1 DEF ClientBatch, BetweenRounds, Genuine, LeavesNoGap
  <2> QED BY <1>3, <1>a, <2>2 DEF StartTick, TypeOK
<1>4. ASSUME NEW n \in Device, RequestOps(n) PROVE SyncInv'
  <2>1. /\ client'[n].pc = "since"
        /\ client'[n].vv = replica[n].vv
        /\ client'[n].ops = {}
    BY <1>4 DEF RequestOps, TypeOK
  <2>2. ClientBatch(n)'
    BY <1>4, <2>1, ReplicaFields DEF RequestOps, ClientBatch, Genuine, LeavesNoGap, VvLeq
  <2> QED BY <1>4, <1>a, <2>2 DEF RequestOps, TypeOK
<1>5. ASSUME NEW n \in Device, ServeOps(n) PROVE SyncInv'
  <2> DEFINE served == OpsSince(replica[client[n].peer], client[n].vv)
  <2>1. /\ client[n].peer \in Device
        /\ client[n].vv \in VersionVector
        /\ VvLeq(client[n].vv, replica[n].vv)
    BY <1>5 DEF ServeOps, TypeOK, ClientState, SyncInv, ClientBatch
  <2>2. Genuine(served) /\ LeavesNoGap(served, n)
    BY <1>0, <2>1, OpsSinceLeavesNoGap
  <2>3. client'[n].pc = "pull" /\ client'[n].ops = served /\ replica' = replica
    BY <1>5 DEF ServeOps, TypeOK, ClientState
  <2> HIDE DEF served
  <2>4. ClientBatch(n)'
    BY <2>2, <2>3 DEF ClientBatch, Genuine, LeavesNoGap
  <2> QED BY <1>5, <1>a, <2>4 DEF ServeOps, TypeOK
<1>6. ASSUME NEW n \in Device, ApplyPulled(n) PROVE SyncInv'
  <2>1. PICK o \in client[n].ops, wall \in Clock :
          /\ IsNext(o, client[n].ops)
          /\ replica' = [replica EXCEPT ![n] = Apply(replica[n], o, wall)]
          /\ client' = [client EXCEPT ![n].ops = client[n].ops \ {o}]
    BY <1>6 DEF ApplyPulled
  <2>2. client[n].ops \in SUBSET Op /\ ClientBatch(n) /\ o \in Op
    BY DEF TypeOK, ClientState, SyncInv
  <2>3. o.seq <= replica[n].vv[o.device] + 1 /\ o \in replica[o.device].log
    BY <2>1, <2>2, NextOfBatch DEF ClientBatch, Genuine
  <2>4. LogsInv' /\ Grows /\ o.seq <= replica'[n].vv[o.device]
    BY <1>0, <2>1, <2>2, <2>3, ApplyKeepsLogs
  <2>5. client'[n].pc = "pull" /\ client'[n].ops = client[n].ops \ {o}
    BY <1>6, <2>1 DEF ApplyPulled, TypeOK, ClientState
  <2>6. ClientBatch(n)'
    <3>1. GenuineNext(client[n].ops \ {o}) /\ LeavesNoGapNext(client[n].ops \ {o}, n)
      BY <2>2, <2>4, BatchWithout DEF ClientBatch
    <3> QED BY <2>5, <3>1 DEF ClientBatch, GenuineNext, LeavesNoGapNext, Genuine, LeavesNoGap
  <2>7. \A m \in Device : m # n => client'[m] = client[m]
    BY <2>1 DEF TypeOK
  <2> QED BY <1>6, <2>4, <2>6, <2>7, OtherBatchesKept DEF ApplyPulled, SyncInv
<1>7. ASSUME NEW n \in Device, ServeVv(n) PROVE SyncInv'
  <2>1. /\ client'[n].pc = "push"
        /\ client'[n].vv = replica[client[n].peer].vv
        /\ client'[n].ops = {}
        /\ client'[n].peer = client[n].peer
        /\ client[n].peer \in Device
        /\ replica' = replica
    BY <1>7 DEF ServeVv, TypeOK, ClientState
  <2>2. ClientBatch(n)'
    BY <2>1, ReplicaFields DEF ClientBatch, Genuine, LeavesNoGap, VvLeq
  <2> QED BY <1>7, <1>a, <2>2 DEF ServeVv, TypeOK
<1>8. ASSUME NEW n \in Device, SendPush(n) PROVE SyncInv'
  <2> DEFINE mine == OpsSince(replica[n], client[n].vv)
  <2>1. /\ client[n].peer \in Device
        /\ client[n].vv \in VersionVector
        /\ VvLeq(client[n].vv, replica[client[n].peer].vv)
    BY <1>8 DEF SendPush, TypeOK, ClientState, SyncInv, ClientBatch
  <2>2. Genuine(mine) /\ LeavesNoGap(mine, client[n].peer)
    BY <1>0, <2>1, OpsSinceLeavesNoGap
  <2>3. LogsInv' /\ Grows
    BY <1>0, <1>8, LogsUntouched DEF SendPush
  <2>4. \A m \in Device : ClientBatch(m)'
    <3>1. client'[n] = BetweenRounds(n, client[n].todo)
      BY <1>8 DEF SendPush, TypeOK
    <3>2. ClientBatch(n)'
      BY <3>1 DEF ClientBatch, BetweenRounds, Genuine, LeavesNoGap
    <3>3. \A m \in Device : m # n => client'[m] = client[m]
      BY <1>8 DEF SendPush, TypeOK
    <3> QED BY <2>3, <3>2, <3>3, OtherBatchesKept
  <2>5. CASE UNCHANGED push
    BY <2>3, <2>4, <2>5, OtherBatchesKept DEF SyncInv
  <2>6. ASSUME NEW k \in Slot,
               push' = [push EXCEPT ![k] =
                 [phase |-> "sent", from |-> n, to |-> client[n].peer, ops |-> mine]]
        PROVE  SyncInv'
    <3>1. push'[k].ops = mine /\ push'[k].to = client[n].peer
      BY <2>6 DEF TypeOK
    <3>2. PushBatch(k)'
      BY <1>8, <2>2, <3>1 DEF SendPush, PushBatch, Genuine, LeavesNoGap
    <3>3. \A j \in Slot : j # k => push'[j] = push[j]
      BY <2>6 DEF TypeOK
    <3> QED BY <2>3, <2>4, <3>2, <3>3, OtherBatchesKept DEF SyncInv
  <2> QED BY <1>8, <2>5, <2>6 DEF SendPush
<1>9. ASSUME NEW n \in Device, TimeOut(n) PROVE SyncInv'
  <2>1. client'[n] = BetweenRounds(n, client[n].todo)
    BY <1>9 DEF TimeOut, TypeOK
  <2>2. ClientBatch(n)'
    BY <2>1 DEF ClientBatch, BetweenRounds, Genuine, LeavesNoGap
  <2> QED BY <1>9, <1>a, <2>2 DEF TimeOut, TypeOK
<1>10. ASSUME NEW k \in Slot, AcceptPush(k) PROVE SyncInv'
  <2>1. push'[k].ops = push[k].ops /\ push'[k].to = push[k].to
    BY <1>10 DEF AcceptPush, TypeOK, PushState
  <2>2. PushBatch(k)'
    BY <1>10, <2>1 DEF AcceptPush, SyncInv, PushBatch, Genuine, LeavesNoGap
  <2> QED BY <1>10, <1>b, <2>2 DEF AcceptPush, TypeOK
<1>11. ASSUME NEW k \in Slot, LosePush(k) PROVE SyncInv'
  <2>1. push'[k] = NoPush
    BY <1>11 DEF LosePush, TypeOK
  <2> QED BY <1>11, <1>b, <2>1 DEF LosePush, TypeOK, PushBatch
<1>12. ASSUME NEW k \in Slot, ApplyPushed(k) PROVE SyncInv'
  <2> DEFINE n == push[k].to
  <2>1. PICK o \in push[k].ops, wall \in Clock :
          /\ IsNext(o, push[k].ops)
          /\ replica' = [replica EXCEPT ![n] = Apply(replica[n], o, wall)]
          /\ push' = [push EXCEPT ![k].ops = push[k].ops \ {o}]
    BY <1>12 DEF ApplyPushed
  <2>2. /\ push[k].ops \in SUBSET Op /\ n \in Device
        /\ Genuine(push[k].ops) /\ LeavesNoGap(push[k].ops, n) /\ o \in Op
    BY <1>12 DEF ApplyPushed, TypeOK, PushState, SyncInv, PushBatch
  <2>3. push'[k].to = n /\ push'[k].ops = push[k].ops \ {o}
    BY <1>12, <2>1 DEF ApplyPushed, TypeOK, PushState
  <2> HIDE DEF n
  <2>4. o.seq <= replica[n].vv[o.device] + 1 /\ o \in replica[o.device].log
    BY <2>1, <2>2, NextOfBatch DEF Genuine
  <2>5. LogsInv' /\ Grows /\ o.seq <= replica'[n].vv[o.device]
    BY <1>0, <2>1, <2>2, <2>4, ApplyKeepsLogs
  <2>6. GenuineNext(push[k].ops \ {o}) /\ LeavesNoGapNext(push[k].ops \ {o}, n)
    BY <2>2, <2>5, BatchWithout
  <2>7. PushBatch(k)'
    BY <2>3, <2>6 DEF PushBatch, GenuineNext, LeavesNoGapNext, Genuine, LeavesNoGap
  <2>8. \A j \in Slot : j # k => push'[j] = push[j]
    BY <2>1 DEF TypeOK
  <2> QED BY <1>12, <2>5, <2>7, <2>8, OtherBatchesKept DEF ApplyPushed, SyncInv
<1>13. ASSUME NEW k \in Slot, AnswerPush(k) PROVE SyncInv'
  <2>1. push'[k] = NoPush
    BY <1>13 DEF AnswerPush, TypeOK
  <2> QED BY <1>13, <1>b, <2>1 DEF AnswerPush, TypeOK, PushBatch
<1>14. CASE UNCHANGED vars
  <2>1. LogsInv' /\ Grows
    BY <1>0, <1>14, LogsUntouched DEF vars
  <2> QED BY <1>14, <2>1, OtherBatchesKept DEF vars, SyncInv
<1> QED
  BY <1>1, <1>2, <1>3, <1>4, <1>5, <1>6, <1>7, <1>8, <1>9, <1>10, <1>11, <1>12, <1>13,
     <1>14 DEF Next, NodeStep, PushStep

\* Vectors, logs, entries, clocks and everything under way fit together in
\* every reachable state.
THEOREM SyncInvariant == Spec => []SyncInv
<1>1. Init => TypeOK /\ SyncInv
  BY InitType, InitSyncInv
<1>2. TypeOK /\ SyncInv /\ [Next]_vars => TypeOK' /\ SyncInv'
  BY NextType, NextSyncInv
<1> QED BY <1>1, <1>2, PTL DEF Spec

-----------------------------------------------------------------------------
(***************************************************************************)
(* What follows from the invariant.                                        *)
(***************************************************************************)
LEMMA SameSeqSameOp ==
  ASSUME TypeOK, LogsInv, NEW n \in Device, NEW m \in Device,
         NEW o \in replica[n].log, NEW p \in replica[m].log, o.device = p.device
  PROVE  o.seq = p.seq \/ o.hlc = p.hlc => o = p
<1>1. o \in Op /\ p \in Op
  BY ReplicaFields
<1>2. o.device \in Device /\ o.seq \in Nat /\ p.seq \in Nat /\ o.hlc \in Hlc /\ p.hlc \in Hlc
  BY <1>1 DEF Op
<1>3. o \in OwnedBy(o.device) /\ p \in OwnedBy(o.device)
  BY <1>2 DEF LogsInv, LogsGenuine, Genuine, OwnedBy
<1>4. \/ o = p
      \/ o.seq < p.seq /\ HlcLess(o.hlc, p.hlc)
      \/ p.seq < o.seq /\ HlcLess(p.hlc, o.hlc)
  BY <1>2, <1>3 DEF LogsInv, OwnOpsOrdered
<1>5. ~ HlcLess(o.hlc, o.hlc) /\ ~ HlcLess(p.hlc, p.hlc)
  BY <1>2, HlcOrder
<1> QED BY <1>2, <1>4, <1>5

\* The version vector determines the log.
LEMMA SameVvSameLog ==
  ASSUME TypeOK, LogsInv, NEW n \in Device, NEW m \in Device,
         replica[n].vv = replica[m].vv
  PROVE  replica[n].log \subseteq replica[m].log
<1> SUFFICES ASSUME NEW o \in replica[n].log PROVE o \in replica[m].log
  OBVIOUS
<1>1. o.device \in Device
  BY ReplicaFields DEF Op
<1>2. o.seq \in {x.seq : x \in {y \in replica[n].log : y.device = o.device}}
  OBVIOUS
<1>3. o.seq \in {x.seq : x \in {y \in replica[m].log : y.device = o.device}}
  BY <1>1, <1>2 DEF LogsInv, NoGap
<1>4. PICK p \in replica[m].log : p.device = o.device /\ p.seq = o.seq
  BY <1>3
<1> QED BY <1>4, SameSeqSameOp

\* Replicas that have seen the same ops have the same entries, tombstones and
\* stamps included: the last writer of a key is unique.
LEMMA SameVvSameEntries ==
  ASSUME TypeOK, LogsInv, NEW n \in Device, NEW m \in Device,
         replica[n].vv = replica[m].vv
  PROVE  replica[n].entries = replica[m].entries
<1>1. replica[n].log = replica[m].log
  <2>1. replica[n].log \subseteq replica[m].log
    BY SameVvSameLog
  <2>2. replica[m].log \subseteq replica[n].log
    BY SameVvSameLog
  <2> QED BY <2>1, <2>2
<1>2. /\ replica[n].entries \in [Entity -> Entry \cup {NoEntry}]
      /\ replica[m].entries \in [Entity -> Entry \cup {NoEntry}]
  BY DEF TypeOK, ReplicaState
<1>3. ASSUME NEW e \in Entity PROVE replica[n].entries[e] = replica[m].entries[e]
  <2>1. EntriesWin(replica[n]) /\ EntriesWin(replica[m])
    BY DEF LogsInv, EntriesAreWinners
  <2>2. CASE \A o \in replica[n].log : o.entity # e
    BY <1>1, <2>1, <2>2 DEF EntriesWin
  <2>3. CASE ~ \A o \in replica[n].log : o.entity # e
    <3>1. PICK o \in replica[n].log :
            /\ o.entity = e
            /\ replica[n].entries[e] = EntryOf(o)
            /\ \A p \in replica[n].log : p.entity = e => ~ Beats(p, o)
      BY <2>1, <2>3 DEF EntriesWin
    <3>2. PICK w \in replica[m].log :
            /\ w.entity = e
            /\ replica[m].entries[e] = EntryOf(w)
            /\ \A p \in replica[m].log : p.entity = e => ~ Beats(p, w)
      BY <1>1, <2>1, <2>3 DEF EntriesWin
    <3>3. ~ Beats(o, w) /\ ~ Beats(w, o) /\ o \in Op /\ w \in Op
      BY <1>1, <3>1, <3>2, ReplicaFields
    <3>4. o.hlc = w.hlc /\ o.device = w.device
      BY <3>3, BeatsOrder
    <3>5. o = w
      BY <3>4, SameSeqSameOp
    <3> QED BY <3>1, <3>2, <3>5
  <2> QED BY <2>2, <2>3
<1> QED BY <1>2, <1>3

\* Equal vectors mean equal entries, and so an equal GET /state.
LEMMA InvariantGivesConvergence == TypeOK /\ SyncInv => Convergence
<1> SUFFICES ASSUME TypeOK, SyncInv, NEW n \in Device, NEW m \in Device,
                    replica[n].vv = replica[m].vv
             PROVE  Visible(replica[n]) = Visible(replica[m])
  BY DEF Convergence
<1>1. replica[n].entries = replica[m].entries
  BY SameVvSameEntries DEF SyncInv
<1> QED BY <1>1 DEF Visible

\* No version vector ever claims an op its node does not have, nor hides one
\* it has: a batch from a stale vector, next to other batches, makes no gap.
THEOREM NoGapAlways == Spec => []NoGap
<1>1. SyncInv => NoGap
  BY DEF SyncInv, LogsInv
<1> QED BY <1>1, SyncInvariant, PTL

\* A (device, seq) pair names one op in the whole system.
THEOREM OneOpPerSeqAlways == Spec => []OneOpPerSeq
<1>1. TypeOK /\ SyncInv => OneOpPerSeq
  BY SameSeqSameOp DEF OneOpPerSeq, SyncInv
<1> QED BY <1>1, TypeCorrect, SyncInvariant, PTL

\* Two replicas that have seen the same ops show the same state, whatever the
\* order the ops reached them in.
THEOREM ConvergenceAlways == Spec => []Convergence
BY InvariantGivesConvergence, TypeCorrect, SyncInvariant, PTL

(***************************************************************************)
(* The clock.                                                              *)
(***************************************************************************)
LEMMA NextClockCovers == TypeOK /\ ClockCoversLog /\ [Next]_vars => ClockCoversLog'
<1> SUFFICES ASSUME TypeOK, ClockCoversLog, [Next]_vars PROVE ClockCoversLog'
  OBVIOUS
<1> USE ClockAssumption
<1>0. \A m \in Device : \A p \in replica[m].log :
         p.hlc \in Hlc /\ p.hlc.time \in Nat /\ p.hlc.time <= replica[m].hlc.time
  BY ReplicaFields DEF ClockCoversLog, Op, Hlc
<1>1. ASSUME NEW n \in Device, NEW r \in ReplicaState, NEW op,
             replica' = [replica EXCEPT ![n] = r],
             r.log = replica[n].log \/ r.log = replica[n].log \cup {op},
             r.log # replica[n].log => op.hlc.time <= r.hlc.time,
             replica[n].hlc.time <= r.hlc.time
      PROVE  ClockCoversLog'
  <2> SUFFICES ASSUME NEW m \in Device, NEW p \in replica'[m].log
               PROVE  p.hlc.time <= replica'[m].hlc.time
    BY DEF ClockCoversLog
  <2>1. replica'[m] = IF m = n THEN r ELSE replica[m]
    BY <1>1 DEF TypeOK
  <2>2. replica[n].hlc.time \in Nat /\ r.hlc.time \in Nat
    BY ReplicaFields DEF ReplicaState, Hlc
  <2>3. CASE m = n /\ p \in replica[n].log
    BY <1>0, <1>1, <2>1, <2>2, <2>3
  <2>4. CASE m = n /\ p \notin replica[n].log
    BY <1>1, <2>1, <2>4
  <2>5. CASE m # n
    BY <1>0, <2>1, <2>5
  <2> QED BY <2>3, <2>4, <2>5
<1>2. ASSUME NEW n \in Device, NEW op \in Op, NEW wall \in Clock,
             replica' = [replica EXCEPT ![n] = Apply(replica[n], op, wall)]
      PROVE  ClockCoversLog'
  <2> DEFINE r == Apply(replica[n], op, wall)
  <2>1. r \in ReplicaState
    BY ReplicaFields, ApplyType
  <2>2. op.hlc \in Hlc /\ replica[n].hlc \in Hlc
    BY ReplicaFields DEF Op
  <2>3. CASE AlreadySeen(replica[n], op)
    <3>1. r = replica[n]
      BY <2>3 DEF Apply
    <3>2. replica[n].hlc.time <= replica[n].hlc.time
      BY <2>2 DEF Hlc
    <3> QED BY <1>1, <1>2, <2>1, <3>1, <3>2
  <2>4. CASE ~ AlreadySeen(replica[n], op)
    <3>1. r.log = replica[n].log \cup {op} /\ r.hlc = Observe(replica[n].hlc, op.hlc, wall)
      BY <2>4 DEF Apply
    <3>2. replica[n].hlc.time <= r.hlc.time /\ op.hlc.time <= r.hlc.time
      BY <2>2, <3>1, ObserveAdvances
    <3> HIDE DEF r
    <3> QED BY <1>1, <1>2, <2>1, <3>1, <3>2 DEF r
  <2> QED BY <2>3, <2>4
<1>3. ASSUME NEW n \in Device, LocalWrite(n) PROVE ClockCoversLog'
  <2>1. PICK e \in Entity, v \in Written, wall \in Clock :
          replica' = [replica EXCEPT ![n] =
                        LocalChange(replica[n], NewOp(replica[n], e, v, wall))]
    BY <1>3 DEF LocalWrite
  <2> DEFINE op == NewOp(replica[n], e, v, wall)
             r == LocalChange(replica[n], op)
  <2>2. op \in Op /\ r \in ReplicaState
    BY ReplicaFields, NewOpType, LocalChangeType
  <2>3. op.hlc = Tick(replica[n].hlc, wall)
    BY DEF NewOp
  <2>4. r.log = replica[n].log \cup {op} /\ r.hlc = op.hlc
    BY DEF LocalChange
  <2>5. replica[n].hlc.time <= op.hlc.time
    BY <2>3, ReplicaFields, TickAdvances
  <2>6. op.hlc.time \in Nat
    BY <2>2 DEF Op, Hlc
  <2> HIDE DEF op, r
  <2>7. op.hlc.time <= r.hlc.time /\ replica[n].hlc.time <= r.hlc.time
    BY <2>4, <2>5, <2>6
  <2> QED BY <1>1, <2>1, <2>2, <2>4, <2>7 DEF r, op
<1>4. ASSUME NEW n \in Device, ApplyPulled(n) PROVE ClockCoversLog'
  <2>1. client[n].ops \subseteq Op
    BY DEF TypeOK, ClientState
  <2> QED BY <1>2, <1>4, <2>1 DEF ApplyPulled
<1>5. ASSUME NEW k \in Slot, ApplyPushed(k) PROVE ClockCoversLog'
  <2>1. push[k].ops \subseteq Op /\ push[k].to \in Device
    BY <1>5 DEF ApplyPushed, TypeOK, PushState
  <2> QED BY <1>2, <1>5, <2>1 DEF ApplyPushed
<1>6. CASE UNCHANGED replica
  BY <1>6 DEF ClockCoversLog
<1> QED
  BY <1>3, <1>4, <1>5, <1>6
  DEF Next, NodeStep, PushStep, SetOnline, StartTick, RequestOps, ServeOps, ServeVv,
      SendPush, TimeOut, AcceptPush, LosePush, AnswerPush, vars

\* Whatever a node has logged, its clock is in that millisecond or later.
THEOREM ClockCoversLogAlways == Spec => []ClockCoversLog
<1>1. Init => ClockCoversLog
  <2> SUFFICES ASSUME Init, NEW n \in Device PROVE replica[n].log = {}
    BY DEF ClockCoversLog
  <2>1. replica[n] = NewReplica(n)
    BY DEF Init
  <2> QED BY <2>1 DEF NewReplica
<1>2. TypeOK /\ ClockCoversLog /\ [Next]_vars => ClockCoversLog'
  BY NextClockCovers
<1> QED BY <1>1, <1>2, TypeCorrect, PTL DEF Spec

\* An own op that appears in a log was minted there by a write: what arrives from
\* others, their writers have logged already.
LEMMA OwnOpsAreWritten ==
  ASSUME TypeOK, SyncInv, [Next]_vars, NEW n \in Device,
         NEW o \in replica'[n].log \ replica[n].log, o.device = n
  PROVE  \E e \in Entity, v \in Written, wall \in Clock : o = NewOp(replica[n], e, v, wall)
<1>1. ASSUME NEW m \in Device, LocalWrite(m)
      PROVE  \E e \in Entity, v \in Written, wall \in Clock : o = NewOp(replica[n], e, v, wall)
  <2>1. PICK e \in Entity, v \in Written, wall \in Clock :
          replica' = [replica EXCEPT ![m] =
                        LocalChange(replica[m], NewOp(replica[m], e, v, wall))]
    BY <1>1 DEF LocalWrite
  <2> DEFINE op == NewOp(replica[m], e, v, wall)
  <2>2. LocalChange(replica[m], op).log = replica[m].log \cup {op}
    BY DEF LocalChange
  <2> HIDE DEF op
  <2>3. replica'[n] = IF n = m THEN LocalChange(replica[m], op) ELSE replica[n]
    BY <2>1 DEF TypeOK, op
  <2>4. m = n /\ o = op
    BY <2>2, <2>3
  <2> QED BY <2>4 DEF op
<1>2. ASSUME NEW m \in Device, NEW ops, Genuine(ops), NEW p \in ops, NEW wall,
             replica' = [replica EXCEPT ![m] = Apply(replica[m], p, wall)]
      PROVE  FALSE
  <2>1. p \in replica[p.device].log
    BY <1>2 DEF Genuine
  <2>2. Apply(replica[m], p, wall).log \in {replica[m].log, replica[m].log \cup {p}}
    BY DEF Apply
  <2>3. replica'[n] = IF n = m THEN Apply(replica[m], p, wall) ELSE replica[n]
    BY <1>2 DEF TypeOK
  <2>4. m = n /\ o = p
    BY <2>2, <2>3
  <2> QED BY <2>1, <2>4
<1>3. ASSUME NEW m \in Device, ApplyPulled(m) PROVE FALSE
  BY <1>2, <1>3 DEF ApplyPulled, SyncInv, ClientBatch
<1>4. ASSUME NEW k \in Slot, ApplyPushed(k) PROVE FALSE
  <2>1. push[k].to \in Device
    BY <1>4 DEF ApplyPushed, TypeOK, PushState
  <2>2. Genuine(push[k].ops)
    BY <1>4 DEF ApplyPushed, SyncInv, PushBatch
  <2> QED BY <1>2, <1>4, <2>1, <2>2 DEF ApplyPushed
<1>5. CASE UNCHANGED replica
  BY <1>5
<1> QED
  BY <1>1, <1>3, <1>4, <1>5
  DEF Next, NodeStep, PushStep, SetOnline, StartTick, RequestOps, ServeOps, ServeVv,
      SendPush, TimeOut, AcceptPush, LosePush, AnswerPush, vars

\* A write is later than every own op, and in no earlier millisecond than any other.
LEMMA WriteLosesWithinMs ==
  ASSUME TypeOK, SyncInv, ClockCoversLog, NEW n \in Device,
         NEW e \in Entity, NEW v \in Written, NEW wall \in Clock, NEW p \in replica[n].log
  PROVE  LET o == NewOp(replica[n], e, v, wall)
         IN  Beats(o, p) \/ (p.device # n /\ p.hlc.time = o.hlc.time)
<1> DEFINE c == replica[n].hlc
           t == Tick(c, wall)
           o == NewOp(replica[n], e, v, wall)
<1>1. o.hlc = t /\ o.device = n
  BY DEF NewOp, SyncInv, LogsInv, SeqIsOwnMark
<1>2. c \in Hlc /\ p.hlc \in Hlc /\ wall \in Nat
  BY ReplicaFields, ClockAssumption DEF Op
<1>3. t \in Hlc /\ HlcLess(c, t) /\ c.time <= t.time
  BY <1>2, TickAdvances
<1> HIDE DEF c, t, o
<1>4. CASE p.device = n
  <2>1. p.hlc = c \/ HlcLess(p.hlc, c)
    BY <1>4 DEF c, SyncInv, LogsInv, OwnClockAhead, OwnedBy
  <2>2. HlcLess(p.hlc, t)
    BY <1>2, <1>3, <2>1, HlcOrder
  <2> QED BY <1>1, <2>2 DEF Beats, o
<1>5. CASE p.device # n
  <2>1. p.hlc.time <= c.time
    BY DEF c, ClockCoversLog
  <2>2. p.hlc.time < t.time \/ p.hlc.time = t.time
    BY <1>2, <1>3, <2>1 DEF Hlc
  <2> QED BY <1>1, <1>5, <2>2 DEF Beats, HlcLess, o
<1> QED BY <1>4, <1>5 DEF o

\* A local op loses at most to another device's op of the same millisecond, whatever
\* its device has received and however its wall clock jumps.
THEOREM LocalOpsLoseWithinMsAlways == Spec => LocalOpsLoseWithinMs
<1> DEFINE Loses ==
      \A n \in Device : \A o \in replica'[n].log \ replica[n].log :
        o.device = n => \A p \in replica[n].log :
          Beats(o, p) \/ (p.device # n /\ p.hlc.time = o.hlc.time)
<1>1. TypeOK /\ SyncInv /\ ClockCoversLog /\ [Next]_vars => Loses
  BY OwnOpsAreWritten, WriteLosesWithinMs
<1>2. TypeOK /\ SyncInv /\ ClockCoversLog /\ [Next]_vars => [Loses]_vars
  BY <1>1
<1> QED
  BY <1>2, TypeCorrect, SyncInvariant, ClockCoversLogAlways, PTL DEF Spec, LocalOpsLoseWithinMs
=============================================================================
