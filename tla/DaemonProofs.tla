---------------------------- MODULE DaemonProofs ----------------------------
(***************************************************************************)
(* Proofs about Daemon, for any number of tasks, writes, kills and faults.  *)
(***************************************************************************)
EXTENDS Daemon, ReplicaProofs, SequenceTheorems

\* A file that exists is a sequence of rows.
LEMMA LedgerIsRows ==
  ASSUME DaemonTypeOK, ledger # NoFile
  PROVE  ledger \in Seq(Row) /\ OpRows = {ledger[i] : i \in 1 .. Len(ledger)} \cap Op
BY DEF DaemonTypeOK, OpRows, Rows

\* What load returns are rows of the file that hold ops.
LEMMA LoadedOps ==
  ASSUME DaemonTypeOK, LedgerShape
  PROVE  /\ Loaded \in Seq(Op)
         /\ \A i \in 1 .. Len(Loaded) : Loaded[i] \in OpRows
<1>1. CASE ledger = NoFile \/ ledger = <<>> \/ ~ Readable
  <2>1. Loaded = <<>>
    BY <1>1 DEF Loaded
  <2> QED BY <2>1
<1>2. CASE ledger # NoFile /\ ledger # <<>> /\ Readable
  <2>1. ledger \in Seq(Row) /\ Loaded = Tail(ledger)
    BY <1>2, LedgerIsRows DEF Loaded
  <2>2. /\ Tail(ledger) \in Seq(Row)
        /\ Len(Tail(ledger)) = Len(ledger) - 1
        /\ \A i \in 1 .. Len(Tail(ledger)) : Tail(ledger)[i] = ledger[i + 1]
    BY <1>2, <2>1
  <2>3. ASSUME NEW i \in 1 .. Len(Tail(ledger)) PROVE Tail(ledger)[i] \in OpRows
    <3>1. i + 1 \in 2 .. Len(ledger) /\ i + 1 \in 1 .. Len(ledger)
      BY <2>1, <2>2
    <3>2. ledger[i + 1] \in Op \cup {Torn, Malformed} /\ ledger[i + 1] \in Rows
      BY <1>2, <3>1 DEF LedgerShape, Rows
    <3>3. ledger[i + 1] \in Op
      BY <1>2, <3>2 DEF Readable
    <3> QED BY <2>2, <3>2, <3>3 DEF OpRows
  <2>4. Tail(ledger) \in [1 .. Len(Tail(ledger)) -> Op] /\ Len(Tail(ledger)) \in Nat
    BY <2>2, <2>3, LenProperties DEF OpRows
  <2>5. Tail(ledger) \in Seq(Op)
    BY <2>4, SeqDef
  <2> QED BY <2>1, <2>3, <2>5
<1> QED BY <1>1, <1>2

\* Appending keeps the shape of the file, and every row with an op that it had.
LEMMA AppendedRows ==
  ASSUME DaemonTypeOK, LedgerShape, ledger # NoFile, NEW row \in Op \cup {Torn}
  PROVE  /\ Appended(row) \in Seq(Row)
         /\ \A i \in 2 .. Len(Appended(row)) : Appended(row)[i] \in Op \cup {Torn, Malformed}
         /\ Len(Appended(row)) >= Len(ledger)
         /\ \A i \in 1 .. Len(ledger) : ledger[i] \in Op => Appended(row)[i] = ledger[i]
         /\ \A i \in 1 .. Len(Appended(row)) :
              Appended(row)[i] \in Op => Appended(row)[i] \in OpRows \cup {row}
         /\ \A i \in 1 .. Len(ledger) :
              ledger[i] \in {Torn, Malformed} => Appended(row)[i] \in {Torn, Malformed}
         /\ \/ \E i \in 1 .. Len(Appended(row)) : Appended(row)[i] = row
            \/ \E i \in 1 .. Len(Appended(row)) : Appended(row)[i] = Malformed
<1>1. ledger \in Seq(Row) /\ OpRows = {ledger[i] : i \in 1 .. Len(ledger)} \cap Op
  BY LedgerIsRows
<1>2. row \in Row /\ Torn \notin Op /\ Malformed \notin Op
  BY RowAssumption DEF Row
<1>3. CASE ledger # <<>> /\ ledger[Len(ledger)] = Torn
  <2> DEFINE last == IF row = Torn THEN Torn ELSE Malformed
  <2>1. Appended(row) = [ledger EXCEPT ![Len(ledger)] = last]
    BY <1>3 DEF Appended
  <2>2. Len(ledger) \in 1 .. Len(ledger) /\ last \in Row
    BY <1>1, <1>3 DEF Row
  <2>3. /\ Appended(row) \in Seq(Row)
        /\ Len(Appended(row)) = Len(ledger)
        /\ \A i \in 1 .. Len(ledger) :
             Appended(row)[i] = IF i = Len(ledger) THEN last ELSE ledger[i]
    BY <1>1, <2>1, <2>2
  <2> QED BY <1>1, <1>2, <1>3, <2>2, <2>3 DEF LedgerShape
<1>4. CASE ~ (ledger # <<>> /\ ledger[Len(ledger)] = Torn)
  <2>1. Appended(row) = Append(ledger, row)
    BY <1>4 DEF Appended
  <2>2. /\ Appended(row) \in Seq(Row)
        /\ Len(Appended(row)) = Len(ledger) + 1
        /\ \A i \in 1 .. Len(ledger) : Appended(row)[i] = ledger[i]
        /\ Appended(row)[Len(ledger) + 1] = row
    BY <1>1, <1>2, <2>1
  <2>3. Len(ledger) \in Nat
    BY <1>1
  <2>4. \A i \in 1 .. Len(Appended(row)) : i \in 1 .. Len(ledger) \/ i = Len(ledger) + 1
    BY <2>2, <2>3
  <2> QED BY <1>1, <1>2, <2>2, <2>3, <2>4 DEF LedgerShape
<1> QED BY <1>3, <1>4

\* A kill that cuts a row leaves a file that cannot be read, with the rows it had.
LEMMA CutFile ==
  ASSUME DaemonTypeOK, LedgerShape, Kill, ledger' # ledger
  PROVE  /\ ledger # NoFile /\ ledger' # NoFile /\ ledger' \in Seq(Row)
         /\ \A i \in 2 .. Len(ledger') : ledger'[i] \in Op \cup {Torn, Malformed}
         /\ ~ Readable' /\ OpRows' \subseteq OpRows
<1>1. ledger' = Appended(Torn) /\ ledger # NoFile
  BY DEF Kill, LedgerShape
<1>2. /\ ledger' \in Seq(Row)
      /\ \A i \in 2 .. Len(ledger') : ledger'[i] \in Op \cup {Torn, Malformed}
      /\ \A i \in 1 .. Len(ledger') : ledger'[i] \in Op => ledger'[i] \in OpRows \cup {Torn}
      /\ \E i \in 1 .. Len(ledger') : ledger'[i] \in {Torn, Malformed}
  BY <1>1, AppendedRows
<1>3. ledger' # NoFile
  BY <1>2, RowAssumption
<1>4. ~ Readable'
  BY <1>2, <1>3 DEF Readable, Rows
<1>5. OpRows' \subseteq OpRows
  <2>1. OpRows' \subseteq {ledger'[i] : i \in 1 .. Len(ledger')} \cap Op
    BY <1>3 DEF OpRows, Rows
  <2> QED BY <1>2, <2>1, RowAssumption
<1> QED BY <1>1, <1>2, <1>3, <1>4, <1>5
-----------------------------------------------------------------------------
(***************************************************************************)
(* Type correctness.  It needs the shape of the file, because what a        *)
(* startup replays are the rows below the first line.                       *)
(***************************************************************************)
TypeInv == DaemonTypeOK /\ LedgerShape

\* The initial state is well typed.
LEMMA InitTyped == DaemonInit => TypeInv
<1> SUFFICES ASSUME DaemonInit PROVE TypeInv
  OBVIOUS
<1>1. NewReplica(Me) \in ReplicaState /\ NewReplica(Peer) \in ReplicaState
  BY NewReplicaType, DevicesAssumption
<1>2. 0 \in 0 .. MaxKills
  BY BoundsAssumption
<1> QED BY <1>1, <1>2 DEF DaemonInit, TypeInv, DaemonTypeOK, LedgerShape

\* Every step keeps the types.
LEMMA NextTyped == TypeInv /\ [DaemonNext]_vars => TypeInv'
<1> SUFFICES ASSUME TypeInv, [DaemonNext]_vars PROVE TypeInv'
  OBVIOUS
<1> USE DEF TypeInv
<1>0. NewReplica(Me) \in ReplicaState
  BY NewReplicaType, DevicesAssumption
<1>1. CASE LoadLedger
  <2>1. Loaded \in Seq(Op)
    BY LoadedOps
  <2> QED BY <1>0, <1>1, <2>1 DEF LoadLedger, DaemonTypeOK, LedgerShape
<1>2. CASE ReplayOp
  <2>1. Head(replay) \in Op /\ Tail(replay) \in Seq(Op)
    BY <1>2, HeadTailProperties DEF ReplayOp, DaemonTypeOK
  <2>2. \A wall \in Clock : Apply(replica, Head(replay), wall) \in ReplicaState
    BY <2>1, ApplyType, ClockAssumption DEF DaemonTypeOK
  <2> QED BY <1>2, <2>1, <2>2 DEF ReplayOp, DaemonTypeOK, LedgerShape
<1>3. CASE OpenLedger
  BY <1>3 DEF OpenLedger, DaemonTypeOK, LedgerShape
<1>4. CASE CreateLedger
  <2>1. <<>> \in Seq(Row) /\ Len(<<>>) = 0
    BY EmptySeq
  <2>2. ledger' = <<>> /\ ledger' # NoFile
    BY <1>4, <2>1, RowAssumption DEF CreateLedger
  <2>3. Len(ledger') = 0
    BY <2>1, <2>2
  <2>4. \A i \in 2 .. Len(ledger') : FALSE
    BY <2>3
  <2> QED BY <1>4, <2>1, <2>2, <2>4 DEF CreateLedger, DaemonTypeOK, LedgerShape
<1>5. CASE WriteHeader
  <2>1. <<Header>> \in Seq(Row) /\ Len(<<Header>>) = 1
    BY DEF Row
  <2>2. ledger' = <<Header>> /\ ledger' # NoFile
    BY <1>5, <2>1, RowAssumption DEF WriteHeader
  <2>3. Len(ledger') = 1
    BY <2>1, <2>2
  <2>4. \A i \in 2 .. Len(ledger') : FALSE
    BY <2>3
  <2> QED BY <1>5, <2>1, <2>2, <2>4 DEF WriteHeader, DaemonTypeOK, LedgerShape
<1>6. CASE Kill
  <2>1. kills' \in 0 .. MaxKills
    BY <1>6, BoundsAssumption DEF Kill, DaemonTypeOK
  <2>2. <<>> \in Seq(Op)
    BY EmptySeq
  <2>3. forgotten' \in SUBSET Op
    BY <1>6 DEF Kill, DaemonTypeOK, ReplicaState
  <2>4. ledger' \in Seq(Row) \cup {NoFile}
    BY <1>6, CutFile DEF DaemonTypeOK
  <2>5. LedgerShape'
    <3>1. CASE ledger' = ledger
      BY <1>6, <3>1 DEF Kill, LedgerShape
    <3>2. CASE ledger' # ledger
      BY <1>6, <3>2, CutFile DEF Kill, LedgerShape
    <3> QED BY <3>1, <3>2
  <2> QED BY <1>0, <1>6, <2>1, <2>2, <2>3, <2>4, <2>5 DEF Kill, DaemonTypeOK
<1>7. ASSUME NEW t \in Task, Write(t) PROVE TypeInv'
  <2>1. PICK e \in Entity, v \in Written, wall \in Clock :
          LET op == NewOp(replica, e, v, wall) IN
          /\ replica' = LocalChange(replica, op)
          /\ task' = [task EXCEPT ![t] =
                        [step |-> "append", todo |-> {}, op |-> op, local |-> TRUE]]
    BY <1>7 DEF Write
  <2> DEFINE op == NewOp(replica, e, v, wall)
  <2>2. op \in Op
    BY NewOpType, ClockAssumption DEF DaemonTypeOK
  <2>3. LocalChange(replica, op) \in ReplicaState
    BY <2>2, LocalChangeType DEF DaemonTypeOK
  <2> HIDE DEF op
  <2>4. [step |-> "append", todo |-> {}, op |-> op, local |-> TRUE] \in TaskState
    BY <2>2 DEF TaskState
  <2>5. /\ replica' = LocalChange(replica, op)
        /\ task' = [task EXCEPT ![t] =
                      [step |-> "append", todo |-> {}, op |-> op, local |-> TRUE]]
    BY <2>1 DEF op
  <2> QED BY <1>7, <2>3, <2>4, <2>5 DEF Write, DaemonTypeOK, LedgerShape
<1>8. ASSUME NEW t \in Task, AcceptBatch(t) PROVE TypeInv'
  <2>1. [step |-> "apply", todo |-> mail] \in TaskState
    BY DEF TaskState, DaemonTypeOK
  <2> QED BY <1>8, <2>1 DEF AcceptBatch, DaemonTypeOK, LedgerShape
<1>9. ASSUME NEW t \in Task, ApplyNext(t) PROVE TypeInv'
  <2>1. PICK o \in task[t].todo, wall \in Clock :
          /\ replica' = Apply(replica, o, wall)
          /\ task' = [task EXCEPT ![t] =
                        IF AlreadySeen(replica, o) THEN Continue(task[t].todo \ {o})
                        ELSE [step |-> "append", todo |-> task[t].todo \ {o},
                              op |-> o, local |-> FALSE]]
    BY <1>9 DEF ApplyNext
  <2>2. task[t] \in TaskState /\ task[t].todo \in SUBSET Op
    BY <1>9 DEF ApplyNext, DaemonTypeOK, TaskState
  <2>3. Apply(replica, o, wall) \in ReplicaState
    BY <2>2, ApplyType, ClockAssumption DEF DaemonTypeOK
  <2>4. /\ Continue(task[t].todo \ {o}) \in TaskState \cup {Idle}
        /\ [step |-> "append", todo |-> task[t].todo \ {o}, op |-> o, local |-> FALSE]
             \in TaskState
    BY <2>2 DEF Continue, TaskState
  <2>5. task' \in [Task -> TaskState \cup {Idle}]
    BY <2>1, <2>4 DEF DaemonTypeOK
  <2> QED BY <1>9, <2>1, <2>3, <2>5 DEF ApplyNext, DaemonTypeOK, LedgerShape
<1>10. ASSUME NEW t \in Task, AppendRow(t) PROVE TypeInv'
  <2>1. task[t].op \in Op /\ task[t].todo \in SUBSET Op
    BY <1>10 DEF AppendRow, DaemonTypeOK, TaskState
  <2>2. [step |-> "reply", op |-> task[t].op] \in TaskState
    BY <2>1 DEF TaskState
  <2>3. Continue(task[t].todo) \in TaskState \cup {Idle}
    BY <2>1 DEF Continue, TaskState
  <2>4. task' \in [Task -> TaskState \cup {Idle}]
    BY <1>10, <2>2, <2>3 DEF AppendRow, AfterAppend, DaemonTypeOK
  <2>5. reported' \in SUBSET Op
    BY <1>10, <2>1 DEF AppendRow, Report, DaemonTypeOK
  <2>6. phase = "up" /\ ledger # NoFile
    BY <1>10 DEF AppendRow, LedgerShape
  <2>7. PICK row \in Op \cup {Torn} : ledger' \in {ledger, Appended(row)}
    BY <1>10, <2>1 DEF AppendRow
  <2>8. ledger' \in Seq(Row)
        /\ \A i \in 2 .. Len(ledger') : ledger'[i] \in Op \cup {Torn, Malformed}
    BY <2>6, <2>7, AppendedRows, LedgerIsRows DEF LedgerShape
  <2>9. LedgerShape'
    BY <1>10, <2>6, <2>8, RowAssumption DEF AppendRow, LedgerShape
  <2> QED BY <1>10, <2>4, <2>5, <2>8, <2>9 DEF AppendRow, DaemonTypeOK
<1>11. ASSUME NEW t \in Task, Reply(t) PROVE TypeInv'
  <2>1. task[t].op \in Op
    BY <1>11 DEF Reply, DaemonTypeOK, TaskState
  <2> QED BY <1>11, <2>1 DEF Reply, DaemonTypeOK, LedgerShape
<1>12. CASE PeerWrites
  <2>1. \A e \in Entity, v \in Written, wall \in Clock :
          LocalChange(peer, NewOp(peer, e, v, wall)) \in ReplicaState
    BY NewOpType, LocalChangeType, ClockAssumption DEF DaemonTypeOK
  <2> QED BY <1>12, <2>1 DEF PeerWrites, DaemonTypeOK, LedgerShape
<1>13. CASE PeerPulls
  <2>1. OpsSince(replica, peer.vv) \subseteq Op
    BY DEF OpsSince, DaemonTypeOK, ReplicaState
  <2>2. \A o \in OpsSince(replica, peer.vv), wall \in Clock : Apply(peer, o, wall) \in ReplicaState
    BY <2>1, ApplyType, ClockAssumption DEF DaemonTypeOK
  <2> QED BY <1>13, <2>2 DEF PeerPulls, DaemonTypeOK, LedgerShape
<1>14. CASE PeerSends
  <2>1. OpsSince(peer, replica.vv) \subseteq Op
    BY DEF OpsSince, DaemonTypeOK, ReplicaState
  <2> QED BY <1>14, <2>1 DEF PeerSends, DaemonTypeOK, LedgerShape
<1>15. CASE UNCHANGED vars
  BY <1>15 DEF vars, DaemonTypeOK, LedgerShape
<1> QED
  BY <1>1, <1>2, <1>3, <1>4, <1>5, <1>6, <1>7, <1>8, <1>9, <1>10, <1>11, <1>12, <1>13,
     <1>14, <1>15 DEF DaemonNext, TaskStep

\* The state is well typed in every reachable state.
THEOREM DaemonTypeCorrect == DaemonSpec => []DaemonTypeOK
<1>1. TypeInv => DaemonTypeOK
  BY DEF TypeInv
<1> QED BY <1>1, InitTyped, NextTyped, PTL DEF DaemonSpec

-----------------------------------------------------------------------------
(***************************************************************************)
(* What a replica is after it took an op, minted or applied.               *)
(***************************************************************************)
Taken(r, s, op) ==
  /\ s.device = r.device
  /\ s.seq = IF op.device = r.device THEN op.seq ELSE r.seq
  /\ s.vv = [r.vv EXCEPT ![op.device] = op.seq]
  /\ s.log = r.log \cup {op}
  /\ op.seq > r.vv[op.device]

\* apply ignores an op, or takes it.
LEMMA ApplyTakes ==
  ASSUME NEW r \in ReplicaState, NEW d \in Device, Marked(r, d), NEW op \in Op, NEW wall \in Nat
  PROVE  \/ AlreadySeen(r, op) /\ Apply(r, op, wall) = r
         \/ Taken(r, Apply(r, op, wall), op)
<1>1. op.seq \in Nat /\ op.device \in Device /\ r.vv[op.device] \in Nat /\ r.seq = r.vv[r.device]
  BY DEF Op, ReplicaState, VersionVector, Marked
<1>2. CASE AlreadySeen(r, op)
  BY <1>2 DEF Apply
<1>3. CASE ~ AlreadySeen(r, op)
  <2>1. op.seq > r.vv[op.device]
    BY <1>1, <1>3 DEF AlreadySeen
  <2> QED BY <1>1, <1>3, <2>1 DEF Apply, Taken
<1> QED BY <1>2, <1>3

\* local_change takes the op it mints, which is the next one of its device.
LEMMA LocalChangeTakes ==
  ASSUME NEW r \in ReplicaState, NEW d \in Device, Marked(r, d),
         NEW e \in Entity, NEW v \in Written, NEW wall \in Nat
  PROVE  /\ NewOp(r, e, v, wall).device = d
         /\ NewOp(r, e, v, wall).seq = r.vv[d] + 1
         /\ Taken(r, LocalChange(r, NewOp(r, e, v, wall)), NewOp(r, e, v, wall))
<1>1. r.vv[d] \in Nat
  BY DEF ReplicaState, VersionVector
<1> QED BY <1>1 DEF Marked, NewOp, LocalChange, Taken

\* Its own mark is the last op it minted, and its log is below its marks.
LEMMA TakenMarked ==
  ASSUME NEW r \in ReplicaState, NEW s \in ReplicaState, NEW d \in Device, Marked(r, d),
         NEW op \in Op, Taken(r, s, op)
  PROVE  Marked(s, d)
<1>1. op.device \in Device /\ op.seq \in Nat /\ r.vv \in [Device -> Nat]
  BY DEF Op, ReplicaState, VersionVector
<1>2. s.device = d /\ s.seq = s.vv[d]
  BY <1>1 DEF Taken, Marked
<1>3. ASSUME NEW o \in s.log PROVE o.seq <= s.vv[o.device]
  <2>1. o \in Op /\ o.device \in Device /\ o.seq \in Nat
    BY DEF ReplicaState, Op
  <2>2. CASE o \in r.log
    <3>1. o.seq <= r.vv[o.device]
      BY <2>2 DEF Marked
    <3> QED BY <1>1, <2>1, <3>1 DEF Taken
  <2>3. CASE o = op
    BY <1>1, <2>3 DEF Taken
  <2> QED BY <2>2, <2>3 DEF Taken
<1> QED BY <1>2, <1>3 DEF Marked

-----------------------------------------------------------------------------
(***************************************************************************)
(* What the daemon once had it goes on having had.                         *)
(***************************************************************************)
Remembers == replica.log \cup forgotten \subseteq replica'.log \cup forgotten'

HadNext(d, s) == \E o \in replica'.log \cup forgotten' : o.device = d /\ o.seq = s

RootedNext(o, ops) ==
  \A s \in 1 .. o.seq :
    HadNext(o.device, s) \/ \E p \in ops : p.device = o.device /\ p.seq = s

\* What the daemon once had stays had.
LEMMA HadStays ==
  ASSUME Remembers
  PROVE  \A d, s : HadOnce(d, s) => HadNext(d, s)
BY DEF Remembers, HadOnce, HadNext

\* A batch stays rooted when ops are taken from it that the daemon has had.
LEMMA BatchStays ==
  ASSUME Remembers, NEW ops, RootedBatch(ops), NEW rest \in SUBSET ops,
         \A o \in ops \ rest : HadNext(o.device, o.seq)
  PROVE  \A o \in rest : RootedNext(o, rest)
<1> SUFFICES ASSUME NEW o \in rest, NEW s \in 1 .. o.seq
             PROVE  HadNext(o.device, s) \/ \E p \in rest : p.device = o.device /\ p.seq = s
  BY DEF RootedNext
<1>1. HadOnce(o.device, s) \/ \E p \in ops : p.device = o.device /\ p.seq = s
  BY DEF RootedBatch, Rooted
<1>2. CASE HadOnce(o.device, s)
  BY <1>2, HadStays
<1>3. ASSUME NEW p \in ops, p.device = o.device, p.seq = s
      PROVE  HadNext(o.device, s) \/ \E q \in rest : q.device = o.device /\ q.seq = s
  BY <1>3
<1> QED BY <1>1, <1>2, <1>3

\* An op at or below the marks of the daemon is rooted by itself.
LEMMA BelowMarkHad ==
  ASSUME DaemonTypeOK, GapsAccountedFor, NEW d \in Device, NEW k \in Nat, k <= replica.vv[d],
         NEW s \in 1 .. k
  PROVE  HadOnce(d, s)
<1>1. replica.vv[d] \in Nat
  BY DEF DaemonTypeOK, ReplicaState, VersionVector
<1>2. s \in 1 .. replica.vv[d]
  BY <1>1
<1> QED BY <1>2 DEF GapsAccountedFor

\* When the daemon takes an op it has had all the earlier ones of, its marks
\* still claim nothing else.
LEMMA TakingKeepsMarks ==
  ASSUME DaemonTypeOK, DaemonTypeOK', Marked(replica, Me), GapsAccountedFor,
         UNCHANGED forgotten, NEW op \in Op,
         \/ AlreadySeen(replica, op) /\ replica' = replica
         \/ Taken(replica, replica', op),
         \A s \in 1 .. op.seq : s = op.seq \/ HadOnce(op.device, s)
  PROVE  /\ Remembers
         /\ replica.log \subseteq replica'.log
         /\ HadNext(op.device, op.seq)
         /\ Marked(replica', Me)
         /\ \A d \in Device : \A s \in 1 .. replica'.vv[d] : HadNext(d, s)
<1>0. /\ replica \in ReplicaState /\ replica' \in ReplicaState /\ Me \in Device
      /\ op.device \in Device /\ op.seq \in Nat /\ op.seq >= 1
  BY DevicesAssumption DEF DaemonTypeOK, Op
<1>1. replica.log \subseteq replica'.log /\ Remembers
  BY DEF Taken, Remembers
<1>2. CASE AlreadySeen(replica, op) /\ replica' = replica
  <2>1. HadOnce(op.device, op.seq)
    BY <1>0, <1>2, BelowMarkHad DEF AlreadySeen
  <2> QED BY <1>1, <1>2, <2>1, HadStays DEF GapsAccountedFor
<1>3. CASE Taken(replica, replica', op)
  <2>1. HadNext(op.device, op.seq)
    BY <1>3 DEF Taken, HadNext
  <2>2. Marked(replica', Me)
    BY <1>0, <1>3, TakenMarked
  <2>3. ASSUME NEW d \in Device, NEW s \in 1 .. replica'.vv[d] PROVE HadNext(d, s)
    <3>1. CASE d = op.device
      <4>1. replica'.vv[d] = op.seq
        BY <1>0, <1>3, <3>1 DEF Taken, ReplicaState, VersionVector
      <4> QED BY <1>1, <2>1, <2>3, <3>1, <4>1, HadStays
    <3>2. CASE d # op.device
      <4>1. replica'.vv[d] = replica.vv[d]
        BY <1>0, <1>3, <3>2 DEF Taken, ReplicaState, VersionVector
      <4> QED BY <1>1, <2>3, <4>1, HadStays DEF GapsAccountedFor
    <3> QED BY <3>1, <3>2
  <2> QED BY <1>1, <2>1, <2>2, <2>3
<1> QED BY <1>2, <1>3

-----------------------------------------------------------------------------
(***************************************************************************)
(* What a step leaves alone.                                               *)
(***************************************************************************)
\* The peer, a push under way and the file stay rooted in what the daemon had.
LEMMA OutsideStaysRooted ==
  ASSUME DaemonInv, Remembers, UNCHANGED <<peer, mail>>, OpRows' \subseteq OpRows
  PROVE  /\ Marked(peer, Peer)'
         /\ PeerGapsAccountedFor'
         /\ RootedBatch(mail)'
         /\ \A o \in OpRows' : Rooted(o, {})'
<1>1. PeerGapsAccountedFor'
  BY HadStays DEF DaemonInv, PeerGapsAccountedFor, HadOnce, HadNext
<1>2. RootedBatch(mail)'
  <2>1. \A o \in mail : RootedNext(o, mail)
    BY BatchStays DEF DaemonInv
  <2> QED BY <2>1 DEF RootedBatch, Rooted, RootedNext, HadOnce, HadNext
<1>3. \A o \in OpRows' : Rooted(o, {})'
  <2>1. \A o \in OpRows : RootedNext(o, {})
    BY HadStays DEF DaemonInv, Rooted, RootedNext
  <2> QED BY <2>1 DEF Rooted, RootedNext, HadOnce, HadNext
<1> QED BY <1>1, <1>2, <1>3 DEF DaemonInv, Marked

\* The same, for a step that leaves the file alone.
LEMMA OutsideStays ==
  ASSUME DaemonInv, Remembers, UNCHANGED <<peer, mail, ledger>>
  PROVE  /\ Marked(peer, Peer)'
         /\ PeerGapsAccountedFor'
         /\ RootedBatch(mail)'
         /\ \A o \in OpRows' : Rooted(o, {})'
<1>1. OpRows' = OpRows
  BY DEF OpRows, Rows
<1> QED BY <1>1, OutsideStaysRooted

\* So do the batches of the tasks that do nothing.
LEMMA TaskStays ==
  ASSUME DaemonInv, Remembers, replica.log \subseteq replica'.log,
         NEW t \in Task, task'[t] = task[t]
  PROVE  TaskRooted(t)'
<1>1. ASSUME task[t] # Idle, task[t].step \in {"apply", "append"}
      PROVE  \A o \in task[t].todo : RootedNext(o, task[t].todo)
  BY <1>1, BatchStays DEF DaemonInv, TaskRooted
<1>2. task[t] # Idle /\ task[t].step = "append" => task[t].op \in replica'.log
  BY DEF DaemonInv, TaskRooted
<1> QED BY <1>1, <1>2 DEF TaskRooted, RootedBatch, Rooted, RootedNext, HadOnce, HadNext

\* A step that changes no replica keeps what the replicas have.
LEMMA ReplicaStays ==
  ASSUME DaemonInv, UNCHANGED <<replica, forgotten>>
  PROVE  /\ Remembers /\ replica.log \subseteq replica'.log
         /\ Marked(replica, Me)' /\ GapsAccountedFor'
BY DEF DaemonInv, Remembers, Marked, GapsAccountedFor, HadOnce

-----------------------------------------------------------------------------
(***************************************************************************)
(* The inductive invariant.                                                *)
(***************************************************************************)
\* The invariant holds initially.
LEMMA InitInv == DaemonInit => DaemonInv
<1> SUFFICES ASSUME DaemonInit PROVE DaemonInv
  OBVIOUS
<1>1. \A d \in Device : EmptyVv[d] = 0
  BY DEF EmptyVv
<1>2. /\ replica.log = {} /\ replica.vv = EmptyVv /\ peer.log = {} /\ peer.vv = EmptyVv
      /\ Marked(replica, Me) /\ Marked(peer, Peer)
  BY <1>1, DevicesAssumption DEF DaemonInit, NewReplica, Marked
<1>3. OpRows = {} /\ LedgerShape /\ ProcessShape
  BY <1>2 DEF DaemonInit, OpRows, Rows, LedgerShape, ProcessShape
<1>4. GapsAccountedFor /\ PeerGapsAccountedFor
  BY <1>1, <1>2 DEF GapsAccountedFor, PeerGapsAccountedFor
<1>5. /\ RootedBatch(mail) /\ \A o \in OpRows : Rooted(o, {})
      /\ \A t \in Task : TaskRooted(t)
      /\ NothingOnlyInMemory
  BY <1>3 DEF DaemonInit, RootedBatch, TaskRooted, NothingOnlyInMemory
<1> QED BY <1>2, <1>3, <1>4, <1>5 DEF DaemonInv

\* Startup: load, replay, open or create.
LEMMA StartupKeepsInv ==
  ASSUME TypeInv, TypeInv', DaemonInv,
         LoadLedger \/ ReplayOp \/ OpenLedger \/ CreateLedger \/ WriteHeader
  PROVE  DaemonInv'
<1>0. LedgerShape' /\ \A t \in Task : task[t] = Idle
  BY DEF TypeInv, LedgerShape, LoadLedger, ReplayOp, OpenLedger, CreateLedger, WriteHeader
<1>1. \A t \in Task : TaskRooted(t)'
  BY <1>0 DEF TaskRooted, LoadLedger, ReplayOp, OpenLedger, CreateLedger, WriteHeader
<1>2. CASE LoadLedger
  <2>1. replica.log = {} /\ replica' = NewReplica(Me) /\ UNCHANGED forgotten
    BY <1>2 DEF LoadLedger, DaemonInv, ProcessShape
  <2>2. \A d \in Device : replica'.vv[d] = 0
    BY <2>1 DEF NewReplica, EmptyVv
  <2>3. replica'.log = {} /\ Remembers
    BY <2>1 DEF NewReplica, Remembers
  <2>4. Marked(replica, Me)' /\ GapsAccountedFor'
    BY <2>1, <2>2, DevicesAssumption DEF NewReplica, Marked, GapsAccountedFor
  <2>5. Replaying' \subseteq OpRows /\ OpRows' = OpRows
    BY <1>2, LoadedOps DEF LoadLedger, Replaying, OpRows, Rows, TypeInv
  <2>6. ProcessShape' /\ NothingOnlyInMemory'
    BY <1>2, <2>3, <2>5 DEF LoadLedger, ProcessShape, NothingOnlyInMemory
  <2> QED BY <1>0, <1>1, <1>2, <2>3, <2>4, <2>6, OutsideStays DEF LoadLedger, DaemonInv
<1>3. CASE ReplayOp
  <2> DEFINE op == Head(replay)
  <2>1. replay \in Seq(Op) /\ replay # <<>> /\ replay' = Tail(replay)
    BY <1>3 DEF ReplayOp, TypeInv, DaemonTypeOK
  <2>2. /\ op \in Op /\ op = replay[1] /\ Len(replay) >= 1
        /\ Tail(replay) \in Seq(Op)
        /\ Len(Tail(replay)) = Len(replay) - 1
        /\ \A i \in 1 .. Len(Tail(replay)) : Tail(replay)[i] = replay[i + 1]
    BY <2>1, HeadTailProperties, EmptySeq
  <2>3. op \in Replaying /\ Replaying' \subseteq Replaying
    BY <2>1, <2>2 DEF Replaying
  <2>4. PICK wall \in Clock : replica' = Apply(replica, op, wall)
    BY <1>3 DEF ReplayOp
  <2> HIDE DEF op
  <2>5. op \in OpRows /\ Rooted(op, {})
    BY <1>3, <2>3 DEF ReplayOp, DaemonInv, ProcessShape
  <2>6. \/ AlreadySeen(replica, op) /\ replica' = replica
        \/ Taken(replica, replica', op)
    BY <2>2, <2>4, ApplyTakes, ClockAssumption, DevicesAssumption
    DEF TypeInv, DaemonTypeOK, DaemonInv
  <2>7. /\ Remembers /\ Marked(replica', Me)
        /\ \A d \in Device : \A s \in 1 .. replica'.vv[d] : HadNext(d, s)
    BY <1>3, <2>2, <2>5, <2>6, TakingKeepsMarks DEF ReplayOp, TypeInv, DaemonInv, Rooted
  <2>8. replica'.log \subseteq OpRows
    BY <1>3, <2>5, <2>6 DEF ReplayOp, DaemonInv, ProcessShape, Taken
  <2>9. ProcessShape' /\ NothingOnlyInMemory'
    BY <1>3, <2>3, <2>8
    DEF ReplayOp, DaemonInv, ProcessShape, NothingOnlyInMemory, OpRows, Rows
  <2>10. Marked(replica, Me)' /\ GapsAccountedFor'
    BY <2>7 DEF Marked, GapsAccountedFor, HadOnce, HadNext
  <2> QED BY <1>0, <1>1, <1>3, <2>7, <2>9, <2>10, OutsideStays DEF ReplayOp, DaemonInv
<1>4. CASE OpenLedger
  <2>1. UNCHANGED <<replica, forgotten, peer, mail, ledger, replay>>
    BY <1>4 DEF OpenLedger
  <2>2. ProcessShape' /\ NothingOnlyInMemory'
    BY <1>4, <2>1
    DEF OpenLedger, DaemonInv, ProcessShape, NothingOnlyInMemory, OpRows, Rows
  <2> QED BY <1>0, <1>1, <2>1, <2>2, ReplicaStays, OutsideStays DEF DaemonInv
<1>5. CASE CreateLedger \/ WriteHeader
  <2>1. UNCHANGED <<replica, forgotten, peer, mail, replay>> /\ replay = <<>>
    BY <1>5 DEF CreateLedger, WriteHeader, DaemonInv, ProcessShape
  <2>2. replica.log = {}
    BY <1>5 DEF CreateLedger, WriteHeader, DaemonInv, ProcessShape, OpRows, Rows
  <2>3. OpRows' = {}
    <3>1. CASE CreateLedger
      <4>1. ledger' = <<>> /\ Len(ledger') = 0
        BY <3>1, EmptySeq DEF CreateLedger
      <4> QED BY <4>1 DEF OpRows, Rows
    <3>2. CASE WriteHeader
      <4>1. ledger' = <<Header>> /\ Len(ledger') = 1 /\ ledger'[1] = Header
        BY <3>2 DEF WriteHeader
      <4> QED BY <4>1, RowAssumption DEF OpRows, Rows
    <3> QED BY <1>5, <3>1, <3>2
  <2>4. ProcessShape' /\ NothingOnlyInMemory'
    BY <1>5, <2>1, <2>2
    DEF CreateLedger, WriteHeader, DaemonInv, ProcessShape, NothingOnlyInMemory
  <2>5. Marked(peer, Peer)' /\ PeerGapsAccountedFor' /\ RootedBatch(mail)'
    BY <2>1 DEF DaemonInv, Marked, PeerGapsAccountedFor, RootedBatch, Rooted, HadOnce
  <2> QED BY <1>0, <1>1, <2>1, <2>3, <2>4, <2>5, ReplicaStays DEF DaemonInv
<1> QED BY <1>2, <1>3, <1>4, <1>5

\* A kill: what the daemon had is what it once had.
LEMMA KillKeepsInv ==
  ASSUME TypeInv, TypeInv', DaemonInv, Kill
  PROVE  DaemonInv'
<1>1. /\ replica' = NewReplica(Me) /\ forgotten' = forgotten \cup replica.log
      /\ UNCHANGED <<peer, mail>> /\ replay' = <<>> /\ phase' = "down"
      /\ \A t \in Task : task'[t] = Idle
  BY DEF Kill
<1>2. replica'.log = {} /\ Remembers /\ \A d \in Device : replica'.vv[d] = 0
  BY <1>1 DEF NewReplica, EmptyVv, Remembers
<1>3. Marked(replica, Me)' /\ GapsAccountedFor'
  BY <1>1, <1>2, DevicesAssumption DEF NewReplica, Marked, GapsAccountedFor
<1>4. ProcessShape' /\ NothingOnlyInMemory' /\ \A t \in Task : TaskRooted(t)'
  BY <1>1, <1>2 DEF ProcessShape, NothingOnlyInMemory, TaskRooted
<1>5. OpRows' \subseteq OpRows
  <2>1. ledger' = ledger => OpRows' = OpRows
    BY DEF OpRows, Rows
  <2> QED BY <2>1, CutFile DEF TypeInv
<1> QED BY <1>1, <1>2, <1>3, <1>4, <1>5, OutsideStaysRooted DEF DaemonInv, TypeInv

\* A task with an op to append is not idle.
LEMMA AppendTask ==
  ASSUME NEW todo \in SUBSET Op, NEW op \in Op, NEW local \in BOOLEAN
  PROVE  [step |-> "append", todo |-> todo, op |-> op, local |-> local] # Idle
<1>1. [step |-> "append", todo |-> todo, op |-> op, local |-> local] \in TaskState
  BY DEF TaskState
<1> QED BY <1>1, IdleAssumption

\* The op a task is about to append.
Appending(t, o) == task[t] # Idle /\ task[t].step = "append" /\ task[t].op = o
AppendingNext(t, o) == task'[t] # Idle /\ task'[t].step = "append" /\ task'[t].op = o

\* Nothing is in memory only, as long as a task that is done with its op leaves
\* it in the file or reported, and a new op has a task that appends it.
LEMMA InMemoryStays ==
  ASSUME DaemonInv, phase = "up", Readable' => Readable,
         OpRows \cup reported \subseteq OpRows' \cup reported',
         \A t \in Task, o \in replica.log :
           Appending(t, o) => AppendingNext(t, o) \/ o \in OpRows' \cup reported' \/ ~ Readable',
         \A o \in replica'.log \ replica.log : \E t \in Task : AppendingNext(t, o)
  PROVE  NothingOnlyInMemory'
<1>1. \A o \in replica.log :
        Readable => o \in OpRows \cup reported \/ \E t \in Task : Appending(t, o)
  BY DEF DaemonInv, NothingOnlyInMemory, Appending
<1>2. \A o \in replica'.log :
        Readable' => o \in OpRows' \cup reported' \/ \E t \in Task : AppendingNext(t, o)
  BY <1>1
<1> QED BY <1>2 DEF NothingOnlyInMemory, AppendingNext

\* The same, for a step of task t that leaves the file alone.
LEMMA InMemoryStaysSameFile ==
  ASSUME DaemonInv, phase = "up", UNCHANGED <<ledger, reported>>, NEW t \in Task,
         \A u \in Task \ {t} : task'[u] = task[u],
         ~ (task[t] # Idle /\ task[t].step = "append"),
         \A o \in replica'.log \ replica.log : AppendingNext(t, o)
  PROVE  NothingOnlyInMemory'
<1>1. OpRows' = OpRows /\ (Readable' <=> Readable)
  BY DEF OpRows, Rows, Readable
<1>2. \A u \in Task, o \in replica.log : Appending(u, o) => AppendingNext(u, o)
  BY DEF Appending, AppendingNext
<1> QED BY <1>1, <1>2, InMemoryStays

\* A local write.
LEMMA WriteKeepsInv ==
  ASSUME TypeInv, TypeInv', DaemonInv, NEW t \in Task, Write(t)
  PROVE  DaemonInv'
<1>1. PICK e \in Entity, v \in Written, wall \in Clock :
        LET op == NewOp(replica, e, v, wall) IN
        /\ replica' = LocalChange(replica, op)
        /\ task' = [task EXCEPT ![t] =
                      [step |-> "append", todo |-> {}, op |-> op, local |-> TRUE]]
  BY DEF Write
<1> DEFINE op == NewOp(replica, e, v, wall)
<1>2. /\ op \in Op /\ op.device = Me /\ op.seq = replica.vv[Me] + 1
      /\ Taken(replica, LocalChange(replica, op), op)
  BY NewOpType, LocalChangeTakes, ClockAssumption, DevicesAssumption
  DEF TypeInv, DaemonTypeOK, DaemonInv
<1> HIDE DEF op
<1>3. /\ Taken(replica, replica', op)
      /\ task' = [task EXCEPT ![t] =
                    [step |-> "append", todo |-> {}, op |-> op, local |-> TRUE]]
  BY <1>1, <1>2 DEF op
<1>4. UNCHANGED <<ledger, phase, replay, peer, mail, reported, forgotten>>
     /\ phase = "up" /\ task[t] = Idle
  BY DEF Write
<1>5. \A s \in 1 .. op.seq : s = op.seq \/ HadOnce(op.device, s)
  <2>1. replica.vv[Me] \in Nat
    BY DevicesAssumption DEF TypeInv, DaemonTypeOK, ReplicaState, VersionVector
  <2> QED BY <1>2, <2>1, DevicesAssumption DEF DaemonInv, GapsAccountedFor
<1>6. /\ Remembers /\ replica.log \subseteq replica'.log /\ Marked(replica', Me)
      /\ \A d \in Device : \A s \in 1 .. replica'.vv[d] : HadNext(d, s)
  BY <1>2, <1>3, <1>4, <1>5, TakingKeepsMarks DEF TypeInv, DaemonInv
<1>7. Marked(replica, Me)' /\ GapsAccountedFor'
  BY <1>6 DEF Marked, GapsAccountedFor, HadOnce, HadNext
<1>8. /\ task'[t] = [step |-> "append", todo |-> {}, op |-> op, local |-> TRUE]
      /\ \A u \in Task \ {t} : task'[u] = task[u]
  BY <1>3 DEF TypeInv, DaemonTypeOK
<1>9. task'[t] # Idle /\ op \in replica'.log
  <2>1. [step |-> "append", todo |-> {}, op |-> op, local |-> TRUE] # Idle
    BY <1>2, AppendTask
  <2> QED BY <1>3, <1>8, <2>1 DEF Taken
<1>10. TaskRooted(t)'
  BY <1>8, <1>9 DEF TaskRooted, RootedBatch
<1>11. \A u \in Task : TaskRooted(u)'
  BY <1>6, <1>8, <1>10, TaskStays
<1>12. NothingOnlyInMemory'
  <2>1. \A o \in replica'.log \ replica.log : AppendingNext(t, o)
    BY <1>3, <1>8, <1>9 DEF Taken, AppendingNext
  <2> QED BY <1>4, <1>8, <2>1, InMemoryStaysSameFile
<1>13. ProcessShape'
  BY <1>4 DEF DaemonInv, ProcessShape
<1> QED BY <1>4, <1>6, <1>7, <1>11, <1>12, <1>13, OutsideStays DEF DaemonInv, TypeInv

\* A task applies the next op of its batch.
LEMMA ApplyKeepsInv ==
  ASSUME TypeInv, TypeInv', DaemonInv, NEW t \in Task, ApplyNext(t)
  PROVE  DaemonInv'
<1>1. PICK o \in task[t].todo, wall \in Clock :
        /\ IsNext(o, task[t].todo)
        /\ replica' = Apply(replica, o, wall)
        /\ task' = [task EXCEPT ![t] =
                      IF AlreadySeen(replica, o) THEN Continue(task[t].todo \ {o})
                      ELSE [step |-> "append", todo |-> task[t].todo \ {o},
                            op |-> o, local |-> FALSE]]
  BY DEF ApplyNext
<1> DEFINE batch == task[t].todo
           rest == batch \ {o}
<1>2. /\ task[t] # Idle /\ task[t].step = "apply" /\ phase = "up"
      /\ UNCHANGED <<ledger, phase, replay, peer, mail, reported, forgotten>>
  BY DEF ApplyNext, TypeInv, LedgerShape
<1>3. batch \in SUBSET Op /\ o \in Op /\ RootedBatch(batch)
  BY <1>2 DEF TypeInv, DaemonTypeOK, TaskState, DaemonInv, TaskRooted
<1>4. (AlreadySeen(replica, o) /\ replica' = replica) \/ Taken(replica, replica', o)
  BY <1>1, <1>3, ApplyTakes, ClockAssumption, DevicesAssumption DEF TypeInv, DaemonTypeOK, DaemonInv
<1>5. ASSUME NEW s \in 1 .. o.seq PROVE s = o.seq \/ HadOnce(o.device, s)
  <2>1. CASE HadOnce(o.device, s)
    BY <2>1
  <2>2. ASSUME NEW p \in batch, p.device = o.device, p.seq = s PROVE s = o.seq
    <3>1. o.device \in Nat /\ o.seq \in Nat /\ p.seq \in Nat
      BY <1>3, DeviceAssumption DEF Op
    <3>2. ~ (o.device < p.device)
      BY <2>2, <3>1
    <3>3. o.seq <= p.seq
      BY <1>1, <3>2 DEF IsNext
    <3> QED BY <1>5, <2>2, <3>1, <3>3
  <2> QED BY <1>3, <2>1, <2>2 DEF RootedBatch, Rooted
<1>6. /\ Remembers /\ replica.log \subseteq replica'.log /\ Marked(replica', Me)
      /\ HadNext(o.device, o.seq)
      /\ \A d \in Device : \A s \in 1 .. replica'.vv[d] : HadNext(d, s)
  BY <1>2, <1>3, <1>4, <1>5, TakingKeepsMarks DEF TypeInv, DaemonInv
<1>7. Marked(replica, Me)' /\ GapsAccountedFor'
  BY <1>6 DEF Marked, GapsAccountedFor, HadOnce, HadNext
<1>8. /\ task'[t] = IF AlreadySeen(replica, o) THEN Continue(rest)
                    ELSE [step |-> "append", todo |-> rest, op |-> o, local |-> FALSE]
      /\ \A u \in Task \ {t} : task'[u] = task[u]
  BY <1>1 DEF TypeInv, DaemonTypeOK
<1>9. /\ task'[t] # Idle => task'[t].todo = rest /\ task'[t].step \in {"apply", "append"}
      /\ task'[t] # Idle /\ task'[t].step = "append" => task'[t].op = o /\ ~ AlreadySeen(replica, o)
      /\ ~ AlreadySeen(replica, o) => AppendingNext(t, o)
  <2>1. [step |-> "append", todo |-> rest, op |-> o, local |-> FALSE] # Idle
    BY <1>3, AppendTask
  <2> QED BY <1>8, <2>1 DEF Continue, AppendingNext
<1>10. TaskRooted(t)'
  <2>1. \A p \in rest : RootedNext(p, rest)
    BY <1>3, <1>6, BatchStays
  <2>2. ~ AlreadySeen(replica, o) => o \in replica'.log
    BY <1>4 DEF Taken
  <2> HIDE DEF rest
  <2> QED BY <1>9, <2>1, <2>2 DEF TaskRooted, RootedBatch, Rooted, RootedNext, HadOnce, HadNext
<1>11. \A u \in Task : TaskRooted(u)'
  BY <1>6, <1>8, <1>10, TaskStays
<1>12. NothingOnlyInMemory'
  <2>1. \A p \in replica'.log \ replica.log : AppendingNext(t, p)
    <3>1. CASE AlreadySeen(replica, o)
      <4>1. replica' = replica
        BY <1>1, <3>1 DEF Apply
      <4> QED BY <4>1
    <3>2. CASE ~ AlreadySeen(replica, o)
      BY <1>4, <1>9, <3>2 DEF Taken
    <3> QED BY <3>1, <3>2
  <2> QED BY <1>2, <1>8, <2>1, InMemoryStaysSameFile
<1>13. ProcessShape'
  BY <1>2 DEF DaemonInv, ProcessShape
<1> QED BY <1>2, <1>6, <1>7, <1>11, <1>12, <1>13, OutsideStays DEF DaemonInv, TypeInv

\* A task appends, or fails to.
LEMMA AppendKeepsInv ==
  ASSUME TypeInv, TypeInv', DaemonInv, NEW t \in Task, AppendRow(t)
  PROVE  DaemonInv'
<1> DEFINE op == task[t].op
<1>1. /\ task[t] # Idle /\ task[t].step = "append" /\ phase = "up" /\ ledger # NoFile
      /\ UNCHANGED <<replica, phase, replay, peer, mail, forgotten>>
  BY DEF AppendRow, TypeInv, LedgerShape
<1>2. op \in Op /\ op \in replica.log /\ RootedBatch(task[t].todo)
  BY <1>1 DEF TypeInv, DaemonTypeOK, TaskState, DaemonInv, TaskRooted
<1>3. /\ Remembers /\ replica.log \subseteq replica'.log
      /\ Marked(replica, Me)' /\ GapsAccountedFor'
  BY <1>1, ReplicaStays
<1>4. \/ ledger' = Appended(op) /\ UNCHANGED reported
      \/ ledger' = ledger /\ reported' = reported \cup {op}
      \/ ledger' = Appended(Torn) /\ reported' = reported \cup {op}
  BY DEF AppendRow, Report
<1>5. /\ ledger \in Seq(Row) /\ ledger' \in Seq(Row) /\ ledger' # NoFile
      /\ OpRows = {ledger[i] : i \in 1 .. Len(ledger)} \cap Op
      /\ OpRows' = {ledger'[i] : i \in 1 .. Len(ledger')} \cap Op
  <2>1. ledger' # NoFile
    BY <1>1 DEF TypeInv, LedgerShape
  <2> QED BY <1>1, <2>1, LedgerIsRows DEF TypeInv, DaemonTypeOK, OpRows, Rows
<1>6. Torn \notin Op /\ Malformed \notin Op /\ Len(ledger) \in Nat /\ Len(ledger') \in Nat
  BY <1>5, RowAssumption
<1>7. /\ OpRows \subseteq OpRows' /\ OpRows' \subseteq OpRows \cup {op}
      /\ Readable' => Readable
      /\ Readable' => op \in OpRows' \cup reported'
  <2>1. CASE ledger' = ledger /\ reported' = reported \cup {op}
    BY <2>1 DEF OpRows, Rows, Readable
  <2>2. ASSUME NEW row \in {op, Torn}, ledger' = Appended(row),
               row = Torn => reported' = reported \cup {op}
        PROVE  /\ OpRows \subseteq OpRows' /\ OpRows' \subseteq OpRows \cup {op}
               /\ Readable' => Readable
               /\ Readable' => op \in OpRows' \cup reported'
    <3>1. /\ Len(ledger') >= Len(ledger)
          /\ \A i \in 1 .. Len(ledger) : ledger[i] \in Op => ledger'[i] = ledger[i]
          /\ \A i \in 1 .. Len(ledger') : ledger'[i] \in Op => ledger'[i] \in OpRows \cup {row}
          /\ \A i \in 1 .. Len(ledger) :
               ledger[i] \in {Torn, Malformed} => ledger'[i] \in {Torn, Malformed}
          /\ \/ \E i \in 1 .. Len(ledger') : ledger'[i] = row
             \/ \E i \in 1 .. Len(ledger') : ledger'[i] = Malformed
      BY <1>1, <1>2, <2>2, AppendedRows DEF TypeInv
    <3>2. \A i \in 1 .. Len(ledger) : i \in 1 .. Len(ledger')
      BY <1>6, <3>1
    <3>3. OpRows \subseteq OpRows' /\ OpRows' \subseteq OpRows \cup {op}
      BY <1>5, <1>6, <2>2, <3>1, <3>2
    <3>4. Readable' => Readable
      BY <1>1, <1>5, <3>1, <3>2 DEF Readable, Rows
    <3>5. Readable' => op \in OpRows' \cup reported'
      <4>1. CASE row = Torn
        BY <2>2, <4>1
      <4>2. CASE \E i \in 1 .. Len(ledger') : ledger'[i] = Malformed
        BY <1>5, <4>2 DEF Readable, Rows
      <4>3. CASE row = op /\ \E i \in 1 .. Len(ledger') : ledger'[i] = row
        BY <1>2, <1>5, <4>3
      <4> QED BY <2>2, <3>1, <4>1, <4>2, <4>3
    <3> QED BY <3>3, <3>4, <3>5
  <2>3. CASE ledger' = Appended(op) /\ UNCHANGED reported
    <3>1. op # Torn
      BY <1>2, <1>6
    <3> QED BY <2>2, <2>3, <3>1
  <2>4. CASE ledger' = Appended(Torn) /\ reported' = reported \cup {op}
    BY <2>2, <2>4
  <2> QED BY <1>4, <2>1, <2>3, <2>4
<1>8. \A o \in OpRows' : Rooted(o, {})'
  <2>1. Rooted(op, {})
    <3>1. op.seq <= replica.vv[op.device] /\ op.seq \in Nat /\ op.device \in Device
      BY <1>2 DEF DaemonInv, Marked, Op
    <3> QED BY <3>1, BelowMarkHad DEF Rooted, DaemonInv, TypeInv
  <2>2. \A o \in OpRows' : Rooted(o, {})
    BY <1>7, <2>1 DEF DaemonInv
  <2> QED BY <1>1, <2>2 DEF Rooted, HadOnce
<1>9. Marked(peer, Peer)' /\ PeerGapsAccountedFor' /\ RootedBatch(mail)'
  BY <1>1 DEF DaemonInv, Marked, PeerGapsAccountedFor, RootedBatch, Rooted, HadOnce
<1>10. /\ task'[t] # Idle => \/ task'[t].step = "reply"
                             \/ task'[t].step = "apply" /\ task'[t].todo = task[t].todo
       /\ \A u \in Task \ {t} : task'[u] = task[u]
  BY DEF AppendRow, AfterAppend, Continue, TypeInv, DaemonTypeOK
<1>11. TaskRooted(t)'
  BY <1>1, <1>2, <1>10 DEF TaskRooted, RootedBatch, Rooted, HadOnce
<1>12. \A u \in Task : TaskRooted(u)'
  BY <1>3, <1>10, <1>11, TaskStays
<1>13. NothingOnlyInMemory'
  <2>1. \A u \in Task, o \in replica.log :
          Appending(u, o) => AppendingNext(u, o) \/ o \in OpRows' \cup reported' \/ ~ Readable'
    BY <1>7, <1>10 DEF Appending, AppendingNext
  <2>2. OpRows \cup reported \subseteq OpRows' \cup reported' /\ replica' = replica
    BY <1>1, <1>4, <1>7
  <2> QED BY <1>1, <1>7, <2>1, <2>2, InMemoryStays
<1>14. ProcessShape'
  BY <1>1 DEF DaemonInv, ProcessShape
<1> QED BY <1>3, <1>8, <1>9, <1>12, <1>13, <1>14 DEF DaemonInv, TypeInv

\* A batch arrives, or a write is answered.
LEMMA RequestKeepsInv ==
  ASSUME TypeInv, TypeInv', DaemonInv, NEW t \in Task, AcceptBatch(t) \/ Reply(t)
  PROVE  DaemonInv'
<1>1. /\ UNCHANGED <<replica, forgotten, ledger, phase, replay, peer, reported>>
      /\ phase = "up" /\ ~ (task[t] # Idle /\ task[t].step = "append")
      /\ \A u \in Task \ {t} : task'[u] = task[u]
  BY DEF AcceptBatch, Reply, TypeInv, DaemonTypeOK, LedgerShape
<1>2. /\ Remembers /\ replica.log \subseteq replica'.log
      /\ Marked(replica, Me)' /\ GapsAccountedFor'
  BY <1>1, ReplicaStays
<1>3. RootedBatch(mail) /\ mail' \in {{}, mail}
  BY DEF AcceptBatch, Reply, DaemonInv
<1>4. RootedBatch(mail)'
  BY <1>1, <1>3 DEF RootedBatch, Rooted, HadOnce
<1>5. TaskRooted(t)'
  <2>1. task'[t] # Idle => task'[t].step = "apply" /\ task'[t].todo = mail
    BY DEF AcceptBatch, Reply, TypeInv, DaemonTypeOK
  <2> QED BY <1>1, <1>3, <2>1 DEF TaskRooted, RootedBatch, Rooted, HadOnce
<1>6. \A u \in Task : TaskRooted(u)'
  BY <1>1, <1>2, <1>5, TaskStays
<1>7. NothingOnlyInMemory'
  BY <1>1, InMemoryStaysSameFile
<1>8. ProcessShape' /\ Marked(peer, Peer)' /\ PeerGapsAccountedFor'
  BY <1>1 DEF DaemonInv, ProcessShape, Marked, PeerGapsAccountedFor, HadOnce
<1>9. \A o \in OpRows' : Rooted(o, {})'
  BY <1>1 DEF DaemonInv, OpRows, Rows, Rooted, HadOnce
<1> QED BY <1>2, <1>4, <1>6, <1>7, <1>8, <1>9 DEF DaemonInv, TypeInv

\* The peer writes, takes an op, or sends what the daemon lacks.
LEMMA PeerKeepsInv ==
  ASSUME TypeInv, TypeInv', DaemonInv, PeerWrites \/ PeerPulls \/ PeerSends
  PROVE  DaemonInv'
<1>1. UNCHANGED <<replica, forgotten, ledger, phase, replay, task, reported>>
  BY DEF PeerWrites, PeerPulls, PeerSends
<1>2. /\ Remembers /\ replica.log \subseteq replica'.log
      /\ Marked(replica, Me)' /\ GapsAccountedFor'
  BY <1>1, ReplicaStays
<1>3. \A u \in Task : TaskRooted(u)'
  BY <1>1, <1>2, TaskStays
<1>4. ProcessShape' /\ NothingOnlyInMemory' /\ \A o \in OpRows' : Rooted(o, {})'
  BY <1>1 DEF DaemonInv, ProcessShape, NothingOnlyInMemory, OpRows, Rows, Readable,
                  Replaying, Rooted, HadOnce
<1>5. /\ peer \in ReplicaState /\ peer' \in ReplicaState /\ Peer \in Device
      /\ replica \in ReplicaState
  BY DevicesAssumption DEF TypeInv, DaemonTypeOK
<1>6. ASSUME NEW op \in Op, Taken(peer, peer', op), UNCHANGED mail,
             \A s \in 1 .. op.seq :
               s = op.seq \/ s \in 1 .. peer.vv[op.device] \/ HadOnce(op.device, s)
      PROVE  Marked(peer, Peer)' /\ PeerGapsAccountedFor' /\ RootedBatch(mail)'
  <2>1. Marked(peer', Peer)
    BY <1>5, <1>6, TakenMarked DEF DaemonInv
  <2>2. ASSUME NEW d \in Device, NEW s \in 1 .. peer'.vv[d]
        PROVE  HadOnce(d, s) \/ \E o \in peer'.log : o.device = d /\ o.seq = s
    <3>1. s \in 1 .. peer.vv[d] => HadOnce(d, s) \/ \E o \in peer.log : o.device = d /\ o.seq = s
      BY DEF DaemonInv, PeerGapsAccountedFor
    <3>2. op \in peer'.log /\ peer.log \subseteq peer'.log
      BY <1>6 DEF Taken
    <3>3. CASE d = op.device
      <4>1. peer'.vv[d] = op.seq
        BY <1>5, <1>6, <3>3 DEF Taken, ReplicaState, VersionVector
      <4> QED BY <1>6, <2>2, <3>1, <3>2, <3>3, <4>1
    <3>4. CASE d # op.device
      <4>1. peer'.vv[d] = peer.vv[d]
        BY <1>5, <1>6, <3>4 DEF Taken, ReplicaState, VersionVector
      <4> QED BY <2>2, <3>1, <3>2, <4>1
    <3> QED BY <3>3, <3>4
  <2>3. PeerGapsAccountedFor'
    BY <1>1, <2>2 DEF PeerGapsAccountedFor, HadOnce
  <2>4. RootedBatch(mail)'
    BY <1>1, <1>6 DEF DaemonInv, RootedBatch, Rooted, HadOnce
  <2> QED BY <2>1, <2>3, <2>4 DEF Marked
<1>7. CASE PeerWrites
  <2>1. PICK e \in Entity, v \in Written, wall \in Clock :
          peer' = LocalChange(peer, NewOp(peer, e, v, wall))
    BY <1>7 DEF PeerWrites
  <2> DEFINE op == NewOp(peer, e, v, wall)
  <2>2. /\ op \in Op /\ op.device = Peer /\ op.seq = peer.vv[Peer] + 1
        /\ Taken(peer, peer', op)
    BY <1>5, <2>1, NewOpType, LocalChangeTakes, ClockAssumption DEF DaemonInv
  <2> HIDE DEF op
  <2>3. peer.vv[Peer] \in Nat
    BY <1>5 DEF ReplicaState, VersionVector
  <2>4. \A s \in 1 .. op.seq : s = op.seq \/ s \in 1 .. peer.vv[op.device]
    BY <2>2, <2>3
  <2>5. UNCHANGED mail
    BY <1>7 DEF PeerWrites
  <2> QED BY <1>1, <1>2, <1>3, <1>4, <1>6, <2>2, <2>4, <2>5 DEF DaemonInv, TypeInv
<1>8. CASE PeerPulls
  <2>1. PICK op \in OpsSince(replica, peer.vv), wall \in Clock : peer' = Apply(peer, op, wall)
    BY <1>8 DEF PeerPulls
  <2>2. /\ op \in replica.log /\ op \in Op /\ op.seq > peer.vv[op.device]
        /\ op.seq <= replica.vv[op.device] /\ op.device \in Device /\ op.seq \in Nat
        /\ peer.vv[op.device] \in Nat
    BY <1>5 DEF OpsSince, ReplicaState, VersionVector, DaemonInv, Marked, Op
  <2>3. Taken(peer, peer', op)
    <3>1. ~ AlreadySeen(peer, op)
      BY <2>2 DEF AlreadySeen
    <3> QED BY <1>5, <2>1, <2>2, <3>1, ApplyTakes, ClockAssumption DEF DaemonInv
  <2>4. \A s \in 1 .. op.seq : HadOnce(op.device, s)
    BY <2>2, BelowMarkHad DEF DaemonInv, TypeInv
  <2>5. UNCHANGED mail
    BY <1>8 DEF PeerPulls
  <2> QED BY <1>1, <1>2, <1>3, <1>4, <1>6, <2>2, <2>3, <2>4, <2>5 DEF DaemonInv, TypeInv
<1>9. CASE PeerSends
  <2>1. mail' = OpsSince(peer, replica.vv) /\ UNCHANGED peer
    BY <1>9 DEF PeerSends
  <2>2. Marked(peer, Peer)' /\ PeerGapsAccountedFor'
    BY <1>1, <2>1 DEF DaemonInv, Marked, PeerGapsAccountedFor, HadOnce
  <2>3. ASSUME NEW o \in mail', NEW s \in 1 .. o.seq
        PROVE  HadOnce(o.device, s) \/ \E p \in mail' : p.device = o.device /\ p.seq = s
    <3>1. /\ o \in peer.log /\ o.device \in Device /\ o.seq \in Nat
          /\ o.seq <= peer.vv[o.device] /\ peer.vv[o.device] \in Nat
          /\ replica.vv[o.device] \in Nat
      BY <1>5, <2>1 DEF OpsSince, ReplicaState, VersionVector, DaemonInv, Marked, Op
    <3>2. CASE s <= replica.vv[o.device]
      <4>1. s \in 1 .. replica.vv[o.device]
        BY <3>1, <3>2
      <4> QED BY <3>1, <4>1 DEF DaemonInv, GapsAccountedFor
    <3>3. CASE s > replica.vv[o.device]
      <4>1. s \in 1 .. peer.vv[o.device]
        BY <3>1
      <4>2. HadOnce(o.device, s) \/ \E p \in peer.log : p.device = o.device /\ p.seq = s
        BY <3>1, <4>1 DEF DaemonInv, PeerGapsAccountedFor
      <4> QED BY <2>1, <3>3, <4>2 DEF OpsSince
    <3> QED BY <3>1, <3>2, <3>3
  <2>4. RootedBatch(mail)'
    BY <1>1, <2>3 DEF RootedBatch, Rooted, HadOnce
  <2> QED BY <1>1, <1>2, <1>3, <1>4, <2>2, <2>4 DEF DaemonInv, TypeInv
<1> QED BY <1>7, <1>8, <1>9

\* Every step keeps the invariant.
LEMMA NextInv == TypeInv /\ TypeInv' /\ DaemonInv /\ [DaemonNext]_vars => DaemonInv'
<1> SUFFICES ASSUME TypeInv, TypeInv', DaemonInv, [DaemonNext]_vars PROVE DaemonInv'
  OBVIOUS
<1>1. CASE UNCHANGED vars
  <2>1. UNCHANGED <<replica, forgotten, ledger, phase, replay, task, reported, peer, mail>>
    BY <1>1 DEF vars
  <2>2. \A u \in Task : TaskRooted(u)'
    BY <2>1, ReplicaStays, TaskStays
  <2>3. ProcessShape' /\ NothingOnlyInMemory'
    BY <2>1 DEF DaemonInv, ProcessShape, NothingOnlyInMemory, OpRows, Rows, Readable, Replaying
  <2> QED BY <2>1, <2>2, <2>3, ReplicaStays, OutsideStays DEF DaemonInv, TypeInv
<1>2. ASSUME NEW t \in Task, TaskStep(t) PROVE DaemonInv'
  BY <1>2, WriteKeepsInv, RequestKeepsInv, ApplyKeepsInv, AppendKeepsInv DEF TaskStep
<1> QED BY <1>1, <1>2, StartupKeepsInv, KillKeepsInv, PeerKeepsInv DEF DaemonNext

\* The inductive invariant holds in every reachable state.
THEOREM DaemonInvariant == DaemonSpec => []DaemonInv
BY InitTyped, NextTyped, InitInv, NextInv, PTL DEF DaemonSpec

\* Whatever is in memory is in the file, on its way there, or was reported.
THEOREM NothingOnlyInMemoryAlways == DaemonSpec => []NothingOnlyInMemory
<1>1. DaemonInv => NothingOnlyInMemory
  BY DEF DaemonInv
<1> QED BY <1>1, DaemonInvariant, PTL

\* A gap under a mark is of ops that a killed process of the daemon had.
THEOREM GapsAccountedForAlways == DaemonSpec => []GapsAccountedFor
<1>1. DaemonInv => GapsAccountedFor
  BY DEF DaemonInv
<1> QED BY <1>1, DaemonInvariant, PTL
=============================================================================
