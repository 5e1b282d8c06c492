----------------------------- MODULE PeerProofs -----------------------------
(***************************************************************************)
(* Proofs about the daemon of Daemon together with its peer, for any number *)
(* of tasks, writes, kills and faults: what each shows, and where their     *)
(* logs may disagree about an op.                                           *)
(*                                                                         *)
(* Both follow from what a step may do to a replica: nothing, forget it, or *)
(* take one op that is above its mark.  An op of the peer is never minted   *)
(* twice, because the peer is never killed; an op of the daemon may be, and *)
(* then the first is among what a kill took.                                *)
(***************************************************************************)
EXTENDS LedgerProofs

\* Taking an op, with what it does to the entries.
Takes(r, s, op) == Taken(r, s, op) /\ s.entries = MergeEntry(r.entries, op)

NamedOnce(ops) == \A o \in ops, p \in ops : SameName(o, p) => o = p

\* What is left of the batch of a task.
Todo(t) ==
  IF task[t] # Idle /\ task[t].step \in {"apply", "append"} THEN task[t].todo ELSE {}

\* A row that is named like an op of the log is that op.
RowsAgree ==
  ledger # NoFile /\ Readable =>
    \A i \in 2 .. Len(ledger) : \A o \in replica.log :
      ledger[i] \in Op /\ SameName(ledger[i], o) => ledger[i] = o

\* Names are unique in either log.  Whatever is not the daemon's own comes from the
\* peer, and what the peer has of the daemon's the daemon has, or had.
NamesInv ==
  /\ NamedOnce(replica.log) /\ NamedOnce(peer.log)
  /\ \A o \in replica.log \cup forgotten \cup OpRows : o.device # Me => o \in peer.log
  /\ mail \subseteq peer.log
  /\ \A t \in Task : Todo(t) \subseteq peer.log
  /\ \A p \in peer.log : p.device = Me => p \in replica.log \cup forgotten
  /\ RowsAgree

-----------------------------------------------------------------------------
(***************************************************************************)
(* What a step does to a replica.                                          *)
(***************************************************************************)
\* apply ignores an op, or takes it.
LEMMA ApplyTakesWhole ==
  ASSUME NEW r \in ReplicaState, NEW d \in Device, Marked(r, d), NEW op \in Op, NEW wall \in Nat
  PROVE  \/ Apply(r, op, wall) = r
         \/ Takes(r, Apply(r, op, wall), op)
<1>1. AlreadySeen(r, op) => Apply(r, op, wall) = r
  BY DEF Apply
<1>2. ~ AlreadySeen(r, op) => Apply(r, op, wall).entries = MergeEntry(r.entries, op)
  BY DEF Apply
<1> QED BY <1>1, <1>2, ApplyTakes DEF Takes

\* local_change takes the op it mints.
LEMMA LocalChangeTakesWhole ==
  ASSUME NEW r \in ReplicaState, NEW d \in Device, Marked(r, d),
         NEW e \in Entity, NEW v \in Written, NEW wall \in Nat
  PROVE  LET op == NewOp(r, e, v, wall)
         IN  op \in Op /\ op.device = d /\ Takes(r, LocalChange(r, op), op)
<1> DEFINE op == NewOp(r, e, v, wall)
<1>1. op \in Op
  BY NewOpType
<1>2. LocalChange(r, op).entries = MergeEntry(r.entries, op)
  BY DEF LocalChange
<1> QED BY <1>1, <1>2, LocalChangeTakes DEF Takes

\* An op that is taken is named like none that was there.
LEMMA TakesNew ==
  ASSUME NEW r \in ReplicaState, NEW s, NEW d \in Device, Marked(r, d), NEW op \in Op,
         Takes(r, s, op)
  PROVE  /\ s.log = r.log \cup {op}
         /\ \A o \in r.log : ~ SameName(o, op) /\ ~ SameName(op, o)
         /\ NamedOnce(r.log) => NamedOnce(s.log)
<1>1. s.log = r.log \cup {op} /\ op.seq > r.vv[op.device]
  BY DEF Takes, Taken
<1>2. op.device \in Device /\ op.seq \in Nat /\ r.vv[op.device] \in Nat
  BY DEF Op, ReplicaState, VersionVector
<1>3. ASSUME NEW o \in r.log PROVE ~ SameName(o, op) /\ ~ SameName(op, o)
  <2>1. o \in Op /\ o.seq \in Nat /\ o.seq <= r.vv[o.device]
    BY DEF ReplicaState, Op, Marked
  <2> QED BY <1>1, <1>2, <2>1 DEF SameName
<1> QED BY <1>1, <1>3 DEF NamedOnce

\* The daemon's replica stays, is forgotten, or takes an op: one that it mints, the
\* next row while it starts, or one of a batch.
LEMMA ReplicaSteps ==
  ASSUME TypeInv, DaemonInv, [DaemonNext]_vars
  PROVE  \/ replica' = replica /\ forgotten' = forgotten
         \/ replica' = NewReplica(Me) /\ forgotten' = forgotten \cup replica.log
         \/ /\ forgotten' = forgotten /\ UNCHANGED <<ledger, peer>>
            /\ \E op \in Op :
                 /\ Takes(replica, replica', op)
                 /\ \/ phase = "up" /\ op.device = Me
                    \/ phase = "replay" /\ replay # <<>> /\ op = Head(replay)
                    \/ phase = "up" /\ \E t \in Task : op \in Todo(t)
<1> DEFINE Goal ==
         \/ replica' = replica /\ forgotten' = forgotten
         \/ replica' = NewReplica(Me) /\ forgotten' = forgotten \cup replica.log
         \/ /\ forgotten' = forgotten /\ UNCHANGED <<ledger, peer>>
            /\ \E op \in Op :
                 /\ Takes(replica, replica', op)
                 /\ \/ phase = "up" /\ op.device = Me
                    \/ phase = "replay" /\ replay # <<>> /\ op = Head(replay)
                    \/ phase = "up" /\ \E t \in Task : op \in Todo(t)
<1>1. replica \in ReplicaState /\ Marked(replica, Me) /\ Me \in Device /\ Clock \subseteq Nat
  BY DevicesAssumption, ClockAssumption DEF TypeInv, DaemonTypeOK, DaemonInv
<1>2. CASE LoadLedger
  <2>1. replica.log = {}
    BY <1>2 DEF LoadLedger, DaemonInv, ProcessShape
  <2> QED BY <1>2, <2>1 DEF LoadLedger
<1>3. CASE Kill
  BY <1>3 DEF Kill
<1>4. CASE ReplayOp
  <2>1. PICK wall \in Clock : replica' = Apply(replica, Head(replay), wall)
    BY <1>4 DEF ReplayOp
  <2>2. phase = "replay" /\ replay # <<>> /\ UNCHANGED <<ledger, peer, forgotten>>
    BY <1>4 DEF ReplayOp
  <2>3. Head(replay) \in Op
    BY <2>2, HeadTailProperties DEF TypeInv, DaemonTypeOK
  <2>4. replica' = replica \/ Takes(replica, replica', Head(replay))
    BY <1>1, <2>1, <2>3, ApplyTakesWhole
  <2> QED BY <2>2, <2>3, <2>4
<1>5. ASSUME NEW t \in Task, Write(t) PROVE Goal
  <2>1. PICK e \in Entity, v \in Written, wall \in Clock :
          replica' = LocalChange(replica, NewOp(replica, e, v, wall))
    BY <1>5 DEF Write
  <2> DEFINE op == NewOp(replica, e, v, wall)
  <2>2. op \in Op /\ op.device = Me /\ Takes(replica, replica', op)
    BY <1>1, <2>1, LocalChangeTakesWhole
  <2>3. phase = "up" /\ UNCHANGED <<ledger, peer, forgotten>>
    BY <1>5 DEF Write
  <2> HIDE DEF op
  <2> QED BY <2>2, <2>3
<1>6. ASSUME NEW t \in Task, ApplyNext(t) PROVE Goal
  <2>1. PICK o \in task[t].todo, wall \in Clock : replica' = Apply(replica, o, wall)
    BY <1>6 DEF ApplyNext
  <2>2. /\ task[t] # Idle /\ task[t].step = "apply" /\ UNCHANGED <<ledger, peer, forgotten>>
        /\ phase = "up"
    BY <1>6 DEF ApplyNext, TypeInv, LedgerShape
  <2>3. o \in Op /\ o \in Todo(t)
    BY <2>2 DEF TypeInv, DaemonTypeOK, TaskState, Todo
  <2>4. replica' = replica \/ Takes(replica, replica', o)
    BY <1>1, <2>1, <2>3, ApplyTakesWhole
  <2> QED BY <2>2, <2>3, <2>4
<1>7. ASSUME NEW t \in Task, AcceptBatch(t) \/ AppendRow(t) \/ Reply(t) PROVE Goal
  BY <1>7 DEF AcceptBatch, AppendRow, Reply
<1>8. CASE OpenLedger \/ CreateLedger \/ WriteHeader \/ PeerWrites \/ PeerPulls \/ PeerSends
           \/ UNCHANGED vars
  BY <1>8 DEF OpenLedger, CreateLedger, WriteHeader, PeerWrites, PeerPulls, PeerSends, vars
<1> QED BY <1>2, <1>3, <1>4, <1>5, <1>6, <1>7, <1>8 DEF DaemonNext, TaskStep

\* The peer's replica stays, or takes an op: one that it mints, or one of the daemon.
LEMMA PeerSteps ==
  ASSUME TypeInv, DaemonInv, [DaemonNext]_vars
  PROVE  \/ peer' = peer
         \/ /\ UNCHANGED <<replica, forgotten, ledger>>
            /\ \E op \in Op : /\ Takes(peer, peer', op)
                              /\ op.device = Peer \/ op \in replica.log
<1> DEFINE Goal ==
         \/ peer' = peer
         \/ /\ UNCHANGED <<replica, forgotten, ledger>>
            /\ \E op \in Op : /\ Takes(peer, peer', op)
                              /\ op.device = Peer \/ op \in replica.log
<1>1. peer \in ReplicaState /\ Marked(peer, Peer) /\ Peer \in Device /\ Clock \subseteq Nat
  BY DevicesAssumption, ClockAssumption DEF TypeInv, DaemonTypeOK, DaemonInv
<1>2. CASE PeerWrites
  <2>1. PICK e \in Entity, v \in Written, wall \in Clock :
          peer' = LocalChange(peer, NewOp(peer, e, v, wall))
    BY <1>2 DEF PeerWrites
  <2> DEFINE op == NewOp(peer, e, v, wall)
  <2>2. op \in Op /\ op.device = Peer /\ Takes(peer, peer', op)
    BY <1>1, <2>1, LocalChangeTakesWhole
  <2>3. UNCHANGED <<replica, forgotten, ledger>>
    BY <1>2 DEF PeerWrites
  <2> HIDE DEF op
  <2> QED BY <2>2, <2>3
<1>3. CASE PeerPulls
  <2>1. PICK o \in OpsSince(replica, peer.vv), wall \in Clock : peer' = Apply(peer, o, wall)
    BY <1>3 DEF PeerPulls
  <2>2. o \in replica.log /\ o \in Op /\ UNCHANGED <<replica, forgotten, ledger>>
    BY <1>3, OpTypes DEF PeerPulls, OpsSince
  <2>3. peer' = peer \/ Takes(peer, peer', o)
    BY <1>1, <2>1, <2>2, ApplyTakesWhole
  <2> QED BY <2>2, <2>3
<1>4. ASSUME NEW t \in Task, TaskStep(t) PROVE Goal
  BY <1>4 DEF TaskStep, Write, AcceptBatch, ApplyNext, AppendRow, Reply
<1>5. CASE LoadLedger \/ ReplayOp \/ OpenLedger \/ CreateLedger \/ WriteHeader \/ Kill
           \/ PeerSends \/ UNCHANGED vars
  BY <1>5
  DEF LoadLedger, ReplayOp, OpenLedger, CreateLedger, WriteHeader, Kill, PeerSends, vars
<1> QED BY <1>2, <1>3, <1>4, <1>5 DEF DaemonNext

\* A batch under way, on its way or being applied, was part of what was sent.
LEMMA BatchSteps ==
  ASSUME TypeInv, [DaemonNext]_vars
  PROVE  /\ mail' \subseteq mail \cup peer.log
         /\ \A t \in Task : Todo(t)' \subseteq mail \cup Todo(t)
<1> DEFINE Goal == /\ mail' \subseteq mail \cup peer.log
                   /\ \A t \in Task : Todo(t)' \subseteq mail \cup Todo(t)
<1>1. /\ task \in [Task -> TaskState \cup {Idle}]
      /\ \A t \in Task : task[t] \in TaskState \cup {Idle}
  BY DEF TypeInv, DaemonTypeOK
<1>2. ASSUME task' = task, mail' \subseteq mail \cup peer.log PROVE Goal
  BY <1>2 DEF Todo
<1>3. CASE LoadLedger \/ ReplayOp \/ OpenLedger \/ CreateLedger \/ WriteHeader
           \/ PeerWrites \/ PeerPulls \/ PeerSends \/ UNCHANGED vars
  BY <1>2, <1>3
  DEF LoadLedger, ReplayOp, OpenLedger, CreateLedger, WriteHeader, PeerWrites, PeerPulls,
      PeerSends, OpsSince, vars
<1>4. CASE Kill
  BY <1>4 DEF Kill, Todo
<1>5. ASSUME NEW t \in Task, NEW next, task' = [task EXCEPT ![t] = next],
             mail' \subseteq mail,
             next = Idle \/ next.step \notin {"apply", "append"}
             \/ next.todo \subseteq mail \cup Todo(t)
      PROVE  Goal
  BY <1>1, <1>5 DEF Todo
<1>6. ASSUME NEW t \in Task, Write(t) PROVE Goal
  <2>1. PICK op : task' = [task EXCEPT ![t] =
                     [step |-> "append", todo |-> {}, op |-> op, local |-> TRUE]]
    BY <1>6 DEF Write
  <2>2. mail' = mail
    BY <1>6 DEF Write
  <2> QED BY <1>5, <2>1, <2>2
<1>7. ASSUME NEW t \in Task, AcceptBatch(t) PROVE Goal
  BY <1>5, <1>7 DEF AcceptBatch
<1>8. ASSUME NEW t \in Task, NEW rest, rest \subseteq Todo(t)
      PROVE  Continue(rest) = Idle \/ Continue(rest).todo \subseteq Todo(t)
  BY <1>8 DEF Continue
<1>9. ASSUME NEW t \in Task, ApplyNext(t) PROVE Goal
  <2>1. PICK o \in task[t].todo :
          task' = [task EXCEPT ![t] =
                     IF AlreadySeen(replica, o) THEN Continue(task[t].todo \ {o})
                     ELSE [step |-> "append", todo |-> task[t].todo \ {o},
                           op |-> o, local |-> FALSE]]
    BY <1>9 DEF ApplyNext
  <2>2. mail' = mail /\ Todo(t) = task[t].todo
    BY <1>9 DEF ApplyNext, Todo
  <2>3. CASE AlreadySeen(replica, o)
    BY <1>5, <1>8, <2>1, <2>2, <2>3
  <2>4. CASE ~ AlreadySeen(replica, o)
    BY <1>5, <2>1, <2>2, <2>4
  <2> QED BY <2>3, <2>4
<1>10. ASSUME NEW t \in Task, AppendRow(t) PROVE Goal
  <2>1. /\ task' = [task EXCEPT ![t] =
                      IF task[t].local THEN [step |-> "reply", op |-> task[t].op]
                                       ELSE Continue(task[t].todo)]
        /\ mail' = mail /\ Todo(t) = task[t].todo
    BY <1>10 DEF AppendRow, AfterAppend, Todo
  <2>2. CASE task[t].local
    BY <1>5, <2>1, <2>2
  <2>3. CASE ~ task[t].local
    BY <1>5, <1>8, <2>1, <2>3
  <2> QED BY <2>2, <2>3
<1>11. ASSUME NEW t \in Task, Reply(t) PROVE Goal
  BY <1>5, <1>11 DEF Reply
<1> QED BY <1>3, <1>4, <1>6, <1>7, <1>9, <1>10, <1>11 DEF DaemonNext, TaskStep

\* A row that is new in the file is one that a task appends, of an op that is in the
\* log; a file that is created has no row, one that a kill cuts is not readable.
LEMMA RowSteps ==
  ASSUME TypeInv, TypeInv', DaemonInv, [DaemonNext]_vars
  PROVE  \/ ledger' = ledger
         \/ OpRows' = {} /\ 2 .. Len(ledger') = {}
         \/ /\ OpRows' \subseteq OpRows \cup replica.log
            /\ Readable' => /\ replica' = replica /\ ledger # NoFile /\ Readable
                            /\ \/ ledger' = ledger
                               \/ \E op \in replica.log : ledger' = Append(ledger, op)
<1> DEFINE Goal ==
         \/ ledger' = ledger
         \/ OpRows' = {} /\ 2 .. Len(ledger') = {}
         \/ /\ OpRows' \subseteq OpRows \cup replica.log
            /\ Readable' => /\ replica' = replica /\ ledger # NoFile /\ Readable
                            /\ \/ ledger' = ledger
                               \/ \E op \in replica.log : ledger' = Append(ledger, op)
<1>1. CASE CreateLedger \/ WriteHeader
  <2>1. ledger' = <<>> \/ ledger' = <<Header>>
    BY <1>1 DEF CreateLedger, WriteHeader
  <2>2. Len(ledger') \in {0, 1} /\ \A i \in 1 .. Len(ledger') : ledger'[i] = Header
    <3>1. CASE ledger' = <<>>
      <4>1. Len(ledger') = 0
        BY <3>1, EmptySeq
      <4> QED BY <4>1
    <3>2. CASE ledger' = <<Header>>
      BY <3>2
    <3> QED BY <2>1, <3>1, <3>2
  <2>3. ledger' # NoFile
    BY <1>1 DEF CreateLedger, WriteHeader, TypeInv, LedgerShape
  <2>4. OpRows' = {}
    BY <2>2, <2>3, RowAssumption DEF OpRows, Rows
  <2> QED BY <2>2, <2>4
<1>2. ASSUME NEW t \in Task, AppendRow(t) PROVE Goal
  <2> DEFINE op == task[t].op
  <2>1. /\ replica' = replica /\ ledger # NoFile /\ ledger' # NoFile
        /\ op \in replica.log /\ op \in Op
    BY <1>2, OpTypes DEF AppendRow, TypeInv, LedgerShape, DaemonInv, TaskRooted
  <2>2. Readable' => /\ Readable
                     /\ ledger' = ledger \/ ledger' = Append(ledger, op)
    BY <1>2, AppendedReadable
  <2>3. ledger' = ledger \/ ledger' = Appended(op) \/ ledger' = Appended(Torn)
    BY <1>2 DEF AppendRow
  <2>4. OpRows' \subseteq OpRows \cup {op}
    <3>1. ASSUME NEW row \in {op, Torn}, ledger' = Appended(row)
          PROVE  OpRows' \subseteq OpRows \cup {op}
      <4>1. \A i \in 1 .. Len(ledger') : ledger'[i] \in Op => ledger'[i] \in OpRows \cup {row}
        BY <2>1, <3>1, AppendedRows DEF TypeInv
      <4>2. OpRows' \subseteq {ledger'[i] : i \in 1 .. Len(ledger')} \cap Op
        BY <2>1 DEF OpRows, Rows
      <4> QED BY <3>1, <4>1, <4>2, RowAssumption
    <3>2. CASE ledger' = ledger
      BY <3>2 DEF OpRows, Rows
    <3> QED BY <2>3, <3>1, <3>2
  <2> HIDE DEF op
  <2> QED BY <2>1, <2>2, <2>4
<1>3. ASSUME NEW t \in Task, Write(t) \/ AcceptBatch(t) \/ ApplyNext(t) \/ Reply(t) PROVE Goal
  BY <1>3 DEF Write, AcceptBatch, ApplyNext, Reply
<1>4. CASE LoadLedger \/ ReplayOp \/ OpenLedger \/ PeerWrites \/ PeerPulls \/ PeerSends
           \/ UNCHANGED vars
  BY <1>4
  DEF LoadLedger, ReplayOp, OpenLedger, PeerWrites, PeerPulls, PeerSends, vars
<1>5. CASE Kill
  BY <1>5, CutFile DEF TypeInv
<1> QED BY <1>1, <1>2, <1>3, <1>4, <1>5 DEF DaemonNext, TaskStep

-----------------------------------------------------------------------------
(***************************************************************************)
(* What is shown.                                                          *)
(***************************************************************************)
\* Every step keeps the entries of both replicas the last writers.
LEMMA NextShows ==
  ASSUME TypeInv, TypeInv', DaemonInv, ShowsLastWriters, [DaemonNext]_vars
  PROVE  ShowsLastWriters'
<1>1. /\ replica \in ReplicaState /\ replica' \in ReplicaState
      /\ peer \in ReplicaState /\ peer' \in ReplicaState
  BY DEF TypeInv, DaemonTypeOK
<1>2. EntriesWin(NewReplica(Me))
  BY DEF EntriesWin, NewReplica
<1>3. EntriesWin(replica')
  <2>1. ASSUME NEW op \in Op, Takes(replica, replica', op) PROVE EntriesWin(replica')
    BY <1>1, <2>1, MergeKeepsWinners DEF Takes, Taken, ShowsLastWriters
  <2>2. EntriesWin(replica)
    BY DEF ShowsLastWriters
  <2>3. CASE replica' = replica
    BY <2>2, <2>3
  <2>4. CASE replica' = NewReplica(Me)
    BY <1>2, <2>4
  <2> QED BY <2>1, <2>3, <2>4, ReplicaSteps
<1>4. EntriesWin(peer')
  <2>1. ASSUME NEW op \in Op, Takes(peer, peer', op) PROVE EntriesWin(peer')
    BY <1>1, <2>1, MergeKeepsWinners DEF Takes, Taken, ShowsLastWriters
  <2>2. EntriesWin(peer)
    BY DEF ShowsLastWriters
  <2>3. CASE peer' = peer
    BY <2>2, <2>3
  <2> QED BY <2>1, <2>3, PeerSteps
<1>5. ShowsLastWriters' <=> EntriesWin(replica') /\ EntriesWin(peer')
  BY DEF ShowsLastWriters, EntriesWin
<1> QED BY <1>3, <1>4, <1>5

-----------------------------------------------------------------------------
(***************************************************************************)
(* Names.                                                                  *)
(***************************************************************************)
\* Nobody has seen anything.
LEMMA InitNames == DaemonInit => NamesInv
BY DEF DaemonInit, NamesInv, NewReplica, NamedOnce, Todo, RowsAgree, OpRows, Rows

\* The op that a replica takes while the ledger is readable is named like no other
\* row than, at most, its own.
LEMMA TakenRowAgrees ==
  ASSUME TypeInv, DaemonInv, LedgerInv, ledger # NoFile, Readable,
         NEW op \in Op, Takes(replica, replica', op),
         phase = "up" \/ (phase = "replay" /\ replay # <<>> /\ op = Head(replay)),
         NEW i \in 2 .. Len(ledger), ledger[i] \in Op, SameName(ledger[i], op)
  PROVE  ledger[i] = op
<1>1. FileInv
  BY DEF LedgerInv
<1>2. /\ op.seq > replica.vv[op.device] /\ op.device \in Device /\ op.seq \in Nat
      /\ replica.vv[op.device] \in Nat
  BY OpTypes DEF Takes, Taken
<1>3. CASE phase = "up"
  <2>1. replay = <<>> /\ Len(replay) = 0 /\ Len(ledger) \in Nat
    BY <1>3, EmptySeq, FileRows DEF DaemonInv, ProcessShape
  <2>2. i \in 2 .. Replayed
    BY <2>1 DEF Replayed
  <2>3. ledger[i].seq <= replica.vv[ledger[i].device]
    BY <1>1, <1>3, <2>2 DEF FileInv, RowsCounted
  <2> QED BY <1>2, <2>3 DEF SameName
<1>4. CASE phase = "replay" /\ replay # <<>> /\ op = Head(replay)
  <2> DEFINE k == Replayed
  <2>1. /\ replay \in Seq(Op) /\ Len(ledger) \in Nat /\ Len(replay) \in Nat
        /\ Len(replay) >= 1 /\ op = replay[1]
    BY <1>4, FileRows, HeadTailProperties, EmptySeq
  <2>2. k \in Int /\ k >= 1 /\ k + 1 <= Len(ledger) /\ ledger[k + 1] = op
    BY <1>1, <1>4, <2>1 DEF FileInv, RowsLeft, Replayed
  <2> HIDE DEF k
  <2>3. k + 1 \in 2 .. Len(ledger)
    BY <2>1, <2>2
  <2>4. LedgerNamesOnce
    BY <1>1 DEF FileInv
  <2>5. i = k + 1
    BY <2>2, <2>3, <2>4 DEF LedgerNamesOnce, SameName
  <2> QED BY <2>2, <2>5
<1> QED BY <1>3, <1>4

\* Rows and log go on agreeing.
LEMMA NextRowsAgree ==
  ASSUME TypeInv, TypeInv', DaemonInv, LedgerInv, NamesInv, [DaemonNext]_vars
  PROVE  RowsAgree'
<1> SUFFICES ASSUME ledger' # NoFile, Readable',
                    NEW i \in 2 .. Len(ledger'), NEW o \in replica'.log,
                    ledger'[i] \in Op, SameName(ledger'[i], o)
             PROVE  ledger'[i] = o
  BY DEF RowsAgree
<1>1. CASE ledger' = ledger
  <2>1. ledger # NoFile /\ Readable
    BY <1>1 DEF Readable, Rows
  <2>2. CASE o \in replica.log
    BY <1>1, <2>1, <2>2 DEF NamesInv, RowsAgree
  <2>3. CASE o \notin replica.log
    <3>1. PICK op \in Op :
            /\ Takes(replica, replica', op)
            /\ phase = "up" \/ (phase = "replay" /\ replay # <<>> /\ op = Head(replay))
      BY <2>3, ReplicaSteps DEF NewReplica
    <3>2. o = op
      BY <2>3, <3>1 DEF Takes, Taken
    <3> QED BY <1>1, <2>1, <3>1, <3>2, TakenRowAgrees
  <2> QED BY <2>2, <2>3
<1>2. CASE ledger' # ledger
  <2>1. /\ replica' = replica /\ ledger # NoFile /\ Readable
        /\ \E op \in replica.log : ledger' = Append(ledger, op)
    BY <1>2, RowSteps
  <2>2. PICK op \in replica.log : ledger' = Append(ledger, op)
    BY <2>1
  <2>3. op \in Op /\ ledger \in Seq(Row) /\ Len(ledger) \in Nat
    BY <2>1, OpTypes, FileRows
  <2>4. /\ Len(ledger') = Len(ledger) + 1 /\ ledger'[Len(ledger) + 1] = op
        /\ \A j \in 1 .. Len(ledger) : ledger'[j] = ledger[j]
    BY <2>2, <2>3, AppendProperties DEF Row
  <2>5. CASE i = Len(ledger) + 1
    BY <2>1, <2>4, <2>5 DEF NamesInv, NamedOnce
  <2>6. CASE i \in 2 .. Len(ledger)
    <3>1. i \in 1 .. Len(ledger)
      BY <2>3, <2>6
    <3> QED BY <2>1, <2>4, <2>6, <3>1 DEF NamesInv, RowsAgree
  <2> QED BY <2>3, <2>4, <2>5, <2>6
<1> QED BY <1>1, <1>2

\* Every step keeps what is said of names.
LEMMA NextNames ==
  ASSUME TypeInv, TypeInv', DaemonInv, LedgerInv, NamesInv, [DaemonNext]_vars
  PROVE  NamesInv'
<1>1. /\ replica \in ReplicaState /\ Marked(replica, Me) /\ Me \in Device
      /\ peer \in ReplicaState /\ Marked(peer, Peer) /\ Peer \in Device /\ Me # Peer
  BY DevicesAssumption DEF TypeInv, DaemonTypeOK, DaemonInv
<1>2. NamedOnce(replica'.log)
  <2>1. NamedOnce(NewReplica(Me).log)
    BY DEF NewReplica, NamedOnce
  <2>2. ASSUME NEW op \in Op, Takes(replica, replica', op) PROVE NamedOnce(replica'.log)
    BY <1>1, <2>2, TakesNew DEF NamesInv
  <2> QED BY <2>1, <2>2, ReplicaSteps DEF NamesInv
<1>3. NamedOnce(peer'.log)
  <2>1. ASSUME NEW op \in Op, Takes(peer, peer', op) PROVE NamedOnce(peer'.log)
    BY <1>1, <2>1, TakesNew DEF NamesInv
  <2> QED BY <2>1, PeerSteps DEF NamesInv
<1>4. peer.log \subseteq peer'.log
  BY PeerSteps DEF Takes, Taken
<1>5. mail' \subseteq peer'.log /\ \A t \in Task : Todo(t)' \subseteq peer'.log
  BY <1>4, BatchSteps DEF NamesInv
<1>6. Replaying \subseteq OpRows \/ phase # "replay"
  BY DEF DaemonInv, ProcessShape
<1>7. ASSUME NEW o \in replica'.log \cup forgotten' \cup OpRows', o.device # Me
      PROVE  o \in peer'.log
  <2>1. CASE o \in replica.log \cup forgotten \cup OpRows
    BY <1>4, <1>7, <2>1 DEF NamesInv
  <2>2. CASE o \notin replica.log \cup forgotten \cup OpRows
    <3>1. OpRows' \subseteq OpRows \cup replica.log
      <4>1. ledger' = ledger => OpRows' = OpRows
        BY DEF OpRows, Rows
      <4> QED BY <4>1, RowSteps
    <3>2. PICK op \in Op :
            /\ Takes(replica, replica', op) /\ forgotten' = forgotten
            /\ \/ op.device = Me
               \/ phase = "replay" /\ replay # <<>> /\ op = Head(replay)
               \/ \E t \in Task : op \in Todo(t)
      BY <2>2, <3>1, <1>7, ReplicaSteps DEF NewReplica
    <3>3. o = op
      BY <1>7, <2>2, <3>1, <3>2 DEF Takes, Taken
    <3>4. ASSUME phase = "replay", replay # <<>>, op = Head(replay) PROVE op \in OpRows
      <4>1. replay \in Seq(Op)
        BY DEF TypeInv, DaemonTypeOK
      <4>2. Len(replay) \in Nat /\ Len(replay) >= 1 /\ op = replay[1]
        BY <3>4, <4>1, HeadTailProperties, EmptySeq
      <4>3. op \in Replaying
        BY <4>2 DEF Replaying
      <4> QED BY <1>6, <3>4, <4>3
    <3> QED BY <1>4, <1>7, <2>2, <3>2, <3>3, <3>4 DEF NamesInv
  <2> QED BY <2>1, <2>2
<1>8. ASSUME NEW p \in peer'.log, p.device = Me PROVE p \in replica'.log \cup forgotten'
  <2>1. replica.log \cup forgotten \subseteq replica'.log \cup forgotten'
    BY ReplicaSteps DEF Takes, Taken
  <2>2. p \in replica.log \cup forgotten
    <3>1. CASE p \in peer.log
      BY <1>8, <3>1 DEF NamesInv
    <3>2. CASE p \notin peer.log
      BY <1>1, <1>8, <3>2, PeerSteps DEF Takes, Taken
    <3> QED BY <3>1, <3>2
  <2> QED BY <2>1, <2>2
<1>9. RowsAgree'
  BY NextRowsAgree
<1> QED BY <1>2, <1>3, <1>5, <1>7, <1>8, <1>9 DEF NamesInv, NamedOnce

-----------------------------------------------------------------------------
(***************************************************************************)
(* The results.                                                            *)
(***************************************************************************)
\* What either shows is the last writer of each key among the ops it has, whatever
\* was replayed, arrived late, or was minted under a name that was used before.
THEOREM ShowsLastWritersAlways == DaemonSpec => []ShowsLastWriters
<1>1. DaemonInit => ShowsLastWriters
  BY DEF DaemonInit, ShowsLastWriters, EntriesWin, NewReplica
<1>2. TypeInv /\ TypeInv' /\ DaemonInv /\ ShowsLastWriters /\ [DaemonNext]_vars
        => ShowsLastWriters'
  BY NextShows
<1> QED BY <1>1, <1>2, InitTyped, NextTyped, DaemonInvariant, PTL DEF DaemonSpec

\* The inductive invariant of names holds in every reachable state.
THEOREM NamesInvariant == DaemonSpec => []NamesInv
<1>1. TypeInv /\ TypeInv' /\ DaemonInv /\ LedgerInv /\ NamesInv /\ [DaemonNext]_vars => NamesInv'
  BY NextNames
<1> QED
  BY <1>1, InitNames, InitTyped, NextTyped, DaemonInvariant, LedgerInvariant, PTL DEF DaemonSpec

\* Two different ops under one name are the daemon's own, and one of them was in
\* memory when a process was killed and in no row that the next one can read.
THEOREM SeqReuseAccountedForAlways == DaemonSpec => []SeqReuseAccountedFor
<1>1. TypeInv /\ DaemonInv /\ NamesInv => SeqReuseAccountedFor
  <2> SUFFICES ASSUME TypeInv, DaemonInv, NamesInv, NEW o \in replica.log, NEW p \in peer.log,
                      o.device = p.device, o.seq = p.seq, o # p
               PROVE  /\ o.device = Me
                      /\ p \in forgotten \ replica.log
                      /\ Readable => \A i \in 2 .. Len(ledger) : ledger[i] # p
    BY DEF SeqReuseAccountedFor
  <2>1. SameName(o, p) /\ SameName(p, o)
    BY DEF SameName
  <2>2. o.device = Me
    BY <2>1 DEF NamesInv, NamedOnce
  <2>3. p \notin replica.log
    BY <2>1 DEF NamesInv, NamedOnce
  <2>4. p \in forgotten
    BY <2>2, <2>3 DEF NamesInv
  <2>5. ASSUME Readable, NEW i \in 2 .. Len(ledger), ledger[i] = p PROVE FALSE
    <3>1. ledger # NoFile
      <4>1. ledger = NoFile => OpRows = {}
        BY DEF OpRows, Rows
      <4>2. phase \notin {"down", "created"}
        BY DEF DaemonInv, ProcessShape
      <4>3. phase \in {"down", "replay", "created", "up"}
        BY DEF TypeInv, DaemonTypeOK
      <4> QED BY <4>1, <4>2, <4>3 DEF TypeInv, LedgerShape, DaemonInv, ProcessShape
    <3>2. ledger[i] \in Op
      BY <2>5, <3>1, FileRows
    <3> QED BY <2>1, <2>5, <3>1, <3>2 DEF NamesInv, RowsAgree
  <2> QED BY <2>2, <2>3, <2>4, <2>5
<1> QED BY <1>1, NamesInvariant, InitTyped, NextTyped, DaemonInvariant, PTL DEF DaemonSpec

\* What a running process takes is later than every row of its device in a file
\* that can be read.
THEOREM NewOpsAboveRowsAlways == DaemonSpec => NewOpsAboveRows
<1>1. TypeInv /\ DaemonInv /\ LedgerInv /\ [DaemonNext]_vars =>
        [phase = "up" /\ Readable =>
           \A o \in replica'.log \ replica.log : \A i \in 2 .. Len(ledger) :
             ledger[i] \in Op /\ ledger[i].device = o.device => ledger[i].seq < o.seq]_vars
  <2> SUFFICES ASSUME TypeInv, DaemonInv, LedgerInv, [DaemonNext]_vars,
                      phase = "up", Readable,
                      NEW o \in replica'.log \ replica.log, NEW i \in 2 .. Len(ledger),
                      ledger[i] \in Op, ledger[i].device = o.device
               PROVE  ledger[i].seq < o.seq
    OBVIOUS
  <2>1. /\ FileInv /\ i \in 2 .. Replayed
    <3>1. ledger # NoFile /\ replay = <<>> /\ Len(replay) = 0
      BY EmptySeq DEF TypeInv, LedgerShape, DaemonInv, ProcessShape
    <3> QED BY <3>1, FileRows DEF LedgerInv, Replayed
  <2>2. o \in Op /\ o.seq > replica.vv[o.device]
    <3>1. o \in replica'.log /\ o \notin replica.log
      OBVIOUS
    <3>2. PICK op \in Op : Takes(replica, replica', op)
      BY <3>1, ReplicaSteps DEF NewReplica
    <3>3. replica'.log = replica.log \cup {op} /\ op.seq > replica.vv[op.device]
      BY <3>2 DEF Takes, Taken
    <3> QED BY <3>1, <3>3
  <2>3. ledger[i].seq <= replica.vv[o.device]
    BY <2>1 DEF FileInv, RowsCounted
  <2> QED BY <2>2, <2>3, OpTypes
<1> QED
  BY <1>1, InitTyped, NextTyped, DaemonInvariant, LedgerInvariant, PTL
  DEF DaemonSpec, NewOpsAboveRows
=============================================================================
