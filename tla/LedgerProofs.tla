---------------------------- MODULE LedgerProofs ----------------------------
(***************************************************************************)
(* Proofs about the ledger of Daemon, for any number of tasks, writes,      *)
(* kills and faults: no two rows carry one name, and what an acknowledged   *)
(* write can be lost to.                                                   *)
(***************************************************************************)
EXTENDS DaemonProofs

SameName(o, p) == o.device = p.device /\ o.seq = p.seq

ToAppend(t) == task[t] # Idle /\ task[t].step = "append"
ToReply(t) == task[t] # Idle /\ task[t].step = "reply"

\* The last line of the file that startup has replayed.
Replayed == Len(ledger) - Len(replay)

\* What startup has still to replay is the rest of the file.
RowsLeft ==
  /\ replay # <<>> => Replayed >= 1
  /\ \A j \in 1 .. Len(replay) : replay[j] = ledger[Replayed + j]

\* The marks of the process cover what it has replayed, so that what it mints or
\* takes next is named like no row.
RowsCounted ==
  \A i \in 2 .. Replayed : ledger[i] \in Op => ledger[i].seq <= replica.vv[ledger[i].device]

\* A row that was replayed is in the log, or came after a later op of its device.
RowsKept ==
  \A i \in 2 .. Replayed : ledger[i] \in Op => ledger[i] \in replica.log \/ Overtaken(ledger[i])

\* A mark of a process that is still replaying is the seq of a row.
MarksAreRows ==
  \A d \in Device : replica.vv[d] > 0 =>
    \E i \in 2 .. Replayed :
      ledger[i] \in Op /\ ledger[i].device = d /\ ledger[i].seq = replica.vv[d]

\* What is on its way to the file is named like no row, and like nothing else
\* that is on its way.
NewToFile ==
  \A t \in Task : ToAppend(t) =>
    /\ \A i \in 2 .. Len(ledger) : ledger[i] \in Op => ~ SameName(ledger[i], task[t].op)
    /\ \A u \in Task : u # t /\ ToAppend(u) => ~ SameName(task[t].op, task[u].op)

\* What was answered, or is about to be, is in the file or was reported.
AnsweredInFile ==
  /\ acked \subseteq OpRows \cup reported
  /\ \A t \in Task : ToReply(t) => task[t].op \in OpRows \cup reported

FileInv ==
  /\ LedgerNamesOnce
  /\ phase \in {"replay", "up"} => RowsLeft /\ RowsCounted /\ RowsKept
  /\ phase = "replay" => MarksAreRows
  /\ NewToFile
  /\ AnsweredInFile

LedgerInv ==
  /\ ledger = NoFile \/ phase = "created" => acked = {}
  /\ ledger # NoFile /\ Readable => FileInv

-----------------------------------------------------------------------------
\* The file is a sequence of rows, and those below the first line hold ops where
\* all of it can be read.
LEMMA FileRows ==
  ASSUME TypeInv, ledger # NoFile
  PROVE  /\ ledger \in Seq(Row) /\ Len(ledger) \in Nat
         /\ replay \in Seq(Op) /\ Len(replay) \in Nat
         /\ OpRows = {ledger[i] : i \in 1 .. Len(ledger)} \cap Op
         /\ Readable => \A i \in 2 .. Len(ledger) : ledger[i] \in Op
<1>1. /\ ledger \in Seq(Row) /\ OpRows = {ledger[i] : i \in 1 .. Len(ledger)} \cap Op
      /\ replay \in Seq(Op)
  BY LedgerIsRows DEF TypeInv, DaemonTypeOK
<1>2. ASSUME Readable, NEW i \in 2 .. Len(ledger) PROVE ledger[i] \in Op
  <2>1. ledger[i] \in Rows
    BY <1>1 DEF Rows
  <2> QED BY <1>2, <2>1 DEF Readable, TypeInv, LedgerShape
<1> QED BY <1>1, <1>2, LenProperties

\* The types of what the comparisons are about.
LEMMA OpTypes ==
  ASSUME TypeInv
  PROVE  /\ replica.vv \in [Device -> Nat]
         /\ \A o \in Op : o.device \in Device /\ o.seq \in Nat /\ o.seq >= 1
         /\ \A o \in replica.log : o \in Op
BY DEF TypeInv, DaemonTypeOK, ReplicaState, VersionVector, Op

\* The ledger is in order initially: there is none.
LEMMA InitLedger == DaemonInit => LedgerInv
BY DEF DaemonInit, LedgerInv

\* Startup reads the file.
LEMMA LoadKeepsLedger ==
  ASSUME TypeInv, TypeInv', DaemonInv, LedgerInv, LoadLedger
  PROVE  LedgerInv'
<1>1. /\ phase = "down" /\ phase' = "replay" /\ replay' = Loaded
      /\ UNCHANGED <<task, ledger, acked, reported>> /\ replica' = NewReplica(Me)
  BY DEF LoadLedger
<1>2. \A t \in Task : ~ ToAppend(t)' /\ ~ ToReply(t)'
  BY <1>1 DEF TypeInv, LedgerShape, ToAppend, ToReply
<1> SUFFICES ASSUME ledger # NoFile, Readable PROVE FileInv'
  BY <1>1 DEF LedgerInv, Readable, Rows
<1>3. FileInv
  BY DEF LedgerInv
<1>4. Replayed' \in Int /\ Replayed' <= 1 /\ RowsLeft'
  <2>1. CASE ledger = <<>>
    <3>1. replay' = <<>> /\ Len(replay') = 0 /\ Len(ledger') = 0
      BY <1>1, <2>1, EmptySeq DEF Loaded
    <3> QED BY <3>1 DEF Replayed, RowsLeft
  <2>2. CASE ledger # <<>>
    <3>1. replay' = Tail(ledger)
      BY <1>1, <2>2 DEF Loaded
    <3>2. /\ Len(Tail(ledger)) = Len(ledger) - 1 /\ Len(ledger) \in Nat
          /\ \A i \in 1 .. Len(Tail(ledger)) : Tail(ledger)[i] = ledger[i + 1]
      BY <2>2, FileRows
    <3>3. Replayed' = 1
      BY <1>1, <3>1, <3>2 DEF Replayed
    <3>4. \A i \in 1 .. Len(Tail(ledger)) : i + 1 = 1 + i
      BY <3>2
    <3> QED BY <1>1, <3>1, <3>2, <3>3, <3>4 DEF RowsLeft
  <2> QED BY <2>1, <2>2
<1>5. RowsCounted' /\ RowsKept'
  <2>1. 2 .. Replayed' = {}
    BY <1>4
  <2> QED BY <2>1 DEF RowsCounted, RowsKept
<1>6. MarksAreRows'
  BY <1>1 DEF MarksAreRows, NewReplica, EmptyVv
<1>7. LedgerNamesOnce' /\ NewToFile' /\ AnsweredInFile'
  BY <1>1, <1>2, <1>3
  DEF FileInv, LedgerNamesOnce, Readable, NewToFile, AnsweredInFile, OpRows, Rows
<1> QED BY <1>1, <1>4, <1>5, <1>6, <1>7 DEF FileInv

\* Startup replays a row: it takes the op, or has seen a later one of its device.
LEMMA ReplayKeepsLedger ==
  ASSUME TypeInv, TypeInv', DaemonInv, LedgerInv, ReplayOp
  PROVE  LedgerInv'
<1> DEFINE op == Head(replay)
           k == Replayed
<1>1. /\ phase = "replay" /\ phase' = "replay" /\ replay # <<>> /\ replay' = Tail(replay)
      /\ UNCHANGED <<task, ledger, acked, reported>>
  BY DEF ReplayOp
<1>2. \A t \in Task : ~ ToAppend(t)' /\ ~ ToReply(t)'
  BY <1>1 DEF TypeInv, LedgerShape, ToAppend, ToReply
<1> SUFFICES ASSUME ledger # NoFile, Readable PROVE FileInv'
  BY <1>1 DEF LedgerInv, Readable, Rows
<1>3. FileInv
  BY DEF LedgerInv
<1>4. /\ replay \in Seq(Op) /\ Len(ledger) \in Nat /\ op \in Op /\ op = replay[1]
      /\ Len(replay) \in Nat /\ Len(replay) >= 1 /\ Len(replay') = Len(replay) - 1
      /\ \A j \in 1 .. Len(replay') : replay'[j] = replay[j + 1]
  <2>1. replay \in Seq(Op) /\ Len(ledger) \in Nat
    BY FileRows
  <2> QED BY <1>1, <2>1, HeadTailProperties, EmptySeq
<1>5. k \in Int /\ k >= 1 /\ k + 1 <= Len(ledger) /\ Replayed' = k + 1 /\ ledger[k + 1] = op
  BY <1>1, <1>3, <1>4 DEF FileInv, RowsLeft, Replayed
<1>6. \A o : Overtaken(o) => Overtaken(o)'
  BY <1>1 DEF Overtaken
<1>7. RowsLeft'
  <2>1. \A j \in 1 .. Len(replay') : replay[j + 1] = ledger[k + (j + 1)]
    BY <1>1, <1>3, <1>4 DEF FileInv, RowsLeft
  <2>2. \A j \in 1 .. Len(replay') : k + (j + 1) = (k + 1) + j
    BY <1>4, <1>5
  <2> QED BY <1>1, <1>4, <1>5, <2>1, <2>2 DEF RowsLeft
<1>8. PICK wall \in Clock : replica' = Apply(replica, op, wall)
  BY DEF ReplayOp
<1>9. \/ AlreadySeen(replica, op) /\ replica' = replica
      \/ Taken(replica, replica', op)
  BY <1>4, <1>8, ApplyTakes, ClockAssumption, DevicesAssumption
  DEF TypeInv, DaemonTypeOK, DaemonInv
<1>10. /\ replica.vv \in [Device -> Nat] /\ op.device \in Device
       /\ op.seq \in Nat /\ op.seq >= 1
       /\ \A i \in 2 .. Len(ledger) : ledger[i] \in Op
       /\ \A o \in Op : o.device \in Device /\ o.seq \in Nat
  BY <1>4, OpTypes, FileRows
<1> HIDE DEF op, k
<1>11. RowsCounted /\ RowsKept /\ MarksAreRows /\ LedgerNamesOnce /\ Replayed = k
  BY <1>1, <1>3 DEF FileInv, k
<1>12. RowsCounted' /\ RowsKept' /\ MarksAreRows'
  <2>0. /\ \A i \in 2 .. Replayed' : i \in 2 .. k \/ i = k + 1
        /\ \A i \in 2 .. k : i \in 2 .. Replayed'
        /\ \A i \in 2 .. k : i \in 2 .. Len(ledger)
        /\ k + 1 \in 2 .. Replayed' /\ k + 1 \in 2 .. Len(ledger)
    BY <1>4, <1>5
  <2>1. CASE AlreadySeen(replica, op) /\ replica' = replica
    <3>1. op.seq <= replica.vv[op.device] /\ replica.vv[op.device] > 0
      BY <1>10, <2>1 DEF AlreadySeen
    <3>2. PICK i \in 2 .. k : /\ ledger[i] \in Op /\ ledger[i].device = op.device
                              /\ ledger[i].seq = replica.vv[op.device]
      BY <1>10, <1>11, <3>1 DEF MarksAreRows
    <3>3. i # k + 1 /\ i \in 1 .. Len(ledger) /\ k + 1 \in i + 1 .. Len(ledger)
      BY <1>4, <1>5
    <3>4. ledger[i].seq # op.seq
      BY <1>5, <1>4, <1>11, <2>0, <3>2, <3>3 DEF LedgerNamesOnce
    <3>5. ledger[i].seq > op.seq
      BY <1>10, <3>1, <3>2, <3>4
    <3>6. Overtaken(op)
      BY <1>5, <3>2, <3>3, <3>5 DEF Overtaken
    <3>7. RowsCounted'
      BY <1>1, <1>5, <1>11, <2>0, <2>1, <3>1 DEF RowsCounted
    <3>8. RowsKept'
      BY <1>1, <1>5, <1>6, <1>11, <2>0, <2>1, <3>6 DEF RowsKept
    <3>9. MarksAreRows'
      BY <1>1, <1>11, <2>0, <2>1 DEF MarksAreRows
    <3> QED BY <3>7, <3>8, <3>9
  <2>2. CASE Taken(replica, replica', op)
    <3>1. /\ replica'.vv = [replica.vv EXCEPT ![op.device] = op.seq]
          /\ replica'.log = replica.log \cup {op} /\ op.seq > replica.vv[op.device]
      BY <2>2 DEF Taken
    <3>2. ASSUME NEW i \in 2 .. Replayed', ledger[i] \in Op
          PROVE  ledger[i].seq <= replica'.vv[ledger[i].device]
      <4>1. CASE i = k + 1
        BY <1>5, <1>10, <3>1, <4>1
      <4>2. CASE i \in 2 .. k
        <5>1. ledger[i].seq <= replica.vv[ledger[i].device]
          BY <1>11, <3>2, <4>2 DEF RowsCounted
        <5>2. ledger[i].device \in Device /\ ledger[i].seq \in Nat
          BY <1>10, <3>2
        <5> QED BY <1>10, <3>1, <5>1, <5>2
      <4> QED BY <2>0, <4>1, <4>2
    <3>3. RowsCounted'
      BY <1>1, <3>2 DEF RowsCounted
    <3>4. RowsKept'
      BY <1>1, <1>5, <1>6, <1>11, <2>0, <3>1 DEF RowsKept
    <3>5. ASSUME NEW d \in Device, replica'.vv[d] > 0
          PROVE  \E i \in 2 .. Replayed' :
                   ledger[i] \in Op /\ ledger[i].device = d /\ ledger[i].seq = replica'.vv[d]
      <4>1. CASE d = op.device
        BY <1>4, <1>5, <1>10, <2>0, <3>1, <4>1
      <4>2. CASE d # op.device
        <5>1. replica'.vv[d] = replica.vv[d]
          BY <1>10, <3>1, <4>2
        <5> QED BY <1>11, <2>0, <3>5, <5>1 DEF MarksAreRows
      <4> QED BY <4>1, <4>2
    <3>6. MarksAreRows'
      BY <1>1, <3>5 DEF MarksAreRows
    <3> QED BY <3>3, <3>4, <3>6
  <2> QED BY <1>9, <2>1, <2>2
<1>13. LedgerNamesOnce' /\ NewToFile' /\ AnsweredInFile'
  BY <1>1, <1>2, <1>3
  DEF FileInv, LedgerNamesOnce, Readable, NewToFile, AnsweredInFile, OpRows, Rows
<1> QED BY <1>1, <1>7, <1>12, <1>13 DEF FileInv

\* Startup opens the file it has replayed.
LEMMA OpenKeepsLedger ==
  ASSUME TypeInv, TypeInv', DaemonInv, LedgerInv, OpenLedger
  PROVE  LedgerInv'
<1>1. /\ phase = "replay" /\ phase' = "up"
      /\ UNCHANGED <<replica, task, ledger, replay, acked, reported>>
  BY DEF OpenLedger
<1> SUFFICES ASSUME ledger # NoFile, Readable PROVE FileInv'
  BY <1>1 DEF LedgerInv, Readable, Rows
<1>2. FileInv
  BY DEF LedgerInv
<1>3. RowsLeft' /\ RowsCounted' /\ RowsKept'
  BY <1>1, <1>2 DEF FileInv, RowsLeft, RowsCounted, RowsKept, Replayed, Overtaken
<1>4. LedgerNamesOnce' /\ NewToFile' /\ AnsweredInFile'
  BY <1>1, <1>2
  DEF FileInv, LedgerNamesOnce, Readable, NewToFile, AnsweredInFile, OpRows, Rows,
      ToAppend, ToReply
<1> QED BY <1>1, <1>3, <1>4 DEF FileInv

\* A fresh file holds no row.
LEMMA CreateKeepsLedger ==
  ASSUME TypeInv, TypeInv', DaemonInv, LedgerInv, CreateLedger \/ WriteHeader
  PROVE  LedgerInv'
<1>1. /\ acked' = {} /\ phase' \in {"created", "up"} /\ replay' = <<>>
      /\ ledger' = <<>> \/ ledger' = <<Header>>
      /\ UNCHANGED task
  BY DEF CreateLedger, WriteHeader, LedgerInv, DaemonInv, ProcessShape
<1>2. \A t \in Task : ~ ToAppend(t)' /\ ~ ToReply(t)'
  BY <1>1 DEF CreateLedger, WriteHeader, TypeInv, LedgerShape, ToAppend, ToReply
<1>3. Len(ledger') \in Nat /\ Len(ledger') <= 1 /\ Len(replay') = 0
  <2>1. Len(replay') = 0
    BY <1>1, EmptySeq
  <2>2. CASE ledger' = <<>>
    BY <2>1, <2>2, EmptySeq
  <2>3. CASE ledger' = <<Header>>
    <3>1. Len(ledger') = 1
      BY <2>3
    <3> QED BY <2>1, <3>1
  <2> QED BY <1>1, <2>2, <2>3
<1>4. 2 .. Len(ledger') = {} /\ Replayed' = Len(ledger') /\ 1 .. Len(replay') = {}
  BY <1>3 DEF Replayed
<1>5. LedgerNamesOnce' /\ NewToFile' /\ AnsweredInFile'
  BY <1>1, <1>2, <1>4 DEF LedgerNamesOnce, NewToFile, AnsweredInFile
<1>6. RowsLeft' /\ RowsCounted' /\ RowsKept'
  BY <1>1, <1>4 DEF RowsLeft, RowsCounted, RowsKept
<1> QED BY <1>1, <1>5, <1>6 DEF LedgerInv, FileInv

\* A kill leaves the file, or tears it, and takes what was on its way to it.
LEMMA KillKeepsLedger ==
  ASSUME TypeInv, TypeInv', DaemonInv, LedgerInv, Kill
  PROVE  LedgerInv'
<1> SUFFICES ASSUME ledger' = ledger PROVE LedgerInv'
  BY CutFile DEF Kill, TypeInv, LedgerInv
<1>1. /\ phase' = "down" /\ UNCHANGED <<ledger, acked, reported>>
      /\ \A t \in Task : ~ ToAppend(t)' /\ ~ ToReply(t)'
  BY DEF Kill, ToAppend, ToReply
<1>2. ledger # NoFile /\ Readable => LedgerNamesOnce' /\ NewToFile' /\ AnsweredInFile'
  BY <1>1
  DEF LedgerInv, FileInv, LedgerNamesOnce, Readable, NewToFile, AnsweredInFile, OpRows, Rows
<1> QED BY <1>1, <1>2 DEF LedgerInv, FileInv, Readable, Rows

\* A task takes an op or none, and leaves the file alone.
LEMMA TaskKeepsLedger ==
  ASSUME TypeInv, TypeInv', DaemonInv, LedgerInv, phase = "up",
         UNCHANGED <<ledger, phase, replay, reported>>,
         NEW t \in Task, \A u \in Task \ {t} : task'[u] = task[u],
         ~ ToReply(t)', \A o \in acked' \ acked : ToReply(t) /\ o = task[t].op,
         \/ replica' = replica /\ ~ ToAppend(t)'
         \/ \E op \in Op : /\ Taken(replica, replica', op)
                           /\ ToAppend(t)' => task'[t].op = op
  PROVE  LedgerInv'
<1>1. ledger # NoFile /\ replay = <<>> /\ Len(replay) = 0
  BY EmptySeq DEF TypeInv, LedgerShape, DaemonInv, ProcessShape
<1> SUFFICES ASSUME Readable PROVE FileInv'
  BY <1>1 DEF LedgerInv, Readable, Rows
<1>2. FileInv
  BY <1>1 DEF LedgerInv
<1>3. Len(ledger) \in Nat /\ Replayed = Len(ledger) /\ Replayed' = Len(ledger)
  BY <1>1, FileRows DEF Replayed
<1>4. /\ replica.log \subseteq replica'.log
      /\ \A d \in Device : replica.vv[d] \in Nat /\ replica'.vv[d] \in Nat
      /\ \A d \in Device : replica.vv[d] <= replica'.vv[d]
  <2>1. CASE replica' = replica
    BY <2>1, OpTypes
  <2>2. ASSUME NEW op \in Op, Taken(replica, replica', op)
        PROVE  /\ replica.log \subseteq replica'.log
               /\ \A d \in Device : replica.vv[d] \in Nat /\ replica'.vv[d] \in Nat
               /\ \A d \in Device : replica.vv[d] <= replica'.vv[d]
    BY <2>2, OpTypes DEF Taken
  <2> QED BY <2>1, <2>2
<1>5. RowsLeft' /\ RowsCounted' /\ RowsKept'
  <2>1. RowsLeft'
    BY <1>1 DEF RowsLeft
  <2>2. \A i \in 2 .. Len(ledger) : ledger[i] \in Op =>
          ledger[i].seq <= replica.vv[ledger[i].device]
    BY <1>2, <1>3 DEF FileInv, RowsCounted
  <2>3. \A i \in 2 .. Len(ledger) : ledger[i] \in Op =>
          ledger[i].seq <= replica'.vv[ledger[i].device]
    BY <1>4, <2>2, OpTypes
  <2>4. RowsKept'
    BY <1>2, <1>3, <1>4 DEF FileInv, RowsKept, Overtaken
  <2> QED BY <1>3, <2>1, <2>3, <2>4 DEF RowsCounted
<1>6. \A u \in Task \ {t} : (ToAppend(u)' <=> ToAppend(u)) /\ (ToReply(u)' <=> ToReply(u))
  BY DEF ToAppend, ToReply
<1>7. ASSUME NEW u \in Task, ToAppend(u)
      PROVE  task[u].op \in Op /\ task[u].op.seq <= replica.vv[task[u].op.device]
  <2>1. task[u].op \in replica.log
    BY <1>7 DEF ToAppend, DaemonInv, TaskRooted
  <2> QED BY <2>1, OpTypes DEF DaemonInv, Marked
<1>8. ASSUME ToAppend(t)'
      PROVE  /\ task'[t].op \in Op
             /\ task'[t].op.seq > replica.vv[task'[t].op.device]
  BY <1>8 DEF Taken
<1>9. ASSUME ToAppend(t)', NEW p \in Op, p.seq <= replica.vv[p.device]
      PROVE  ~ SameName(p, task'[t].op) /\ ~ SameName(task'[t].op, p)
  BY <1>8, <1>9, OpTypes DEF SameName
<1>10. NewToFile'
  <2>1. ASSUME NEW u \in Task, ToAppend(u)', NEW i \in 2 .. Len(ledger), ledger[i] \in Op
        PROVE  ~ SameName(ledger[i], task'[u].op)
    <3>1. CASE u = t
      <4>1. ledger[i].seq <= replica.vv[ledger[i].device]
        BY <1>2, <1>3, <2>1 DEF FileInv, RowsCounted
      <4> QED BY <1>9, <2>1, <3>1, <4>1
    <3>2. CASE u # t
      BY <1>2, <1>6, <2>1, <3>2 DEF FileInv, NewToFile
    <3> QED BY <3>1, <3>2
  <2>2. ASSUME NEW u \in Task, NEW w \in Task, u # w, ToAppend(u)', ToAppend(w)'
        PROVE  ~ SameName(task'[u].op, task'[w].op)
    <3>1. CASE u = t
      BY <1>6, <1>7, <1>9, <2>2, <3>1
    <3>2. CASE w = t
      BY <1>6, <1>7, <1>9, <2>2, <3>2
    <3>3. CASE u # t /\ w # t
      BY <1>2, <1>6, <2>2, <3>3 DEF FileInv, NewToFile
    <3> QED BY <3>1, <3>2, <3>3
  <2> QED BY <2>1, <2>2 DEF NewToFile
<1>11. AnsweredInFile'
  <2>1. OpRows' = OpRows
    BY DEF OpRows, Rows
  <2>2. acked' \subseteq OpRows \cup reported
    BY <1>2 DEF FileInv, AnsweredInFile
  <2>3. \A u \in Task : ToReply(u)' => task'[u].op \in OpRows \cup reported
    BY <1>2, <1>6 DEF FileInv, AnsweredInFile
  <2> QED BY <2>1, <2>2, <2>3 DEF AnsweredInFile
<1>12. LedgerNamesOnce'
  BY <1>2 DEF FileInv, LedgerNamesOnce, Readable, Rows
<1> QED BY <1>5, <1>10, <1>11, <1>12 DEF FileInv

\* The requests that leave the file alone.
LEMMA RequestKeepsLedger ==
  ASSUME TypeInv, TypeInv', DaemonInv, LedgerInv, NEW t \in Task,
         Write(t) \/ AcceptBatch(t) \/ ApplyNext(t) \/ Reply(t)
  PROVE  LedgerInv'
<1>1. /\ phase = "up" /\ \A u \in Task \ {t} : task'[u] = task[u]
      /\ UNCHANGED <<ledger, phase, replay, reported>>
  <2>1. task \in [Task -> TaskState \cup {Idle}] /\ (task[t] # Idle => phase = "up")
    BY DEF TypeInv, DaemonTypeOK, LedgerShape
  <2>2. CASE Write(t)
    BY <2>1, <2>2 DEF Write
  <2>3. CASE AcceptBatch(t)
    BY <2>1, <2>3 DEF AcceptBatch
  <2>4. CASE ApplyNext(t)
    BY <2>1, <2>4 DEF ApplyNext
  <2>5. CASE Reply(t)
    BY <2>1, <2>5 DEF Reply
  <2> QED BY <2>2, <2>3, <2>4, <2>5
<1>2. /\ task \in [Task -> TaskState \cup {Idle}] /\ task' \in [Task -> TaskState \cup {Idle}]
      /\ task[t] \in TaskState \cup {Idle} /\ task'[t] \in TaskState \cup {Idle}
  BY DEF TypeInv, DaemonTypeOK
<1>3. CASE Write(t)
  <2>1. PICK e \in Entity, v \in Written, wall \in Clock :
          /\ replica' = LocalChange(replica, NewOp(replica, e, v, wall))
          /\ task'[t].op = NewOp(replica, e, v, wall)
          /\ task'[t].step = "append"
    BY <1>2, <1>3 DEF Write
  <2> DEFINE op == NewOp(replica, e, v, wall)
  <2>2. Taken(replica, replica', op)
    BY <2>1, LocalChangeTakes, ClockAssumption, DevicesAssumption
    DEF TypeInv, DaemonTypeOK, DaemonInv
  <2>3. op \in Op
    <3>1. op \in replica'.log
      BY <2>2 DEF Taken
    <3> QED BY <3>1 DEF TypeInv, DaemonTypeOK, ReplicaState
  <2>4. ~ ToAppend(t) /\ ~ ToReply(t)' /\ acked' = acked
    BY <1>3, <2>1 DEF Write, ToAppend, ToReply
  <2> QED BY <1>1, <2>1, <2>2, <2>3, <2>4, TaskKeepsLedger
<1>4. CASE AcceptBatch(t)
  <2>1. /\ task[t] = Idle /\ task'[t].step = "apply" /\ replica' = replica /\ acked' = acked
    BY <1>2, <1>4 DEF AcceptBatch
  <2>2. ~ ToReply(t)' /\ ~ ToAppend(t)'
    BY <2>1 DEF ToAppend, ToReply
  <2> QED BY <1>1, <2>1, <2>2, TaskKeepsLedger
<1>5. CASE ApplyNext(t)
  <2>1. task[t] # Idle /\ task[t].step = "apply" /\ acked' = acked /\ task[t].todo \in SUBSET Op
    BY <1>2, <1>5 DEF ApplyNext, TaskState
  <2>2. PICK o \in task[t].todo, wall \in Clock :
          /\ replica' = Apply(replica, o, wall)
          /\ task'[t] = IF AlreadySeen(replica, o) THEN Continue(task[t].todo \ {o})
                        ELSE [step |-> "append", todo |-> task[t].todo \ {o},
                              op |-> o, local |-> FALSE]
    BY <1>2, <1>5 DEF ApplyNext
  <2>3. o \in Op
    BY <2>1
  <2>4. \/ AlreadySeen(replica, o) /\ replica' = replica
        \/ ~ AlreadySeen(replica, o) /\ Taken(replica, replica', o)
    <3>1. \/ AlreadySeen(replica, o) /\ replica' = replica
          \/ Taken(replica, replica', o)
      BY <2>2, <2>3, ApplyTakes, ClockAssumption, DevicesAssumption
      DEF TypeInv, DaemonTypeOK, DaemonInv
    <3>2. AlreadySeen(replica, o) => replica' = replica
      BY <2>2 DEF Apply
    <3> QED BY <3>1, <3>2
  <2>5. ~ ToReply(t)'
    BY <2>2 DEF ToReply, Continue
  <2>6. CASE AlreadySeen(replica, o) /\ replica' = replica
    <3>1. ~ ToAppend(t)'
      BY <2>2, <2>6 DEF ToAppend, Continue
    <3> QED BY <1>1, <2>1, <2>5, <2>6, <3>1, TaskKeepsLedger DEF ToAppend
  <2>7. CASE ~ AlreadySeen(replica, o) /\ Taken(replica, replica', o)
    <3>1. task'[t].op = o
      BY <2>2, <2>7
    <3>2. ~ ToAppend(t)
      BY <2>1 DEF ToAppend
    <3> QED BY <1>1, <2>1, <2>3, <2>5, <2>7, <3>1, <3>2, TaskKeepsLedger
  <2> QED BY <2>4, <2>6, <2>7
<1>6. CASE Reply(t)
  <2>1. /\ task'[t] = Idle /\ replica' = replica /\ acked' = acked \cup {task[t].op}
        /\ ToReply(t) /\ ~ ToReply(t)' /\ ~ ToAppend(t)'
    BY <1>2, <1>6 DEF Reply, ToReply, ToAppend
  <2> QED BY <1>1, <2>1, TaskKeepsLedger
<1> QED BY <1>3, <1>4, <1>5, <1>6

\* A file that can still be read after an append was not touched, or has one row
\* more.
LEMMA AppendedReadable ==
  ASSUME TypeInv, TypeInv', NEW t \in Task, AppendRow(t), Readable'
  PROVE  /\ ledger # NoFile /\ Readable /\ task[t].op \in Op
         /\ \/ ledger' = ledger /\ reported' = reported \cup {task[t].op}
            \/ ledger' = Append(ledger, task[t].op) /\ reported' = reported
<1> DEFINE op == task[t].op
<1>1. /\ task[t] # Idle /\ task[t].step = "append" /\ ledger # NoFile /\ ledger' # NoFile
      /\ op \in Op
  BY DEF AppendRow, TypeInv, LedgerShape, DaemonTypeOK, TaskState
<1>2. /\ ledger \in Seq(Row) /\ ledger' \in Seq(Row)
      /\ Len(ledger) \in Nat /\ Len(ledger') \in Nat
      /\ Torn \notin Op /\ Malformed \notin Op
  <2>1. ledger \in Seq(Row) /\ ledger' \in Seq(Row)
    BY <1>1 DEF TypeInv, DaemonTypeOK
  <2> QED BY <2>1, LenProperties, RowAssumption
<1>3. \A i \in 1 .. Len(ledger') : ledger'[i] \notin {Torn, Malformed}
  BY <1>1 DEF Readable, Rows
<1>4. \/ ledger' = Appended(op) /\ reported' = reported
      \/ ledger' = ledger /\ reported' = reported \cup {op}
      \/ ledger' = Appended(Torn)
  BY DEF AppendRow, Report
<1>5. ASSUME NEW row \in {op, Torn}, ledger' = Appended(row)
      PROVE  /\ Len(ledger') >= Len(ledger)
             /\ \A i \in 1 .. Len(ledger) :
                  ledger[i] \in {Torn, Malformed} => ledger'[i] \in {Torn, Malformed}
             /\ \/ \E i \in 1 .. Len(ledger') : ledger'[i] = row
                \/ \E i \in 1 .. Len(ledger') : ledger'[i] = Malformed
  BY <1>1, <1>5, AppendedRows DEF TypeInv
<1>6. ledger' # Appended(Torn)
  BY <1>3, <1>5
<1>7. CASE ledger' = ledger /\ reported' = reported \cup {op}
  BY <1>1, <1>7 DEF Readable, Rows
<1>8. CASE ledger' = Appended(op) /\ reported' = reported
  <2>1. \A i \in 1 .. Len(ledger) : i \in 1 .. Len(ledger')
    BY <1>2, <1>5, <1>8
  <2>2. \A i \in 1 .. Len(ledger) : ledger[i] \notin {Torn, Malformed}
    BY <1>3, <1>5, <1>8, <2>1
  <2>3. Readable
    BY <1>1, <2>2 DEF Readable, Rows
  <2>4. ~ (ledger # <<>> /\ ledger[Len(ledger)] = Torn)
    <3>1. ledger # <<>> => Len(ledger) \in 1 .. Len(ledger)
      BY <1>2, EmptySeq
    <3> QED BY <2>2, <3>1
  <2>5. ledger' = Append(ledger, op)
    BY <1>8, <2>4 DEF Appended
  <2> QED BY <1>1, <1>8, <2>3, <2>5
<1> QED BY <1>4, <1>6, <1>7, <1>8

\* A task appends, or fails to.
LEMMA AppendKeepsLedger ==
  ASSUME TypeInv, TypeInv', DaemonInv, LedgerInv, NEW t \in Task, AppendRow(t)
  PROVE  LedgerInv'
<1> DEFINE op == task[t].op
<1>1. /\ ToAppend(t) /\ phase = "up" /\ ledger # NoFile
      /\ UNCHANGED <<replica, phase, replay, acked>>
  BY DEF AppendRow, ToAppend, TypeInv, LedgerShape
<1>2. /\ ~ ToAppend(t)' /\ (ToReply(t)' => task'[t].op = op)
      /\ \A u \in Task \ {t} : task'[u] = task[u]
  BY DEF AppendRow, AfterAppend, Continue, ToAppend, ToReply, TypeInv, DaemonTypeOK
<1>3. \A u \in Task \ {t} : (ToAppend(u)' <=> ToAppend(u)) /\ (ToReply(u)' <=> ToReply(u))
  BY <1>2 DEF ToAppend, ToReply
<1> SUFFICES ASSUME Readable' PROVE FileInv'
  BY <1>1 DEF LedgerInv, TypeInv, LedgerShape
<1>4. /\ Readable /\ op \in Op
      /\ \/ ledger' = ledger /\ reported' = reported \cup {op}
         \/ ledger' = Append(ledger, op) /\ reported' = reported
  BY AppendedReadable
<1>5. FileInv
  BY <1>1, <1>4 DEF LedgerInv
<1>6. /\ ledger \in Seq(Row) /\ Len(ledger) \in Nat /\ replay = <<>> /\ Len(replay) = 0
      /\ Replayed = Len(ledger)
      /\ OpRows = {ledger[i] : i \in 1 .. Len(ledger)} \cap Op
  <2>1. replay = <<>> /\ Len(replay) = 0
    BY <1>1, EmptySeq DEF DaemonInv, ProcessShape
  <2> QED BY <1>1, <2>1, FileRows DEF Replayed
<1>7. CASE ledger' = ledger /\ reported' = reported \cup {op}
  <2>1. OpRows' = OpRows
    BY <1>7 DEF OpRows, Rows
  <2>2. RowsLeft' /\ RowsCounted' /\ RowsKept'
    <3>1. Replayed' = Replayed /\ \A o : Overtaken(o)' <=> Overtaken(o)
      BY <1>1, <1>7 DEF Replayed, Overtaken
    <3>2. RowsLeft'
      BY <1>1, <1>6 DEF RowsLeft
    <3> QED BY <1>1, <1>5, <1>7, <3>1, <3>2 DEF FileInv, RowsCounted, RowsKept
  <2>3. NewToFile'
    BY <1>2, <1>3, <1>5, <1>7 DEF FileInv, NewToFile
  <2>4. AnsweredInFile'
    BY <1>1, <1>2, <1>3, <1>5, <1>7, <2>1 DEF FileInv, AnsweredInFile
  <2>5. LedgerNamesOnce'
    BY <1>4, <1>5, <1>7, <1>1 DEF FileInv, LedgerNamesOnce
  <2> QED BY <1>1, <2>2, <2>3, <2>4, <2>5 DEF FileInv
<1>8. CASE ledger' = Append(ledger, op) /\ reported' = reported
  <2> DEFINE n == Len(ledger)
  <2>1. /\ Len(ledger') = n + 1 /\ ledger'[n + 1] = op
        /\ \A i \in 1 .. n : ledger'[i] = ledger[i]
    BY <1>4, <1>6, <1>8, AppendProperties DEF Row
  <2>2. /\ Replayed' = n + 1 /\ n \in Nat
        /\ \A i \in 2 .. n + 1 : i = n + 1 \/ i \in 2 .. n
        /\ \A i \in 2 .. n : i \in 1 .. n
    BY <1>1, <1>6, <2>1 DEF Replayed
  <2> HIDE DEF n
  <2>3. op \in replica.log /\ op.seq <= replica.vv[op.device]
    BY <1>1 DEF ToAppend, DaemonInv, TaskRooted, Marked
  <2>4. \A i \in 2 .. n : ledger[i] \in Op => ~ SameName(ledger[i], op)
    BY <1>1, <1>5 DEF FileInv, NewToFile, n
  <2>5. ASSUME NEW o, Overtaken(o) PROVE Overtaken(o)'
    <3>0. PICK i \in 1 .. Len(ledger) : \E j \in i + 1 .. Len(ledger) :
            /\ ledger[j] = o /\ ledger[i] \in Op
            /\ ledger[i].device = o.device /\ ledger[i].seq > o.seq
      BY <2>5 DEF Overtaken
    <3>1. PICK j \in i + 1 .. Len(ledger) :
            /\ ledger[j] = o /\ ledger[i] \in Op
            /\ ledger[i].device = o.device /\ ledger[i].seq > o.seq
      BY <3>0
    <3>2. /\ i \in 1 .. n /\ j \in 1 .. n /\ i \in 1 .. Len(ledger')
          /\ j \in i + 1 .. Len(ledger')
      BY <2>1, <2>2, <3>1 DEF n
    <3> QED BY <2>1, <3>1, <3>2 DEF Overtaken
  <2>6. RowsLeft'
    BY <1>1, <1>6 DEF RowsLeft
  <2>7. RowsCounted'
    BY <1>1, <1>5, <1>6, <2>1, <2>2, <2>3 DEF FileInv, RowsCounted, n
  <2>8. RowsKept'
    BY <1>1, <1>5, <1>6, <2>1, <2>2, <2>3, <2>5 DEF FileInv, RowsKept, n
  <2>9. NewToFile'
    <3>1. ASSUME NEW u \in Task \ {t}, ToAppend(u)
          PROVE  \A i \in 2 .. n + 1 : ledger'[i] \in Op => ~ SameName(ledger'[i], task[u].op)
      <4>1. ~ SameName(op, task[u].op)
        BY <1>1, <1>5, <3>1 DEF FileInv, NewToFile
      <4>2. \A i \in 2 .. n : ledger[i] \in Op => ~ SameName(ledger[i], task[u].op)
        BY <1>5, <3>1 DEF FileInv, NewToFile, n
      <4> QED BY <2>1, <2>2, <4>1, <4>2
    <3> QED BY <1>2, <1>3, <1>5, <2>1, <3>1 DEF FileInv, NewToFile
  <2>10. OpRows \cup {op} \subseteq OpRows'
    <3>1. OpRows' = {ledger'[i] : i \in 1 .. Len(ledger')} \cap Op
      BY <1>1, FileRows DEF TypeInv, LedgerShape, OpRows, Rows
    <3>2. n + 1 \in 1 .. Len(ledger') /\ \A i \in 1 .. n : i \in 1 .. Len(ledger')
      BY <2>1, <2>2
    <3> QED BY <1>4, <1>6, <2>1, <3>1, <3>2 DEF n
  <2>11. AnsweredInFile'
    BY <1>1, <1>2, <1>3, <1>5, <1>8, <2>10 DEF FileInv, AnsweredInFile
  <2>12. LedgerNamesOnce'
    <3>1. ASSUME NEW i \in 2 .. n, NEW j \in 2 .. n, i # j, ledger[i] \in Op, ledger[j] \in Op,
                 ledger[i].device = ledger[j].device
          PROVE  ledger[i].seq # ledger[j].seq
      BY <1>1, <1>4, <1>5, <3>1 DEF FileInv, LedgerNamesOnce, n
    <3>2. ASSUME NEW i \in 2 .. n + 1, NEW j \in 2 .. n + 1, i # j, ledger'[i] \in Op,
                 ledger'[j] \in Op, ledger'[i].device = ledger'[j].device
          PROVE  ledger'[i].seq # ledger'[j].seq
      <4>1. CASE i \in 2 .. n /\ j \in 2 .. n
        BY <2>1, <2>2, <3>1, <3>2, <4>1
      <4>2. CASE i = n + 1 /\ j \in 2 .. n
        BY <2>1, <2>2, <2>4, <3>2, <4>2 DEF SameName
      <4>3. CASE j = n + 1 /\ i \in 2 .. n
        BY <2>1, <2>2, <2>4, <3>2, <4>3 DEF SameName
      <4> QED BY <2>2, <3>2, <4>1, <4>2, <4>3
    <3> QED BY <2>1, <3>2 DEF LedgerNamesOnce
  <2> QED BY <1>1, <2>6, <2>7, <2>8, <2>9, <2>11, <2>12 DEF FileInv
<1> QED BY <1>4, <1>7, <1>8

\* The peer does not touch the file, nor what is on its way to it.
LEMMA PeerKeepsLedger ==
  ASSUME LedgerInv, UNCHANGED <<replica, task, ledger, phase, replay, acked, reported>>
  PROVE  LedgerInv'
<1>1. /\ Replayed' = Replayed /\ OpRows' = OpRows /\ (Readable' <=> Readable)
      /\ \A o : Overtaken(o)' <=> Overtaken(o)
      /\ \A t \in Task : (ToAppend(t)' <=> ToAppend(t)) /\ (ToReply(t)' <=> ToReply(t))
  BY DEF Replayed, OpRows, Rows, Readable, Overtaken, ToAppend, ToReply
<1>2. /\ RowsLeft => RowsLeft'
      /\ RowsCounted => RowsCounted'
      /\ RowsKept => RowsKept'
      /\ MarksAreRows => MarksAreRows'
  BY <1>1 DEF RowsLeft, RowsCounted, RowsKept, MarksAreRows
<1>3. /\ NewToFile => NewToFile'
      /\ AnsweredInFile => AnsweredInFile'
      /\ LedgerNamesOnce => LedgerNamesOnce'
  BY <1>1 DEF NewToFile, AnsweredInFile, LedgerNamesOnce
<1> QED BY <1>1, <1>2, <1>3 DEF LedgerInv, FileInv

\* Every step keeps the invariant of the ledger.
LEMMA NextLedger ==
  TypeInv /\ TypeInv' /\ DaemonInv /\ LedgerInv /\ [DaemonNext]_vars => LedgerInv'
<1> SUFFICES ASSUME TypeInv, TypeInv', DaemonInv, LedgerInv, [DaemonNext]_vars
             PROVE  LedgerInv'
  OBVIOUS
<1>1. CASE PeerWrites \/ PeerPulls \/ PeerSends \/ UNCHANGED vars
  BY <1>1, PeerKeepsLedger DEF PeerWrites, PeerPulls, PeerSends, vars
<1>2. ASSUME NEW t \in Task, TaskStep(t) PROVE LedgerInv'
  BY <1>2, RequestKeepsLedger, AppendKeepsLedger DEF TaskStep
<1> QED
  BY <1>1, <1>2, LoadKeepsLedger, ReplayKeepsLedger, OpenKeepsLedger, CreateKeepsLedger,
     KillKeepsLedger DEF DaemonNext

\* The inductive invariant of the ledger holds in every reachable state.
THEOREM LedgerInvariant == DaemonSpec => []LedgerInv
BY InitTyped, NextTyped, InitInv, NextInv, InitLedger, NextLedger, PTL DEF DaemonSpec

\* No two rows below the first line of a readable file have one device and seq.
THEOREM LedgerNamesOnceAlways == DaemonSpec => []LedgerNamesOnce
<1>1. LedgerInv => LedgerNamesOnce
  BY DEF LedgerInv, FileInv, LedgerNamesOnce
<1> QED BY <1>1, LedgerInvariant, PTL

\* An acknowledged write that a restart of the process does not bring back was
\* overtaken in the file, not appended, or is the line taken for the header.
THEOREM AckedAccountedForAlways == DaemonSpec => []AckedAccountedFor
<1>1. TypeInv /\ DaemonInv /\ LedgerInv => AckedAccountedFor
  <2> SUFFICES ASSUME TypeInv, DaemonInv, LedgerInv, phase = "up", Readable, NEW o \in acked
               PROVE  o \in replica.log \cup reported \/ Overtaken(o) \/ ledger[1] = o
    BY DEF AckedAccountedFor
  <2>1. ledger # NoFile /\ replay = <<>> /\ Len(replay) = 0
    BY EmptySeq DEF TypeInv, LedgerShape, DaemonInv, ProcessShape
  <2>2. FileInv /\ Len(ledger) \in Nat /\ Replayed = Len(ledger)
    BY <2>1, FileRows DEF LedgerInv, Replayed
  <2>3. o \in OpRows \cup reported
    BY <2>2 DEF FileInv, AnsweredInFile
  <2>4. ASSUME NEW i \in 1 .. Len(ledger), ledger[i] = o, o \in Op
        PROVE  o \in replica.log \/ Overtaken(o) \/ ledger[1] = o
    <3>1. i = 1 \/ i \in 2 .. Replayed
      BY <2>2
    <3> QED BY <2>2, <2>4, <3>1 DEF FileInv, RowsKept
  <2> QED BY <2>1, <2>3, <2>4, FileRows
<1> QED BY <1>1, InitTyped, NextTyped, DaemonInvariant, LedgerInvariant, PTL DEF DaemonSpec

\* A row that a readable file has below its first line comes back with a restart,
\* unless a later op of its device stands above it.
THEOREM RowsAccountedForAlways == DaemonSpec => []RowsAccountedFor
<1>1. TypeInv /\ DaemonInv /\ LedgerInv => RowsAccountedFor
  <2> SUFFICES ASSUME TypeInv, DaemonInv, LedgerInv, phase = "up", Readable,
                      NEW i \in 2 .. Len(ledger)
               PROVE  ledger[i] \in replica.log \/ Overtaken(ledger[i])
    BY DEF RowsAccountedFor
  <2>1. ledger # NoFile /\ replay = <<>> /\ Len(replay) = 0
    BY EmptySeq DEF TypeInv, LedgerShape, DaemonInv, ProcessShape
  <2>2. FileInv /\ Len(ledger) \in Nat /\ Replayed = Len(ledger) /\ ledger[i] \in Op
    BY <2>1, FileRows DEF LedgerInv, Replayed
  <2> QED BY <2>2 DEF FileInv, RowsKept
<1> QED BY <1>1, InitTyped, NextTyped, DaemonInvariant, LedgerInvariant, PTL DEF DaemonSpec
=============================================================================
