---------------------------- MODULE StoreProofs ----------------------------
(***************************************************************************)
(* Proof that Sync implements PrefixStore, for any devices, topology, wall  *)
(* clocks and number of writes and pushes.                                  *)
(*                                                                         *)
(* By the invariant of SyncProofs a version vector says exactly what the    *)
(* log holds, and the entries are the winners of the log.  So what a node   *)
(* shows is the reading of the prefixes it knows, in every state; a step    *)
(* has only to be matched with what it does to histories and vectors.       *)
(***************************************************************************)
EXTENDS SyncStore, SyncProofs, SequenceTheorems

\* What holds of the mapped variables in every reachable state.
HistoryOf(d) ==
  /\ OwnHistory[d] \in Seq(Op)
  /\ Len(OwnHistory[d]) = replica[d].seq
  /\ \A s \in 1 .. replica[d].seq :
       /\ OwnHistory[d][s] \in replica[d].log
       /\ OwnHistory[d][s].device = d
       /\ OwnHistory[d][s].seq = s
  /\ \A o \in replica[d].log : o.device = d =>
       o.seq \in 1 .. replica[d].seq /\ OwnHistory[d][o.seq] = o

StoreFacts ==
  \A n \in Device :
    /\ HistoryOf(n)
    /\ Store!KnownOps(OwnHistory, Vectors[n]) = replica[n].log
    /\ Views[n] = Store!Reading(replica[n].log)

-----------------------------------------------------------------------------
(***************************************************************************)
(* The mapping in one state.                                               *)
(***************************************************************************)
\* The history of a device holds its own ops, each at its seq.
LEMMA HistoryHolds ==
  ASSUME TypeOK, LogsInv, NEW d \in Device
  PROVE  HistoryOf(d)
<1> DEFINE k == replica[d].seq
<1>1. k \in Nat /\ k = replica[d].vv[d]
  BY ReplicaFields DEF LogsInv, SeqIsOwnMark
<1>2. {o.seq : o \in {x \in replica[d].log : x.device = d}} = 1 .. k
  BY <1>1 DEF LogsInv, NoGap
<1>3. ASSUME NEW o \in replica[d].log, o.device = d PROVE o.seq \in 1 .. k /\ OwnOp(d, o.seq) = o
  <2>1. \A p \in replica[d].log : p.device = d /\ p.seq = o.seq => p = o
    BY <1>3, SameSeqSameOp
  <2>2. OwnOp(d, o.seq) = o
    BY <1>3, <2>1 DEF OwnOp
  <2>3. o.seq \in {q.seq : q \in {x \in replica[d].log : x.device = d}}
    BY <1>3
  <2> QED BY <1>2, <2>2, <2>3
<1>4. ASSUME NEW s \in 1 .. k
      PROVE  OwnOp(d, s) \in replica[d].log /\ OwnOp(d, s).device = d /\ OwnOp(d, s).seq = s
  <2>1. PICK o \in replica[d].log : o.device = d /\ o.seq = s
    BY <1>2
  <2> QED BY <1>3, <2>1
<1>5. OwnHistory[d] = [s \in 1 .. k |-> OwnOp(d, s)]
  BY DEF OwnHistory
<1> HIDE DEF k
<1>6. \A s \in 1 .. k : OwnHistory[d][s] = OwnOp(d, s)
  BY <1>5
<1>7. OwnHistory[d] \in [1 .. k -> Op]
  BY <1>4, <1>5, ReplicaFields
<1>8. OwnHistory[d] \in Seq(Op)
  BY <1>1, <1>7, SeqDef
<1>9. Len(OwnHistory[d]) = k
  <2>1. /\ DOMAIN OwnHistory[d] = 1 .. Len(OwnHistory[d])
        /\ DOMAIN OwnHistory[d] = 1 .. k
        /\ Len(OwnHistory[d]) \in Nat
    BY <1>7, <1>8, LenProperties
  <2> QED BY <1>1, <2>1
<1> QED BY <1>3, <1>4, <1>6, <1>8, <1>9 DEF HistoryOf, k

\* The prefixes that a vector claims are what the log holds.
LEMMA KnownIsLog ==
  ASSUME TypeOK, LogsInv, NEW n \in Device
  PROVE  Store!KnownOps(OwnHistory, Vectors[n]) = replica[n].log
<1>1. Vectors[n] = replica[n].vv
  BY DEF Vectors
<1>2. ASSUME NEW o \in replica[n].log PROVE o \in Store!KnownOps(OwnHistory, Vectors[n])
  <2>1. o.device \in Device /\ o \in replica[o.device].log
    BY ReplicaFields DEF Op, LogsInv, LogsGenuine, Genuine
  <2>2. o.seq \in {q.seq : q \in {x \in replica[n].log : x.device = o.device}}
    OBVIOUS
  <2>3. o.seq \in 1 .. replica[n].vv[o.device]
    BY <2>1, <2>2 DEF LogsInv, NoGap
  <2>4. OwnHistory[o.device][o.seq] = o
    BY <2>1, HistoryHolds DEF HistoryOf
  <2> QED BY <1>1, <2>1, <2>3, <2>4 DEF Store!KnownOps
<1>3. ASSUME NEW d \in Device, NEW s \in 1 .. replica[n].vv[d]
      PROVE  OwnHistory[d][s] \in replica[n].log
  <2>1. s \in {q.seq : q \in {x \in replica[n].log : x.device = d}}
    BY DEF LogsInv, NoGap
  <2>2. PICK o \in replica[n].log : o.device = d /\ o.seq = s
    BY <2>1
  <2>3. o \in replica[d].log
    BY <2>2 DEF LogsInv, LogsGenuine, Genuine
  <2>4. OwnHistory[d][o.seq] = o
    BY <2>2, <2>3, HistoryHolds DEF HistoryOf
  <2> QED BY <2>2, <2>4
<1> QED BY <1>1, <1>2, <1>3 DEF Store!KnownOps

\* What a node shows is the last-writer-wins reading of its log.
LEMMA ViewIsReading ==
  ASSUME TypeOK, LogsInv, NEW n \in Device
  PROVE  Views[n] = Store!Reading(replica[n].log)
<1> DEFINE r == replica[n]
           log == replica[n].log
<1>0. \A o : EntryOf(o).value = o.value
  BY DEF EntryOf
<1>1. EntriesWin(r) /\ log \subseteq Op
  BY ReplicaFields DEF LogsInv, EntriesAreWinners
<1>2. \A a, b : Store!Beats(a, b) <=> Beats(a, b)
  BY DEF Store!Beats, Beats, Store!HlcLess, HlcLess
<1>3. \A e : Store!Winners(log, e)
               = {o \in log : o.entity = e /\ \A p \in log : p.entity = e => ~ Beats(p, o)}
  BY <1>2 DEF Store!Winners
<1>4. ASSUME NEW e \in Entity, NEW o \in Store!Winners(log, e)
      PROVE  /\ r.entries[e] = EntryOf(o) /\ r.entries[e] # NoEntry
             /\ Store!Winners(log, e) = {o}
  <2>1. o \in log /\ o.entity = e /\ o \in Op /\ \A p \in log : p.entity = e => ~ Beats(p, o)
    BY <1>1, <1>3
  <2>2. ASSUME NEW w \in Store!Winners(log, e) PROVE w = o
    <3>1. w \in log /\ w.entity = e /\ w \in Op /\ ~ Beats(o, w) /\ ~ Beats(w, o)
      BY <1>1, <1>3, <2>1
    <3>2. o.hlc = w.hlc /\ o.device = w.device
      BY <2>1, <3>1, BeatsOrder
    <3> QED BY <2>1, <3>1, <3>2, SameSeqSameOp
  <2>3. PICK w \in log : /\ w.entity = e /\ r.entries[e] = EntryOf(w)
                         /\ \A p \in log : p.entity = e => ~ Beats(p, w)
    BY <1>1, <2>1 DEF EntriesWin
  <2>4. w \in Store!Winners(log, e)
    BY <1>3, <2>3
  <2>5. w = o
    BY <2>2, <2>4
  <2> QED BY <2>1, <2>2, <2>3, <2>5, BeatsEntry
<1>5. ASSUME NEW e \in Entity, r.entries[e] # NoEntry
      PROVE  \E o \in Store!Winners(log, e) : r.entries[e] = EntryOf(o)
  BY <1>1, <1>3, <1>5 DEF EntriesWin
<1>6. {x \in Entity : r.entries[x] # NoEntry /\ r.entries[x].value # Deleted}
        = {e \in Entity : \E o \in Store!Winners(log, e) : o.value # Deleted}
  <2>1. ASSUME NEW e \in Entity, r.entries[e] # NoEntry, r.entries[e].value # Deleted
        PROVE  \E o \in Store!Winners(log, e) : o.value # Deleted
    BY <1>5, <1>0, <2>1
  <2>2. ASSUME NEW e \in Entity, NEW o \in Store!Winners(log, e), o.value # Deleted
        PROVE  r.entries[e] # NoEntry /\ r.entries[e].value # Deleted
    BY <1>4, <1>0, <2>2
  <2> QED BY <2>1, <2>2
<1>7. ASSUME NEW e \in Entity, \E o \in Store!Winners(log, e) : o.value # Deleted
      PROVE  r.entries[e].value = (CHOOSE o \in Store!Winners(log, e) : TRUE).value
  <2>1. PICK o \in Store!Winners(log, e) : TRUE
    BY <1>7
  <2>2. Store!Winners(log, e) = {o} /\ r.entries[e].value = o.value
    BY <1>0, <1>4, <2>1
  <2>3. (CHOOSE w \in {o} : TRUE) = o
    OBVIOUS
  <2> QED BY <2>2, <2>3
<1> HIDE DEF r, log
<1>8. Visible(r) = Store!Reading(log)
  BY <1>6, <1>7 DEF Visible, Store!Reading
<1> QED BY <1>8 DEF Views, r, log

\* All of it.
LEMMA FactsHold == TypeOK /\ LogsInv => StoreFacts
BY HistoryHolds, KnownIsLog, ViewIsReading DEF StoreFacts

\* It holds after a step as well.
LEMMA FactsHoldNext == TypeOK' /\ LogsInv' => StoreFacts'
BY FactsHold, PTL

-----------------------------------------------------------------------------
(***************************************************************************)
(* The steps.                                                              *)
(***************************************************************************)
\* A node that logs no new op of its own keeps its history.
LEMMA HistoryKept ==
  ASSUME StoreFacts, StoreFacts', NEW d \in Device,
         replica'[d].seq = replica[d].seq, replica[d].log \subseteq replica'[d].log
  PROVE  OwnHistory'[d] = OwnHistory[d]
<1>1. /\ OwnHistory[d] \in Seq(Op) /\ OwnHistory'[d] \in Seq(Op)
      /\ Len(OwnHistory[d]) = replica[d].seq /\ Len(OwnHistory'[d]) = replica[d].seq
  BY DEF StoreFacts, HistoryOf
<1>2. ASSUME NEW s \in 1 .. replica[d].seq PROVE OwnHistory'[d][s] = OwnHistory[d][s]
  <2>1. /\ OwnHistory[d][s] \in replica'[d].log
        /\ OwnHistory[d][s].device = d
        /\ OwnHistory[d][s].seq = s
    BY DEF StoreFacts, HistoryOf
  <2> QED BY <2>1 DEF StoreFacts, HistoryOf
<1> QED BY <1>1, <1>2, SeqEqual

\* A local write appends one op, stamped later, and shows it.
LEMMA WriteMaps ==
  ASSUME TypeOK, LogsInv, TypeOK', LogsInv', NEW n \in Device, LocalWrite(n)
  PROVE  Store!StoreNext
<1>0. StoreFacts /\ StoreFacts'
  BY FactsHold, FactsHoldNext
<1>1. PICK e \in Entity, v \in Written, wall \in Clock :
        replica' = [replica EXCEPT ![n] =
                      LocalChange(replica[n], NewOp(replica[n], e, v, wall))]
  BY DEF LocalWrite
<1> DEFINE op == NewOp(replica[n], e, v, wall)
           h == OwnHistory[n]
<1>2. op.device = n /\ op.seq = replica[n].seq + 1 /\ op \in Op
  <2>1. op \in Op
    BY ReplicaFields, NewOpType, ClockAssumption
  <2> QED BY <2>1 DEF NewOp, LogsInv, SeqIsOwnMark
<1> HIDE DEF op
<1>3. /\ replica'[n].seq = op.seq
      /\ replica'[n].vv = [replica[n].vv EXCEPT ![n] = op.seq]
      /\ replica'[n].log = replica[n].log \cup {op}
      /\ \A m \in Device : m # n => replica'[m] = replica[m]
  BY <1>1 DEF op, TypeOK, LocalChange, LogsInv, SeqIsOwnMark
<1>4. /\ h \in Seq(Op) /\ Len(h) = replica[n].seq /\ Len(h) \in Nat
      /\ OwnHistory'[n] \in Seq(Op) /\ Len(OwnHistory'[n]) = Len(h) + 1
  <2>1. h \in Seq(Op) /\ Len(h) = replica[n].seq /\ replica[n].seq \in Nat
    BY <1>0, ReplicaFields DEF StoreFacts, HistoryOf
  <2>2. OwnHistory'[n] \in Seq(Op) /\ Len(OwnHistory'[n]) = replica'[n].seq
    BY <1>0 DEF StoreFacts, HistoryOf
  <2> QED BY <1>2, <1>3, <2>1, <2>2
<1>5. OwnHistory'[n][Len(h) + 1] = op
  BY <1>0, <1>2, <1>3, <1>4 DEF StoreFacts, HistoryOf
<1>6. ASSUME NEW s \in 1 .. Len(h) PROVE OwnHistory'[n][s] = h[s]
  <2>1. h[s] \in replica'[n].log /\ h[s].device = n /\ h[s].seq = s
    BY <1>0, <1>3, <1>4 DEF StoreFacts, HistoryOf
  <2> QED BY <1>0, <2>1 DEF StoreFacts, HistoryOf
<1>7. OwnHistory'[n] = Append(h, op)
  <2>1. /\ Append(h, op) \in Seq(Op) /\ Len(Append(h, op)) = Len(h) + 1
        /\ \A s \in 1 .. Len(h) : Append(h, op)[s] = h[s]
        /\ Append(h, op)[Len(h) + 1] = op
    BY <1>2, <1>4, AppendProperties
  <2>2. \A s \in 1 .. Len(h) + 1 : OwnHistory'[n][s] = Append(h, op)[s]
    BY <1>4, <1>5, <1>6, <2>1
  <2> QED BY <1>4, <2>1, <2>2, SeqEqual
<1>8. OwnHistory' = [OwnHistory EXCEPT ![n] = Append(h, op)]
  <2>1. \A m \in Device : m # n => OwnHistory'[m] = OwnHistory[m]
    BY <1>0, <1>3, HistoryKept
  <2>2. /\ OwnHistory = [m \in Device |-> OwnHistory[m]]
        /\ OwnHistory' = [m \in Device |-> OwnHistory'[m]]
    BY DEF OwnHistory
  <2> QED BY <1>7, <2>1, <2>2
<1>9. h = <<>> \/ Store!HlcLess(h[Len(h)].hlc, op.hlc)
  <2> SUFFICES ASSUME h # <<>> PROVE HlcLess(h[Len(h)].hlc, op.hlc)
    BY DEF Store!HlcLess, HlcLess
  <2>1. Len(h) \in 1 .. Len(h)
    BY <1>4, EmptySeq
  <2> DEFINE last == h[Len(h)]
  <2>2. last \in replica[n].log /\ last.device = n /\ last.seq = Len(h)
    BY <1>0, <1>4, <2>1 DEF StoreFacts, HistoryOf
  <2>3. last \in OwnedBy(n)' /\ op \in OwnedBy(n)'
    BY <1>2, <1>3, <2>2 DEF OwnedBy
  <2>4. last.seq < op.seq /\ last.seq \in Nat /\ op.seq \in Nat
    BY <1>2, <1>4, <2>2
  <2> HIDE DEF last
  <2>5. \/ last = op
        \/ last.seq < op.seq /\ HlcLess(last.hlc, op.hlc)
        \/ op.seq < last.seq /\ HlcLess(op.hlc, last.hlc)
    BY <2>3 DEF LogsInv, OwnOpsOrdered
  <2>6. HlcLess(last.hlc, op.hlc)
    BY <2>4, <2>5
  <2> QED BY <2>6 DEF last
<1>10. Vectors' = [Vectors EXCEPT ![n][n] = Vectors[n][n] + 1]
  <2>1. Vectors[n][n] = Len(h)
    BY <1>4 DEF Vectors, LogsInv, SeqIsOwnMark
  <2>2. Vectors' = [Vectors EXCEPT ![n][n] = Len(h) + 1]
    BY <1>2, <1>3, <1>4 DEF Vectors
  <2> QED BY <2>1, <2>2
<1>11. Views' = [Views EXCEPT ![n] = Store!Reading(Store!KnownOps(OwnHistory', Vectors'[n]))]
  <2>1. Views'[n] = Store!Reading(Store!KnownOps(OwnHistory', Vectors'[n]))
    BY <1>0 DEF StoreFacts
  <2>2. \A m \in Device : m # n => Views'[m] = Views[m]
    BY <1>3 DEF Views
  <2>3. Views = [m \in Device |-> Views[m]] /\ Views' = [m \in Device |-> Views'[m]]
    BY DEF Views
  <2> QED BY <2>1, <2>2, <2>3
<1>12. Store!Write(n)
  <2>1. OwnHistory'[n][Len(OwnHistory'[n])] = op
    BY <1>4, <1>5
  <2> QED BY <1>2, <1>4, <1>8, <1>9, <1>10, <1>11, <2>1 DEF Store!Write
<1> QED BY <1>12 DEF Store!StoreNext

\* A step that touches no replica changes nothing of the store.
LEMMA StutterMaps ==
  ASSUME UNCHANGED replica
  PROVE  UNCHANGED Store!storeVars
BY DEF Store!storeVars, OwnHistory, OwnOp, Vectors, Views

\* An apply learns the next op of its writer, or nothing.
LEMMA ApplyMaps ==
  ASSUME TypeOK, LogsInv, TypeOK', LogsInv', NEW n \in Device, NEW op \in Op, NEW wall \in Nat,
         op \in replica[op.device].log,
         op.seq <= replica[n].vv[op.device] + 1,
         replica' = [replica EXCEPT ![n] = Apply(replica[n], op, wall)]
  PROVE  [Store!StoreNext]_(Store!storeVars)
<1>0. StoreFacts /\ StoreFacts' /\ op.device \in Device /\ op.seq \in Nat
  BY FactsHold, FactsHoldNext DEF Op
<1>1. CASE AlreadySeen(replica[n], op)
  <2>1. replica' = replica
    BY <1>1 DEF Apply, TypeOK
  <2> QED BY <2>1, StutterMaps
<1>2. CASE ~ AlreadySeen(replica[n], op)
  <2>1. /\ op.device # n
        /\ replica'[n].device = n
        /\ replica'[n].seq = replica[n].seq
        /\ replica'[n].hlc = Observe(replica[n].hlc, op.hlc, wall)
        /\ replica'[n].entries = MergeEntry(replica[n].entries, op)
        /\ replica'[n].vv = [replica[n].vv EXCEPT ![op.device] = op.seq]
        /\ replica'[n].log = replica[n].log \cup {op}
        /\ \A m \in Device : m # n => replica'[m] = replica[m]
    BY <1>2, ApplyEffect
  <2> DEFINE d == op.device
  <2>2. op.seq = replica[n].vv[d] + 1 /\ replica[n].vv[d] \in Nat
    BY <1>0, <1>2, ReplicaFields DEF AlreadySeen
  <2>3. OwnHistory' = OwnHistory
    <3>1. \A m \in Device : OwnHistory'[m] = OwnHistory[m]
      BY <1>0, <2>1, HistoryKept
    <3>2. /\ OwnHistory = [m \in Device |-> OwnHistory[m]]
          /\ OwnHistory' = [m \in Device |-> OwnHistory'[m]]
      BY DEF OwnHistory
    <3> QED BY <3>1, <3>2
  <2>4. Vectors[n][d] < Len(OwnHistory[d])
    <3>1. op.seq \in 1 .. replica[d].seq /\ Len(OwnHistory[d]) = replica[d].seq
      BY <1>0 DEF StoreFacts, HistoryOf
    <3>2. replica[d].seq \in Nat /\ Vectors[n][d] = replica[n].vv[d]
      BY <1>0, ReplicaFields DEF Vectors
    <3> QED BY <2>2, <3>1, <3>2
  <2>5. Vectors' = [Vectors EXCEPT ![n][d] = Vectors[n][d] + 1]
    <3>1. Vectors'[n] = [Vectors[n] EXCEPT ![d] = Vectors[n][d] + 1]
      BY <2>1, <2>2 DEF Vectors
    <3>2. \A m \in Device : m # n => Vectors'[m] = Vectors[m]
      BY <2>1 DEF Vectors
    <3>3. Vectors = [m \in Device |-> Vectors[m]] /\ Vectors' = [m \in Device |-> Vectors'[m]]
      BY DEF Vectors
    <3> QED BY <3>1, <3>2, <3>3
  <2>6. Views' = [Views EXCEPT ![n] = Store!Reading(Store!KnownOps(OwnHistory, Vectors'[n]))]
    <3>1. Views'[n] = Store!Reading(Store!KnownOps(OwnHistory, Vectors'[n]))
      BY <1>0, <2>3 DEF StoreFacts
    <3>2. \A m \in Device : m # n => Views'[m] = Views[m]
      BY <2>1 DEF Views
    <3>3. Views = [m \in Device |-> Views[m]] /\ Views' = [m \in Device |-> Views'[m]]
      BY DEF Views
    <3> QED BY <3>1, <3>2, <3>3
  <2>7. Store!Learn(n, d)
    BY <2>3, <2>4, <2>5, <2>6 DEF Store!Learn
  <2> QED BY <1>0, <2>7 DEF Store!StoreNext
<1> QED BY <1>1, <1>2

\* Nobody has written, learnt or shown anything at first.
LEMMA InitMaps == Init => Store!StoreInit
<1> SUFFICES ASSUME Init PROVE Store!StoreInit
  OBVIOUS
<1>1. TypeOK /\ LogsInv
  BY InitType, InitSyncInv DEF SyncInv
<1>2. StoreFacts
  BY <1>1, FactsHold
<1>3. \A n \in Device : replica[n].seq = 0 /\ replica[n].vv = EmptyVv /\ replica[n].log = {}
  BY DEF Init, NewReplica
<1>4. OwnHistory = [d \in Device |-> <<>>]
  <2>1. ASSUME NEW d \in Device PROVE OwnHistory[d] = <<>>
    <3>1. OwnHistory[d] \in Seq(Op) /\ Len(OwnHistory[d]) = 0
      BY <1>2, <1>3 DEF StoreFacts, HistoryOf
    <3> QED BY <3>1, EmptySeq
  <2>2. OwnHistory = [d \in Device |-> OwnHistory[d]]
    BY DEF OwnHistory
  <2> QED BY <2>1, <2>2
<1>5. Vectors = [n \in Device |-> Store!EmptyVv]
  BY <1>3 DEF Vectors, EmptyVv, Store!EmptyVv
<1>6. Views = [n \in Device |-> Store!Reading({})]
  <2>1. \A n \in Device : Views[n] = Store!Reading({})
    BY <1>2, <1>3 DEF StoreFacts
  <2>2. Views = [n \in Device |-> Views[n]]
    BY DEF Views
  <2> QED BY <2>1, <2>2
<1> QED BY <1>4, <1>5, <1>6 DEF Store!StoreInit

\* Every step of the protocol is a step of the store, or none.
LEMMA NextMaps ==
  TypeOK /\ SyncInv /\ [Next]_vars => [Store!StoreNext]_(Store!storeVars)
<1> SUFFICES ASSUME TypeOK, SyncInv, [Next]_vars
             PROVE  [Store!StoreNext]_(Store!storeVars)
  OBVIOUS
<1> USE ClockAssumption
<1>1. TypeOK' /\ LogsInv /\ LogsInv'
  BY NextType, NextSyncInv DEF SyncInv
<1>2. ASSUME NEW n \in Device, LocalWrite(n) PROVE Store!StoreNext
  BY <1>1, <1>2, WriteMaps
<1>3. ASSUME NEW n \in Device, ApplyPulled(n) PROVE [Store!StoreNext]_(Store!storeVars)
  <2>1. PICK o \in client[n].ops, wall \in Clock :
          /\ IsNext(o, client[n].ops)
          /\ replica' = [replica EXCEPT ![n] = Apply(replica[n], o, wall)]
    BY <1>3 DEF ApplyPulled
  <2>2. client[n].ops \in SUBSET Op /\ ClientBatch(n) /\ o \in Op
    BY DEF TypeOK, ClientState, SyncInv
  <2>3. o.seq <= replica[n].vv[o.device] + 1 /\ o \in replica[o.device].log
    BY <2>1, <2>2, NextOfBatch DEF ClientBatch, Genuine
  <2> QED BY <1>1, <2>1, <2>2, <2>3, ApplyMaps
<1>4. ASSUME NEW k \in Slot, ApplyPushed(k) PROVE [Store!StoreNext]_(Store!storeVars)
  <2> DEFINE n == push[k].to
  <2>1. PICK o \in push[k].ops, wall \in Clock :
          /\ IsNext(o, push[k].ops)
          /\ replica' = [replica EXCEPT ![n] = Apply(replica[n], o, wall)]
    BY <1>4 DEF ApplyPushed
  <2>2. /\ push[k].ops \in SUBSET Op /\ n \in Device
        /\ Genuine(push[k].ops) /\ LeavesNoGap(push[k].ops, n) /\ o \in Op
    BY <1>4 DEF ApplyPushed, TypeOK, PushState, SyncInv, PushBatch
  <2> HIDE DEF n
  <2>3. o.seq <= replica[n].vv[o.device] + 1 /\ o \in replica[o.device].log
    BY <2>1, <2>2, NextOfBatch DEF Genuine
  <2> QED BY <1>1, <2>1, <2>2, <2>3, ApplyMaps
<1>5. CASE UNCHANGED replica
  BY <1>5, StutterMaps
<1> QED
  BY <1>2, <1>3, <1>4, <1>5
  DEF Next, NodeStep, PushStep, SetOnline, StartTick, RequestOps, ServeOps, ServeVv,
      SendPush, TimeOut, AcceptPush, LosePush, AnswerPush, vars

\* The protocol implements the store: whatever the topology, the interleaving
\* and the losses, a device learns every other device's writes one by one in
\* their order, and shows the last-writer-wins reading of what it has learnt.
THEOREM SyncImplementsStore == Spec => ImplementsStore
<1>1. Init => Store!StoreInit
  BY InitMaps
<1>2. TypeOK /\ SyncInv /\ [Next]_vars => [Store!StoreNext]_(Store!storeVars)
  BY NextMaps
<1> QED
  BY <1>1, <1>2, TypeCorrect, SyncInvariant, PTL DEF Spec, ImplementsStore, Store!StoreSpec
=============================================================================
