---------------------------- MODULE ReplicaProofs ----------------------------
(***************************************************************************)
(* What the operators of Replica guarantee, for every replica, op and clock *)
(* reading: the clock, the order the merge rule compares by, and the        *)
(* meaning of `entries`.  The proofs about Sync cite these lemmas.          *)
(***************************************************************************)
EXTENDS Replica, TLAPS

(***************************************************************************)
(* The clock.                                                              *)
(***************************************************************************)
\* HLC stamps are totally ordered (the derived Ord of Hlc).
LEMMA HlcOrder ==
  ASSUME NEW a \in Hlc, NEW b \in Hlc, NEW c \in Hlc
  PROVE  /\ ~ HlcLess(a, a)
         /\ HlcLess(a, b) /\ HlcLess(b, c) => HlcLess(a, c)
         /\ a = b \/ HlcLess(a, b) \/ HlcLess(b, a)
BY SMT DEF Hlc, HlcLess

\* tick moves the clock strictly forward: two local ops never share a stamp.
LEMMA TickAdvances ==
  ASSUME NEW c \in Hlc, NEW wall \in Nat
  PROVE  /\ Tick(c, wall) \in Hlc
         /\ HlcLess(c, Tick(c, wall))
         /\ c.time <= Tick(c, wall).time
BY SMT DEF Hlc, HlcLess, Tick

\* observe never moves the clock back, and takes it to the millisecond of the
\* remote stamp at least.  (That it passes the remote stamp is false.)
LEMMA ObserveAdvances ==
  ASSUME NEW c \in Hlc, NEW other \in Hlc, NEW wall \in Nat
  PROVE  /\ Observe(c, other, wall) \in Hlc
         /\ Observe(c, other, wall) = c \/ HlcLess(c, Observe(c, other, wall))
         /\ c.time <= Observe(c, other, wall).time
         /\ other.time <= Observe(c, other, wall).time
BY SMT DEF Hlc, HlcLess, Observe

(***************************************************************************)
(* The merge rule.                                                         *)
(***************************************************************************)
\* (hlc, device) is a strict total order: no op beats itself, the order is
\* transitive, and two ops neither of which beats the other have the same
\* stamp and device.
LEMMA BeatsOrder ==
  ASSUME NEW a \in Op, NEW b \in Op, NEW c \in Op
  PROVE  /\ ~ Beats(a, a)
         /\ ~ Beats(a, b) /\ Beats(c, b) => ~ Beats(a, c)
         /\ ~ Beats(a, b) /\ ~ Beats(b, a) => a.hlc = b.hlc /\ a.device = b.device
<1> USE DeviceAssumption
<1>1. /\ a.hlc \in Hlc /\ b.hlc \in Hlc /\ c.hlc \in Hlc
      /\ a.device \in Nat /\ b.device \in Nat /\ c.device \in Nat
  BY DEF Op
<1> QED BY <1>1, SMT DEF Beats, HlcLess, Hlc

\* What merge_entry stores of an op is as strong as the op itself.
LEMMA BeatsEntry ==
  ASSUME NEW a \in Op, NEW b \in Op
  PROVE  /\ EntryOf(b) \in Entry
         /\ EntryOf(b) # NoEntry
         /\ Beats(a, EntryOf(b)) <=> Beats(a, b)
BY NoEntryAssumption DEF EntryOf, Entry, Op, Beats

\* Merging an op keeps every entry the last writer of its key, whatever the
\* order ops arrive in.
LEMMA MergeKeepsWinners ==
  ASSUME NEW r \in ReplicaState, NEW q \in ReplicaState, NEW op \in Op,
         EntriesWin(r),
         q.entries = MergeEntry(r.entries, op),
         q.log = r.log \cup {op}
  PROVE  EntriesWin(q)
<1> SUFFICES ASSUME NEW e \in Entity
             PROVE  \/ /\ q.entries[e] = NoEntry
                       /\ \A o \in q.log : o.entity # e
                    \/ \E o \in q.log :
                         /\ o.entity = e
                         /\ q.entries[e] = EntryOf(o)
                         /\ \A p \in q.log : p.entity = e => ~ Beats(p, o)
  BY DEF EntriesWin
<1>1. /\ r.log \subseteq Op
      /\ r.entries \in [Entity -> Entry \cup {NoEntry}]
      /\ op.entity \in Entity
  BY DEF ReplicaState, Op
<1>2. CASE e # op.entity
  <2>1. q.entries[e] = r.entries[e]
    BY <1>1, <1>2 DEF MergeEntry
  <2> QED BY <1>2, <2>1 DEF EntriesWin
<1>3. CASE e = op.entity /\ r.entries[e] = NoEntry
  <2>1. q.entries[e] = EntryOf(op)
    BY <1>1, <1>3 DEF MergeEntry
  <2>2. \A p \in r.log : p.entity # e
    BY <1>1, <1>3, BeatsEntry DEF EntriesWin
  <2>3. ~ Beats(op, op)
    BY BeatsOrder
  <2> QED BY <1>3, <2>1, <2>2, <2>3
<1>4. CASE e = op.entity /\ r.entries[e] # NoEntry
  <2>1. PICK w \in r.log : /\ w.entity = e
                           /\ r.entries[e] = EntryOf(w)
                           /\ \A p \in r.log : p.entity = e => ~ Beats(p, w)
    BY <1>4 DEF EntriesWin
  <2>2. w \in Op
    BY <1>1
  <2>3. CASE Beats(op, w)
    <3>1. q.entries[e] = EntryOf(op)
      BY <1>1, <1>4, <2>1, <2>2, <2>3, BeatsEntry DEF MergeEntry
    <3>2. \A p \in r.log : p.entity = e => ~ Beats(p, op)
      BY <1>1, <2>1, <2>2, <2>3, BeatsOrder
    <3>3. ~ Beats(op, op)
      BY BeatsOrder
    <3> QED BY <1>4, <3>1, <3>2, <3>3
  <2>4. CASE ~ Beats(op, w)
    <3>1. q.entries[e] = EntryOf(w)
      BY <1>1, <1>4, <2>1, <2>2, <2>4, BeatsEntry DEF MergeEntry
    <3> QED BY <2>1, <2>4, <3>1
  <2> QED BY <2>3, <2>4
<1> QED BY <1>2, <1>3, <1>4

(***************************************************************************)
(* The methods are total on replicas.                                      *)
(***************************************************************************)
LEMMA NewReplicaType == ASSUME NEW d \in Device PROVE NewReplica(d) \in ReplicaState
BY SMT DEF NewReplica, ReplicaState, EmptyVv, VersionVector, Hlc

\* merge_entry turns entries into entries.
LEMMA MergeEntryType ==
  ASSUME NEW entries \in [Entity -> Entry \cup {NoEntry}], NEW op \in Op
  PROVE  MergeEntry(entries, op) \in [Entity -> Entry \cup {NoEntry}]
<1>1. EntryOf(op) \in Entry
  BY BeatsEntry
<1> QED BY <1>1 DEF MergeEntry, Op

\* local_change mints a well-formed op, with a seq above zero.
LEMMA NewOpType ==
  ASSUME NEW r \in ReplicaState, NEW e \in Entity, NEW v \in Written, NEW wall \in Nat
  PROVE  NewOp(r, e, v, wall) \in Op
<1>1. r.device \in Device /\ r.seq \in Nat /\ r.hlc \in Hlc
  BY DEF ReplicaState
<1>2. Tick(r.hlc, wall) \in Hlc
  BY <1>1, TickAdvances
<1>3. r.seq + 1 \in Nat \ {0}
  BY <1>1
<1> QED BY <1>1, <1>2, <1>3 DEF NewOp, Op

\* local_change turns a replica into a replica.
LEMMA LocalChangeType ==
  ASSUME NEW r \in ReplicaState, NEW op \in Op
  PROVE  LocalChange(r, op) \in ReplicaState
<1>1. MergeEntry(r.entries, op) \in [Entity -> Entry \cup {NoEntry}]
  BY MergeEntryType DEF ReplicaState
<1> QED BY <1>1 DEF LocalChange, ReplicaState, Op, VersionVector

\* apply turns a replica into a replica, whether or not it takes the op.
LEMMA ApplyType ==
  ASSUME NEW r \in ReplicaState, NEW op \in Op, NEW wall \in Nat
  PROVE  Apply(r, op, wall) \in ReplicaState
<1>1. MergeEntry(r.entries, op) \in [Entity -> Entry \cup {NoEntry}]
  BY MergeEntryType DEF ReplicaState
<1>2. Observe(r.hlc, op.hlc, wall) \in Hlc
  BY ObserveAdvances DEF ReplicaState, Op
<1> QED BY <1>1, <1>2 DEF Apply, ReplicaState, Op, VersionVector
=============================================================================
