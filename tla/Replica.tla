------------------------------ MODULE Replica ------------------------------
(***************************************************************************)
(* The CRDT of src/core.rs: a last-writer-wins register per entity, stamped *)
(* with a hybrid logical clock (HLC).  This module has no variables: a      *)
(* `Replica` is a value, and each method of the Rust type is an operator    *)
(* from the old value to the new one.  The modules that give a replica      *)
(* callers (Sync, Daemon) extend it.                                        *)
(*                                                                         *)
(* Abstractions.  Device ids are strings that the code only compares, so    *)
(* they are naturals here.  The op kind and the value are one field: a      *)
(* Delete is an op whose value is Deleted.  The log is a set: `ops_since`   *)
(* is the only reader of its order and every caller re-sorts what it gets.  *)
(***************************************************************************)
EXTENDS Integers

CONSTANTS
  Device,    \* ids of the devices that share the dataset
  Entity,    \* keys
  Value,     \* values a client may write
  Deleted,   \* the value of a tombstone
  NoEntry,   \* stands for a key that `entries` does not have
  Clock      \* the readings now_millis() may return

Hlc == [time : Nat, counter : Nat]
Written == Value \cup {Deleted}
Op == [device : Device, seq : Nat \ {0}, entity : Entity, value : Written, hlc : Hlc]
Entry == [value : Written, hlc : Hlc, device : Device]
VersionVector == [Device -> Nat]

ReplicaState ==
  [device : Device, seq : Nat, hlc : Hlc,
   entries : [Entity -> Entry \cup {NoEntry}], vv : VersionVector, log : SUBSET Op]

ASSUME DeviceAssumption == Device \subseteq Nat
ASSUME ClockAssumption == Clock \subseteq Nat
ASSUME DeletedAssumption == Deleted \notin Value
ASSUME NoEntryAssumption == NoEntry \notin Entry

EmptyVv == [d \in Device |-> 0]

\* Replica::new: a device that has seen nothing.
NewReplica(d) ==
  [device |-> d, seq |-> 0, hlc |-> [time |-> 0, counter |-> 0],
   entries |-> [e \in Entity |-> NoEntry], vv |-> EmptyVv, log |-> {}]

(***************************************************************************)
(* The hybrid logical clock.                                               *)
(***************************************************************************)
HlcLess(a, b) == a.time < b.time \/ (a.time = b.time /\ a.counter < b.counter)

\* A plausible bug: the counter is not bumped within one millisecond.
TickWithoutCounter(c, wall) ==
  [time |-> (IF wall > c.time THEN wall ELSE c.time), counter |-> 0]

\* tick: the stamp of the next local op, and the clock after it.
Tick(c, wall) ==
  IF wall > c.time THEN [time |-> wall, counter |-> 0]
                   ELSE [time |-> c.time, counter |-> c.counter + 1]

\* A plausible bug: remote stamps do not move the clock.
ObserveNothing(c, other, wall) == c

\* observe: the clock after a remote stamp `other` is seen.  In the third
\* branch the wall clock may be equal to other.time, and then the counter of
\* the remote stamp is forgotten.
Observe(c, other, wall) ==
  IF other.time > c.time /\ other.time > wall
  THEN [time |-> other.time, counter |-> other.counter + 1]
  ELSE IF other.time = c.time
  THEN [time |-> c.time,
        counter |-> (IF c.counter > other.counter THEN c.counter ELSE other.counter) + 1]
  ELSE IF wall > c.time
  THEN [time |-> wall, counter |-> 0]
  ELSE c

(***************************************************************************)
(* The merge rule.                                                         *)
(***************************************************************************)
\* A plausible bug: no tie-break between devices.
BeatsOnClockOnly(op, cur) == HlcLess(cur.hlc, op.hlc)

\* (op.hlc, op.device) > (cur.hlc, cur.device)
Beats(op, cur) ==
  HlcLess(cur.hlc, op.hlc) \/ (cur.hlc = op.hlc /\ cur.device < op.device)

EntryOf(op) == [value |-> op.value, hlc |-> op.hlc, device |-> op.device]

\* A plausible bug: the op that arrives last wins.
MergeLastArrival(entries, op) == [entries EXCEPT ![op.entity] = EntryOf(op)]

MergeEntry(entries, op) ==
  IF entries[op.entity] = NoEntry \/ Beats(op, entries[op.entity])
  THEN [entries EXCEPT ![op.entity] = EntryOf(op)]
  ELSE entries

\* A plausible bug: the op takes seq before it is incremented.
NewOpFromZero(r, entity, value, wall) ==
  [device |-> r.device, seq |-> r.seq, entity |-> entity, value |-> value,
   hlc |-> Tick(r.hlc, wall)]

\* The op local_change mints: the next seq, stamped with the next tick.
NewOp(r, entity, value, wall) ==
  [device |-> r.device, seq |-> r.seq + 1, entity |-> entity, value |-> value,
   hlc |-> Tick(r.hlc, wall)]

\* A plausible bug: the replica keeps its old seq.
LocalChangeWithoutSeq(r, op) ==
  [device |-> r.device, seq |-> r.seq, hlc |-> op.hlc,
   entries |-> MergeEntry(r.entries, op),
   vv |-> [r.vv EXCEPT ![r.device] = op.seq],
   log |-> r.log \cup {op}]

\* A plausible bug: the vector holds the seq that comes next, not the last one.
LocalChangeMarksNext(r, op) ==
  [LocalChangeWithoutSeq(r, op) EXCEPT !.seq = op.seq, !.vv[r.device] = op.seq + 1]

\* local_change, for the op NewOp returned.
LocalChange(r, op) ==
  [device |-> r.device, seq |-> op.seq, hlc |-> op.hlc,
   entries |-> MergeEntry(r.entries, op),
   vv |-> [r.vv EXCEPT ![r.device] = op.seq],
   log |-> r.log \cup {op}]

AlreadySeen(r, op) == op.seq <= r.vv[op.device]

\* The bug the comment in apply describes: an own op that comes back, from the
\* ledger or from a peer, does not raise seq.
ApplyWithoutSeqFloor(r, op, wall) ==
  IF AlreadySeen(r, op) THEN r ELSE
  [r EXCEPT !.hlc = Observe(r.hlc, op.hlc, wall), !.entries = MergeEntry(r.entries, op),
            !.vv[op.device] = op.seq, !.log = r.log \cup {op}]

\* apply: ignore an op at or below the high-water mark of its device, otherwise
\* take it.  Nothing compares op.seq with the mark plus one.
Apply(r, op, wall) ==
  IF AlreadySeen(r, op) THEN r ELSE
  [device |-> r.device,
   seq |-> IF op.device = r.device /\ op.seq > r.seq THEN op.seq ELSE r.seq,
   hlc |-> Observe(r.hlc, op.hlc, wall),
   entries |-> MergeEntry(r.entries, op),
   vv |-> [r.vv EXCEPT ![op.device] = op.seq],
   log |-> r.log \cup {op}]

\* ops_since: the ops of the log that a holder of `vv` has not seen.
OpsSince(r, vv) == {o \in r.log : o.seq > vv[o.device]}

\* The answer of GET /state, which is also what state_fingerprint hashes.
Visible(r) ==
  [e \in {x \in Entity : r.entries[x] # NoEntry /\ r.entries[x].value # Deleted}
     |-> r.entries[e].value]

\* A plausible bug: the batch is not sorted.
AnyOrder(o, ops) == TRUE

\* sort_by_key(|o| (o.device, o.seq)): o is the next op a batch applies.
IsNext(o, ops) ==
  \A p \in ops : o.device < p.device \/ (o.device = p.device /\ o.seq <= p.seq)

\* What a replica's entries mean: each is the last writer of its key among the
\* ops of the log, and a key without an op has no entry.
EntriesWin(r) ==
  \A e \in Entity :
    \/ /\ r.entries[e] = NoEntry
       /\ \A o \in r.log : o.entity # e
    \/ \E o \in r.log :
         /\ o.entity = e
         /\ r.entries[e] = EntryOf(o)
         /\ \A p \in r.log : p.entity = e => ~ Beats(p, o)
=============================================================================
