------------------------------- MODULE Daemon -------------------------------
(***************************************************************************)
(* One syncd process, its ledger file and one peer: the startup of          *)
(* src/main.rs, the order in which its handlers change the replica, append  *)
(* to the ledger and answer, and src/persist.rs.  The process may be killed *)
(* at any moment and starts again from the file.                            *)
(*                                                                         *)
(* Every op goes through two critical sections: one of the replica's mutex  *)
(* (local_change, apply), one of the file's (append).  Between the two it   *)
(* is in memory only, though peers may already pull it, and another task    *)
(* may get to the file first.                                               *)
(*                                                                         *)
(* The peer is a replica that is never killed and whose exchange with the   *)
(* daemon is one op at a time (Sync models the exchange itself).            *)
(***************************************************************************)
EXTENDS Replica, Sequences, FiniteSets

CONSTANTS
  Me,        \* the device of the daemon
  Peer,      \* the device of the peer
  Task,      \* bound: requests the daemon handles at once
  Idle,      \* a task without a request
  NoFile,    \* there is no ledger yet
  Header,    \* the row "device,seq,entity,kind,value,hlc"
  Torn,      \* a row cut short, without its newline
  Malformed, \* a complete line that is not a row
  Faults,    \* which faults beside a kill may happen, of AllFaults
  MaxSeq,    \* bound: MaxSeq[d] is the number of local writes of device d
  MaxKills,  \* bound: how often the process is killed
  MaxFailed  \* bound: how many ops cannot be appended

\* "append": an append fails and writes nothing.  "tear": it fails half-way (a
\* full disk).  "create": a kill between the creation of the file and its header.
\* "cut": a kill between two writes of one append, which a row longer than the
\* csv writer's buffer takes.
AllFaults == {"append", "tear", "create", "cut"}

ASSUME DevicesAssumption == Me \in Device /\ Peer \in Device /\ Me # Peer
ASSUME FaultsAssumption == Faults \subseteq AllFaults
ASSUME BoundsAssumption == MaxSeq \in [Device -> Nat] /\ MaxKills \in Nat /\ MaxFailed \in Nat

VARIABLES
  replica,  \* App::replica, behind its mutex
  task,     \* the requests being handled
  ledger,   \* the file
  phase,    \* what the process is doing
  replay,   \* the ops that load returned and startup has not applied yet
  peer,     \* the replica of the peer
  mail,     \* a push of the peer that has not arrived yet
  acked,    \* the local ops that were answered 200
  reported, \* the ops whose append failed: "[persist] failed to append" on stderr
  kills,    \* how often the process was killed, not counting "create"
  forgotten \* the ops that were in memory when the process was killed

vars == <<replica, task, ledger, phase, replay, peer, mail, acked, reported, kills, forgotten>>

Row == Op \cup {Header, Torn, Malformed}

\* A task that is applying a batch, appending an op, or about to answer /write.
TaskState ==
       [step : {"apply"}, todo : SUBSET Op]
  \cup [step : {"append"}, todo : SUBSET Op, op : Op, local : BOOLEAN]
  \cup [step : {"reply"}, op : Op]

ASSUME RowAssumption ==
  /\ {Header, Torn, Malformed} \cap Op = {}
  /\ NoFile \notin Seq(Row)
ASSUME IdleAssumption == Idle \notin TaskState

DaemonTypeOK ==
  /\ replica \in ReplicaState
  /\ task \in [Task -> TaskState \cup {Idle}]
  /\ ledger \in Seq(Row) \cup {NoFile}
  /\ phase \in {"down", "replay", "created", "up"}
  /\ replay \in Seq(Op)
  /\ peer \in ReplicaState
  /\ mail \in SUBSET Op
  /\ acked \in SUBSET Op
  /\ reported \in SUBSET Op
  /\ kills \in 0 .. MaxKills
  /\ forgotten \in SUBSET Op

DaemonInit ==
  /\ replica = NewReplica(Me)
  /\ task = [t \in Task |-> Idle]
  /\ ledger = NoFile
  /\ phase = "down"
  /\ replay = <<>>
  /\ peer = NewReplica(Peer)
  /\ mail = {}
  /\ acked = {}
  /\ reported = {}
  /\ kills = 0
  /\ forgotten = {}

(***************************************************************************)
(* The file.                                                               *)
(***************************************************************************)
Rows == IF ledger = NoFile THEN {} ELSE {ledger[i] : i \in 1 .. Len(ledger)}
OpRows == Rows \cap Op

\* Every line is a row.  (A row cut so that it still reads as one is left out.)
Readable == Rows \cap {Torn, Malformed} = {}

\* A plausible bug: the reader skips the header, and the loop skips a line again.
LoadedSkippingTwo ==
  IF ledger = NoFile \/ Len(ledger) < 2 \/ ~ Readable THEN <<>>
  ELSE Tail(Tail(ledger))

\* load: the first line is the header, whatever it holds.  One bad line and the
\* whole result is an error, which startup takes as an empty ledger.
Loaded ==
  IF ledger = NoFile \/ ledger = <<>> \/ ~ Readable THEN <<>>
  ELSE Tail(ledger)

\* append: what is written after a torn row continues its line.
Appended(row) ==
  IF ledger # <<>> /\ ledger[Len(ledger)] = Torn
  THEN [ledger EXCEPT ![Len(ledger)] = IF row = Torn THEN Torn ELSE Malformed]
  ELSE Append(ledger, row)

(***************************************************************************)
(* Startup.                                                                *)
(***************************************************************************)
LoadLedger ==
  /\ phase = "down"
  /\ phase' = "replay"
  /\ replica' = NewReplica(Me)
  /\ replay' = Loaded
  /\ UNCHANGED <<task, ledger, peer, mail, acked, reported, kills, forgotten>>

ReplayOp ==
  /\ phase = "replay"
  /\ replay # <<>>
  /\ \E wall \in Clock : replica' = Apply(replica, Head(replay), wall)
  /\ replay' = Tail(replay)
  /\ UNCHANGED <<task, ledger, phase, peer, mail, acked, reported, kills, forgotten>>

\* OpLog::open, on a file that exists.
OpenLedger ==
  /\ phase = "replay"
  /\ replay = <<>>
  /\ ledger # NoFile
  /\ phase' = "up"
  /\ UNCHANGED <<replica, task, ledger, replay, peer, mail, acked, reported, kills, forgotten>>

\* OpLog::open, on a fresh file: it is created, then the header is written.
CreateLedger ==
  /\ phase = "replay"
  /\ replay = <<>>
  /\ ledger = NoFile
  /\ ledger' = <<>>
  /\ phase' = "created"
  /\ UNCHANGED <<replica, task, replay, peer, mail, acked, reported, kills, forgotten>>

WriteHeader ==
  /\ phase = "created"
  /\ ledger' = <<Header>>
  /\ phase' = "up"
  /\ UNCHANGED <<replica, task, replay, peer, mail, acked, reported, kills, forgotten>>

\* SIGKILL, or the system is out of memory; what was written stays in the file.
Kill ==
  /\ phase # "down"
  /\ IF phase = "created" THEN "create" \in Faults /\ UNCHANGED kills
                          ELSE kills < MaxKills /\ kills' = kills + 1
  /\ phase' = "down"
  /\ forgotten' = forgotten \cup replica.log
  /\ replica' = NewReplica(Me)
  /\ task' = [t \in Task |-> Idle]
  /\ replay' = <<>>
  /\ \/ UNCHANGED ledger
     \/ /\ "cut" \in Faults
        /\ \E t \in Task : task[t] # Idle /\ task[t].step = "append"
        /\ ledger' = Appended(Torn)
  /\ UNCHANGED <<peer, mail, acked, reported>>

(***************************************************************************)
(* Requests.                                                               *)
(***************************************************************************)
\* What a task does next when `todo` is left of its batch.
Continue(todo) == IF todo = {} THEN Idle ELSE [step |-> "apply", todo |-> todo]

\* local_write, under the replica's mutex.
Write(t) ==
  /\ phase = "up"
  /\ task[t] = Idle
  /\ replica.seq < MaxSeq[Me]
  /\ \E e \in Entity, v \in Written, wall \in Clock :
       LET op == NewOp(replica, e, v, wall) IN
       /\ replica' = LocalChange(replica, op)
       /\ task' = [task EXCEPT ![t] =
                     [step |-> "append", todo |-> {}, op |-> op, local |-> TRUE]]
  /\ UNCHANGED <<ledger, phase, replay, peer, mail, acked, reported, kills, forgotten>>

\* A batch of the peer reaches ops_push (or the loop, as the answer to a pull).
AcceptBatch(t) ==
  /\ phase = "up"
  /\ task[t] = Idle
  /\ mail # {}
  /\ task' = [task EXCEPT ![t] = [step |-> "apply", todo |-> mail]]
  /\ mail' = {}
  /\ UNCHANGED <<replica, ledger, phase, replay, peer, acked, reported, kills, forgotten>>

\* A plausible bug: what a peer sends is applied and never appended.
ApplyOnly(t) ==
  /\ task[t] # Idle
  /\ task[t].step = "apply"
  /\ \E o \in task[t].todo, wall \in Clock :
       /\ IsNext(o, task[t].todo)
       /\ replica' = Apply(replica, o, wall)
       /\ task' = [task EXCEPT ![t] = Continue(task[t].todo \ {o})]
  /\ UNCHANGED <<ledger, phase, replay, peer, mail, acked, reported, kills, forgotten>>

\* apply_and_persist, under the replica's mutex: an op already seen ends here.
ApplyNext(t) ==
  /\ task[t] # Idle
  /\ task[t].step = "apply"
  /\ \E o \in task[t].todo, wall \in Clock :
       /\ IsNext(o, task[t].todo)
       /\ replica' = Apply(replica, o, wall)
       /\ LET rest == task[t].todo \ {o} IN
            task' = [task EXCEPT ![t] =
                       IF AlreadySeen(replica, o) THEN Continue(rest)
                       ELSE [step |-> "append", todo |-> rest, op |-> o, local |-> FALSE]]
  /\ UNCHANGED <<ledger, phase, replay, peer, mail, acked, reported, kills, forgotten>>

\* The end of append, failed or not: both callers log the error and go on.
AfterAppend(t) ==
  task' = [task EXCEPT ![t] =
             IF task[t].local THEN [step |-> "reply", op |-> task[t].op]
                              ELSE Continue(task[t].todo)]

Report(t) ==
  /\ Cardinality(reported) < MaxFailed
  /\ reported' = reported \cup {task[t].op}

AppendRow(t) ==
  /\ task[t] # Idle
  /\ task[t].step = "append"
  /\ \/ ledger' = Appended(task[t].op) /\ UNCHANGED reported
     \/ "append" \in Faults /\ UNCHANGED ledger /\ Report(t)
     \/ "tear" \in Faults /\ ledger' = Appended(Torn) /\ Report(t)
  /\ AfterAppend(t)
  /\ UNCHANGED <<replica, phase, replay, peer, mail, acked, kills, forgotten>>

\* The 200 of /write.
Reply(t) ==
  /\ task[t] # Idle
  /\ task[t].step = "reply"
  /\ acked' = acked \cup {task[t].op}
  /\ task' = [task EXCEPT ![t] = Idle]
  /\ UNCHANGED <<replica, ledger, phase, replay, peer, mail, reported, kills, forgotten>>

(***************************************************************************)
(* The peer.                                                               *)
(***************************************************************************)
PeerWrites ==
  /\ peer.seq < MaxSeq[Peer]
  /\ \E e \in Entity, v \in Written, wall \in Clock :
       peer' = LocalChange(peer, NewOp(peer, e, v, wall))
  /\ UNCHANGED <<replica, task, ledger, phase, replay, mail, acked, reported, kills, forgotten>>

\* The peer takes the next op it lacks from ops_since.
PeerPulls ==
  /\ phase = "up"
  /\ \E o \in OpsSince(replica, peer.vv), wall \in Clock :
       /\ IsNext(o, OpsSince(replica, peer.vv))
       /\ peer' = Apply(peer, o, wall)
  /\ UNCHANGED <<replica, task, ledger, phase, replay, mail, acked, reported, kills, forgotten>>

\* The peer has read the daemon's vector and sends what it lacks, if anything.
PeerSends ==
  /\ phase = "up"
  /\ mail = {}
  /\ mail' = OpsSince(peer, replica.vv)
  /\ UNCHANGED <<replica, task, ledger, phase, replay, peer, acked, reported, kills, forgotten>>

TaskStep(t) == Write(t) \/ AcceptBatch(t) \/ ApplyNext(t) \/ AppendRow(t) \/ Reply(t)

DaemonNext ==
  \/ LoadLedger \/ ReplayOp \/ OpenLedger \/ CreateLedger \/ WriteHeader \/ Kill
  \/ \E t \in Task : TaskStep(t)
  \/ PeerWrites \/ PeerPulls \/ PeerSends

DaemonSpec == DaemonInit /\ [][DaemonNext]_vars
-----------------------------------------------------------------------------
(***************************************************************************)
(* What holds.                                                             *)
(***************************************************************************)
\* Every op in memory is in the file, on its way there, or was reported as not
\* written: where the file is readable a kill takes at most one op per task with
\* it that nobody heard of.
NothingOnlyInMemory ==
  phase = "up" /\ Readable =>
    \A o \in replica.log :
      \/ o \in OpRows \cup reported
      \/ \E t \in Task : task[t] # Idle /\ task[t].step = "append" /\ task[t].op = o

\* No two rows of a readable file have the same device and seq, the line that is
\* taken for the header aside: after a restart the device goes on counting above
\* its own rows (the comment in apply), even where rows in between are missing.
LedgerNamesOnce ==
  ledger # NoFile /\ Readable =>
    \A i \in 2 .. Len(ledger), j \in 2 .. Len(ledger) :
      /\ i # j
      /\ ledger[i] \in Op
      /\ ledger[j] \in Op
      /\ ledger[i].device = ledger[j].device
      => ledger[i].seq # ledger[j].seq

\* Whatever a running process takes, from a client or from its peer, is later than
\* every row of that device in a readable file, the line that is taken for the
\* header aside: rows of one device are out of order only where two tasks passed
\* one another between the replica's mutex and the file's.
NewOpsAboveRows ==
  [][phase = "up" /\ Readable =>
       \A o \in replica'.log \ replica.log : \A i \in 2 .. Len(ledger) :
         ledger[i] \in Op /\ ledger[i].device = o.device => ledger[i].seq < o.seq]_vars

\* The row of o stands below a row of the same device with a higher seq.
Overtaken(o) ==
  \E i \in 1 .. Len(ledger) : \E j \in i + 1 .. Len(ledger) :
    /\ ledger[j] = o
    /\ ledger[i] \in Op
    /\ ledger[i].device = o.device
    /\ ledger[i].seq > o.seq

\* An acknowledged write survives any number of kills, with four exceptions:
\* another task wrote a later op of the device to the file first, its own append
\* failed, the file was torn, or it has no header (a kill before it was written)
\* and the row is its first line.
AckedAccountedFor ==
  phase = "up" /\ Readable =>
    \A o \in acked : o \in replica.log \cup reported \/ Overtaken(o) \/ ledger[1] = o

\* A row below the first line of a readable file is in the log once the process is
\* up, unless another task wrote a later op of the device to the file first.
RowsAccountedFor ==
  phase = "up" /\ Readable =>
    \A i \in 2 .. Len(ledger) : ledger[i] \in replica.log \/ Overtaken(ledger[i])

\* Where the daemon and its peer have different ops under one name, the daemon
\* minted both, one of them in a process that was killed before the op had a row
\* that the next process could read.
SeqReuseAccountedFor ==
  \A o \in replica.log, p \in peer.log :
    /\ o.device = p.device
    /\ o.seq = p.seq
    /\ o # p
    => /\ o.device = Me
       /\ p \in forgotten \ replica.log
       /\ Readable => \A i \in 2 .. Len(ledger) : ledger[i] # p

\* What the daemon shows, and what its peer shows, is the last writer of each key
\* among the ops it has, in whatever order rows were replayed, batches of another
\* process arrived, and seqs were used again.
ShowsLastWriters == EntriesWin(replica) /\ EntriesWin(peer)

\* The daemon has, or had in a process before this one, op s of device d.
HadOnce(d, s) == \E o \in replica.log \cup forgotten : o.device = d /\ o.seq = s

\* Whatever the mark of a device claims and the log lacks, the daemon once had
\* and lost in a kill: a batch, or a row, may start above the mark only because it
\* was computed, or written, next to what the process before had.
GapsAccountedFor == \A d \in Device : \A s \in 1 .. replica.vv[d] : HadOnce(d, s)

(***************************************************************************)
(* The inductive invariant behind DaemonTypeOK, NothingOnlyInMemory and     *)
(* GapsAccountedFor: what a batch, the file or the peer holds starts at     *)
(* most one past what the daemon once had.                                  *)
(***************************************************************************)
Rooted(o, ops) ==
  \A s \in 1 .. o.seq :
    HadOnce(o.device, s) \/ \E p \in ops : p.device = o.device /\ p.seq = s

RootedBatch(ops) == \A o \in ops : Rooted(o, ops)

Replaying == {replay[i] : i \in 1 .. Len(replay)}

LedgerShape ==
  /\ \A t \in Task : task[t] # Idle => phase = "up"
  /\ phase \in {"created", "up"} => ledger # NoFile
  /\ ledger # NoFile => \A i \in 2 .. Len(ledger) : ledger[i] \in Op \cup {Torn, Malformed}

ProcessShape ==
  /\ phase \in {"down", "created"} => replica.log = {}
  /\ phase = "replay" => replica.log \cup Replaying \subseteq OpRows
  /\ phase # "replay" => replay = <<>>

Marked(r, d) ==
  /\ r.device = d
  /\ r.seq = r.vv[d]
  /\ \A o \in r.log : o.seq <= r.vv[o.device]

PeerGapsAccountedFor ==
  \A d \in Device : \A s \in 1 .. peer.vv[d] :
    HadOnce(d, s) \/ \E o \in peer.log : o.device = d /\ o.seq = s

TaskRooted(t) ==
  /\ task[t] # Idle /\ task[t].step \in {"apply", "append"} => RootedBatch(task[t].todo)
  /\ task[t] # Idle /\ task[t].step = "append" => task[t].op \in replica.log

DaemonInv ==
  /\ LedgerShape
  /\ ProcessShape
  /\ Marked(replica, Me) /\ Marked(peer, Peer)
  /\ GapsAccountedFor
  /\ PeerGapsAccountedFor
  /\ RootedBatch(mail)
  /\ \A o \in OpRows : Rooted(o, {})
  /\ \A t \in Task : TaskRooted(t)
  /\ NothingOnlyInMemory

(***************************************************************************)
(* What the comments say and the code does not do.                         *)
(***************************************************************************)
\* The comment on append: a write that was answered 200 is on disk, and no
\* crash loses it.
AckedSurvives == phase = "up" => acked \subseteq replica.log

\* The comment on load: within one device, seq only ever increases in the file.
LedgerInOrder ==
  ledger # NoFile =>
    \A j \in 1 .. Len(ledger) : ledger[j] \in Op => ~ Overtaken(ledger[j])

\* The comment in apply: a restart makes no device reuse a seq that a peer has
\* already seen.
SeqNeverReused ==
  phase = "up" =>
    \A o \in replica.log, p \in peer.log : o.device = p.device /\ o.seq = p.seq => o = p

\* The documentation of persistence: startup replays every row.
EveryRowReplayed == phase = "up" => OpRows \subseteq replica.log
=============================================================================
