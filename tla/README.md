# A verification project for serverless-sync

`syncd` keeps one key/value dataset in sync between a person's devices, with no
server: a CRDT in memory, a CSV ledger on disk, an anti-entropy loop over HTTP,
discovery, and (in the demo) an observer that says whether the nodes agree.
This directory holds TLA+ models of it, the TLC runs that check them on small
instances, and TLAPS proofs of what matters most for instances of any size.

## The system

| Component | Code | State | Operations |
|---|---|---|---|
| CRDT replica | `src/src/core.rs` | `seq`, HLC, `entries`, `vv`, `log` | `tick`, `observe`, `local_change`, `apply`, `merge_entry`, `ops_since`, `entries`, `state_fingerprint` |
| Anti-entropy protocol | `src/src/main.rs` | the replica behind a mutex, the `online` switch, the local variables of a round | `antientropy_loop`, `sync_round`, `/v1/vv`, `/v1/ops/since`, `/v1/ops`, `/write`, `/v1/online` |
| Ledger and startup | `src/src/persist.rs`, `main()` | the CSV file behind a mutex of its own | `load`, `OpLog::open`, `append`, `apply_and_persist`, replay |
| Discovery, peer exchange | `src/src/discovery.rs`, `main.rs` | `PexCache` | `merge`, `list`, `/v1/peers`, `exchange_peers`, LAN announce, tailnet candidates |
| Logger | `src/src/bin/logger.rs` | cards, target/device maps, events | `poll_one`, `poller`, `converged`, `device_write`, `device_online` |
| Identity, sidecar files | `main.rs`, `persist.rs` | `device_id` and `port` files | `resolve_device_id`, `write_port_file` |
| HTTP surface, CLI | `main.rs` | none | `require_loopback`, routes, arguments |

How they interact.  A node has one loop task and any number of handlers, all on
one replica behind a mutex that is held for *one call* at a time.  A round sends
the own vector to a peer, applies what comes back op by op, asks for the peer's
vector, and pushes what the peer lacks.  Every accepted op is appended to the
ledger after the replica's mutex was released, under the file's mutex.  Startup
replays the ledger through `apply`.  The logger polls `/state` of every node and
is in nobody's way.

What is hard here:

* batches from different senders interleave op by op, computed from vectors that
  are old when the batch is applied; a push may arrive after its client gave up;
* stamps: a hybrid clock fed by wall clocks that disagree, ties between devices;
* the window between "in memory, visible to peers" and "in the file", the order
  in which tasks reach the file, and kills and failed writes in that window;
* answers of different age folded into one view of the system (the logger);
* reconvergence when one side of a pair has no address and requests fail;
* directories that live in memory, forget nothing, and take the last address to
  arrive, right or not, while machines restart, move and change their id.

`hazards` in `PROJECT.json` lists each of them at its line.

## Modules

| Module | Models | Used by |
|---|---|---|
| `Replica` | `core.rs` as operators on replica values; no variables | all but `Discovery` and `Logger` |
| `PrefixStore` | the abstract store: histories, known prefixes, a last-writer-wins view | `SyncStore` |
| `Sync` | the protocol: nodes, loops, pushes in flight | `SyncStore`, `SyncProofs` |
| `SyncStore` | the refinement mapping from `Sync` to `PrefixStore` | `MCSync` |
| `Discovery` | machines, addresses, directories, and what chooses the targets of a tick | `MCDiscovery` |
| `Daemon` | one process, its ledger, its requests, kills; one peer | `MCDaemon` |
| `Logger` | the observer and the nodes as far as it sees them | `MCLogger` |
| `ReplicaProofs` | lemmas about the clock, the merge rule and the types | `SyncProofs`, `DaemonProofs` |
| `SyncProofs`, `StoreProofs` | theorems of `Sync`; the refinement of `PrefixStore` | |
| `DaemonProofs`, `LedgerProofs`, `PeerProofs` | theorems of `Daemon`: the replica, the file, then the daemon with its peer | each extends the one before |
| `DiscoveryProofs` | theorems of `Discovery` | |
| `LoggerProofs` | theorems of `Logger` | |
| `MCSync`, `MCDaemon`, `MCDiscovery`, `MCLogger` | values of constants for TLC | |

### Replica

`Tick`, `Observe`, `Beats`, `MergeEntry`, `NewOp`, `LocalChange`, `Apply`,
`OpsSince` are the methods of the Rust type.  A device id is a natural number
(the code only compares ids); kind and value are one field, with `Deleted` for a
tombstone; the log is a set, because its only reader, `ops_since`, has callers
that sort.  A wall clock reading is any element of `Clock` at any call: clocks
may run backwards and differ between devices.  The fingerprint is a hash of what
`Visible` returns; collisions are ignored.  Counters are unbounded integers:
`u64` and `u32` do not overflow in any run one could wait for.

### Sync

| Action | Code |
|---|---|
| `LocalWrite`, `SetOnline` | `local_write`, `set_online` |
| `StartTick`, `RequestOps` | the head of the loop, and the target it takes next |
| `ServeOps`, `ApplyPulled`, `ServeVv`, `SendPush`, `TimeOut` | `sync_round`, cut at every `await` and every release of the mutex |
| `AcceptPush`, `LosePush`, `ApplyPushed`, `AnswerPush` | `ops_push`, with the request before it |

`client[n]` holds the local variables of n's round: the peer, the remaining targets,
the vector last sent or received, what is left of the batch.  A timeout, a dead peer
and a 503 all end the round the same way; a push may be lost, or may arrive after
its client went on, so the client does not wait for it.  A handler that only reads
is one step, `guard_online` included, so the switch cannot be flipped between its
check and its read; neither has an effect that a property could see in between.
`Knows[n]` are the devices that n lists on every tick and `Finds[n]` those it may
list on some, any subset on any tick: what `Discovery` leaves a loop with when
addresses come and go.  `MaxSeq` (writes per device) and `Slot` (pushes under way at
once) are bounds.  There are no restarts in `Sync`; they are `Daemon`'s subject.

### Daemon

`phase` is `down`, `replay` (`LoadLedger`, `ReplayOp`), `created` (the file exists
and its header does not) or `up`.  Requests are tasks: `Write` is the critical
section of `local_write`, `ApplyNext` that of `apply_and_persist`; both leave the
op in the task until `AppendRow`, which may come after another task's; `Reply` is
the 200.  `Kill` may happen at any step and leaves the file.  The constant
`Faults` selects what else may go wrong: an append that writes nothing, an append
that leaves part of a row (a full disk), a kill before the header, and a kill that
cuts the row being written (`append` hands a row that is longer than the csv
writer's buffer to the system in several writes).  `reported`
holds the ops whose append failed, which is what the process prints.  A row cut
so that the rest still reads as a row is left out, and so is the loss of rows
that were written but not on the medium (there is no `fsync`).  The peer is a
replica that is never killed; its exchange with the daemon is reduced to one op
at a time, because `Sync` models the exchange.  `mail` is a batch it sent for the
vector it last saw, which may be that of a process killed since.  `forgotten` is
a history variable: what was in memory at a kill.  No guard reads it.

### Discovery

| Action | Code |
|---|---|
| `Restart`, `Roam` | a start of `main`, with `resolve_device_id` and the choice of the address to announce; the machine's address changes |
| `StartTick`, `Ask`, `Learn`, `Fail` | `antientropy_loop` up to `sync_round`, `exchange_peers` before and after its `await` |
| `Serve` | the `peers` handler of whoever has the address now |
| `ServeLate` | the same handler, for a request whose caller has given up or was started again |
| `Hear` | one datagram of `lan_discovery_loop` |

A machine has a local address, which may change, and perhaps one on the tailnet,
which does not; `proc[n]` is what the process computed of itself when it started and
never computes again: its id, its local address or none (`Unrouted`), and the
address to announce, which is the tailnet one, or else the local one, or else the
loopback address `Local`, where whoever follows it finds itself.  `file[n]` is the
`device_id` file, which may fail to be read or written (`Forgetful`), or be emptied
and not written.  An address that a machine gave up may become another's.  What a
caller leaves behind when it gives up (`Abandoned`) is in `late`, one request per
machine, until the handler gets to it, if it ever does.  `pex[n]` maps ids to
addresses: `Merge` takes what arrives last and nothing removes an entry.  Addresses
are numbers, ordered as the strings that the code sorts.  Who matches
`--peer-prefix` is a set.  A machine that is off is one whose calls fail and that
takes no step, so there is no switch here.  All processes use the same port, as
`antientropy_loop` assumes of tailnet candidates.  The address given with
`--advertise`, and ids given with `--device`, are left out.

### Logger

`poll_one` is `Fetch` (the answer leaves the node) and `FoldAnswer` or
`FoldFailure` (under the lock), so answers overtake one another: the poller has
one under way and each of the `Request` commands another.  `Forward` and `Deliver`
are `proxy_post`; the out-of-turn poll of `refresh_device` follows.  Nodes change
for reasons the logger does not see: edits, pauses, restarts, a process that
comes back under another device id.

### PrefixStore

What the README's architecture section promises, with no protocol: a device owns
a history of ops with rising stamps; everyone knows a prefix of every history;
what a device shows is the last-writer-wins reading of what it knows.  A step
writes one op or lets one device learn *the next* op of one history.  `SyncStore`
maps histories to the own part of each log, known prefixes to version vectors and
views to `/state`.

## Runs

| Run | Question | Expect | Instance |
|---|---|---|---|
| `SyncPair` | Is `SyncInv` (the invariant of the proofs) one? No gaps, one op per (device, seq), convergence, clocks; what may a local write lose to? Does the protocol implement `PrefixStore`? | pass | 2 devices of which the first finds the second, and itself, on some ticks, 2+1 writes, `Clock = {1,2}`, 2 pushes under way |
| `SyncLive` | Do replicas reconverge? Does a device that is switched off go quiet? | pass | 3 devices: 2 calls 1, 1 calls 3 and, on some ticks, 2; 1 is switched at will |
| `SyncDominance` | Does a local op dominate what was received? | violation | 2 devices, `Clock = {1,2}` |
| `DaemonKill` | What may be lost, and how? Which gaps may a log have? When is a seq used again? Is what is shown the last writer? Is whatever is taken later than the file? | pass | 2 requests at once, 2+2 writes, 1 kill, 1 failed or torn append, a kill before the header or within a row |
| `DaemonOrder` | Are rows in seq order? | violation | 2 requests at once |
| `DaemonAck` | Is an acknowledged write safe? | violation | a failing append |
| `DaemonReuse` | Is every seq used once? | violation | 1 kill |
| `DaemonTorn` | Is every row replayed? | violation | a torn append |
| `DiscoveryMesh` | Does everyone come to list everyone, and does one of each pair visit the other? May an address be told of the wrong machine? | pass | 3 machines on a local network; the second is told of the first and may announce the loopback address, the third hears the first, restarts, moves and leaves a request behind |
| `DiscoveryUnion` | Is the answer of `/v1/peers` the union of what both knew? | violation | 3 machines, two of them on a tailnet |
| `LoggerLive` | Do events and cards agree, does the banner follow the nodes? | pass | 2 targets, 3 device ids, 1 command, any 3 changes at the nodes |
| `LoggerGreen` | Does green need every node? | violation | 3 targets |

Why the bounds are enough.  Two devices with three writes give every pair of ops the
merge rule can meet (same device, different devices, equal and unequal stamps,
tombstone or not), a batch of two ops, and a loop, a push and a local write that
interleave on one replica.  Two clock readings make a device fall behind, tie with,
or lead the other.  Two slots let a push arrive next to a newer one, or after it;
`SyncPair` allows that, and rounds of the first device with itself, as long as the
second has not written (`OneThingAtATime`: both multiply the states of three writes
beyond what a run can visit), and the proofs allow it always. In `SyncLive` every op
between the second device and the third travels over the first, which is the one
that is switched: others call it while it is off, and its own tick has one target or
two.  In `Daemon` two tasks are what it takes to reach the file in the wrong order;
its only value is the tombstone, since no property of it depends on what is written.
Two writes of the peer are what it takes for a batch that was computed for a killed
process to start above the mark of the next one.  `DaemonBounds` leaves out
combinations: an append that fails on a file that lost its header to a kill, a row
cut by a kill in such a file or after the peer has written, a peer that writes twice
next to a daemon that does, or to an append that fails, and one that writes at all
next to a torn file and a daemon that writes twice.  The proofs leave out none of
them.  In `Logger` two workers are what it takes for an answer to be
overtaken, two targets for agreement, and a list of two events is the shortest that
is both cut and compared.  In `Discovery` three machines are what it takes for an
address to be passed on by another than its owner, and one restart or one move of
the same machine for its id or its address to go stale.  `MeshBounds` keeps the
kinds of trouble apart (an id that changes, a move, a start without a route, a
request left behind), because their product is out of reach; it cuts steps only that
no fairness asks for.  The proofs of the safety properties take all of them
together, with any number of starts: that a process reads an *older* id than the one
before it had takes three, so only the proofs cover it.  `DiscoveryMesh` has one
kind of address only, because with both the second property fails (below).

### What the passing runs show

* `NoGap`, `OneOpPerSeq`: a vector never claims what the log lacks, and a pair
  (device, seq) names one op everywhere, whatever interleaves.  `apply` itself
  accepts gaps: that there are none rests on batches that are sorted and complete
  from a vector at or below the receiver's, which vectors that only grow ensure.
  A daemon that is killed loses its vector, and the gaps come back
  (`GapsAccountedFor`).
* `Convergence`: replicas with equal vectors show the same.
* `ClockCoversLog`: a clock is never behind the millisecond of what is logged.
  It is what `observe` does guarantee; dominance it does not (below).
  `LocalOpsLoseWithinMs` is what is left of dominance: a local write loses at most
  to another device's op of the same millisecond.
* `ImplementsStore`: a device learns another device's writes one by one, in their
  order, and shows the reading of exactly those.  The run has a history of two
  writes, learnt by pull and by push; taking a batch in another order breaks it.
* `Reconverges`: once the switches stay on, everyone comes to know every write,
  even if whatever they all go through was off for any time before.  That they then
  show the same is `Convergence`.
* `Quiesces`: a device that stays off ends up contacting no one and serving no one,
  although only the next tick and the next request read the switch: the second
  target of a tick, and a push that the handler had accepted, still run to their end
  while another device goes on calling.  That a handler ends is assumed
  (`HandlerRuns`); that no other one starts is what the run checks.
* `NothingOnlyInMemory`, `AckedAccountedFor`, `LedgerNamesOnce`: a kill takes the
  ops whose append had not begun or was reported; an acknowledged write is lost
  only if a later op of the device overtook it on the way to the file, its append
  failed, the file was torn, or its row is the first line of a file whose header a
  kill prevented.
* `GapsAccountedFor`: a log may lack an op below its mark, because a peer's batch
  was computed for the vector of a process that was killed since and starts above
  the mark of this one, or because rows were overtaken, and `apply` takes either;
  but only an op that an earlier process had in memory.  `NewOpsAboveRows`: what a
  running process takes is later than every row of that device all the same, so only
  two tasks that pass one another put rows out of order.
* `RowsAccountedFor`: a row below the first line of a readable file comes back, or
  a later op of its device stands above it.  `SeqReuseAccountedFor`: where daemon
  and peer have two ops under one name, both are the daemon's own, and the first
  was in memory at a kill and is in no row the next process can read.
  `ShowsLastWriters`: through all of that, each of the two shows the last writers
  among the ops it has.
* `ListingsGenuine`: an address is never told of another machine than one that has
  or had it and announced it, however stale listings circulate and whichever request
  is served after its caller gave up.  It need not lead there: the address may be
  another machine's by now, and the loopback address leads to who reads it.
  `ExchangeIntroduces`: the two ends of an exchange tell each other what their
  processes announce.
* `EveryoneListed`: whatever the order of starts, everyone ends up listed by
  everyone under its present id, although calls go one way.  `PairsMeet`: of each
  pair one of which never moves and announces an address that others can use, one
  visits an address the other has, again and again, although stale addresses
  circulate for ever.  Two that have both moved, or announce the loopback address,
  may miss each other for ever.
* `EventsAgree`, `NoEventRepeats`: cards and events tell the same story even when
  answers overtake one another.  `PartitionShows`, `GreenComes`: the banner ends
  up right in both directions.

### What the code does not do

Each of these is a `violation` run and an entry of `findings`, with the line that
is contradicted.

1. `observe` forgets the counter of a remote stamp in the wall clock's own
   millisecond, so a local write may lose to an op its device had already applied.
2. Rows of one device may be appended out of seq order; the next replay drops the
   lower ones, and the vector hides the gap.
3. An append that fails is logged, and the write is answered 200.
4. A kill between `local_change` and `append`, after a peer has pulled, makes the
   device use a seq twice; the peer drops the second op.
5. One torn row makes startup ignore the whole ledger and append to it.
6. Green does not need a target that has never answered.
7. The `peers` handler merges before it lists, so where caller and callee know
   different addresses of a node the caller's replaces the callee's, whichever is
   right: the answer is not the union.

Not runs, but met on the way.  The comment in `ops_push` (`main.rs:315`) says that
`apply` rejects causal gaps; it takes them (`GapsAccountedFor` says which).  A daemon
that starts before the network does announces 127.0.0.1 for as long as it runs, the
address that the comment on `advertise` (`main.rs:119-121`) warns of; its peers reach
it only if it calls them.  Where some machines have a tailnet address and
others do not, `PairsMeet` holds as long as nobody moves.  A machine without one
cannot connect to the tailnet address that the others announce; once it has
moved, they cannot connect to the one it announces either.

## Fairness

`LiveSpec` (Sync): the loop and the handlers are tasks of a runtime that polls
whatever is ready, and every `await` ends after 2 s: weak fairness of the loop's and
the handlers' steps.  The network may fail any request but not every request a node
ever makes to a peer that is online: strong fairness of an answer per pair, and of
the arrival of a push (`NetworkFairness`).  `SendPush` is strongly fair because a
free `Slot` is a bound of the model and not of the code.  Nothing is assumed of
local writes or of the switch; `Reconverges` asks for nothing until the switches
stay on. `TimeOut` and `LosePush` are fair because no await and no request lasts for
ever.

`LiveDiscovery`: the loop is such a task too: weak fairness of `StartTick`, `Ask`
and `Fail` together with `Learn` (`LoopStep`).  An announce is repeated for ever on
a network that loses some of them: weak fairness of `Hear`.  Of the calls of a pair
in `Links` not all fail: a caller that calls for ever (`Calls`) gets to the end of
an exchange for ever (`Succeeds`).  `Links` are the calls that have to work: those
of the second and the third machine to the first.  Nothing is assumed of any other,
nor of restarts, moves and requests left behind.

`LoggerSpec`: a poll ends within 3 s and the poller loops: weak fairness of every
worker's steps and of `Deliver`.  Nothing is assumed of the nodes.

## Proofs

`ReplicaProofs` proves the clock and merge lemmas: stamps are ordered, `Tick` and
`Observe` advance, `Beats` is a strict order, total up to equal stamp and
device, and `MergeKeepsWinners`: merging an op keeps every entry the last writer of
its key among the logged ops.

`SyncProofs` proves, for all values of the constants (any devices, any topology,
any clocks, any number of writes and pushes), `TypeCorrect`, `SyncInvariant`, and
from it `NoGapAlways`, `OneOpPerSeqAlways`, `ConvergenceAlways`,
`ClockCoversLogAlways` and `LocalOpsLoseWithinMsAlways`.

The argument.  `NoGap` is not inductive: applying an op keeps it only if
everything before that op is known.  So every batch under way must leave no gap
where it is going (`LeavesNoGap`), which a batch has when it is computed from a
vector that is at or below the receiver's (`VvLeq`), and vectors only grow.
`Convergence` needs more: that equal vectors mean equal logs, which follows from
`NoGap` and from every op of every log being the one its writer has under that seq
(`LogsGenuine`, with `OwnOpsOrdered` for the writer's own log); and that equal logs
mean equal entries, which follows from entries being winners (`EntriesAreWinners`)
and from stamps of one device being strictly ordered (`OwnOpsOrdered`,
`OwnClockAhead`), so that two ops never tie.  `SyncInv` is the conjunction; the
proof of its step has one case per action, over lemmas for the local write, the
apply and the batches under way, which are the cases that matter.

`StoreProofs` proves `SyncImplementsStore`: every behaviour of `Sync` is one of
`PrefixStore`.  With `SyncInv` the mapping is the same in every state
(`StoreFacts`): a history holds the writer's ops each at its seq, the prefixes a
vector claims are exactly the log (`KnownIsLog`), and what is visible is the
reading of the log (`ViewIsReading`).  A step then only has to be matched with
what it does to histories and vectors: a local write is `Write`, an apply of a
new op is `Learn` of its writer's next op, everything else stutters.

`DaemonProofs` proves `DaemonTypeCorrect`, `DaemonInvariant`, and from it
`NothingOnlyInMemoryAlways` and `GapsAccountedForAlways`, for any number of
tasks, writes, kills and faults.  A gap cannot be excluded by `LeavesNoGap`, as
in `Sync`: vectors go back at a kill.  What never goes back is what the daemon
*once had*, in memory or before a kill (`HadOnce`); every batch, row and op of the
peer is `Rooted` in it: whatever precedes it was once had, or is in the batch.

`LedgerProofs` proves `LedgerInvariant`, and from it `LedgerNamesOnceAlways`,
`AckedAccountedForAlways` and `RowsAccountedForAlways`.  While startup replays, what
is left is the rest of the file (`RowsLeft`), the marks cover the rows before it
(`RowsCounted`), each of those is in the log or was overtaken (`RowsKept`), and the
marks are seqs of rows (`MarksAreRows`).  So once the process is up, whatever is
minted or accepted has a name no row has (`NewToFile`), in whatever order the tasks
reach the file; and what was answered is in the file or was reported
(`AnsweredInFile`).  All of it is said of a file that reads: after a torn row
startup begins from nothing.

`PeerProofs` proves `ShowsLastWritersAlways`, `NewOpsAboveRowsAlways`,
`NamesInvariant` and `SeqReuseAccountedForAlways`.  They rest on what any step does
to a replica (`ReplicaSteps`, `PeerSteps`): nothing, forget it, or take one op above
its mark. `ShowsLastWriters` is then inductive by `MergeKeepsWinners`.  Reuse is
not: it takes that names are unique in either log, that whatever is not the daemon's
own comes from the peer, which is never killed, that what the peer has of the
daemon's the daemon has or had, and that a row named like an op of the log is that
op (`RowsAgree`), for which the ledger invariant is needed.

`DiscoveryProofs` proves `DiscoveryTypeCorrect`, `ListingsGenuineAlways` and
`ExchangeIntroducesAlways`, for any machines, addresses, topology and number of
starts, with a move of any machine to any address that is free, any machine that may
start without a route and any call whose request may be left behind.  `DiscoveryInv` adds to the two properties that a process
announces an address of its machine, or the loopback address where it may have no
other, under an id of its own, that what is in a `device_id` file is one of the
machine's own ids, that a start belongs to its machine, and that a request under way
introduces its caller.

`LoggerProofs` proves `LoggerTypeCorrect`, `EventsAgreeAlways` and
`NoEventRepeatsAlways`.  Both properties of events follow from one fact about a
fold (`Tells`): what is said is true of the new card and false of the old one, no
two things said are about the same matter, and each event that stops being true
is answered by one that is said.  `AnswerTells` and `FailureTells` show that of
the two ways to fold, `FoldTells` that it keeps cards and events together, with
the list cut at its limit; the rest of `LoggerInv` is that an event and a target
that was heard have a card, and that the target of a command under way stays known.

The assumptions are those named `ASSUME` in the modules: ids and readings are
naturals, the bounds are naturals, the logger's entities are finitely many,
sentinels are not values, addresses are naturals, every machine starts at least once.

Only model-checked: liveness, that is `Reconverges`, `Quiesces`, `EveryoneListed`,
`PairsMeet`, `PartitionShows` and `GreenComes`, because the provers have no
fairness and no `ENABLED`.

## Not modelled

* Several local addresses of a machine at once, and ports: all processes use one.
* Batch sizes, the HTTP body limit, and the 2 s timeout as a duration.
* `fsync` and power loss; a second process on the same data directory.
* The port file, which is written for another program; `--device` and
  `--advertise`; the parsing of `tailscale status` and of datagrams.
* Argument parsing, the loopback check, the dashboard page, packaging.

## Plan

Done: `Replica`, `Sync`, `PrefixStore`, `SyncStore`, `Daemon`, `Discovery`,
`Logger`; the proofs of every safety property that a passing run checks, and of
the refinement.  What is left, in this order:

1. Several daemons that restart, in one module: `Daemon` has one, with a peer
   that does not.
2. Batches with a size, and a body limit that a first synchronisation exceeds.
3. Power loss in `Daemon`: a suffix of the file that is not on the medium.
