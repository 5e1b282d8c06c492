-------------------------------- MODULE Sync --------------------------------
(***************************************************************************)
(* The anti-entropy protocol of src/main.rs: every node runs one            *)
(* `antientropy_loop` task, which visits its targets one after the other    *)
(* and runs a `sync_round` with each, and any number of HTTP handlers that  *)
(* run in parallel with it on the same replica.                             *)
(*                                                                         *)
(* The replica mutex is held for one call at a time, never for a batch, so  *)
(* each `apply` is a step of its own and batches interleave: ops pulled by  *)
(* the loop with ops pushed by a peer and with local writes.  What a step   *)
(* read earlier (a version vector, a batch) may be stale when it is used.   *)
(*                                                                         *)
(* A handler that only reads (/v1/ops/since, /v1/vv) is one step, at the    *)
(* moment it takes the lock; the client's request was fixed before, and the *)
(* client uses the answer after.  Its look at the online switch just before *)
(* belongs to the step: the user may flip the switch in between, and an     *)
(* answer given just after is one given just before.  A timeout, a refused  *)
(* connection and a 503 all end the round (TimeOut).  A push that timed out *)
(* may still arrive: pushes in flight are kept in slots.                    *)
(***************************************************************************)
EXTENDS Replica, FiniteSets

CONSTANTS
  Slot,     \* bound: pushes that are in flight or being handled at once
  NoPush,   \* an unused slot
  Knows,    \* Knows[n]: the devices that are among n's targets on every tick
  Finds,    \* Finds[n]: those that may be on some ticks (Discovery), n itself included
  MaxSeq,   \* bound: MaxSeq[n] is the number of local writes of device n
  Switched  \* the devices whose user flips /v1/online

VARIABLES
  replica,  \* the Replica of each node, behind its mutex
  online,   \* the /v1/online switch of each node
  client,   \* the antientropy_loop task of each node
  push      \* POST /v1/ops requests: in flight, or in their handler

vars == <<replica, online, client, push>>

(***************************************************************************)
(* client[n].pc is "loop" between two rounds (and between two ticks, when   *)
(* todo is empty), "since" while /v1/ops/since is awaited, "pull" while the *)
(* pulled ops are applied and then while /v1/vv is awaited, and "push" when *)
(* the peer's version vector is known and nothing is computed from it yet.  *)
(* vv is the vector last sent or received, ops what is left of the batch.   *)
(***************************************************************************)
ClientState ==
  [pc : {"loop", "since", "pull", "push"}, peer : Device, todo : SUBSET Device,
   vv : VersionVector, ops : SUBSET Op]

PushState == [phase : {"sent", "handled"}, from : Device, to : Device, ops : SUBSET Op]

ASSUME KnowsAssumption == Knows \in [Device -> SUBSET Device]
ASSUME FindsAssumption == Finds \in [Device -> SUBSET Device]
ASSUME MaxSeqAssumption == MaxSeq \in [Device -> Nat]
ASSUME SwitchedAssumption == Switched \subseteq Device
ASSUME NoPushAssumption == NoPush \notin PushState

TypeOK ==
  /\ replica \in [Device -> ReplicaState]
  /\ online \in [Device -> BOOLEAN]
  /\ client \in [Device -> ClientState]
  /\ push \in [Slot -> PushState \cup {NoPush}]

BetweenRounds(n, todo) ==
  [pc |-> "loop", peer |-> n, todo |-> todo, vv |-> EmptyVv, ops |-> {}]

Init ==
  /\ replica = [n \in Device |-> NewReplica(n)]
  /\ online = [n \in Device |-> TRUE]
  /\ client = [n \in Device |-> BetweenRounds(n, {})]
  /\ push = [k \in Slot |-> NoPush]

(***************************************************************************)
(* The local API.                                                          *)
(***************************************************************************)
\* POST /write: never gated on the online switch.
LocalWrite(n) ==
  /\ replica[n].seq < MaxSeq[n]
  /\ \E e \in Entity, v \in Written, wall \in Clock :
       replica' = [replica EXCEPT ![n] =
                     LocalChange(replica[n], NewOp(replica[n], e, v, wall))]
  /\ UNCHANGED <<online, client, push>>

\* POST /v1/online.
SetOnline(n) ==
  /\ n \in Switched
  /\ online' = [online EXCEPT ![n] = ~ online[n]]
  /\ UNCHANGED <<replica, client, push>>

(***************************************************************************)
(* The client half: antientropy_loop and sync_round.                       *)
(***************************************************************************)
\* A plausible bug: the loop does not read the switch.
StartTickAnyway(n) ==
  /\ client[n].pc = "loop"
  /\ client[n].todo = {}
  /\ client' = [client EXCEPT ![n] = BetweenRounds(n, Knows[n] \cup Finds[n])]
  /\ UNCHANGED <<replica, online, push>>

\* The loop wakes up and lists its targets; the switch is read here only.
StartTick(n) ==
  /\ client[n].pc = "loop"
  /\ client[n].todo = {}
  /\ online[n]
  /\ \E found \in SUBSET Finds[n] :
       client' = [client EXCEPT ![n] = BetweenRounds(n, Knows[n] \cup found)]
  /\ UNCHANGED <<replica, online, push>>

\* The next target: read the own version vector and send it to /v1/ops/since.
RequestOps(n) ==
  /\ client[n].pc = "loop"
  /\ \E t \in client[n].todo :
       client' = [client EXCEPT ![n] =
                    [pc |-> "since", peer |-> t, todo |-> client[n].todo \ {t},
                     vv |-> replica[n].vv, ops |-> {}]]
  /\ UNCHANGED <<replica, online, push>>

\* The peer's ops_since handler, and its answer reaching the client.
ServeOps(n) ==
  /\ client[n].pc = "since"
  /\ online[client[n].peer]
  /\ client' = [client EXCEPT
                  ![n].pc = "pull",
                  ![n].vv = EmptyVv,
                  ![n].ops = OpsSince(replica[client[n].peer], client[n].vv)]
  /\ UNCHANGED <<replica, online, push>>

\* apply_and_persist of the next pulled op; batches are sorted first.
ApplyPulled(n) ==
  /\ client[n].pc = "pull"
  /\ \E o \in client[n].ops, wall \in Clock :
       /\ IsNext(o, client[n].ops)
       /\ replica' = [replica EXCEPT ![n] = Apply(replica[n], o, wall)]
       /\ client' = [client EXCEPT ![n].ops = client[n].ops \ {o}]
  /\ UNCHANGED <<online, push>>

\* The peer's vv handler, and its answer reaching the client.
ServeVv(n) ==
  /\ client[n].pc = "pull"
  /\ client[n].ops = {}
  /\ online[client[n].peer]
  /\ client' = [client EXCEPT ![n].pc = "push", ![n].vv = replica[client[n].peer].vv]
  /\ UNCHANGED <<replica, online, push>>

\* A plausible bug: the round only pulls.
PullOnly(n) ==
  /\ client[n].pc = "push"
  /\ client' = [client EXCEPT ![n] = BetweenRounds(n, client[n].todo)]
  /\ UNCHANGED <<replica, online, push>>

\* Compute what the peer lacks and send it, if there is anything.  The answer
\* only feeds a log line and the client may time out at any moment, so the
\* client goes straight on to its next target.
SendPush(n) ==
  /\ client[n].pc = "push"
  /\ LET mine == OpsSince(replica[n], client[n].vv) IN
       IF mine = {} THEN UNCHANGED push
       ELSE \E k \in Slot :
              /\ push[k] = NoPush
              /\ push' = [push EXCEPT ![k] =
                   [phase |-> "sent", from |-> n, to |-> client[n].peer, ops |-> mine]]
  /\ client' = [client EXCEPT ![n] = BetweenRounds(n, client[n].todo)]
  /\ UNCHANGED <<replica, online>>

\* The 2 s timeout, an unreachable peer or its 503: the round returns Err.
TimeOut(n) ==
  /\ \/ client[n].pc = "since"
     \/ client[n].pc = "pull" /\ client[n].ops = {}
  /\ client' = [client EXCEPT ![n] = BetweenRounds(n, client[n].todo)]
  /\ UNCHANGED <<replica, online, push>>

(***************************************************************************)
(* The server half of a push: ops_push.                                    *)
(***************************************************************************)
\* The request arrives and passes guard_online.
AcceptPush(k) ==
  /\ push[k] # NoPush
  /\ push[k].phase = "sent"
  /\ online[push[k].to]
  /\ push' = [push EXCEPT ![k].phase = "handled"]
  /\ UNCHANGED <<replica, online, client>>

\* The request is lost on the way, or arrives and is answered 503.
LosePush(k) ==
  /\ push[k] # NoPush
  /\ push[k].phase = "sent"
  /\ push' = [push EXCEPT ![k] = NoPush]
  /\ UNCHANGED <<replica, online, client>>

\* The handler applies its next op; the switch is not read again.
ApplyPushed(k) ==
  /\ push[k] # NoPush
  /\ push[k].phase = "handled"
  /\ \E o \in push[k].ops, wall \in Clock :
       /\ IsNext(o, push[k].ops)
       /\ replica' = [replica EXCEPT ![push[k].to] = Apply(replica[push[k].to], o, wall)]
       /\ push' = [push EXCEPT ![k].ops = push[k].ops \ {o}]
  /\ UNCHANGED <<online, client>>

\* The handler is done.
AnswerPush(k) ==
  /\ push[k] # NoPush
  /\ push[k].phase = "handled"
  /\ push[k].ops = {}
  /\ push' = [push EXCEPT ![k] = NoPush]
  /\ UNCHANGED <<replica, online, client>>

NodeStep(n) ==
  \/ LocalWrite(n)
  \/ SetOnline(n)
  \/ StartTick(n)
  \/ RequestOps(n)
  \/ ServeOps(n)
  \/ ApplyPulled(n)
  \/ ServeVv(n)
  \/ SendPush(n)
  \/ TimeOut(n)

PushStep(k) == AcceptPush(k) \/ LosePush(k) \/ ApplyPushed(k) \/ AnswerPush(k)

Next == (\E n \in Device : NodeStep(n)) \/ (\E k \in Slot : PushStep(k))

Spec == Init /\ [][Next]_vars

(***************************************************************************)
(* Fairness.  The runtime polls every task that is ready: the loop and the  *)
(* handlers never stop for good (a 2 s timeout bounds every await, and a    *)
(* tick follows the last).  The network may fail a request, but not every   *)
(* request a node ever makes to a peer that is online: the loop comes back  *)
(* each tick, and infinitely many tries have infinitely many answers.       *)
(* SendPush is strongly fair because Slot is a bound of the model.          *)
(***************************************************************************)
LoopRuns(n) == StartTick(n) \/ RequestOps(n) \/ ApplyPulled(n) \/ TimeOut(n)
HandlerRuns(k) == LosePush(k) \/ ApplyPushed(k) \/ AnswerPush(k)

Answered(n, t, A) == client[n].peer = t /\ A
Delivered(n, t) ==
  \E k \in Slot :
    push[k] # NoPush /\ push[k].from = n /\ push[k].to = t /\ AcceptPush(k)

\* Devices without a target never get as far as a push.
TaskFairness ==
  /\ \A n \in Device : WF_vars(LoopRuns(n))
  /\ \A n \in Device : Knows[n] \cup Finds[n] # {} => SF_vars(SendPush(n))
  /\ \A k \in Slot : WF_vars(HandlerRuns(k))

NetworkFairness ==
  \A n \in Device : \A t \in Knows[n] :
    /\ SF_vars(Answered(n, t, ServeOps(n)))
    /\ SF_vars(Answered(n, t, ServeVv(n)))
    /\ SF_vars(Delivered(n, t))

LiveSpec == Spec /\ TaskFairness /\ NetworkFairness
-----------------------------------------------------------------------------
(***************************************************************************)
(* Safety.                                                                 *)
(***************************************************************************)
\* A version vector is honest: vv[d] = k says that ops 1..k of d, and no other
\* op of d, are in the log.  Batches are prefixes computed from a vector that
\* may be old by the time they are applied, next to other batches; a gap would
\* never be filled again, because every peer trusts the vector (ops_since).
NoGap ==
  \A n \in Device, d \in Device :
    {o.seq : o \in {x \in replica[n].log : x.device = d}} = 1 .. replica[n].vv[d]

\* A (device, seq) pair names the same op on every node.
OneOpPerSeq ==
  \A n \in Device, m \in Device : \A o \in replica[n].log, p \in replica[m].log :
    o.device = p.device /\ o.seq = p.seq => o = p

\* What README.md calls convergence: two replicas that have seen the same ops
\* show the same entries and the same fingerprint, whatever the arrival order.
Convergence ==
  \A n \in Device, m \in Device :
    replica[n].vv = replica[m].vv => Visible(replica[n]) = Visible(replica[m])

\* Whatever a node has logged, its clock is in that millisecond or later, so a
\* local write can only lose to an earlier one within the same millisecond.
\* This is what `observe` does guarantee.
ClockCoversLog ==
  \A n \in Device : \A o \in replica[n].log : o.hlc.time <= replica[n].hlc.time

\* What the comment on `observe` says it guarantees: a local op dominates every
\* op its device had received, so the writer reads its own write.
LocalOpsDominate ==
  [][\A n \in Device : \A o \in replica'[n].log \ replica[n].log :
       o.device = n => \A p \in replica[n].log : Beats(o, p)]_vars

\* What is left of that: a local op loses at most to an op of another device that
\* was stamped in the same millisecond, whatever its device has received and
\* however its wall clock jumps; its own writes it always reads.
LocalOpsLoseWithinMs ==
  [][\A n \in Device : \A o \in replica'[n].log \ replica[n].log :
       o.device = n => \A p \in replica[n].log :
         Beats(o, p) \/ (p.device # n /\ p.hlc.time = o.hlc.time)]_vars

(***************************************************************************)
(* The inductive invariant.  NoGap needs batches that leave no gap, whose    *)
(* completeness in turn needs vectors sent earlier to be still below the     *)
(* receiver's.  Convergence needs the entries to be the winners of the log,  *)
(* and the log to be determined by the vector: every op anyone has is in the *)
(* log of the device that wrote it, which is ordered by seq and by stamp.    *)
(***************************************************************************)
VvLeq(v, w) == \A d \in Device : v[d] <= w[d]

OwnedBy(d) == {o \in replica[d].log : o.device = d}

\* Applying ops to n in (device, seq) order leaves no gap: whatever precedes
\* an op of the batch is in the batch, or known to n.
LeavesNoGap(ops, n) ==
  \A o \in ops : \A s \in 1 .. o.seq :
    \/ s <= replica[n].vv[o.device]
    \/ \E p \in ops : p.device = o.device /\ p.seq = s

Genuine(ops) == \A o \in ops : o \in replica[o.device].log

SeqIsOwnMark ==
  \A n \in Device : replica[n].device = n /\ replica[n].seq = replica[n].vv[n]

LogsGenuine == \A n \in Device : Genuine(replica[n].log)

OwnOpsOrdered ==
  \A d \in Device : \A o \in OwnedBy(d), p \in OwnedBy(d) :
    \/ o = p
    \/ o.seq < p.seq /\ HlcLess(o.hlc, p.hlc)
    \/ p.seq < o.seq /\ HlcLess(p.hlc, o.hlc)

OwnClockAhead ==
  \A d \in Device : \A o \in OwnedBy(d) : o.hlc = replica[d].hlc \/ HlcLess(o.hlc, replica[d].hlc)

EntriesAreWinners == \A n \in Device : EntriesWin(replica[n])

ClientBatch(n) ==
  /\ Genuine(client[n].ops) /\ LeavesNoGap(client[n].ops, n)
  /\ client[n].pc = "since" => VvLeq(client[n].vv, replica[n].vv)
  /\ client[n].pc = "push" => VvLeq(client[n].vv, replica[client[n].peer].vv)

PushBatch(k) ==
  push[k] # NoPush => Genuine(push[k].ops) /\ LeavesNoGap(push[k].ops, push[k].to)

\* The replicas alone, and what is under way between them.
LogsInv ==
  /\ SeqIsOwnMark
  /\ NoGap
  /\ LogsGenuine
  /\ OwnOpsOrdered
  /\ OwnClockAhead
  /\ EntriesAreWinners

SyncInv ==
  /\ LogsInv
  /\ \A n \in Device : ClientBatch(n)
  /\ \A k \in Slot : PushBatch(k)

(***************************************************************************)
(* Liveness.                                                               *)
(***************************************************************************)
\* A device that is switched off for good ends up contacting no one and serving
\* no one, although nothing but the next tick reads the switch: a round or a
\* handler that is under way, and the other targets of the tick, still run.
Quiet(n) ==
  /\ client[n].pc = "loop" /\ client[n].todo = {}
  /\ \A k \in Slot : push[k] # NoPush /\ push[k].to = n => push[k].phase = "sent"

Quiesces == \A n \in Switched : <>[](~ online[n]) => <>[]Quiet(n)

\* Replicas reconverge with no intervention: once every device stays online,
\* all come to know every write, even where only one side of each pair has the
\* other's address; from then on they show the same entries (Convergence).
Reconverges ==
  <>[](\A n \in Device : online[n]) =>
  <>[](\A n \in Device, m \in Device : replica[n].vv[m] = replica[m].seq)
=============================================================================
