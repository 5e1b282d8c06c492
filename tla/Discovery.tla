------------------------------ MODULE Discovery ------------------------------
(***************************************************************************)
(* How nodes find one another: src/discovery.rs, and the part of            *)
(* src/main.rs that chooses the targets of a tick, exchanges directories    *)
(* with each of them and gives a process its id and its address.            *)
(*                                                                         *)
(* A machine has an address on the local network, which may change, and may *)
(* have one on the tailnet, which does not.  A process computes what it     *)
(* tells others of itself once, when it starts: if it finds no way out of   *)
(* the machine then, the loopback address, which leads every reader to      *)
(* itself.  Its directory (PexCache) lives in memory, is keyed by device    *)
(* id, takes whatever arrives last and forgets nothing.  All processes use  *)
(* the same port.                                                           *)
(*                                                                         *)
(* An exchange is cut where its request leaves (Ask), where the handler     *)
(* merges it and lists its answer (Serve, two critical sections with no     *)
(* await in between), and where the caller merges the answer (Learn).  A    *)
(* caller that gives up does not take its request back: the handler may run *)
(* later (ServeLate).  The sync_round that follows at the same address is   *)
(* the subject of Sync.                                                     *)
(*                                                                         *)
(* Every machine runs the program from the start, and online: one that is   *)
(* started late, or switched off for a while, is one that does nothing and  *)
(* whose callers fail, which the loop allows at any time.  For the same     *)
(* reason a process that ends and is started again later does both in one   *)
(* step, Restart.                                                           *)
(***************************************************************************)
EXTENDS Integers

CONSTANTS
  Node,       \* the machines
  NoAddr,     \* no address
  Local,      \* the loopback address
  NoId,       \* the device_id file is missing, empty or unreadable
  Tail,       \* Tail[n]: the tailnet address of n, or NoAddr
  Home,       \* Home[n]: the local address of n at first
  Away,       \* Away[n]: the local addresses that it may get instead, once
  Bootstrap,  \* Bootstrap[n]: the addresses in n's --bootstrap
  Announcing, \* the nodes without --no-lan-discovery
  Matching,   \* the nodes whose hostname starts with --peer-prefix
  Forgetful,  \* the nodes whose device_id file may fail to be written or read
  Unrouted,   \* the nodes that may have no route out when they start
  Slow,       \* pairs of a caller and a callee: its request may outlive its timeout
  Links,      \* the calls that fairness speaks of: pairs of a caller and a callee
  MaxStarts   \* bound: MaxStarts[n] is how often n starts

\* Addresses are ordered, as the strings that the code sorts.
Addr == {Local} \cup {Home[n] : n \in Node} \cup (UNION {Away[n] : n \in Node})
        \cup ({Tail[n] : n \in Node} \ {NoAddr}) \cup (UNION {Bootstrap[n] : n \in Node})

\* A generated id is unlike any other: it holds the nanosecond and the pid.
Id == UNION {{<<n, k>> : k \in 1 .. MaxStarts[n]} : n \in Node}

ASSUME AddressAssumption ==
  /\ Home \in [Node -> Nat] /\ Away \in [Node -> SUBSET Nat] /\ Local \in Nat
  /\ Tail \in [Node -> Nat \cup {NoAddr}] /\ NoAddr \notin Nat
  /\ Bootstrap \in [Node -> SUBSET Nat]
ASSUME MatchingAssumption == Matching \subseteq Node
ASSUME IdAssumption == NoId \notin Id /\ MaxStarts \in [Node -> Nat \ {0}]

VARIABLES
  lan,     \* the local address of each machine
  starts,  \* how often each machine started the program
  file,    \* the device_id file of each machine, or NoId
  proc,    \* what each process computed of itself when it started
  pex,     \* the PexCache
  loop,    \* the antientropy_loop task
  late     \* a request at each machine whose caller has given up, or Nobody

vars == <<lan, starts, file, proc, pex, loop, late>>

\* A directory: BTreeMap<String, Peer>, the host name left out.
Directory == UNION {[ids -> Addr] : ids \in SUBSET Id}
Nobody == [i \in {} |-> NoAddr]

\* A process whose lan is NoAddr has found no route out of its machine.
ProcState == [id : Id, advertise : Addr, lan : Addr \cup {NoAddr}]

\* pc is "next" between two targets (and two ticks, when todo is empty), "asked"
\* while /v1/peers is awaited, "answered" while the answer is on its way back.
LoopState ==
  [pc : {"next", "asked", "answered"}, todo : SUBSET Addr, addr : Addr \cup {NoAddr},
   peers : Directory]
BetweenTargets(todo) == [pc |-> "next", todo |-> todo, addr |-> NoAddr, peers |-> Nobody]

DiscoveryTypeOK ==
  /\ lan \in [Node -> Addr]
  /\ starts \in [Node -> Nat]
  /\ file \in [Node -> Id \cup {NoId}]
  /\ proc \in [Node -> ProcState]
  /\ DOMAIN pex = Node /\ DOMAIN loop = Node /\ DOMAIN late = Node
  /\ \A n \in Node : pex[n] \in Directory /\ loop[n] \in LoopState /\ late[n] \in Directory

(***************************************************************************)
(* The machines.                                                           *)
(***************************************************************************)
\* What a machine listens on (0.0.0.0), and who can connect to it there.
Reaches(n, a, m) ==
  \/ a = lan[m]
  \/ a = Tail[m] /\ Tail[n] # NoAddr
  \/ a = Local /\ n = m

\* What local_lan_ip may find.
LocalLanIp(n) == {lan[n]} \cup (IF n \in Unrouted THEN {NoAddr} ELSE {})

\* What read_device_id may find.
ReadDeviceId(n) == {file[n]} \cup (IF n \in Forgetful THEN {NoId} ELSE {})

\* What is in the file when resolve_device_id has written id to it, or has failed
\* to, before or after it emptied the file.
WriteDeviceId(n, id) == {id} \cup (IF n \in Forgetful THEN {file[n], NoId} ELSE {})

\* A plausible bug: what was read is the id, if only an empty string.
ResolvedIdUnchecked(n, read, start) == read

\* resolve_device_id: the persisted id, or else a fresh one.
ResolvedId(n, read, start) == IF read # NoId THEN read ELSE <<n, start>>

\* main: the address to announce is the tailnet one, or else the local one, or
\* else the loopback one.
Process(n, id, a) ==
  [id |-> id, lan |-> a,
   advertise |-> IF Tail[n] # NoAddr THEN Tail[n] ELSE IF a # NoAddr THEN a ELSE Local]

\* The first start finds no device_id file, and may fail to write one.
DiscoveryInit ==
  /\ lan = Home
  /\ starts = [n \in Node |-> 1]
  /\ \E unwritten \in SUBSET Forgetful :
       file = [n \in Node |-> IF n \in unwritten THEN NoId ELSE ResolvedId(n, NoId, 1)]
  /\ \E isolated \in SUBSET Unrouted :
       proc = [n \in Node |-> Process(n, ResolvedId(n, NoId, 1),
                                       IF n \in isolated THEN NoAddr ELSE Home[n])]
  /\ pex = [n \in Node |-> Nobody]
  /\ loop = [n \in Node |-> BetweenTargets({})]
  /\ late = [n \in Node |-> Nobody]

\* The machine gets another local address, one that nobody has; the process does not
\* notice.
Roam(n) ==
  /\ lan[n] = Home[n]
  /\ \E a \in Away[n] : /\ \A m \in Node : lan[m] # a
                       /\ lan' = [lan EXCEPT ![n] = a]
  /\ UNCHANGED <<starts, file, proc, pex, loop, late>>

\* What n leaves behind when it stops waiting: nothing, or the request that it
\* sent, with a machine that had the address (bound: one at a time).
Abandoned(n) ==
  {late} \cup
  {[late EXCEPT ![m] = loop[n].peers] :
     m \in {w \in Node : /\ loop[n].pc = "asked" /\ Reaches(n, loop[n].addr, w)
                        /\ <<n, w>> \in Slow /\ late[w] = Nobody}}

\* The process ends, and with it the directory it had in memory, and is started
\* again.
Restart(n) ==
  /\ starts[n] < MaxStarts[n]
  /\ starts' = [starts EXCEPT ![n] = starts[n] + 1]
  /\ \E read \in ReadDeviceId(n), a \in LocalLanIp(n) :
       LET id == ResolvedId(n, read, starts'[n])
       IN  /\ proc' = [proc EXCEPT ![n] = Process(n, id, a)]
           /\ \E f \in IF read # NoId THEN {read} ELSE WriteDeviceId(n, id) :
                file' = [file EXCEPT ![n] = f]
  /\ pex' = [pex EXCEPT ![n] = Nobody]
  /\ loop' = [loop EXCEPT ![n] = BetweenTargets({})]
  /\ \E left \in Abandoned(n) : late' = [left EXCEPT ![n] = Nobody]
  /\ UNCHANGED lan

(***************************************************************************)
(* The directory.                                                          *)
(***************************************************************************)
\* PexCache::merge: the last address to arrive for an id replaces the others.
Merge(known, peers) ==
  [i \in DOMAIN known \cup DOMAIN peers |-> IF i \in DOMAIN peers THEN peers[i] ELSE known[i]]

\* One peer.
Listed(id, a) == [i \in {id} |-> a]

\* A plausible bug: the caller does not introduce itself.
ListWithoutSelf(n) == pex[n]

\* What a node tells another: its list, and itself last, under its own address
\* whatever it may have heard of itself.
ListWithSelf(n) == Merge(pex[n], Listed(proc[n].id, proc[n].advertise))

(***************************************************************************)
(* The loop.                                                               *)
(***************************************************************************)
\* What `tailscale status` lists.  It leaves out who is not online, and then the
\* call would have failed.
TailnetCandidates(n) ==
  IF Tail[n] = NoAddr THEN {} ELSE {Tail[m] : m \in Matching \ {n}} \ {NoAddr}

\* The targets of a tick.
Targets(n) ==
  Bootstrap[n] \cup TailnetCandidates(n) \cup {pex[n][i] : i \in DOMAIN pex[n]}

StartTick(n) ==
  /\ loop[n].pc = "next"
  /\ loop[n].todo = {}
  /\ loop' = [loop EXCEPT ![n] = BetweenTargets(Targets(n) \ {proc[n].advertise})]
  /\ UNCHANGED <<lan, starts, file, proc, pex, late>>

\* exchange_peers with the next target, in the order of the addresses.
Ask(n) ==
  /\ loop[n].pc = "next"
  /\ \E a \in loop[n].todo :
       /\ \A b \in loop[n].todo : a <= b
       /\ loop' = [loop EXCEPT ![n] = [pc |-> "asked", todo |-> loop[n].todo \ {a},
                                      addr |-> a, peers |-> ListWithSelf(n)]]
  /\ UNCHANGED <<lan, starts, file, proc, pex, late>>

\* A plausible bug: the handler answers and does not absorb what it is sent.
ServeOneWay(n, m) ==
  /\ loop[n].pc = "asked"
  /\ Reaches(n, loop[n].addr, m)
  /\ loop' = [loop EXCEPT ![n].pc = "answered", ![n].peers = ListWithSelf(m)]
  /\ UNCHANGED <<lan, starts, file, proc, pex, late>>

\* The `peers` handler of the node that has the address now.
Serve(n, m) ==
  /\ loop[n].pc = "asked"
  /\ Reaches(n, loop[n].addr, m)
  /\ LET union == Merge(pex[m], loop[n].peers)
     IN  /\ pex' = [pex EXCEPT ![m] = union]
         /\ loop' = [loop EXCEPT ![n].pc = "answered",
                       ![n].peers = Merge(union, Listed(proc[m].id, proc[m].advertise))]
  /\ UNCHANGED <<lan, starts, file, proc, late>>

\* The answer reaches the caller.
Learn(n) ==
  /\ loop[n].pc = "answered"
  /\ pex' = [pex EXCEPT ![n] = Merge(pex[n], loop[n].peers)]
  /\ loop' = [loop EXCEPT ![n] = BetweenTargets(loop[n].todo)]
  /\ UNCHANGED <<lan, starts, file, proc, late>>

\* No one is there, the answer is a 503, or it does not come within 2 s.
Fail(n) ==
  /\ loop[n].pc \in {"asked", "answered"}
  /\ loop' = [loop EXCEPT ![n] = BetweenTargets(loop[n].todo)]
  /\ late' \in Abandoned(n)
  /\ UNCHANGED <<lan, starts, file, proc, pex>>

\* The `peers` handler, when its caller has gone on, or is another process by now.
ServeLate(m) ==
  /\ late[m] # Nobody
  /\ pex' = [pex EXCEPT ![m] = Merge(pex[m], late[m])]
  /\ late' = [late EXCEPT ![m] = Nobody]
  /\ UNCHANGED <<lan, starts, file, proc, loop>>

(***************************************************************************)
(* The announce on the local network, which a process that found no local   *)
(* address neither sends nor hears; the online switch does not gate it.     *)
(***************************************************************************)
\* A plausible bug: the announce is listed under the address of who hears it.
HearAtHome(n, m) ==
  /\ {n, m} \subseteq Announcing /\ proc[n].lan # NoAddr /\ proc[m].lan # NoAddr
  /\ proc[n].id # proc[m].id
  /\ n \in Matching
  /\ pex' = [pex EXCEPT ![m] = Merge(pex[m], Listed(proc[n].id, proc[m].lan))]
  /\ UNCHANGED <<lan, starts, file, proc, loop, late>>

Hear(n, m) ==
  /\ {n, m} \subseteq Announcing /\ proc[n].lan # NoAddr /\ proc[m].lan # NoAddr
  /\ proc[n].id # proc[m].id
  /\ n \in Matching
  /\ pex' = [pex EXCEPT ![m] = Merge(pex[m], Listed(proc[n].id, proc[n].lan))]
  /\ UNCHANGED <<lan, starts, file, proc, loop, late>>

MachineStep(n) == Roam(n) \/ Restart(n)
LoopStep(n) == StartTick(n) \/ Ask(n) \/ Learn(n) \/ Fail(n)

DiscoveryNext ==
  \/ \E n \in Node : MachineStep(n) \/ LoopStep(n) \/ ServeLate(n)
  \/ \E n \in Node, m \in Node : Serve(n, m) \/ Hear(n, m)

DiscoverySpec == DiscoveryInit /\ [][DiscoveryNext]_vars

(***************************************************************************)
(* Fairness.  The loop is a task of a runtime that polls what is ready, and *)
(* a 2 s timeout ends every await.  Of the infinitely many calls of a node  *)
(* to another one that is there, not all fail, and an announce that is      *)
(* repeated for ever is heard.  Nothing makes a machine move, start again   *)
(* or get to a request that was left behind.                                *)
(***************************************************************************)
\* n is calling m.
Calls(n, m) == loop[n].pc = "asked" /\ Reaches(n, loop[n].addr, m)

\* A call of n to m comes to its end.
Succeeds(n, m) == Learn(n) /\ Reaches(n, loop[n].addr, m)

LiveDiscovery ==
  /\ DiscoverySpec
  /\ \A n \in Node : WF_vars(LoopStep(n))
  /\ \A n \in Announcing, m \in Announcing : WF_vars(Hear(n, m))
  /\ \A l \in Links : []<>Calls(l[1], l[2]) => []<><<Succeeds(l[1], l[2])>>_vars
-----------------------------------------------------------------------------
\* What may be told of a machine: the addresses that it has, or had before it
\* moved, and the loopback address if it is one that may start with no other.
Had(m) ==
  ({Home[m], lan[m], Tail[m]} \ {NoAddr})
  \cup (IF m \in Unrouted /\ Tail[m] = NoAddr THEN {Local} ELSE {})

\* Every id in a directory is one that a machine has given itself, under an address
\* of that machine, past or present.
Genuine(directory) ==
  \A m \in Node : \A k \in 1 .. MaxStarts[m] : <<m, k>> \in DOMAIN directory =>
    k <= starts[m] /\ directory[<<m, k>>] \in Had(m)

\* However often a listing is passed on, and in whatever order listings overtake
\* one another, restarts and changes of address, an address is never told of
\* another machine than one that announced it of itself.  A listing that is stale
\* leads nowhere, or to the machine that has the address by now; one under the
\* loopback address, of a machine that had no other, leads its reader to itself.
ListingsGenuine ==
  \A n \in Node :
    /\ \E k \in 1 .. starts[n] : proc[n].id = <<n, k>>
    /\ Genuine(pex[n]) /\ Genuine(loop[n].peers) /\ Genuine(late[n])

\* Of each other, as opposed to third parties (AnswerTellsAll), the two ends of an
\* exchange tell what is true of the processes they are: neither a listing that
\* was heard before nor one that comes along with it gets in the way.
ExchangeIntroduces ==
  [][\A n \in Node, m \in Node :
       Serve(n, m) =>
         /\ proc[n].id \in DOMAIN pex'[m] /\ pex'[m][proc[n].id] = proc[n].advertise
         /\ proc[m].id \in DOMAIN loop'[n].peers
         /\ loop'[n].peers[proc[m].id] = proc[m].advertise]_vars

\* Everyone comes to be listed by everyone for good, under the id it has now, in
\* whatever order the processes start, restart with an empty directory, and move.
EveryoneListed ==
  <>[](\A n \in Node, m \in Node : n # m => proc[m].id \in DOMAIN pex[n])

\* n has an address of m among the targets of its tick, and can connect to it.
Visits(n, m) == \E a \in loop[n].todo : Reaches(n, a, m)

\* No address was ever told of n but the one that it announces and still has.
NeverMoved(n) ==
  \/ Tail[n] # NoAddr
  \/ starts[n] = 1 /\ proc[n].advertise = lan[n]

\* Of two nodes one of which never moves, one visits the other again and again,
\* although addresses that nobody has any more, or that lead to their reader, go on
\* circulating: what Sync needs of its targets.  Two that have both moved, or found
\* no route out when they started, may miss each other for ever.
PairsMeet ==
  \A n \in Node, m \in Node : n < m =>
    []<>(Visits(n, m) \/ Visits(m, n) \/ ~ (NeverMoved(n) \/ NeverMoved(m)))

\* m lists the process of k under the address it announces and still has.
ListsRightly(m, k) ==
  /\ proc[k].id \in DOMAIN pex[m]
  /\ pex[m][proc[k].id] = proc[k].advertise
  /\ lan[k] = proc[k].lan

\* What the table of endpoints and the comment on `peers` say of /v1/peers: the
\* answer is the union of what both know, so what the callee knows gets across.
AnswerTellsAll ==
  [][\A n \in Node, m \in Node, k \in Node :
       Serve(n, m) /\ ListsRightly(m, k)
       => loop'[n].peers[proc[k].id] = proc[k].advertise]_vars
=============================================================================
