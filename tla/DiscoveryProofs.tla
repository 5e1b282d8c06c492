-------------------------- MODULE DiscoveryProofs --------------------------
(***************************************************************************)
(* Proofs about Discovery, for any machines, addresses, bootstrap lists and *)
(* number of restarts.                                                      *)
(*                                                                         *)
(* A directory is only ever filled from other directories and from what a   *)
(* process says of itself.  The second is genuine because a process reads   *)
(* its address from its machine, or takes the loopback address when there   *)
(* is none to read; merging keeps the first so.                             *)
(***************************************************************************)
EXTENDS Discovery, TLAPS

\* The addresses that each machine has had.
HadBy == [m \in Node |-> Had(m)]

\* Genuine, for given numbers of starts and addresses.
GenuineBy(directory, st, had) ==
  \A m \in Node : \A k \in 1 .. MaxStarts[m] : <<m, k>> \in DOMAIN directory =>
    k <= st[m] /\ directory[<<m, k>>] \in had[m]

\* A listing under id that is told at address a comes from a machine that has it.
OwnListing(id, a, st, had) ==
  \E m \in Node : \E k \in 1 .. st[m] : id = <<m, k>> /\ a \in had[m]

\* What a process says of itself is true, and the device_id file, if there is one,
\* holds an id that its machine has given itself.
ProcsGenuine(st, had) ==
  \A n \in Node :
    /\ \E k \in 1 .. st[n] : proc[n].id = <<n, k>>
    /\ file[n] # NoId => \E k \in 1 .. st[n] : file[n] = <<n, k>>
    /\ proc[n].lan \in had[n] \cup {NoAddr} /\ proc[n].advertise \in had[n]

AllGenuine(st, had) ==
  \A n \in Node : /\ GenuineBy(pex[n], st, had) /\ GenuineBy(loop[n].peers, st, had)
                 /\ GenuineBy(late[n], st, had)

\* Whoever waits for an answer has sent a list with itself in it.
AskedIntroduced ==
  \A n \in Node : loop[n].pc = "asked" =>
    /\ proc[n].id \in DOMAIN loop[n].peers
    /\ loop[n].peers[proc[n].id] = proc[n].advertise

DiscoveryInv ==
  /\ DiscoveryTypeOK
  /\ \A n \in Node : starts[n] \in 1 .. MaxStarts[n]
  /\ ProcsGenuine(starts, HadBy)
  /\ AllGenuine(starts, HadBy)
  /\ AskedIntroduced

-----------------------------------------------------------------------------
(***************************************************************************)
(* Directories.                                                            *)
(***************************************************************************)
\* What it is to be a directory.
LEMMA DirectoryIs ==
  ASSUME NEW d
  PROVE  d \in Directory <=>
           /\ DOMAIN d \subseteq Id
           /\ d = [i \in DOMAIN d |-> d[i]]
           /\ \A i \in DOMAIN d : d[i] \in Addr
<1>1. ASSUME d \in Directory
      PROVE  /\ DOMAIN d \subseteq Id
             /\ d = [i \in DOMAIN d |-> d[i]]
             /\ \A i \in DOMAIN d : d[i] \in Addr
  <2>1. PICK ids \in SUBSET Id : d \in [ids -> Addr]
    BY <1>1 DEF Directory
  <2> QED BY <2>1
<1>2. ASSUME DOMAIN d \subseteq Id, d = [i \in DOMAIN d |-> d[i]],
             \A i \in DOMAIN d : d[i] \in Addr
      PROVE  d \in Directory
  <2>1. d \in [DOMAIN d -> Addr]
    BY <1>2
  <2> QED BY <1>2, <2>1 DEF Directory
<1> QED BY <1>1, <1>2

\* The union of two directories is one.
LEMMA MergeIs ==
  ASSUME NEW d \in Directory, NEW e \in Directory
  PROVE  Merge(d, e) \in Directory
<1>1. /\ DOMAIN Merge(d, e) = DOMAIN d \cup DOMAIN e
      /\ \A i \in DOMAIN d \cup DOMAIN e :
           Merge(d, e)[i] = IF i \in DOMAIN e THEN e[i] ELSE d[i]
      /\ Merge(d, e) = [i \in DOMAIN Merge(d, e) |-> Merge(d, e)[i]]
  BY DEF Merge
<1>2. DOMAIN d \cup DOMAIN e \subseteq Id /\ (\A i \in DOMAIN d : d[i] \in Addr)
      /\ (\A i \in DOMAIN e : e[i] \in Addr)
  BY DirectoryIs
<1>3. \A i \in DOMAIN Merge(d, e) : Merge(d, e)[i] \in Addr
  BY <1>1, <1>2
<1> QED BY <1>1, <1>2, <1>3, DirectoryIs

\* One listing is a directory.
LEMMA ListedIs ==
  ASSUME NEW id \in Id, NEW a \in Addr
  PROVE  Listed(id, a) \in Directory
<1>1. /\ DOMAIN Listed(id, a) = {id}
      /\ \A i \in {id} : Listed(id, a)[i] = a
      /\ Listed(id, a) = [i \in DOMAIN Listed(id, a) |-> Listed(id, a)[i]]
  BY DEF Listed
<1> QED BY <1>1, DirectoryIs

\* The empty directory.
LEMMA NobodyIs == Nobody \in Directory /\ DOMAIN Nobody = {}
<1>1. DOMAIN Nobody = {} /\ Nobody = [i \in DOMAIN Nobody |-> Nobody[i]]
  BY DEF Nobody
<1> QED BY <1>1, DirectoryIs

\* The union of two genuine directories is genuine, whichever listing prevails.
LEMMA MergeGenuine ==
  ASSUME NEW d, NEW e, NEW st, NEW had, GenuineBy(d, st, had), GenuineBy(e, st, had)
  PROVE  GenuineBy(Merge(d, e), st, had)
BY DEF GenuineBy, Merge

\* What a machine says of itself is genuine.
LEMMA ListedGenuine ==
  ASSUME NEW id, NEW a, NEW st, NEW had, OwnListing(id, a, st, had)
  PROVE  GenuineBy(Listed(id, a), st, had)
<1> SUFFICES ASSUME NEW m \in Node, NEW k \in 1 .. MaxStarts[m],
                    <<m, k>> \in DOMAIN Listed(id, a)
             PROVE  k <= st[m] /\ Listed(id, a)[<<m, k>>] \in had[m]
  BY DEF GenuineBy
<1>1. id = <<m, k>> /\ Listed(id, a)[<<m, k>>] = a
  BY DEF Listed
<1>2. PICK w \in Node : \E j \in 1 .. st[w] : id = <<w, j>> /\ a \in had[w]
  BY DEF OwnListing
<1>3. PICK j \in 1 .. st[w] : id = <<w, j>> /\ a \in had[w]
  BY <1>2
<1>4. w = m /\ j = k
  BY <1>1, <1>3
<1> QED BY <1>1, <1>3, <1>4

\* An empty directory says nothing that is wrong.
LEMMA NobodyGenuine ==
  ASSUME NEW st, NEW had
  PROVE  GenuineBy(Nobody, st, had)
BY NobodyIs DEF GenuineBy

\* What was genuine stays so: a machine starts more often, and has had more addresses.
LEMMA GenuineLater ==
  ASSUME NEW d, NEW st, NEW had, NEW st2, NEW had2, GenuineBy(d, st, had),
         \A m \in Node : st[m] \in Nat /\ st2[m] \in Nat /\ st[m] <= st2[m]
                         /\ had[m] \subseteq had2[m]
  PROVE  GenuineBy(d, st2, had2)
<1> SUFFICES ASSUME NEW m \in Node, NEW k \in 1 .. MaxStarts[m], <<m, k>> \in DOMAIN d
             PROVE  k <= st2[m] /\ d[<<m, k>>] \in had2[m]
  BY DEF GenuineBy
<1>1. k <= st[m] /\ d[<<m, k>>] \in had[m]
  BY DEF GenuineBy
<1> QED BY <1>1

-----------------------------------------------------------------------------
(***************************************************************************)
(* Processes and machines.                                                 *)
(***************************************************************************)
\* Where a machine is, and what it may say, are addresses.
LEMMA AddressesAre ==
  ASSUME NEW n \in Node
  PROVE  /\ Home[n] \in Addr /\ Away[n] \subseteq Addr /\ Bootstrap[n] \subseteq Addr
         /\ Tail[n] # NoAddr => Tail[n] \in Addr
         /\ Local \in Addr /\ NoAddr \notin Addr
<1>1. /\ Home[n] \in Addr /\ Local \in Addr
      /\ Away[n] \subseteq Addr /\ Bootstrap[n] \subseteq Addr
  BY DEF Addr
<1>2. Tail[n] # NoAddr => Tail[n] \in Addr
  BY DEF Addr
<1>3. NoAddr \notin Addr
  BY AddressAssumption DEF Addr
<1> QED BY <1>1, <1>2, <1>3

\* A generated id is an id of the machine.
LEMMA FreshIdIs ==
  ASSUME NEW n \in Node, NEW k \in 1 .. MaxStarts[n]
  PROVE  <<n, k>> \in Id
BY DEF Id

\* What a process computes of itself, from an address or from none.
LEMMA ProcessIs ==
  ASSUME NEW n \in Node, NEW id \in Id, NEW a \in Addr \cup {NoAddr}, a \in LocalLanIp(n),
         lan[n] \in Addr
  PROVE  /\ Process(n, id, a) \in ProcState
         /\ Process(n, id, a).id = id
         /\ Process(n, id, a).lan \in Had(n) \cup {NoAddr}
         /\ Process(n, id, a).advertise \in Had(n)
<1> DEFINE adv == IF Tail[n] # NoAddr THEN Tail[n] ELSE IF a # NoAddr THEN a ELSE Local
<1>1. adv \in Addr
  BY AddressesAre
<1>2. lan[n] # NoAddr /\ (a = NoAddr => n \in Unrouted) /\ (a # NoAddr => a = lan[n])
  BY AddressesAre DEF LocalLanIp
<1>3. adv \in Had(n) /\ a \in Had(n) \cup {NoAddr}
  BY <1>2 DEF Had
<1> HIDE DEF adv
<1>4. Process(n, id, a) = [id |-> id, lan |-> a, advertise |-> adv]
  BY DEF Process, adv
<1> QED BY <1>1, <1>3, <1>4 DEF ProcState

\* The loop between two targets.
LEMMA BetweenTargetsIs ==
  ASSUME NEW todo \in SUBSET Addr
  PROVE  /\ BetweenTargets(todo) \in LoopState
         /\ BetweenTargets(todo).pc = "next" /\ BetweenTargets(todo).peers = Nobody
BY NobodyIs DEF BetweenTargets, LoopState

\* What a node tells of itself and of others is a directory, and names the node.
LEMMA ListWithSelfIs ==
  ASSUME DiscoveryInv, NEW n \in Node
  PROVE  /\ ListWithSelf(n) \in Directory
         /\ proc[n].id \in DOMAIN ListWithSelf(n)
         /\ ListWithSelf(n)[proc[n].id] = proc[n].advertise
         /\ GenuineBy(ListWithSelf(n), starts, HadBy)
<1>1. proc[n].id \in Id /\ proc[n].advertise \in Addr /\ pex[n] \in Directory
  BY DEF DiscoveryInv, DiscoveryTypeOK, ProcState
<1>2. Listed(proc[n].id, proc[n].advertise) \in Directory
  BY <1>1, ListedIs
<1>3. ListWithSelf(n) \in Directory
  BY <1>1, <1>2, MergeIs DEF ListWithSelf
<1>4. OwnListing(proc[n].id, proc[n].advertise, starts, HadBy)
  BY DEF DiscoveryInv, ProcsGenuine, OwnListing
<1>5. GenuineBy(ListWithSelf(n), starts, HadBy)
  BY <1>4, ListedGenuine, MergeGenuine DEF DiscoveryInv, AllGenuine, ListWithSelf
<1>6. /\ proc[n].id \in DOMAIN ListWithSelf(n)
      /\ ListWithSelf(n)[proc[n].id] = proc[n].advertise
  BY DEF ListWithSelf, Merge, Listed
<1> QED BY <1>3, <1>5, <1>6

\* The targets of a tick are addresses.
LEMMA TargetsAre ==
  ASSUME DiscoveryInv, NEW n \in Node
  PROVE  Targets(n) \subseteq Addr
<1>1. TailnetCandidates(n) \subseteq Addr
  BY MatchingAssumption DEF TailnetCandidates, Addr
<1>2. {pex[n][i] : i \in DOMAIN pex[n]} \subseteq Addr
  BY DirectoryIs DEF DiscoveryInv, DiscoveryTypeOK
<1> QED BY <1>1, <1>2, AddressesAre DEF Targets

-----------------------------------------------------------------------------
(***************************************************************************)
(* The initial states and the steps.                                       *)
(***************************************************************************)
\* The first process of every machine.
LEMMA InvInit == DiscoveryInit => DiscoveryInv
<1> SUFFICES ASSUME DiscoveryInit PROVE DiscoveryInv
  OBVIOUS
<1>1. PICK isolated \in SUBSET Unrouted :
        proc = [n \in Node |-> Process(n, ResolvedId(n, NoId, 1),
                                      IF n \in isolated THEN NoAddr ELSE Home[n])]
  BY DEF DiscoveryInit
<1> DEFINE found(n) == IF n \in isolated THEN NoAddr ELSE Home[n]
<1>2. \A n \in Node : 1 \in 1 .. MaxStarts[n] /\ <<n, 1>> \in Id
  <2> SUFFICES ASSUME NEW n \in Node PROVE 1 \in 1 .. MaxStarts[n] /\ <<n, 1>> \in Id
    OBVIOUS
  <2>1. MaxStarts[n] \in Nat \ {0}
    BY IdAssumption
  <2>2. 1 \in 1 .. MaxStarts[n]
    BY <2>1
  <2> QED BY <2>2, FreshIdIs
<1>3. /\ lan = Home /\ \A n \in Node : starts[n] = 1
      /\ \A n \in Node : proc[n] = Process(n, <<n, 1>>, found(n))
      /\ file \in [Node -> Id \cup {NoId}] /\ \A n \in Node : file[n] \in {NoId, <<n, 1>>}
      /\ DOMAIN pex = Node /\ \A n \in Node : pex[n] = Nobody
      /\ DOMAIN late = Node /\ \A n \in Node : late[n] = Nobody
      /\ DOMAIN loop = Node /\ \A n \in Node : loop[n] = BetweenTargets({})
  <2>1. PICK unwritten \in SUBSET Forgetful :
          file = [n \in Node |-> IF n \in unwritten THEN NoId ELSE ResolvedId(n, NoId, 1)]
    BY DEF DiscoveryInit
  <2>2. \A n \in Node : ResolvedId(n, NoId, 1) = <<n, 1>>
    BY DEF ResolvedId
  <2>3. file \in [Node -> Id \cup {NoId}] /\ \A n \in Node : file[n] \in {NoId, <<n, 1>>}
    BY <1>2, <2>1, <2>2
  <2>4. \A n \in Node : proc[n] = Process(n, <<n, 1>>, found(n))
    BY <1>1, <2>2
  <2> QED BY <2>3, <2>4 DEF DiscoveryInit
<1>4. \A n \in Node :
        /\ Home[n] \in Addr
        /\ proc[n] \in ProcState /\ proc[n].id = <<n, 1>>
        /\ proc[n].lan \in Had(n) \cup {NoAddr} /\ proc[n].advertise \in Had(n)
  <2> SUFFICES ASSUME NEW n \in Node
               PROVE  /\ Home[n] \in Addr
                      /\ proc[n] \in ProcState /\ proc[n].id = <<n, 1>>
                      /\ proc[n].lan \in Had(n) \cup {NoAddr} /\ proc[n].advertise \in Had(n)
    OBVIOUS
  <2>1. Home[n] \in Addr /\ <<n, 1>> \in Id /\ lan[n] = Home[n]
    BY <1>2, <1>3, AddressesAre
  <2>2. found(n) \in Addr \cup {NoAddr} /\ found(n) \in LocalLanIp(n)
    BY <2>1 DEF LocalLanIp
  <2>3. proc[n] = Process(n, <<n, 1>>, found(n))
    BY <1>3
  <2> HIDE DEF found
  <2> QED BY <2>1, <2>2, <2>3, ProcessIs
<1>5. /\ BetweenTargets({}) \in LoopState /\ Nobody \in Directory
      /\ BetweenTargets({}).pc = "next" /\ BetweenTargets({}).peers = Nobody
  <2>1. {} \in SUBSET Addr
    OBVIOUS
  <2> QED BY <2>1, BetweenTargetsIs, NobodyIs
<1>6. DiscoveryTypeOK
  <2>1. lan \in [Node -> Addr]
    BY <1>3, <1>4, AddressAssumption
  <2>2. starts \in [Node -> Nat]
    BY DEF DiscoveryInit
  <2>3. DOMAIN proc = Node /\ proc = [n \in DOMAIN proc |-> proc[n]]
    BY <1>1
  <2>4. proc \in [Node -> ProcState]
    BY <1>4, <2>3
  <2>5. \A n \in Node : pex[n] \in Directory /\ loop[n] \in LoopState /\ late[n] \in Directory
    BY <1>3, <1>5
  <2> QED BY <1>3, <2>1, <2>2, <2>4, <2>5 DEF DiscoveryTypeOK
<1>7. ProcsGenuine(starts, HadBy)
  <2> SUFFICES ASSUME NEW n \in Node
               PROVE  /\ \E k \in 1 .. starts[n] : proc[n].id = <<n, k>>
                      /\ file[n] # NoId => \E k \in 1 .. starts[n] : file[n] = <<n, k>>
                      /\ proc[n].lan \in Had(n) \cup {NoAddr} /\ proc[n].advertise \in Had(n)
    BY DEF ProcsGenuine, HadBy
  <2>1. starts[n] = 1 /\ proc[n].id = <<n, 1>> /\ file[n] \in {NoId, <<n, 1>>}
    BY <1>3, <1>4
  <2>2. 1 \in 1 .. starts[n]
    BY <2>1
  <2> QED BY <1>4, <2>1, <2>2
<1>8. AllGenuine(starts, HadBy)
  BY <1>3, <1>5, NobodyGenuine DEF AllGenuine
<1>9. AskedIntroduced
  BY <1>3, <1>5 DEF AskedIntroduced
<1> QED BY <1>2, <1>3, <1>6, <1>7, <1>8, <1>9 DEF DiscoveryInv

\* What follows of a step that moves no machine and restarts none, from what it
\* does to directories: the rest of the invariant is not disturbed.
LEMMA QuietStep ==
  ASSUME DiscoveryInv, UNCHANGED <<lan, starts, file, proc>>,
         DOMAIN pex' = Node, DOMAIN loop' = Node, DOMAIN late' = Node,
         \A n \in Node :
           /\ pex'[n] \in Directory /\ GenuineBy(pex'[n], starts, HadBy)
           /\ late'[n] \in Directory /\ GenuineBy(late'[n], starts, HadBy)
           /\ loop'[n] \in LoopState /\ GenuineBy(loop'[n].peers, starts, HadBy)
           /\ loop'[n].pc = "asked" =>
                /\ proc[n].id \in DOMAIN loop'[n].peers
                /\ loop'[n].peers[proc[n].id] = proc[n].advertise
  PROVE  DiscoveryInv'
<1>1. HadBy' = HadBy
  BY DEF HadBy, Had
<1>2. DiscoveryTypeOK'
  BY DEF DiscoveryInv, DiscoveryTypeOK
<1>3. ProcsGenuine(starts, HadBy)'
  BY <1>1 DEF DiscoveryInv, ProcsGenuine
<1>4. AllGenuine(starts, HadBy)'
  BY <1>1 DEF AllGenuine
<1>5. AskedIntroduced'
  BY DEF AskedIntroduced
<1> QED BY <1>2, <1>3, <1>4, <1>5 DEF DiscoveryInv

\* Between targets, whatever is left of them.
LEMMA LoopRests ==
  ASSUME DiscoveryInv, NEW n \in Node, NEW todo \in SUBSET Addr,
         loop' = [loop EXCEPT ![n] = BetweenTargets(todo)],
         UNCHANGED <<lan, starts, file, proc>>,
         DOMAIN pex' = Node, DOMAIN late' = Node,
         \A m \in Node : /\ pex'[m] \in Directory /\ GenuineBy(pex'[m], starts, HadBy)
                        /\ late'[m] \in Directory /\ GenuineBy(late'[m], starts, HadBy)
  PROVE  DiscoveryInv'
<1>1. DOMAIN loop = Node
  BY DEF DiscoveryInv, DiscoveryTypeOK
<1>2. DOMAIN loop' = Node
      /\ \A m \in Node : loop'[m] = IF m = n THEN BetweenTargets(todo) ELSE loop[m]
  BY <1>1
<1>3. \A m \in Node : /\ loop[m] \in LoopState /\ GenuineBy(loop[m].peers, starts, HadBy)
                      /\ loop[m].pc = "asked" =>
                           /\ proc[m].id \in DOMAIN loop[m].peers
                           /\ loop[m].peers[proc[m].id] = proc[m].advertise
  BY DEF DiscoveryInv, DiscoveryTypeOK, AllGenuine, AskedIntroduced
<1>4. \A m \in Node : /\ loop'[m] \in LoopState /\ GenuineBy(loop'[m].peers, starts, HadBy)
                      /\ loop'[m].pc = "asked" =>
                           /\ proc[m].id \in DOMAIN loop'[m].peers
                           /\ loop'[m].peers[proc[m].id] = proc[m].advertise
  BY <1>2, <1>3, BetweenTargetsIs, NobodyGenuine
<1> QED BY <1>2, <1>4, QuietStep

\* What the invariant says of the directories as they are.
LEMMA DirectoriesNow ==
  ASSUME DiscoveryInv
  PROVE  /\ DOMAIN pex = Node /\ DOMAIN loop = Node /\ DOMAIN late = Node
         /\ \A n \in Node :
              /\ pex[n] \in Directory /\ GenuineBy(pex[n], starts, HadBy)
              /\ late[n] \in Directory /\ GenuineBy(late[n], starts, HadBy)
              /\ loop[n] \in LoopState /\ GenuineBy(loop[n].peers, starts, HadBy)
              /\ loop[n].pc = "asked" =>
                   /\ proc[n].id \in DOMAIN loop[n].peers
                   /\ loop[n].peers[proc[n].id] = proc[n].advertise
BY DEF DiscoveryInv, DiscoveryTypeOK, AllGenuine, AskedIntroduced

\* What a caller leaves behind is what it has sent.
LEMMA AbandonedIs ==
  ASSUME DiscoveryInv, NEW n \in Node, NEW left \in Abandoned(n)
  PROVE  /\ DOMAIN left = Node
         /\ \A m \in Node : left[m] \in Directory /\ GenuineBy(left[m], starts, HadBy)
<1>1. CASE left = late
  BY <1>1, DirectoriesNow
<1>2. CASE left # late
  <2>1. PICK w \in Node : left = [late EXCEPT ![w] = loop[n].peers]
    BY <1>2 DEF Abandoned
  <2>2. DOMAIN left = Node /\ \A m \in Node : left[m] = IF m = w THEN loop[n].peers ELSE late[m]
    BY <2>1, DirectoriesNow
  <2>3. loop[n].peers \in Directory /\ GenuineBy(loop[n].peers, starts, HadBy)
    BY DirectoriesNow DEF LoopState
  <2> QED BY <2>2, <2>3, DirectoriesNow
<1> QED BY <1>1, <1>2

\* What a machine and its process have in a later state is more.
LEMMA MachineStepKeeps ==
  ASSUME DiscoveryInv, NEW n \in Node, Roam(n) \/ Restart(n)
  PROVE  /\ \A m \in Node : /\ starts'[m] \in 1 .. MaxStarts[m]
                            /\ starts[m] \in Nat /\ starts'[m] \in Nat /\ starts[m] <= starts'[m]
                            /\ HadBy[m] \subseteq (HadBy')[m]
         /\ lan' \in [Node -> Addr] /\ starts' \in [Node -> Nat]
<1>1. lan \in [Node -> Addr] /\ starts \in [Node -> Nat]
  BY DEF DiscoveryInv, DiscoveryTypeOK
<1>2. \A m \in Node : starts[m] \in 1 .. MaxStarts[m] /\ MaxStarts[m] \in Nat
  BY IdAssumption DEF DiscoveryInv
<1>3. CASE Roam(n)
  <2>1. PICK a \in Away[n] : lan' = [lan EXCEPT ![n] = a] /\ lan[n] = Home[n] /\ starts' = starts
    BY <1>3 DEF Roam
  <2>2. lan' \in [Node -> Addr]
    BY <1>1, <2>1, AddressesAre
  <2>3. \A m \in Node : lan[m] \in {Home[m], lan'[m]}
    BY <1>1, <2>1
  <2>4. \A m \in Node : HadBy[m] \subseteq (HadBy')[m]
    BY <2>3 DEF HadBy, Had
  <2> QED BY <1>1, <1>2, <2>1, <2>2, <2>4
<1>4. CASE Restart(n)
  <2>1. lan' = lan /\ starts' = [starts EXCEPT ![n] = starts[n] + 1] /\ starts[n] < MaxStarts[n]
    BY <1>4 DEF Restart
  <2>2. HadBy' = HadBy
    BY <2>1 DEF HadBy, Had
  <2>3. \A m \in Node : starts'[m] = IF m = n THEN starts[n] + 1 ELSE starts[m]
    BY <1>1, <2>1
  <2>4. \A m \in Node : /\ starts'[m] \in 1 .. MaxStarts[m]
                        /\ starts[m] \in Nat /\ starts'[m] \in Nat /\ starts[m] <= starts'[m]
    BY <1>2, <2>1, <2>3
  <2>5. starts' \in [Node -> Nat]
    BY <1>1, <2>1
  <2> QED BY <1>1, <2>1, <2>2, <2>4, <2>5
<1> QED BY <1>3, <1>4

\* Moving disturbs no directory, and leaves what was true of a process true.
LEMMA InvRoam ==
  ASSUME DiscoveryInv, NEW n \in Node, Roam(n)
  PROVE  DiscoveryInv'
<1> DEFINE had == HadBy'
<1>1. UNCHANGED <<starts, file, proc, pex, loop, late>>
  BY DEF Roam
<1>2. /\ \A m \in Node : /\ starts'[m] \in 1 .. MaxStarts[m] /\ starts[m] \in Nat
                         /\ HadBy[m] \subseteq had[m]
      /\ lan' \in [Node -> Addr]
  BY MachineStepKeeps
<1>3. DiscoveryTypeOK'
  BY <1>1, <1>2 DEF DiscoveryInv, DiscoveryTypeOK
<1>4. ProcsGenuine(starts, had)
  BY <1>2 DEF DiscoveryInv, ProcsGenuine
<1> HIDE DEF had
<1>5. AllGenuine(starts, had)
  <2> SUFFICES ASSUME NEW m \in Node
               PROVE  /\ GenuineBy(pex[m], starts, had) /\ GenuineBy(loop[m].peers, starts, had)
                      /\ GenuineBy(late[m], starts, had)
    BY DEF AllGenuine
  <2>1. /\ GenuineBy(pex[m], starts, HadBy) /\ GenuineBy(loop[m].peers, starts, HadBy)
        /\ GenuineBy(late[m], starts, HadBy)
    BY DirectoriesNow
  <2>2. \A w \in Node : starts[w] \in Nat /\ starts[w] <= starts[w] /\ HadBy[w] \subseteq had[w]
    BY <1>2
  <2> QED BY <2>1, <2>2, GenuineLater
<1>6. ProcsGenuine(starts, HadBy)' /\ AllGenuine(starts, HadBy)' /\ AskedIntroduced'
  BY <1>1, <1>4, <1>5 DEF had, ProcsGenuine, AllGenuine, DiscoveryInv, AskedIntroduced
<1> QED BY <1>2, <1>3, <1>6 DEF DiscoveryInv

\* The new process has an id of its machine, and the address that the machine has now
\* or the loopback one; its directory and its loop are empty, and what was sent to
\* the process before it is lost.
LEMMA InvRestart ==
  ASSUME DiscoveryInv, NEW n \in Node, Restart(n)
  PROVE  DiscoveryInv'
<1> DEFINE had == HadBy'
           st == starts'
<1>1. PICK read \in ReadDeviceId(n), a \in LocalLanIp(n) :
        /\ proc' = [proc EXCEPT ![n] = Process(n, ResolvedId(n, read, st[n]), a)]
        /\ \E f \in IF read # NoId THEN {read} ELSE WriteDeviceId(n, ResolvedId(n, read, st[n])) :
             file' = [file EXCEPT ![n] = f]
  BY DEF Restart
<1> DEFINE id == ResolvedId(n, read, st[n])
<1>2. PICK f \in IF read # NoId THEN {read} ELSE WriteDeviceId(n, id) :
        file' = [file EXCEPT ![n] = f]
  BY <1>1
<1>3. /\ \A m \in Node : /\ st[m] \in 1 .. MaxStarts[m]
                         /\ starts[m] \in Nat /\ st[m] \in Nat /\ starts[m] <= st[m]
                         /\ HadBy[m] \subseteq had[m]
      /\ lan' \in [Node -> Addr] /\ st \in [Node -> Nat]
  BY MachineStepKeeps
<1>4. /\ lan' = lan /\ starts \in [Node -> Nat] /\ lan[n] \in Addr
      /\ proc \in [Node -> ProcState] /\ file \in [Node -> Id \cup {NoId}]
  BY DEF Restart, DiscoveryInv, DiscoveryTypeOK
<1>5. \A m \in Node : \E k \in 1 .. starts[m] : proc[m].id = <<m, k>>
  BY DEF DiscoveryInv, ProcsGenuine
<1>6. \A m \in Node : file[m] # NoId => \E k \in 1 .. starts[m] : file[m] = <<m, k>>
  BY DEF DiscoveryInv, ProcsGenuine
<1>7. \E k \in 1 .. st[n] : id = <<n, k>>
  <2>1. CASE read # NoId
    <3>1. id = file[n] /\ file[n] # NoId
      BY <2>1 DEF ResolvedId, ReadDeviceId
    <3>2. PICK k \in 1 .. starts[n] : file[n] = <<n, k>>
      BY <1>6, <3>1
    <3>3. k \in 1 .. st[n]
      BY <1>3
    <3> QED BY <3>1, <3>2, <3>3
  <2>2. CASE read = NoId
    <3>1. id = <<n, st[n]>> /\ st[n] \in 1 .. st[n]
      BY <1>3, <2>2 DEF ResolvedId
    <3> QED BY <3>1
  <2> QED BY <2>1, <2>2
<1>8. id \in Id
  <2>1. PICK k \in 1 .. st[n] : id = <<n, k>>
    BY <1>7
  <2>2. k \in 1 .. MaxStarts[n]
    BY <1>3, IdAssumption
  <2> QED BY <2>1, <2>2, FreshIdIs
<1>9. f \in {id, file[n], NoId}
  BY DEF ResolvedId, ReadDeviceId, WriteDeviceId
<1> HIDE DEF id
<1>10. /\ proc' \in [Node -> ProcState]
       /\ \A m \in Node : m # n => proc'[m] = proc[m]
       /\ proc'[n].id = id /\ proc'[n].lan \in Had(n) \cup {NoAddr}
       /\ proc'[n].advertise \in Had(n)
  <2>1. a \in Addr \cup {NoAddr}
    BY <1>4 DEF LocalLanIp
  <2>2. /\ Process(n, id, a) \in ProcState
        /\ Process(n, id, a).id = id
        /\ Process(n, id, a).lan \in Had(n) \cup {NoAddr}
        /\ Process(n, id, a).advertise \in Had(n)
    BY <1>4, <1>8, <2>1, ProcessIs
  <2>3. proc' = [proc EXCEPT ![n] = Process(n, id, a)]
    BY <1>1 DEF id
  <2>4. proc' \in [Node -> ProcState] /\ \A m \in Node : m # n => proc'[m] = proc[m]
    BY <1>4, <2>2, <2>3
  <2>5. proc'[n] = Process(n, id, a)
    BY <1>4, <2>3
  <2> QED BY <2>2, <2>4, <2>5
<1>11. /\ file' \in [Node -> Id \cup {NoId}] /\ file'[n] = f
       /\ \A m \in Node : m # n => file'[m] = file[m]
  BY <1>4, <1>8, <1>2, <1>9
<1>12. /\ DOMAIN pex' = Node /\ DOMAIN loop' = Node
       /\ pex'[n] = Nobody /\ loop'[n] = BetweenTargets({})
       /\ \A m \in Node : m # n => pex'[m] = pex[m] /\ loop'[m] = loop[m]
  BY DirectoriesNow DEF Restart
<1>13. /\ DOMAIN late' = Node /\ late'[n] = Nobody
       /\ \A m \in Node : m # n =>
            late'[m] \in Directory /\ GenuineBy(late'[m], starts, HadBy)
  <2>1. PICK left \in Abandoned(n) : late' = [left EXCEPT ![n] = Nobody]
    BY DEF Restart
  <2>2. /\ DOMAIN left = Node
        /\ \A m \in Node : left[m] \in Directory /\ GenuineBy(left[m], starts, HadBy)
    BY AbandonedIs
  <2> QED BY <2>1, <2>2
<1>14. /\ BetweenTargets({}) \in LoopState /\ Nobody \in Directory
       /\ BetweenTargets({}).pc = "next" /\ BetweenTargets({}).peers = Nobody
  <2>1. {} \in SUBSET Addr
    OBVIOUS
  <2> QED BY <2>1, BetweenTargetsIs, NobodyIs
<1>15. Had(n) = had[n]
  BY <1>4 DEF HadBy, Had
<1> HIDE DEF had, st
<1>16. DiscoveryTypeOK'
  <2>1. \A m \in Node : pex'[m] \in Directory /\ loop'[m] \in LoopState /\ late'[m] \in Directory
    BY <1>12, <1>14, <1>13, DirectoriesNow
  <2> QED BY <1>3, <1>10, <1>12, <1>11, <1>13, <2>1 DEF DiscoveryTypeOK, st
<1>17. ProcsGenuine(starts, HadBy)'
  <2> SUFFICES ASSUME NEW m \in Node
               PROVE  /\ \E k \in 1 .. st[m] : proc'[m].id = <<m, k>>
                      /\ file'[m] # NoId => \E k \in 1 .. st[m] : file'[m] = <<m, k>>
                      /\ proc'[m].lan \in had[m] \cup {NoAddr} /\ proc'[m].advertise \in had[m]
    BY DEF ProcsGenuine, had, st
  <2>0. \A k \in 1 .. starts[m] : k \in 1 .. st[m]
    BY <1>3
  <2>1. file[m] # NoId => \E k \in 1 .. st[m] : file[m] = <<m, k>>
    BY <1>6, <2>0
  <2>2. CASE m = n
    <3>1. \E k \in 1 .. st[n] : proc'[n].id = <<n, k>>
      BY <1>7, <1>10
    <3>2. file'[n] # NoId => file'[n] = id \/ (file'[n] = file[n] /\ file[n] # NoId)
      BY <1>9, <1>11
    <3>3. file'[n] # NoId => \E k \in 1 .. st[n] : file'[n] = <<n, k>>
      BY <1>7, <2>1, <2>2, <3>2
    <3>4. proc'[n].lan \in had[n] \cup {NoAddr} /\ proc'[n].advertise \in had[n]
      BY <1>10, <1>15
    <3> QED BY <2>2, <3>1, <3>3, <3>4
  <2>3. CASE m # n
    <3>1. \E k \in 1 .. st[m] : proc[m].id = <<m, k>>
      BY <1>5, <2>0
    <3>2. proc[m].lan \in had[m] \cup {NoAddr} /\ proc[m].advertise \in had[m]
      BY <1>3 DEF DiscoveryInv, ProcsGenuine
    <3> QED BY <1>10, <1>11, <2>1, <2>3, <3>1, <3>2
  <2> QED BY <2>2, <2>3
<1>18. AllGenuine(starts, HadBy)'
  <2> SUFFICES ASSUME NEW m \in Node
               PROVE  /\ GenuineBy(pex'[m], st, had) /\ GenuineBy(loop'[m].peers, st, had)
                      /\ GenuineBy(late'[m], st, had)
    BY DEF AllGenuine, had, st
  <2>1. CASE m = n
    BY <1>12, <1>14, <1>13, <2>1, NobodyGenuine
  <2>2. CASE m # n
    <3>1. /\ GenuineBy(pex[m], starts, HadBy) /\ GenuineBy(loop[m].peers, starts, HadBy)
          /\ GenuineBy(late'[m], starts, HadBy)
      BY <1>13, <2>2, DirectoriesNow
    <3>2. \A w \in Node : starts[w] \in Nat /\ st[w] \in Nat /\ starts[w] <= st[w]
                          /\ HadBy[w] \subseteq had[w]
      BY <1>3
    <3>3. /\ GenuineBy(pex[m], st, had) /\ GenuineBy(loop[m].peers, st, had)
          /\ GenuineBy(late'[m], st, had)
      BY <3>1, <3>2, GenuineLater
    <3> QED BY <1>12, <2>2, <3>3
  <2> QED BY <2>1, <2>2
<1>19. AskedIntroduced'
  BY <1>10, <1>12, <1>14, DirectoriesNow DEF AskedIntroduced
<1> QED BY <1>3, <1>16, <1>17, <1>18, <1>19 DEF DiscoveryInv, st

\* A tick starts with addresses to visit.
LEMMA InvStartTick ==
  ASSUME DiscoveryInv, NEW n \in Node, StartTick(n)
  PROVE  DiscoveryInv'
<1>1. Targets(n) \ {proc[n].advertise} \in SUBSET Addr
  BY TargetsAre
<1> QED BY <1>1, DirectoriesNow, LoopRests DEF StartTick

\* What is asked with names the caller, under the address it announces.
LEMMA InvAsk ==
  ASSUME DiscoveryInv, NEW n \in Node, Ask(n)
  PROVE  DiscoveryInv'
<1>1. PICK a \in loop[n].todo :
        loop' = [loop EXCEPT ![n] = [pc |-> "asked", todo |-> loop[n].todo \ {a},
                                     addr |-> a, peers |-> ListWithSelf(n)]]
  BY DEF Ask
<1> DEFINE next == [pc |-> "asked", todo |-> loop[n].todo \ {a},
                    addr |-> a, peers |-> ListWithSelf(n)]
<1>2. loop[n].todo \subseteq Addr /\ ListWithSelf(n) \in Directory
  BY DirectoriesNow, ListWithSelfIs DEF LoopState
<1>3. next \in LoopState /\ next.peers = ListWithSelf(n)
  BY <1>2 DEF LoopState
<1> HIDE DEF next
<1>4. DOMAIN loop' = Node /\ \A m \in Node : loop'[m] = IF m = n THEN next ELSE loop[m]
  BY <1>1, DirectoriesNow DEF next
<1>5. UNCHANGED <<lan, starts, file, proc, pex, late>>
  BY DEF Ask
<1>6. \A m \in Node : /\ loop'[m] \in LoopState /\ GenuineBy(loop'[m].peers, starts, HadBy)
                      /\ loop'[m].pc = "asked" =>
                           /\ proc[m].id \in DOMAIN loop'[m].peers
                           /\ loop'[m].peers[proc[m].id] = proc[m].advertise
  BY <1>3, <1>4, DirectoriesNow, ListWithSelfIs
<1> QED BY <1>4, <1>5, <1>6, DirectoriesNow, QuietStep

\* The handler merges one genuine directory into another and adds itself.
LEMMA InvServe ==
  ASSUME DiscoveryInv, NEW n \in Node, NEW m \in Node, Serve(n, m)
  PROVE  DiscoveryInv'
<1> DEFINE union == Merge(pex[m], loop[n].peers)
           answer == Merge(union, Listed(proc[m].id, proc[m].advertise))
           next == [loop[n] EXCEPT !.pc = "answered", !.peers = answer]
<1>1. /\ pex' = [pex EXCEPT ![m] = union]
      /\ loop' = [loop EXCEPT ![n].pc = "answered", ![n].peers = answer]
      /\ UNCHANGED <<lan, starts, file, proc, late>>
  BY DEF Serve
<1>2. loop[n] \in LoopState /\ pex[m] \in Directory /\ loop[n].peers \in Directory
  BY DirectoriesNow DEF LoopState
<1>3. union \in Directory /\ GenuineBy(union, starts, HadBy)
  BY <1>2, DirectoriesNow, MergeIs, MergeGenuine
<1>4. proc[m].id \in Id /\ proc[m].advertise \in Addr
  BY DEF DiscoveryInv, DiscoveryTypeOK, ProcState
<1> HIDE DEF union
<1>5. answer \in Directory
  BY <1>3, <1>4, ListedIs, MergeIs
<1>6. GenuineBy(answer, starts, HadBy)
  <2>1. OwnListing(proc[m].id, proc[m].advertise, starts, HadBy)
    BY DEF DiscoveryInv, ProcsGenuine, OwnListing
  <2> QED BY <1>3, <2>1, ListedGenuine, MergeGenuine
<1> HIDE DEF answer
<1>7. next \in LoopState /\ next.pc = "answered" /\ next.peers = answer
  BY <1>2, <1>5 DEF LoopState
<1>8. loop' = [loop EXCEPT ![n] = next]
  BY <1>1
<1> HIDE DEF next
<1>9. DOMAIN loop' = Node /\ \A w \in Node : loop'[w] = IF w = n THEN next ELSE loop[w]
  BY <1>8, DirectoriesNow
<1>10. DOMAIN pex' = Node /\ \A w \in Node : pex'[w] = IF w = m THEN union ELSE pex[w]
  BY <1>1, DirectoriesNow
<1>11. \A w \in Node : /\ loop'[w] \in LoopState /\ GenuineBy(loop'[w].peers, starts, HadBy)
                       /\ loop'[w].pc = "asked" =>
                            /\ proc[w].id \in DOMAIN loop'[w].peers
                            /\ loop'[w].peers[proc[w].id] = proc[w].advertise
  BY <1>6, <1>7, <1>9, DirectoriesNow
<1>12. \A w \in Node : pex'[w] \in Directory /\ GenuineBy(pex'[w], starts, HadBy)
  BY <1>3, <1>10, DirectoriesNow
<1> QED BY <1>1, <1>9, <1>10, <1>11, <1>12, DirectoriesNow, QuietStep

\* An answer is merged like a request.
LEMMA InvLearn ==
  ASSUME DiscoveryInv, NEW n \in Node, Learn(n)
  PROVE  DiscoveryInv'
<1> DEFINE union == Merge(pex[n], loop[n].peers)
<1>1. pex' = [pex EXCEPT ![n] = union] /\ loop' = [loop EXCEPT ![n] = BetweenTargets(loop[n].todo)]
      /\ UNCHANGED <<lan, starts, file, proc, late>>
  BY DEF Learn
<1>2. loop[n].peers \in Directory /\ loop[n].todo \in SUBSET Addr
  BY DirectoriesNow DEF LoopState
<1>3. union \in Directory /\ GenuineBy(union, starts, HadBy)
  BY <1>2, DirectoriesNow, MergeIs, MergeGenuine
<1> HIDE DEF union
<1>4. DOMAIN pex' = Node /\ \A w \in Node : pex'[w] = IF w = n THEN union ELSE pex[w]
  BY <1>1, DirectoriesNow
<1>5. \A w \in Node : pex'[w] \in Directory /\ GenuineBy(pex'[w], starts, HadBy)
  BY <1>3, <1>4, DirectoriesNow
<1> QED BY <1>1, <1>2, <1>4, <1>5, DirectoriesNow, LoopRests

\* A failed exchange leaves the directory as it was.
LEMMA InvFail ==
  ASSUME DiscoveryInv, NEW n \in Node, Fail(n)
  PROVE  DiscoveryInv'
<1>1. loop[n].todo \in SUBSET Addr
  BY DirectoriesNow DEF LoopState
<1>2. /\ loop' = [loop EXCEPT ![n] = BetweenTargets(loop[n].todo)] /\ late' \in Abandoned(n)
      /\ UNCHANGED <<lan, starts, file, proc, pex>>
  BY DEF Fail
<1>3. /\ DOMAIN late' = Node
      /\ \A m \in Node : late'[m] \in Directory /\ GenuineBy(late'[m], starts, HadBy)
  BY <1>2, AbandonedIs
<1> QED BY <1>1, <1>2, <1>3, DirectoriesNow, LoopRests

\* A request that was left behind is merged like any other.
LEMMA InvServeLate ==
  ASSUME DiscoveryInv, NEW m \in Node, ServeLate(m)
  PROVE  DiscoveryInv'
<1> DEFINE union == Merge(pex[m], late[m])
<1>1. /\ pex' = [pex EXCEPT ![m] = union] /\ late' = [late EXCEPT ![m] = Nobody]
      /\ UNCHANGED <<lan, starts, file, proc, loop>>
  BY DEF ServeLate
<1>2. union \in Directory /\ GenuineBy(union, starts, HadBy)
  BY DirectoriesNow, MergeIs, MergeGenuine
<1> HIDE DEF union
<1>3. /\ DOMAIN pex' = Node /\ \A w \in Node : pex'[w] = IF w = m THEN union ELSE pex[w]
      /\ DOMAIN late' = Node /\ \A w \in Node : late'[w] = IF w = m THEN Nobody ELSE late[w]
  BY <1>1, DirectoriesNow
<1>4. \A w \in Node : /\ pex'[w] \in Directory /\ GenuineBy(pex'[w], starts, HadBy)
                     /\ late'[w] \in Directory /\ GenuineBy(late'[w], starts, HadBy)
  BY <1>2, <1>3, DirectoriesNow, NobodyIs, NobodyGenuine
<1> QED BY <1>1, <1>3, <1>4, DirectoriesNow, QuietStep

\* An announce is what a process says of itself.
LEMMA InvHear ==
  ASSUME DiscoveryInv, NEW n \in Node, NEW m \in Node, Hear(n, m)
  PROVE  DiscoveryInv'
<1> DEFINE own == Listed(proc[n].id, proc[n].lan)
           union == Merge(pex[m], own)
<1>1. /\ proc[n].lan # NoAddr
      /\ pex' = [pex EXCEPT ![m] = union] /\ UNCHANGED <<lan, starts, file, proc, loop, late>>
  BY DEF Hear
<1>2. proc[n].id \in Id /\ proc[n].lan \in Addr
  BY <1>1 DEF DiscoveryInv, DiscoveryTypeOK, ProcState
<1>3. own \in Directory
  BY <1>2, ListedIs
<1>4. GenuineBy(own, starts, HadBy)
  <2>1. OwnListing(proc[n].id, proc[n].lan, starts, HadBy)
    BY <1>1 DEF DiscoveryInv, ProcsGenuine, OwnListing
  <2> QED BY <2>1, ListedGenuine
<1> HIDE DEF own
<1>5. union \in Directory /\ GenuineBy(union, starts, HadBy)
  BY <1>3, <1>4, DirectoriesNow, MergeIs, MergeGenuine
<1> HIDE DEF union
<1>6. DOMAIN pex' = Node /\ \A w \in Node : pex'[w] = IF w = m THEN union ELSE pex[w]
  BY <1>1, DirectoriesNow
<1>7. \A w \in Node : pex'[w] \in Directory /\ GenuineBy(pex'[w], starts, HadBy)
  BY <1>5, <1>6, DirectoriesNow
<1> QED BY <1>1, <1>6, <1>7, DirectoriesNow, QuietStep

\* The invariant is inductive.
LEMMA InvNext == DiscoveryInv /\ [DiscoveryNext]_vars => DiscoveryInv'
<1> SUFFICES ASSUME DiscoveryInv, [DiscoveryNext]_vars PROVE DiscoveryInv'
  OBVIOUS
<1>1. ASSUME NEW n \in Node, MachineStep(n) PROVE DiscoveryInv'
  BY <1>1, InvRoam, InvRestart DEF MachineStep
<1>2. ASSUME NEW n \in Node, LoopStep(n) PROVE DiscoveryInv'
  BY <1>2, InvStartTick, InvAsk, InvLearn, InvFail DEF LoopStep
<1>3. ASSUME NEW n \in Node, ServeLate(n) PROVE DiscoveryInv'
  BY <1>3, InvServeLate
<1>4. ASSUME NEW n \in Node, NEW m \in Node, Serve(n, m) \/ Hear(n, m) PROVE DiscoveryInv'
  BY <1>4, InvServe, InvHear
<1>5. ASSUME UNCHANGED vars PROVE DiscoveryInv'
  <2>1. UNCHANGED <<lan, starts, file, proc, pex, loop, late>>
    BY <1>5 DEF vars
  <2> QED BY <2>1, DirectoriesNow, QuietStep
<1> QED BY <1>1, <1>2, <1>4, <1>5, <1>3 DEF DiscoveryNext

\* It holds of every reachable state.
LEMMA InvAlways == DiscoverySpec => []DiscoveryInv
BY InvInit, InvNext, PTL DEF DiscoverySpec

-----------------------------------------------------------------------------
(***************************************************************************)
(* The results.                                                            *)
(***************************************************************************)
\* Every process has an id that its machine generated, even after the file with the
\* id was lost, and every directory lists addresses under such ids.
THEOREM DiscoveryTypeCorrect == DiscoverySpec => []DiscoveryTypeOK
<1>1. DiscoveryInv => DiscoveryTypeOK
  BY DEF DiscoveryInv
<1> QED BY <1>1, InvAlways, PTL

\* However directories are passed on, or a request is served late, an address is only
\* ever told of a machine that has had it, or, if it is the loopback address, of one
\* that may have had no other.
THEOREM ListingsGenuineAlways == DiscoverySpec => []ListingsGenuine
<1>1. ASSUME NEW d, GenuineBy(d, starts, HadBy) PROVE Genuine(d)
  BY <1>1 DEF GenuineBy, Genuine, HadBy
<1>2. DiscoveryInv => ListingsGenuine
  BY <1>1 DEF DiscoveryInv, ProcsGenuine, AllGenuine, ListingsGenuine
<1> QED BY <1>2, InvAlways, PTL

\* After the handler of /v1/peers both ends have been told the truth of each other.
THEOREM ExchangeIntroducesAlways == DiscoverySpec => ExchangeIntroduces
<1> DEFINE Introduced ==
      \A n \in Node, m \in Node :
        Serve(n, m) =>
          /\ proc[n].id \in DOMAIN pex'[m] /\ pex'[m][proc[n].id] = proc[n].advertise
          /\ proc[m].id \in DOMAIN loop'[n].peers
          /\ loop'[n].peers[proc[m].id] = proc[m].advertise
<1>1. ASSUME DiscoveryInv PROVE Introduced
  <2> SUFFICES ASSUME NEW n \in Node, NEW m \in Node, Serve(n, m)
               PROVE  /\ proc[n].id \in DOMAIN pex'[m]
                      /\ pex'[m][proc[n].id] = proc[n].advertise
                      /\ proc[m].id \in DOMAIN loop'[n].peers
                      /\ loop'[n].peers[proc[m].id] = proc[m].advertise
    OBVIOUS
  <2> DEFINE union == Merge(pex[m], loop[n].peers)
             answer == Merge(union, Listed(proc[m].id, proc[m].advertise))
  <2>1. loop[n].pc = "asked" /\ pex' = [pex EXCEPT ![m] = union]
        /\ loop' = [loop EXCEPT ![n].pc = "answered", ![n].peers = answer]
    BY DEF Serve
  <2>2. /\ proc[n].id \in DOMAIN loop[n].peers
        /\ loop[n].peers[proc[n].id] = proc[n].advertise
        /\ DOMAIN pex = Node /\ DOMAIN loop = Node /\ loop[n] \in LoopState
    BY <1>1, <2>1, DirectoriesNow
  <2>3. proc[n].id \in DOMAIN union /\ union[proc[n].id] = proc[n].advertise
    BY <2>2 DEF Merge
  <2>4. proc[m].id \in DOMAIN answer /\ answer[proc[m].id] = proc[m].advertise
    BY DEF Merge, Listed
  <2> HIDE DEF union, answer
  <2>5. pex'[m] = union /\ loop'[n].peers = answer
    BY <2>1, <2>2 DEF LoopState
  <2> QED BY <2>3, <2>4, <2>5
<1>2. DiscoveryInv /\ [DiscoveryNext]_vars => [Introduced]_vars
  BY <1>1
<1> QED BY <1>2, InvAlways, PTL DEF DiscoverySpec, ExchangeIntroduces
=============================================================================
