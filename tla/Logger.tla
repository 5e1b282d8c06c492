------------------------------- MODULE Logger -------------------------------
(***************************************************************************)
(* The observer of src/bin/logger.rs: a poller that asks one target after   *)
(* the other for /state, and command handlers that forward a POST to a node *)
(* and then poll that node at once, out of turn.  Both fetch first and take *)
(* the lock of the shared state only to fold the answer in, so an answer    *)
(* may be older than what is folded before it.                              *)
(*                                                                         *)
(* Abstractions.  A node's fingerprint is a hash of its live entries (see   *)
(* Replica), so two fingerprints are equal when the entries are.  A target  *)
(* answers within the 3 s timeout or not at all.  Version vectors, sequence *)
(* numbers and times of events are only displayed and are left out.         *)
(***************************************************************************)
EXTENDS Naturals, FiniteSets, SequencesExt

CONSTANTS
  Targets,     \* the number of addresses in DEVICES; targets are 1 .. Targets
  Name,        \* device ids
  FirstName,   \* FirstName[t]: the device id of the first process behind target t
  Spare,       \* ids of processes that replace one whose data is lost
  Entity,
  Value,
  None,        \* no entry, no answer, no device, no entity
  Poller,      \* the poller task
  Request,     \* bound: commands that are handled at once
  MaxEvents,   \* MAX_EVENTS
  MaxChanges   \* bound: how often anything happens to a node

Target == 1 .. Targets
Worker == Request \cup {Poller}

Entries == [Entity -> Value \cup {None}]
\* What GET /state answers.
Answer == [name : Name, entries : Entries, online : BOOLEAN]
DeviceState == [entries : Entries, reachable : BOOLEAN, online : BOOLEAN]
Kinds ==
  {"first-seen", "reachable", "unreachable", "node.online", "node.offline", "write", "delete"}
Event == [device : Name, kind : Kinds, entity : Entity \cup {None}, value : Value \cup {None}]
PollState ==
  [step : {"idle", "post", "fetch", "fold"}, target : Target, device : Name \cup {None},
   answer : Answer \cup {None}]

ASSUME LoggerAssumption ==
  /\ Targets \in Nat \ {0}
  /\ MaxEvents \in Nat \ {0}
  /\ MaxChanges \in Nat
  /\ FirstName \in [Target -> Name]
  /\ IsFiniteSet(Entity)
  /\ Spare \subseteq Name
  /\ None \notin Value \cup Entity \cup Name \cup Answer \cup DeviceState
  /\ Poller \notin Request

VARIABLES
  node,      \* node[t]: what the process behind target t would answer
  answers,   \* answers[t]: whether an answer would arrive in time
  changes,   \* how often anything happened to a node
  devices,   \* Inner::devices, the cards of the dashboard
  byTarget,  \* Inner::by_target
  targetOf,  \* Inner::target_of
  events,    \* Inner::events, the newest first
  poll       \* the calls of poll_one, and the commands on their way to one

loggerVars == <<node, answers, changes, devices, byTarget, targetOf, events, poll>>

LoggerTypeOK ==
  /\ node \in [Target -> Answer]
  /\ answers \in [Target -> BOOLEAN]
  /\ changes \in 0 .. MaxChanges
  /\ devices \in [Name -> DeviceState \cup {None}]
  /\ byTarget \in [Target -> Name \cup {None}]
  /\ targetOf \in [Name -> Target \cup {None}]
  /\ events \in Seq(Event) /\ Len(events) <= MaxEvents
  /\ poll \in [Worker -> PollState]

Idle == [step |-> "idle", target |-> 1, device |-> None, answer |-> None]
Fetching(t) == [step |-> "fetch", target |-> t, device |-> None, answer |-> None]
NewProcess(name) == [name |-> name, entries |-> [e \in Entity |-> None], online |-> TRUE]

LoggerInit ==
  /\ node = [t \in Target |-> NewProcess(FirstName[t])]
  /\ answers \in [Target -> BOOLEAN]
  /\ changes = 0
  /\ devices = [d \in Name |-> None]
  /\ byTarget = [t \in Target |-> None]
  /\ targetOf = [d \in Name |-> None]
  /\ events = <<>>
  /\ poll = [w \in Worker |-> IF w = Poller THEN Fetching(1) ELSE Idle]

(***************************************************************************)
(* What the logger answers: converged, on all cards.                       *)
(***************************************************************************)
Seen == {d \in Name : devices[d] # None}
Live == {d \in Seen : devices[d].reachable}
Aligned(ds) ==
  Cardinality(ds) >= 2 /\ \A d \in ds, c \in ds : devices[d].entries = devices[c].entries

LiveAligned == Aligned(Live)
Green == Live = Seen /\ Aligned(Seen)

(***************************************************************************)
(* Events.                                                                 *)
(***************************************************************************)
Say(d, kind) == <<[device |-> d, kind |-> kind, entity |-> None, value |-> None]>>
When(condition, said) == IF condition THEN said ELSE <<>>

\* A plausible bug: an entry that disappears is no event.
ChangesWithoutDeletes(d, old, new) ==
  SetToSeq({[device |-> d, kind |-> "write", entity |-> e, value |-> new[e]] :
              e \in {x \in Entity : new[x] # None /\ new[x] # old[x]}})

\* Writes, then deletes.
Changes(d, old, new) ==
  SetToSeq({[device |-> d, kind |-> "write", entity |-> e, value |-> new[e]] :
              e \in {x \in Entity : new[x] # None /\ new[x] # old[x]}})
  \o SetToSeq({[device |-> d, kind |-> "delete", entity |-> e, value |-> None] :
              e \in {x \in Entity : new[x] = None /\ old[x] # None}})

\* What an answer tells about the card it replaces.
News(card, a) ==
  IF card = None THEN Say(a.name, "first-seen") ELSE
  When(~ card.reachable, Say(a.name, "reachable"))
  \o When(card.online /\ ~ a.online, Say(a.name, "node.offline"))
  \o When(~ card.online /\ a.online, Say(a.name, "node.online"))
  \o Changes(a.name, card.entries, a.entries)

\* A plausible bug: the list is never cut.
PushedForever(said) == Reverse(said) \o events

\* push_event, for each in turn.
Pushed(said) ==
  LET all == Reverse(said) \o events
  IN  SubSeq(all, 1, IF Len(all) > MaxEvents THEN MaxEvents ELSE Len(all))

(***************************************************************************)
(* The nodes.                                                              *)
(***************************************************************************)
\* One entry more, less or different.
Edited(a) == {[a EXCEPT !.entries[e] = v] : e \in Entity, v \in Value \cup {None}}

Change == changes < MaxChanges /\ changes' = changes + 1
LoggerUnchanged == UNCHANGED <<devices, byTarget, targetOf, events, poll>>

\* A local write, or an op from a peer.
NodeEdited(t) ==
  /\ Change
  /\ node' \in {[node EXCEPT ![t] = a] : a \in Edited(node[t]) \ {node[t]}}
  /\ UNCHANGED answers
  /\ LoggerUnchanged

\* docker compose pause and unpause, or a network that is too slow for a while.
NodeStopsOrReturns(t) ==
  /\ Change
  /\ answers' = [answers EXCEPT ![t] = ~ answers[t]]
  /\ UNCHANGED node
  /\ LoggerUnchanged

\* A restart: the switch is on again.  A process that lost its data directory
\* starts empty, under a fresh id.
NodeRestarts(t) ==
  /\ Change
  /\ node' \in {[node EXCEPT ![t] = a] :
                  a \in {[node[t] EXCEPT !.online = TRUE]}
                       \cup {NewProcess(d) : d \in Spare \ {node[u].name : u \in Target}}}
  /\ UNCHANGED answers
  /\ LoggerUnchanged

(***************************************************************************)
(* poll_one.                                                               *)
(***************************************************************************)
\* The GET, without the lock.
Fetch(w) ==
  /\ poll[w].step = "fetch"
  /\ LET t == poll[w].target IN
       poll' = [poll EXCEPT ![w].step = "fold",
                            ![w].answer = IF answers[t] THEN node[t] ELSE None]
  /\ UNCHANGED <<node, answers, changes, devices, byTarget, targetOf, events>>

\* What a worker does after poll_one: the poller turns to the next target.
Done(w) ==
  poll' = [poll EXCEPT ![w] =
    IF w = Poller THEN Fetching(IF poll[w].target = Targets THEN 1 ELSE poll[w].target + 1)
                  ELSE Idle]

\* A plausible bug: a device that was unreachable stays so.
CardStaysDown(card, a) ==
  [entries |-> a.entries, reachable |-> card = None \/ card.reachable, online |-> a.online]

CardOf(card, a) == [entries |-> a.entries, reachable |-> TRUE, online |-> a.online]

FoldAnswer(w) ==
  /\ poll[w].step = "fold"
  /\ poll[w].answer # None
  /\ LET t == poll[w].target
         a == poll[w].answer
         card == devices[a.name]
     IN  /\ byTarget' = [byTarget EXCEPT ![t] = a.name]
         /\ targetOf' = [targetOf EXCEPT ![a.name] = t]
         /\ devices' = [devices EXCEPT ![a.name] = CardOf(card, a)]
         /\ events' = Pushed(News(card, a))
  /\ Done(w)
  /\ UNCHANGED <<node, answers, changes>>

\* The bug the comment on by_target describes: a failure is attributed to no one.
FailureIgnored(w) ==
  /\ poll[w].step = "fold"
  /\ poll[w].answer = None
  /\ Done(w)
  /\ UNCHANGED <<node, answers, changes, devices, byTarget, targetOf, events>>

\* A plausible bug: every failed poll is an event.
FailureRepeated(w) ==
  /\ poll[w].step = "fold"
  /\ poll[w].answer = None
  /\ LET d == byTarget[poll[w].target] IN
       IF d = None THEN UNCHANGED <<devices, events>>
       ELSE /\ devices' = [devices EXCEPT ![d].reachable = FALSE]
            /\ events' = Pushed(Say(d, "unreachable"))
  /\ Done(w)
  /\ UNCHANGED <<node, answers, changes, byTarget, targetOf>>

FoldFailure(w) ==
  /\ poll[w].step = "fold"
  /\ poll[w].answer = None
  /\ LET d == byTarget[poll[w].target] IN
       IF d = None THEN UNCHANGED <<devices, events>>
       ELSE /\ devices' = [devices EXCEPT ![d].reachable = FALSE]
            /\ events' = Pushed(When(devices[d].reachable, Say(d, "unreachable")))
  /\ Done(w)
  /\ UNCHANGED <<node, answers, changes, byTarget, targetOf>>

(***************************************************************************)
(* device_write and device_online: proxy_post, then refresh_device.        *)
(***************************************************************************)
\* The target is looked up; without one the answer is 404.
Forward(r) ==
  /\ poll[r].step = "idle"
  /\ \E d \in Name :
       /\ targetOf[d] # None
       /\ poll' = [poll EXCEPT ![r] =
            [step |-> "post", target |-> targetOf[d], device |-> d, answer |-> None]]
  /\ UNCHANGED <<node, answers, changes, devices, byTarget, targetOf, events>>

\* The POST reaches the node, or fails; either way refresh_device looks the
\* target up again and polls it.
Deliver(r) ==
  /\ poll[r].step = "post"
  /\ LET t == poll[r].target IN
       /\ \/ UNCHANGED <<node, changes>>
          \/ /\ answers[t]
             /\ Change
             /\ node' \in {[node EXCEPT ![t] = a] :
                             a \in Edited(node[t]) \cup {[node[t] EXCEPT !.online = ~ @]}}
       /\ poll' = [poll EXCEPT ![r] = Fetching(targetOf[poll[r].device])]
  /\ UNCHANGED <<answers, devices, byTarget, targetOf, events>>

NodeStep(t) == NodeEdited(t) \/ NodeStopsOrReturns(t) \/ NodeRestarts(t)
PollStep(w) == Fetch(w) \/ FoldAnswer(w) \/ FoldFailure(w)

LoggerNext ==
  \/ \E t \in Target : NodeStep(t)
  \/ \E w \in Worker : PollStep(w)
  \/ \E r \in Request : Forward(r) \/ Deliver(r)

\* The 3 s timeout ends every request, and the poller loops forever.
LoggerFairness ==
  /\ \A w \in Worker : WF_loggerVars(PollStep(w))
  /\ \A r \in Request : WF_loggerVars(Deliver(r))

LoggerSpec == LoggerInit /\ [][LoggerNext]_loggerVars /\ LoggerFairness
-----------------------------------------------------------------------------
(***************************************************************************)
(* Events and cards.                                                       *)
(***************************************************************************)
Matters ==
  {{"first-seen", "reachable", "unreachable"}, {"node.online", "node.offline"}, {"write", "delete"}}

SameMatter(x, y) ==
  /\ x.device = y.device
  /\ x.entity = y.entity
  /\ \E kinds \in Matters : x.kind \in kinds /\ y.kind \in kinds

SaysOf(event, card) ==
  CASE event.kind \in {"first-seen", "reachable"} -> card.reachable
    [] event.kind = "unreachable" -> ~ card.reachable
    [] event.kind = "node.online" -> card.online
    [] event.kind = "node.offline" -> ~ card.online
    [] event.kind \in {"write", "delete"} -> card.entries[event.entity] = event.value

\* The cards and the event list tell the same story: what the newest event on a
\* matter says is what the card shows, though two workers fold answers that
\* overtake one another.
EventsAgree ==
  \A i \in 1 .. Len(events) :
    (\A j \in 1 .. i - 1 : ~ SameMatter(events[i], events[j]))
      => SaysOf(events[i], devices[events[i].device])

\* No event repeats the one before it on the same matter: a node that stays down
\* is reported once, and not again by the worker that finds it down next.
NoEventRepeats ==
  \A j \in 1 .. Len(events), i \in 1 .. Len(events) :
    /\ i < j
    /\ SameMatter(events[i], events[j])
    /\ \A k \in i + 1 .. j - 1 : ~ SameMatter(events[k], events[j])
    => /\ events[i].kind # "first-seen"
       /\ {events[i].kind, events[j].kind} # {"first-seen", "reachable"}
       /\ events[i].kind = events[j].kind => events[i].value # events[j].value

(***************************************************************************)
(* The banner.                                                             *)
(***************************************************************************)
\* A partition shows: a target that was seen and then stops answering for good
\* keeps the banner from being green, whatever answers are still under way.
PartitionShows ==
  \A t \in Target :
    <>[](~ answers[t]) => <>[](byTarget[t] = None \/ ~ Green)

\* Once all targets answer and hold the same entries for good, the banner turns
\* green and stays so, unless a card is left of a process that was replaced.
GreenComes ==
  /\ <>[](\A t \in Target, u \in Target : answers[t] /\ node[t].entries = node[u].entries)
  /\ <>[](\A d \in Seen : \E t \in Target : node[t].name = d)
  => <>[]Green

\* The documentation: green requires every node to respond and agree.
GreenHeardEveryTarget == Green => \A t \in Target : byTarget[t] # None
=============================================================================
