---------------------------- MODULE LoggerProofs ----------------------------
(***************************************************************************)
(* Proofs about Logger, for any number of targets, commands, changes and    *)
(* events that are kept.                                                    *)
(*                                                                         *)
(* Both invariants about events follow from one fact about a fold, Tells:   *)
(* what is said is what the new card shows and the old one did not, no two  *)
(* things said are about the same matter, and every event that stops being  *)
(* true is answered by one that is said.                                    *)
(***************************************************************************)
EXTENDS Logger, SequenceTheorems, FiniteSetTheorems, TLAPS

Elems(s) == {s[i] : i \in 1 .. Len(s)}

\* No two of the events in s are about the same matter.
Apart(s) ==
  \A i \in 1 .. Len(s), j \in 1 .. Len(s) : SameMatter(s[i], s[j]) => i = j

\* An event that the logger can mean.
WellFormed(ev) ==
  /\ ev \in Event
  /\ ev.kind \in {"write", "delete"} => ev.entity \in Entity
  /\ ev.kind \notin {"write", "delete"} => ev.entity = None

\* Saying `said` when d's card goes from card to new.
Tells(said, d, card, new) ==
  /\ said \in Seq(Event)
  /\ Apart(said)
  /\ \A x \in Elems(said) : WellFormed(x) /\ x.device = d /\ SaysOf(x, new)
  /\ card # None =>
       /\ \A x \in Elems(said) : x.kind # "first-seen" /\ ~ SaysOf(x, card)
       /\ \A ev \in Event : WellFormed(ev) /\ ev.device = d /\ SaysOf(ev, card) =>
            SaysOf(ev, new) \/ \E x \in Elems(said) : SameMatter(x, ev)

-----------------------------------------------------------------------------
(***************************************************************************)
(* Sequences of events.                                                    *)
(***************************************************************************)
\* SetToSeq lists every element of a finite set once.
LEMMA SetToSeqLists ==
  ASSUME NEW S, IsFiniteSet(S)
  PROVE  /\ SetToSeq(S) \in Seq(S)
         /\ \A i \in 1 .. Len(SetToSeq(S)), j \in 1 .. Len(SetToSeq(S)) :
              SetToSeq(S)[i] = SetToSeq(S)[j] => i = j
         /\ Elems(SetToSeq(S)) = S
<1> DEFINE n == Cardinality(S)
           s == SetToSeq(S)
<1>1. n \in Nat /\ ExistsBijection(1 .. n, S)
  BY FS_CardinalityType
<1>2. \E f \in [1 .. n -> S] : IsInjective(f)
  BY <1>1 DEF ExistsBijection, Bijection, Injection, IsInjective
<1>3. s \in [1 .. n -> S] /\ IsInjective(s)
  BY <1>2 DEF SetToSeq
<1>4. s \in Seq(S) /\ Len(s) = n
  <2>1. s \in Seq(S)
    BY <1>1, <1>3, SeqDef
  <2>2. DOMAIN s = 1 .. Len(s) /\ DOMAIN s = 1 .. n /\ Len(s) \in Nat
    BY <1>3, <2>1, LenProperties
  <2> QED BY <1>1, <2>1, <2>2
<1>5. IsFiniteSet(1 .. n) /\ Cardinality(1 .. n) = n
  BY <1>1, FS_Interval
<1>6. s \in Surjection(1 .. n, S)
  BY <1>3, <1>5, FS_Injection DEF Injection, IsInjective
<1> HIDE DEF n, s
<1>7. Elems(s) = S
  BY <1>4, <1>6 DEF Elems, Surjection
<1>8. \A i \in 1 .. Len(s), j \in 1 .. Len(s) : s[i] = s[j] => i = j
  BY <1>3, <1>4 DEF IsInjective
<1> QED BY <1>4, <1>7, <1>8 DEF s

\* Saying one thing after another.
LEMMA Joined ==
  ASSUME NEW s \in Seq(Event), NEW t \in Seq(Event), Apart(s), Apart(t),
         \A x \in Elems(s), y \in Elems(t) : ~ SameMatter(x, y) /\ ~ SameMatter(y, x)
  PROVE  s \o t \in Seq(Event) /\ Apart(s \o t) /\ Elems(s \o t) = Elems(s) \cup Elems(t)
<1>1. /\ s \o t \in Seq(Event)
      /\ Len(s \o t) = Len(s) + Len(t) /\ Len(s) \in Nat /\ Len(t) \in Nat
      /\ \A i \in 1 .. Len(s) + Len(t) :
           (s \o t)[i] = IF i <= Len(s) THEN s[i] ELSE t[i - Len(s)]
  BY ConcatProperties, LenProperties
<1> DEFINE u == s \o t
<1> HIDE DEF u
<1>2. ASSUME NEW i \in 1 .. Len(u)
      PROVE  \/ i \in 1 .. Len(s) /\ u[i] = s[i]
             \/ i - Len(s) \in 1 .. Len(t) /\ u[i] = t[i - Len(s)]
  BY <1>1 DEF u
<1>3. Apart(u)
  <2> SUFFICES ASSUME NEW i \in 1 .. Len(u), NEW j \in 1 .. Len(u), SameMatter(u[i], u[j])
               PROVE  i = j
    BY DEF Apart
  <2>1. CASE i \in 1 .. Len(s) /\ u[i] = s[i] /\ j \in 1 .. Len(s) /\ u[j] = s[j]
    BY <2>1 DEF Apart
  <2>2. CASE /\ i - Len(s) \in 1 .. Len(t) /\ u[i] = t[i - Len(s)]
             /\ j - Len(s) \in 1 .. Len(t) /\ u[j] = t[j - Len(s)]
    <3>1. i - Len(s) = j - Len(s)
      BY <2>2 DEF Apart
    <3> QED BY <1>1, <3>1
  <2>3. CASE i \in 1 .. Len(s) /\ u[i] = s[i] /\ j - Len(s) \in 1 .. Len(t) /\ u[j] = t[j - Len(s)]
    BY <2>3 DEF Elems
  <2>4. CASE j \in 1 .. Len(s) /\ u[j] = s[j] /\ i - Len(s) \in 1 .. Len(t) /\ u[i] = t[i - Len(s)]
    BY <2>4 DEF Elems
  <2> QED BY <1>2, <2>1, <2>2, <2>3, <2>4
<1>4. Elems(u) \subseteq Elems(s) \cup Elems(t)
  BY <1>2 DEF Elems
<1>5. ASSUME NEW i \in 1 .. Len(s) PROVE i \in 1 .. Len(u) /\ u[i] = s[i]
  BY <1>1 DEF u
<1>6. ASSUME NEW i \in 1 .. Len(t) PROVE i + Len(s) \in 1 .. Len(u) /\ u[i + Len(s)] = t[i]
  BY <1>1 DEF u
<1>7. Elems(s) \cup Elems(t) \subseteq Elems(u)
  BY <1>5, <1>6 DEF Elems
<1> QED BY <1>1, <1>3, <1>4, <1>7 DEF u

-----------------------------------------------------------------------------
(***************************************************************************)
(* What an answer and a failure say.                                       *)
(***************************************************************************)
Note(d, kind) == [device |-> d, kind |-> kind, entity |-> None, value |-> None]

Writes(d, old, new) ==
  {[device |-> d, kind |-> "write", entity |-> e, value |-> new[e]] :
     e \in {x \in Entity : new[x] # None /\ new[x] # old[x]}}

Deletes(d, old, new) ==
  {[device |-> d, kind |-> "delete", entity |-> e, value |-> None] :
     e \in {x \in Entity : new[x] = None /\ old[x] # None}}

\* A list of one event.
LEMMA OneSaid ==
  ASSUME NEW x \in Event
  PROVE  <<x>> \in Seq(Event) /\ Apart(<<x>>) /\ Elems(<<x>>) = {x}
<1>1. <<x>> \in Seq(Event)
  OBVIOUS
<1>2. Len(<<x>>) = 1 /\ <<x>>[1] = x
  OBVIOUS
<1>3. 1 .. 1 = {1}
  OBVIOUS
<1>4. Elems(<<x>>) = {x} /\ Apart(<<x>>)
  BY <1>2, <1>3 DEF Elems, Apart
<1> QED BY <1>1, <1>4

\* A note, or nothing.
LEMMA NoteSaid ==
  ASSUME NEW d \in Name, NEW kind \in Kinds, NEW c \in BOOLEAN
  PROVE  /\ When(c, Say(d, kind)) \in Seq(Event)
         /\ Apart(When(c, Say(d, kind)))
         /\ Elems(When(c, Say(d, kind))) = IF c THEN {Note(d, kind)} ELSE {}
<1>1. Note(d, kind) \in Event
  BY DEF Note, Event, Kinds
<1>2. Say(d, kind) = <<Note(d, kind)>>
  BY DEF Say, Note
<1>3. CASE c
  <2>1. When(c, Say(d, kind)) = <<Note(d, kind)>>
    BY <1>2, <1>3 DEF When
  <2> QED BY <1>1, <1>3, <2>1, OneSaid
<1>4. CASE ~ c
  <2>1. When(c, Say(d, kind)) = <<>>
    BY <1>4 DEF When
  <2> QED BY <1>4, <2>1 DEF Apart, Elems
<1> QED BY <1>3, <1>4

\* A set of events of one kind about different entities.
LEMMA SetSaid ==
  ASSUME NEW S, S \subseteq Event, IsFiniteSet(S),
         \A x \in S, y \in S : x.entity = y.entity => x = y
  PROVE  SetToSeq(S) \in Seq(Event) /\ Apart(SetToSeq(S)) /\ Elems(SetToSeq(S)) = S
<1> DEFINE s == SetToSeq(S)
<1>1. /\ s \in Seq(S) /\ Elems(s) = S
      /\ \A i \in 1 .. Len(s), j \in 1 .. Len(s) : s[i] = s[j] => i = j
  BY SetToSeqLists
<1> HIDE DEF s
<1>2. s \in Seq(Event)
  BY <1>1
<1>3. \A i \in 1 .. Len(s) : s[i] \in S
  BY <1>1 DEF Elems
<1>4. Apart(s)
  BY <1>1, <1>3 DEF Apart, SameMatter
<1> QED BY <1>1, <1>2, <1>4 DEF s

\* Writes, then deletes, of different entities.
LEMMA ChangesSaid ==
  ASSUME NEW d \in Name, NEW old \in Entries, NEW new \in Entries
  PROVE  /\ Changes(d, old, new) \in Seq(Event)
         /\ Apart(Changes(d, old, new))
         /\ Elems(Changes(d, old, new)) = Writes(d, old, new) \cup Deletes(d, old, new)
<1> DEFINE W == Writes(d, old, new)
           D == Deletes(d, old, new)
<1>1. W \subseteq Event /\ D \subseteq Event
  <2>1. ASSUME NEW e \in Entity, new[e] # None
        PROVE  [device |-> d, kind |-> "write", entity |-> e, value |-> new[e]] \in Event
    BY <2>1 DEF Event, Entries, Kinds
  <2>2. ASSUME NEW e \in Entity
        PROVE  [device |-> d, kind |-> "delete", entity |-> e, value |-> None] \in Event
    BY DEF Event, Kinds
  <2> QED BY <2>1, <2>2 DEF Writes, Deletes
<1>2. IsFiniteSet(W) /\ IsFiniteSet(D)
  <2> DEFINE ew == {x \in Entity : new[x] # None /\ new[x] # old[x]}
             ed == {x \in Entity : new[x] = None /\ old[x] # None}
             fw == [e \in ew |-> [device |-> d, kind |-> "write", entity |-> e, value |-> new[e]]]
             fd == [e \in ed |-> [device |-> d, kind |-> "delete", entity |-> e, value |-> None]]
  <2>1. IsFiniteSet(ew) /\ IsFiniteSet(ed)
    BY LoggerAssumption, FS_Subset
  <2>2. fw \in Surjection(ew, W) /\ fd \in Surjection(ed, D)
    BY DEF Surjection, Writes, Deletes
  <2> QED BY <2>1, <2>2, FS_Surjection
<1>3. \A x \in W, y \in W : x.entity = y.entity => x = y
  BY DEF Writes
<1>4. \A x \in D, y \in D : x.entity = y.entity => x = y
  BY DEF Deletes
<1>5. \A x \in W, y \in D : x.entity # y.entity
  BY DEF Writes, Deletes
<1>6. Changes(d, old, new) = SetToSeq(W) \o SetToSeq(D)
  BY DEF Changes, Writes, Deletes
<1> HIDE DEF W, D
<1>7. SetToSeq(W) \in Seq(Event) /\ Apart(SetToSeq(W)) /\ Elems(SetToSeq(W)) = W
  BY <1>1, <1>2, <1>3, SetSaid
<1>8. SetToSeq(D) \in Seq(Event) /\ Apart(SetToSeq(D)) /\ Elems(SetToSeq(D)) = D
  BY <1>1, <1>2, <1>4, SetSaid
<1>9. \A x \in W, y \in D : ~ SameMatter(x, y) /\ ~ SameMatter(y, x)
  BY <1>5 DEF SameMatter
<1> QED BY <1>6, <1>7, <1>8, <1>9, Joined DEF W, D

\* A failed poll is news when the card was reachable.
LEMMA FailureTells ==
  ASSUME NEW d \in Name, NEW card \in DeviceState
  PROVE  Tells(When(card.reachable, Say(d, "unreachable")), d, card,
               [card EXCEPT !.reachable = FALSE])
<1> DEFINE said == When(card.reachable, Say(d, "unreachable"))
           new == [card EXCEPT !.reachable = FALSE]
           note == Note(d, "unreachable")
<1>1. /\ card.reachable \in BOOLEAN /\ new \in DeviceState
      /\ new.reachable = FALSE /\ new.online = card.online /\ new.entries = card.entries
  <2>1. new \in DeviceState
    BY Zenon DEF DeviceState
  <2>2. /\ card.reachable \in BOOLEAN
        /\ new.reachable = FALSE /\ new.online = card.online /\ new.entries = card.entries
    BY SMT DEF DeviceState
  <2> QED BY <2>1, <2>2
<1> HIDE DEF new
<1>2. /\ said \in Seq(Event) /\ Apart(said)
      /\ Elems(said) = IF card.reachable THEN {note} ELSE {}
  <2>1. "unreachable" \in Kinds
    BY DEF Kinds
  <2> QED BY <1>1, <2>1, NoteSaid
<1>3. WellFormed(note) /\ note.device = d /\ note.kind = "unreachable" /\ note.entity = None
  BY DEF Note, WellFormed, Event, Kinds
<1> HIDE DEF said, note
<1>4. SaysOf(note, new) /\ (card.reachable => ~ SaysOf(note, card))
  BY <1>1, <1>3 DEF SaysOf
<1>5. ASSUME NEW ev \in Event, WellFormed(ev), ev.device = d, SaysOf(ev, card)
      PROVE  SaysOf(ev, new) \/ \E x \in Elems(said) : SameMatter(x, ev)
  <2>1. CASE ev.kind \in {"first-seen", "reachable"}
    <3>1. card.reachable
      BY <1>5, <2>1 DEF SaysOf
    <3>2. SameMatter(note, ev)
      BY <1>3, <1>5, <2>1 DEF SameMatter, Matters, WellFormed
    <3> QED BY <1>2, <3>1, <3>2
  <2>2. CASE ev.kind = "unreachable"
    BY <1>1, <2>2 DEF SaysOf
  <2>3. CASE ev.kind \in {"node.online", "node.offline", "write", "delete"}
    BY <1>1, <1>5, <2>3 DEF SaysOf
  <2> QED BY <2>1, <2>2, <2>3 DEF Event, Kinds
<1> QED BY <1>2, <1>3, <1>4, <1>5 DEF Tells, said, new

\* An answer: everything it says is new, and nothing that is new is left unsaid.
LEMMA AnswerTells ==
  ASSUME NEW a \in Answer, NEW card \in DeviceState \cup {None}
  PROVE  Tells(News(card, a), a.name, card, CardOf(card, a))
<1> DEFINE d == a.name
           new == CardOf(card, a)
<1>1. /\ d \in Name /\ a.entries \in Entries /\ a.online \in BOOLEAN
      /\ new.entries = a.entries /\ new.reachable = TRUE /\ new.online = a.online
  BY DEF Answer, CardOf
<1>2. ASSUME NEW kind \in Kinds \ {"write", "delete"}
      PROVE  /\ WellFormed(Note(d, kind)) /\ Note(d, kind).device = d
             /\ Note(d, kind).kind = kind /\ Note(d, kind).entity = None
  BY <1>1 DEF Note, WellFormed, Event, Kinds
<1>3. CASE card = None
  <2> DEFINE note == Note(d, "first-seen")
  <2>1. "first-seen" \in Kinds \ {"write", "delete"}
    BY DEF Kinds
  <2>2. News(card, a) = When(TRUE, Say(d, "first-seen"))
    BY <1>3 DEF News, When
  <2>3. News(card, a) \in Seq(Event) /\ Apart(News(card, a)) /\ Elems(News(card, a)) = {note}
    BY <1>1, <2>1, <2>2, NoteSaid
  <2>4. WellFormed(note) /\ note.device = d /\ note.kind = "first-seen"
    BY <1>2, <2>1
  <2> HIDE DEF new, note
  <2>5. SaysOf(note, new)
    BY <1>1, <2>4 DEF SaysOf
  <2> QED BY <1>3, <2>3, <2>4, <2>5 DEF Tells, new
<1>4. CASE card # None
  <2> DEFINE up == Note(d, "reachable")
             off == Note(d, "node.offline")
             on == Note(d, "node.online")
             A == When(~ card.reachable, Say(d, "reachable"))
             B == When(card.online /\ ~ a.online, Say(d, "node.offline"))
             C == When(~ card.online /\ a.online, Say(d, "node.online"))
             K == Changes(d, card.entries, a.entries)
             said == News(card, a)
             WD == Writes(d, card.entries, a.entries) \cup Deletes(d, card.entries, a.entries)
  <2>1. card \in DeviceState
    BY <1>4
  <2>2. card.reachable \in BOOLEAN /\ card.online \in BOOLEAN /\ card.entries \in Entries
    BY <2>1 DEF DeviceState
  <2>3. /\ "reachable" \in Kinds \ {"write", "delete"}
        /\ "node.offline" \in Kinds \ {"write", "delete"}
        /\ "node.online" \in Kinds \ {"write", "delete"}
    BY DEF Kinds
  <2>4. /\ WellFormed(up) /\ up.device = d /\ up.kind = "reachable" /\ up.entity = None
        /\ WellFormed(off) /\ off.device = d /\ off.kind = "node.offline" /\ off.entity = None
        /\ WellFormed(on) /\ on.device = d /\ on.kind = "node.online" /\ on.entity = None
    BY <1>2, <2>3
  <2>5. /\ A \in Seq(Event) /\ Apart(A) /\ Elems(A) = IF ~ card.reachable THEN {up} ELSE {}
    BY <1>1, <2>2, <2>3, NoteSaid
  <2>6. /\ B \in Seq(Event) /\ Apart(B)
        /\ Elems(B) = IF card.online /\ ~ a.online THEN {off} ELSE {}
    BY <1>1, <2>2, <2>3, NoteSaid
  <2>7. /\ C \in Seq(Event) /\ Apart(C)
        /\ Elems(C) = IF ~ card.online /\ a.online THEN {on} ELSE {}
    BY <1>1, <2>2, <2>3, NoteSaid
  <2>8. K \in Seq(Event) /\ Apart(K) /\ Elems(K) = WD
    BY <1>1, <2>2, ChangesSaid
  <2>9. said = ((A \o B) \o C) \o K
    BY <1>4 DEF News
  <2>10. \A x \in WD :
           /\ WellFormed(x) /\ x.device = d /\ x.kind \in {"write", "delete"}
           /\ x.entity \in Entity /\ x.value = a.entries[x.entity]
           /\ a.entries[x.entity] # card.entries[x.entity]
    <3>1. ASSUME NEW e \in Entity, a.entries[e] # None
          PROVE  LET x == [device |-> d, kind |-> "write", entity |-> e, value |-> a.entries[e]]
                 IN  /\ WellFormed(x) /\ x.device = d /\ x.kind \in {"write", "delete"}
                     /\ x.entity = e /\ x.value = a.entries[e]
      BY <1>1, <3>1 DEF WellFormed, Event, Kinds, Entries
    <3>2. ASSUME NEW e \in Entity
          PROVE  LET x == [device |-> d, kind |-> "delete", entity |-> e, value |-> None]
                 IN  /\ WellFormed(x) /\ x.device = d /\ x.kind \in {"write", "delete"}
                     /\ x.entity = e /\ x.value = None
      BY <1>1 DEF WellFormed, Event, Kinds
    <3> QED BY <3>1, <3>2 DEF Writes, Deletes
  <2>11. \A e \in Entity : a.entries[e] # card.entries[e] =>
           \E x \in WD : x.kind \in {"write", "delete"} /\ x.entity = e
    <3> SUFFICES ASSUME NEW e \in Entity, a.entries[e] # card.entries[e]
                 PROVE  \E x \in WD : x.kind \in {"write", "delete"} /\ x.entity = e
      OBVIOUS
    <3>1. CASE a.entries[e] # None
      <4> DEFINE x == [device |-> d, kind |-> "write", entity |-> e, value |-> a.entries[e]]
      <4>1. x \in WD /\ x.kind = "write" /\ x.entity = e
        BY <3>1 DEF Writes
      <4> QED BY <4>1
    <3>2. CASE a.entries[e] = None
      <4> DEFINE x == [device |-> d, kind |-> "delete", entity |-> e, value |-> None]
      <4>1. x \in WD /\ x.kind = "delete" /\ x.entity = e
        BY <3>2 DEF Deletes
      <4> QED BY <4>1
    <3> QED BY <3>1, <3>2
  <2> HIDE DEF up, off, on, A, B, C, K, said, WD, new
  <2>12. A \o B \in Seq(Event) /\ Apart(A \o B) /\ Elems(A \o B) = Elems(A) \cup Elems(B)
    <3>1. \A x \in Elems(A), y \in Elems(B) : ~ SameMatter(x, y) /\ ~ SameMatter(y, x)
      BY <2>4, <2>5, <2>6 DEF SameMatter, Matters
    <3> QED BY <2>5, <2>6, <3>1, Joined
  <2>13. /\ (A \o B) \o C \in Seq(Event) /\ Apart((A \o B) \o C)
         /\ Elems((A \o B) \o C) = Elems(A) \cup Elems(B) \cup Elems(C)
    <3>1. \A x \in Elems(A), y \in Elems(C) : ~ SameMatter(x, y) /\ ~ SameMatter(y, x)
      BY <2>4, <2>5, <2>7 DEF SameMatter, Matters
    <3>2. Elems(B) = {} \/ Elems(C) = {}
      BY <1>1, <2>2, <2>6, <2>7
    <3> QED BY <2>7, <2>12, <3>1, <3>2, Joined
  <2>14. /\ said \in Seq(Event) /\ Apart(said)
         /\ Elems(said) = Elems(A) \cup Elems(B) \cup Elems(C) \cup WD
    <3>1. \A x \in Elems(A) \cup Elems(B) \cup Elems(C) : x.kind \notin {"write", "delete"}
      BY <2>4, <2>5, <2>6, <2>7
    <3>2. \A x \in Elems(A) \cup Elems(B) \cup Elems(C), y \in WD :
            ~ SameMatter(x, y) /\ ~ SameMatter(y, x)
      BY <2>10, <3>1 DEF SameMatter, Matters
    <3> QED BY <2>8, <2>9, <2>13, <3>2, Joined
  <2>15. \A x \in Elems(said) : /\ WellFormed(x) /\ x.device = d /\ SaysOf(x, new)
                                /\ x.kind # "first-seen" /\ ~ SaysOf(x, card)
    <3> SUFFICES ASSUME NEW x \in Elems(said)
                 PROVE  /\ WellFormed(x) /\ x.device = d /\ SaysOf(x, new)
                        /\ x.kind # "first-seen" /\ ~ SaysOf(x, card)
      OBVIOUS
    <3>1. CASE x \in Elems(A)
      <4>1. x = up /\ ~ card.reachable
        BY <2>5, <3>1
      <4> QED BY <1>1, <2>4, <4>1 DEF SaysOf
    <3>2. CASE x \in Elems(B)
      <4>1. x = off /\ card.online /\ ~ a.online
        BY <2>6, <3>2
      <4> QED BY <1>1, <2>4, <4>1 DEF SaysOf
    <3>3. CASE x \in Elems(C)
      <4>1. x = on /\ ~ card.online /\ a.online
        BY <2>7, <3>3
      <4> QED BY <1>1, <2>4, <4>1 DEF SaysOf
    <3>4. CASE x \in WD
      <4>1. /\ WellFormed(x) /\ x.device = d /\ x.kind \in {"write", "delete"}
            /\ x.value = new.entries[x.entity] /\ x.value # card.entries[x.entity]
        BY <1>1, <2>10, <3>4
      <4> QED BY <4>1 DEF SaysOf
    <3> QED BY <2>14, <3>1, <3>2, <3>3, <3>4
  <2>16. ASSUME NEW ev \in Event, WellFormed(ev), ev.device = d, SaysOf(ev, card)
         PROVE  SaysOf(ev, new) \/ \E x \in Elems(said) : SameMatter(x, ev)
    <3>1. CASE ev.kind \in {"first-seen", "reachable"}
      BY <1>1, <3>1 DEF SaysOf
    <3>2. CASE ev.kind = "unreachable"
      <4>1. ~ card.reachable
        BY <2>16, <3>2 DEF SaysOf
      <4>2. SameMatter(up, ev)
        BY <2>4, <2>16, <3>2 DEF SameMatter, Matters, WellFormed
      <4> QED BY <2>5, <2>14, <4>1, <4>2
    <3>3. CASE ev.kind = "node.online"
      <4>1. card.online
        BY <2>16, <3>3 DEF SaysOf
      <4>2. SameMatter(off, ev)
        BY <2>4, <2>16, <3>3 DEF SameMatter, Matters, WellFormed
      <4>3. CASE a.online
        BY <1>1, <3>3, <4>3 DEF SaysOf
      <4> QED BY <2>6, <2>14, <4>1, <4>2, <4>3
    <3>4. CASE ev.kind = "node.offline"
      <4>1. ~ card.online
        BY <2>16, <3>4 DEF SaysOf
      <4>2. SameMatter(on, ev)
        BY <2>4, <2>16, <3>4 DEF SameMatter, Matters, WellFormed
      <4>3. CASE ~ a.online
        BY <1>1, <3>4, <4>3 DEF SaysOf
      <4> QED BY <2>7, <2>14, <4>1, <4>2, <4>3
    <3>5. CASE ev.kind \in {"write", "delete"}
      <4>1. ev.entity \in Entity /\ card.entries[ev.entity] = ev.value
        BY <2>16, <3>5 DEF SaysOf, WellFormed
      <4>2. CASE a.entries[ev.entity] = card.entries[ev.entity]
        BY <1>1, <3>5, <4>1, <4>2 DEF SaysOf
      <4>3. CASE a.entries[ev.entity] # card.entries[ev.entity]
        <5>1. PICK x \in WD : x.kind \in {"write", "delete"} /\ x.entity = ev.entity
          BY <2>11, <4>1, <4>3
        <5>2. SameMatter(x, ev)
          BY <2>10, <2>16, <3>5, <5>1 DEF SameMatter, Matters
        <5> QED BY <2>14, <5>1, <5>2
      <4> QED BY <4>2, <4>3
    <3> QED BY <3>1, <3>2, <3>3, <3>4, <3>5 DEF Event, Kinds
  <2> QED BY <2>14, <2>15, <2>16 DEF Tells, said, new
<1> QED BY <1>3, <1>4

-----------------------------------------------------------------------------
(***************************************************************************)
(* A fold.                                                                 *)
(***************************************************************************)
\* What is true of the cards and the events together.
EventsInv ==
  /\ devices \in [Name -> DeviceState \cup {None}]
  /\ events \in Seq(Event) /\ Len(events) <= MaxEvents
  /\ \A i \in 1 .. Len(events) :
       WellFormed(events[i]) /\ devices[events[i].device] # None
  /\ EventsAgree
  /\ NoEventRepeats

\* The list after a push: what is said, the last first, then what was there.
LEMMA PushedList ==
  ASSUME NEW said \in Seq(Event), events \in Seq(Event)
  PROVE  /\ Pushed(said) \in Seq(Event) /\ Len(Pushed(said)) <= MaxEvents
         /\ \A i \in 1 .. Len(Pushed(said)) :
              IF i <= Len(said)
              THEN /\ Len(said) - i + 1 \in 1 .. Len(said)
                   /\ Pushed(said)[i] = said[Len(said) - i + 1]
              ELSE /\ i - Len(said) \in 1 .. Len(events)
                   /\ Pushed(said)[i] = events[i - Len(said)]
<1> DEFINE n == Len(said)
           rev == Reverse(said)
           all == rev \o events
           m == IF Len(all) > MaxEvents THEN MaxEvents ELSE Len(all)
<1>1. n \in Nat /\ Len(events) \in Nat /\ MaxEvents \in Nat
  BY LenProperties, LoggerAssumption
<1>2. rev = [i \in 1 .. n |-> said[(n - i) + 1]]
  BY DEF Reverse
<1>3. \A i \in 1 .. n : n - i + 1 \in 1 .. n
  BY <1>1
<1>4. \A i \in 1 .. n : said[n - i + 1] \in Event
  BY <1>3, ElementOfSeq
<1>5. rev \in [1 .. n -> Event]
  BY <1>2, <1>4
<1>6. rev \in Seq(Event)
  BY <1>1, <1>5, SeqDef
<1>7. Len(rev) = n
  <2>1. DOMAIN rev = 1 .. Len(rev) /\ Len(rev) \in Nat
    BY <1>6, LenProperties
  <2>2. DOMAIN rev = 1 .. n
    BY <1>2
  <2> QED BY <1>1, <2>1, <2>2
<1>8. \A i \in 1 .. n : rev[i] = said[n - i + 1]
  BY <1>2
<1> HIDE DEF rev
<1>9. /\ all \in Seq(Event) /\ Len(all) = n + Len(events)
      /\ \A i \in 1 .. n + Len(events) : all[i] = IF i <= n THEN rev[i] ELSE events[i - n]
  <2>1. /\ all \in Seq(Event) /\ Len(all) = Len(rev) + Len(events)
        /\ \A i \in 1 .. Len(rev) + Len(events) :
             all[i] = IF i <= Len(rev) THEN rev[i] ELSE events[i - Len(rev)]
    BY <1>6, ConcatProperties
  <2> HIDE DEF n, all
  <2> QED BY <1>7, <2>1
<1> HIDE DEF all, n
<1>10. m \in Nat /\ m <= MaxEvents /\ m <= Len(all)
  BY <1>1, <1>9
<1>11. Pushed(said) = SubSeq(all, 1, m)
  BY DEF Pushed, all, rev
<1> HIDE DEF m
<1>12. /\ SubSeq(all, 1, m) \in Seq(Event) /\ Len(SubSeq(all, 1, m)) = m
       /\ \A i \in 1 .. m : SubSeq(all, 1, m)[i] = all[i]
  <2>1. \A i \in 1 .. m : i \in 1 .. Len(all)
    BY <1>1, <1>9, <1>10
  <2>2. \A i \in 1 .. m : all[i] \in Event
    BY <1>9, <2>1, ElementOfSeq
  <2> QED BY <1>9, <1>10, <2>2, SubSeqProperties
<1>13. ASSUME NEW i \in 1 .. m
       PROVE  IF i <= n
              THEN n - i + 1 \in 1 .. n /\ all[i] = said[n - i + 1]
              ELSE i - n \in 1 .. Len(events) /\ all[i] = events[i - n]
  <2>1. i \in 1 .. n + Len(events)
    BY <1>1, <1>9, <1>10
  <2>2. all[i] = IF i <= n THEN rev[i] ELSE events[i - n]
    BY <1>9, <2>1
  <2>3. CASE i <= n
    <3>1. i \in 1 .. n
      BY <1>1, <2>3
    <3> QED BY <1>3, <1>8, <2>2, <2>3, <3>1
  <2>4. CASE ~ (i <= n)
    <3>1. i - n \in 1 .. Len(events)
      BY <1>1, <2>1, <2>4
    <3> QED BY <2>2, <2>4, <3>1
  <2> QED BY <2>3, <2>4
<1> QED BY <1>10, <1>11, <1>12, <1>13 DEF n

\* A fold of anything that tells what happened keeps cards and events together.
LEMMA FoldTells ==
  ASSUME EventsInv, NEW d \in Name, NEW new \in DeviceState, NEW said,
         Tells(said, d, devices[d], new),
         devices' = [devices EXCEPT ![d] = new], events' = Pushed(said)
  PROVE  EventsInv'
<1> DEFINE n == Len(said)
           card == devices[d]
<1>1. /\ said \in Seq(Event) /\ n \in Nat /\ events \in Seq(Event) /\ Len(events) \in Nat
      /\ devices \in [Name -> DeviceState \cup {None}]
  BY LenProperties DEF EventsInv, Tells
<1>2. /\ events' \in Seq(Event) /\ Len(events') \in Nat /\ Len(events') <= MaxEvents
      /\ \A i \in 1 .. Len(events') :
           IF i <= n THEN n - i + 1 \in 1 .. n /\ events'[i] = said[n - i + 1]
                     ELSE i - n \in 1 .. Len(events) /\ events'[i] = events[i - n]
  BY <1>1, PushedList, LenProperties
<1>3. devices' \in [Name -> DeviceState \cup {None}]
  BY <1>1
<1>4. devices'[d] = new /\ \A c \in Name \ {d} : devices'[c] = devices[c]
  BY <1>1
<1>5. new # None
  BY LoggerAssumption
<1> HIDE DEF n
<1>6. ASSUME NEW i \in 1 .. Len(events'), i <= n
      PROVE  /\ n - i + 1 \in 1 .. n /\ events'[i] = said[n - i + 1]
             /\ events'[i] \in Elems(said)
  BY <1>2, <1>6 DEF Elems, n
<1>7. ASSUME NEW i \in 1 .. Len(events'), ~ (i <= n)
      PROVE  i - n \in 1 .. Len(events) /\ events'[i] = events[i - n]
  BY <1>2, <1>7
<1>8. \A x \in Elems(said) : WellFormed(x) /\ x.device = d /\ SaysOf(x, new)
  BY DEF Tells
<1>9. \A i \in 1 .. Len(events) :
        WellFormed(events[i]) /\ events[i].device \in Name /\ devices[events[i].device] # None
  BY DEF EventsInv, WellFormed, Event
<1>10. ASSUME NEW i \in 1 .. Len(events')
       PROVE  WellFormed(events'[i]) /\ devices'[events'[i].device] # None
  <2>1. CASE i <= n
    BY <1>4, <1>5, <1>6, <1>8, <2>1
  <2>2. CASE ~ (i <= n)
    BY <1>4, <1>5, <1>7, <1>9, <2>2
  <2> QED BY <2>1, <2>2
\* The newest event on its matter before the fold is true of the card before it.
<1>11. ASSUME NEW i \in 1 .. Len(events),
              \A j \in 1 .. i - 1 : ~ SameMatter(events[i], events[j])
       PROVE  SaysOf(events[i], devices[events[i].device])
  BY <1>11 DEF EventsInv, EventsAgree
<1>12. EventsAgree'
  <2> SUFFICES ASSUME NEW i \in 1 .. Len(events'),
                      \A j \in 1 .. i - 1 : ~ SameMatter(events'[i], events'[j])
               PROVE  SaysOf(events'[i], devices'[events'[i].device])
    BY DEF EventsAgree, SaysOf, SameMatter, Matters
  <2>1. CASE i <= n
    BY <1>4, <1>6, <1>8, <2>1
  <2>2. CASE ~ (i <= n)
    <3> DEFINE ev == events[i - n]
    <3>1. i - n \in 1 .. Len(events) /\ events'[i] = ev
      BY <1>7, <2>2
    <3>2. ASSUME NEW j \in 1 .. (i - n) - 1 PROVE ~ SameMatter(ev, events[j])
      <4>1. j + n \in 1 .. i - 1 /\ j + n \in 1 .. Len(events') /\ ~ (j + n <= n)
        BY <1>1, <1>2, <2>2 DEF n
      <4>2. events'[j + n] = events[(j + n) - n] /\ (j + n) - n = j
        BY <1>1, <1>7, <4>1 DEF n
      <4> QED BY <3>1, <4>1, <4>2
    <3>3. SaysOf(ev, devices[ev.device])
      BY <1>11, <3>1, <3>2
    <3>4. CASE ev.device # d
      BY <1>4, <1>9, <3>1, <3>3, <3>4
    <3>5. CASE ev.device = d
      <4>1. card # None /\ WellFormed(ev) /\ ev \in Event /\ SaysOf(ev, card)
        BY <1>9, <3>1, <3>3, <3>5 DEF WellFormed
      <4>2. SaysOf(ev, new) \/ \E x \in Elems(said) : SameMatter(x, ev)
        BY <3>5, <4>1 DEF Tells
      <4>3. ASSUME NEW x \in Elems(said) PROVE ~ SameMatter(x, ev)
        <5>1. PICK k \in 1 .. n : x = said[k]
          BY DEF Elems, n
        <5>2. /\ (n - k) + 1 \in 1 .. i - 1 /\ (n - k) + 1 \in 1 .. Len(events')
              /\ (n - k) + 1 <= n /\ (n - ((n - k) + 1)) + 1 = k
          BY <1>1, <1>2, <2>2 DEF n
        <5>3. events'[(n - k) + 1] = x
          BY <1>6, <5>1, <5>2
        <5>4. ~ SameMatter(ev, x)
          BY <3>1, <5>2, <5>3
        <5> QED BY <5>4 DEF SameMatter
      <4> QED BY <1>4, <3>1, <3>5, <4>2, <4>3
    <3> QED BY <3>4, <3>5
  <2> QED BY <2>1, <2>2
<1>13. NoEventRepeats'
  <2> SUFFICES ASSUME NEW j \in 1 .. Len(events'), NEW i \in 1 .. Len(events'), i < j,
                      SameMatter(events'[i], events'[j]),
                      \A k \in i + 1 .. j - 1 : ~ SameMatter(events'[k], events'[j])
               PROVE  /\ events'[i].kind # "first-seen"
                      /\ {events'[i].kind, events'[j].kind} # {"first-seen", "reachable"}
                      /\ events'[i].kind = events'[j].kind => events'[i].value # events'[j].value
    BY DEF NoEventRepeats
  <2>1. CASE j <= n
    <3>1. i <= n
      BY <1>1, <2>1 DEF n
    <3>2. n - i + 1 = n - j + 1
      BY <1>6, <2>1, <3>1 DEF Tells, Apart, n
    <3> QED BY <1>1, <3>2 DEF n
  <2>2. CASE i <= n /\ ~ (j <= n)
    <3> DEFINE ev == events[j - n]
               x == events'[i]
    <3>1. j - n \in 1 .. Len(events) /\ events'[j] = ev /\ x \in Elems(said)
      BY <1>6, <1>7, <2>2
    <3>2. ev.device = d /\ WellFormed(ev) /\ card # None
      BY <1>8, <1>9, <3>1 DEF SameMatter
    <3>3. ASSUME NEW k \in 1 .. (j - n) - 1 PROVE ~ SameMatter(ev, events[k])
      <4>1. k + n \in i + 1 .. j - 1 /\ k + n \in 1 .. Len(events') /\ ~ (k + n <= n)
        BY <1>1, <1>2, <2>2 DEF n
      <4>2. events'[k + n] = events[(k + n) - n] /\ (k + n) - n = k
        BY <1>1, <1>7, <4>1 DEF n
      <4>3. ~ SameMatter(events[k], ev)
        BY <3>1, <4>1, <4>2
      <4> QED BY <4>3 DEF SameMatter
    <3>4. SaysOf(ev, card)
      BY <1>11, <3>1, <3>2, <3>3
    <3>5. x.kind # "first-seen" /\ ~ SaysOf(x, card)
      BY <3>1, <3>2 DEF Tells
    <3>6. SameMatter(x, ev) /\ WellFormed(x)
      BY <1>8, <3>1
    <3> HIDE DEF x, ev
    <3>7. {x.kind, ev.kind} # {"first-seen", "reachable"}
      <4> SUFFICES ASSUME {x.kind, ev.kind} = {"first-seen", "reachable"} PROVE FALSE
        OBVIOUS
      <4>1. x.kind = "reachable" /\ ev.kind = "first-seen"
        BY <3>5
      <4> QED BY <3>4, <3>5, <4>1 DEF SaysOf
    <3>8. ASSUME x.kind = ev.kind, x.value = ev.value PROVE FALSE
      <4>1. x.entity = ev.entity /\ x.kind \in Kinds
        BY <3>6 DEF SameMatter, WellFormed, Event
      <4> QED BY <3>4, <3>5, <3>8, <4>1 DEF SaysOf, Kinds
    <3> QED BY <3>1, <3>5, <3>7, <3>8 DEF x
  <2>3. CASE ~ (i <= n)
    <3>1. ~ (j <= n)
      BY <1>1, <2>3 DEF n
    <3>2. /\ i - n \in 1 .. Len(events) /\ events'[i] = events[i - n]
          /\ j - n \in 1 .. Len(events) /\ events'[j] = events[j - n]
      BY <1>7, <2>3, <3>1
    <3>3. i - n < j - n
      BY <1>1 DEF n
    <3>4. ASSUME NEW k \in (i - n) + 1 .. (j - n) - 1 PROVE ~ SameMatter(events[k], events[j - n])
      <4>1. k + n \in i + 1 .. j - 1 /\ k + n \in 1 .. Len(events') /\ ~ (k + n <= n)
        BY <1>1, <1>2, <2>3 DEF n
      <4>2. events'[k + n] = events[(k + n) - n] /\ (k + n) - n = k
        BY <1>1, <1>7, <4>1 DEF n
      <4> QED BY <3>2, <4>1, <4>2
    <3> QED BY <3>2, <3>3, <3>4 DEF EventsInv, NoEventRepeats
  <2> QED BY <2>1, <2>2, <2>3
<1> QED BY <1>2, <1>3, <1>10, <1>12, <1>13 DEF EventsInv, WellFormed

-----------------------------------------------------------------------------
(***************************************************************************)
(* The inductive invariant.                                                *)
(***************************************************************************)
NodesInv ==
  /\ node \in [Target -> Answer]
  /\ answers \in [Target -> BOOLEAN]
  /\ changes \in 0 .. MaxChanges

\* A target that was heard has a card.
CardsInv ==
  /\ byTarget \in [Target -> Name \cup {None}]
  /\ targetOf \in [Name -> Target \cup {None}]
  /\ \A t \in Target : byTarget[t] # None => devices[byTarget[t]] # None

\* A command on its way is one to a device whose target is known, and stays so.
PollInv ==
  /\ poll \in [Worker -> PollState]
  /\ \A r \in Worker : poll[r].step = "post" =>
       poll[r].device \in Name /\ targetOf[poll[r].device] \in Target

LoggerInv == NodesInv /\ CardsInv /\ PollInv /\ EventsInv

\* The invariant holds at the start: nothing is on a card and nothing was said.
LEMMA LoggerInvInit == LoggerInit => LoggerInv
<1> SUFFICES ASSUME LoggerInit PROVE LoggerInv
  OBVIOUS
<1>1. ASSUME NEW d \in Name PROVE NewProcess(d) \in Answer
  BY DEF NewProcess, Answer, Entries
<1>2. NodesInv
  BY <1>1, LoggerAssumption DEF LoggerInit, NodesInv
<1>3. CardsInv
  BY DEF LoggerInit, CardsInv
<1>4. PollInv
  <2>1. 1 \in Target
    BY LoggerAssumption DEF Target
  <2>2. Idle \in PollState /\ Fetching(1) \in PollState
    BY <2>1 DEF Idle, Fetching, PollState
  <2>3. Idle.step # "post" /\ Fetching(1).step # "post"
    BY DEF Idle, Fetching
  <2> QED BY <2>2, <2>3 DEF LoggerInit, PollInv
<1>5. EventsInv
  <2>1. events = <<>> /\ devices = [d \in Name |-> None]
    BY DEF LoggerInit
  <2>2. events \in Seq(Event) /\ Len(events) = 0 /\ Len(events) <= MaxEvents
    BY <2>1, LoggerAssumption
  <2> QED BY <2>1, <2>2 DEF EventsInv, EventsAgree, NoEventRepeats
<1> QED BY <1>2, <1>3, <1>4, <1>5 DEF LoggerInv

\* A step that leaves cards and events alone keeps what is said about them.
LEMMA EventsKept ==
  ASSUME EventsInv, UNCHANGED <<devices, events>>
  PROVE  EventsInv'
BY DEF EventsInv, EventsAgree, NoEventRepeats

\* A node that was edited is still a node.
LEMMA EditedIsAnswer ==
  ASSUME NEW a \in Answer, NEW b \in Edited(a)
  PROVE  b \in Answer
<1>1. PICK e \in Entity, v \in Value \cup {None} : b = [a EXCEPT !.entries[e] = v]
  BY DEF Edited
<1>2. b = [a EXCEPT !.entries = [a.entries EXCEPT ![e] = v]]
  BY <1>1
<1>3. [a.entries EXCEPT ![e] = v] \in Entries
  BY DEF Answer, Entries
<1> QED BY <1>2, <1>3, Zenon DEF Answer

\* What happens to a node is no concern of the logger until it polls.
LEMMA NodeStepKeepsInv ==
  ASSUME LoggerInv, NEW t \in Target, NodeStep(t)
  PROVE  LoggerInv'
<1>1. ASSUME NEW a \in Answer, NEW b \in Edited(a) PROVE b \in Answer
  BY EditedIsAnswer
<1>2. ASSUME NEW a \in Answer PROVE [a EXCEPT !.online = TRUE] \in Answer
  BY Zenon DEF Answer
<1>3. ASSUME NEW d \in Name PROVE NewProcess(d) \in Answer
  BY DEF NewProcess, Answer, Entries
<1>4. /\ node \in [Target -> Answer] /\ answers \in [Target -> BOOLEAN]
      /\ changes \in 0 .. MaxChanges /\ MaxChanges \in Nat
  BY LoggerAssumption DEF LoggerInv, NodesInv
<1>5. ASSUME Change PROVE changes' \in 0 .. MaxChanges
  BY <1>4, <1>5 DEF Change
<1>6. CASE NodeEdited(t)
  <2>1. PICK a \in Edited(node[t]) : node' = [node EXCEPT ![t] = a]
    BY <1>6 DEF NodeEdited
  <2>2. a \in Answer
    BY <1>1, <1>4
  <2> QED BY <1>4, <1>5, <1>6, <2>1, <2>2, EventsKept
          DEF LoggerInv, NodesInv, CardsInv, PollInv, NodeEdited, LoggerUnchanged
<1>7. CASE NodeStopsOrReturns(t)
  BY <1>4, <1>5, <1>7, EventsKept
     DEF LoggerInv, NodesInv, CardsInv, PollInv, NodeStopsOrReturns, LoggerUnchanged
<1>8. CASE NodeRestarts(t)
  <2>1. PICK a \in {[node[t] EXCEPT !.online = TRUE]}
                   \cup {NewProcess(d) : d \in Spare \ {node[u].name : u \in Target}} :
          node' = [node EXCEPT ![t] = a]
    BY <1>8 DEF NodeRestarts
  <2>2. a \in Answer
    BY <1>2, <1>3, <1>4, <2>1, LoggerAssumption
  <2> QED BY <1>4, <1>5, <1>8, <2>1, <2>2, EventsKept
          DEF LoggerInv, NodesInv, CardsInv, PollInv, NodeRestarts, LoggerUnchanged
<1> QED BY <1>6, <1>7, <1>8 DEF NodeStep

\* After poll_one a worker fetches again or is idle; a command under way stays.
LEMMA DoneKeepsPolls ==
  ASSUME poll \in [Worker -> PollState], NEW w \in Worker, Done(w)
  PROVE  /\ poll' \in [Worker -> PollState]
         /\ \A r \in Worker : poll'[r].step = "post" => poll'[r] = poll[r]
<1> DEFINE u == IF poll[w].target = Targets THEN 1 ELSE poll[w].target + 1
           p == IF w = Poller THEN Fetching(u) ELSE Idle
<1>1. poll[w].target \in Target
  BY DEF PollState
<1>2. 1 \in Target /\ u \in Target
  BY <1>1, LoggerAssumption DEF Target
<1>3. poll' = [poll EXCEPT ![w] = p]
  BY DEF Done
<1> HIDE DEF u
<1>4. p \in PollState /\ p.step # "post"
  BY <1>2 DEF Idle, Fetching, PollState
<1> HIDE DEF p
<1> QED BY <1>3, <1>4

\* The GET changes nothing but the worker's own answer.
LEMMA FetchKeepsInv ==
  ASSUME LoggerInv, NEW w \in Worker, Fetch(w)
  PROVE  LoggerInv'
<1> DEFINE x == IF answers[poll[w].target] THEN node[poll[w].target] ELSE None
           p == [poll[w] EXCEPT !.step = "fold", !.answer = x]
<1>1. poll[w] \in PollState /\ poll[w].target \in Target
  BY DEF LoggerInv, PollInv, PollState
<1>2. x \in Answer \cup {None}
  BY <1>1 DEF LoggerInv, NodesInv
<1>3. poll' = [poll EXCEPT ![w] = p]
  BY DEF Fetch, LoggerInv, PollInv
<1> HIDE DEF x
<1>4. p \in PollState
  BY <1>1, <1>2, Zenon DEF PollState
<1>5. p.step = "fold"
  BY <1>1 DEF PollState
<1> HIDE DEF p
<1>6. PollInv'
  BY <1>3, <1>4, <1>5 DEF LoggerInv, PollInv, Fetch
<1> QED BY <1>6, EventsKept DEF LoggerInv, NodesInv, CardsInv, Fetch

\* An answer is folded: what it tells, AnswerTells says.
LEMMA FoldAnswerKeepsInv ==
  ASSUME LoggerInv, NEW w \in Worker, FoldAnswer(w)
  PROVE  LoggerInv'
<1> DEFINE t == poll[w].target
           a == poll[w].answer
           card == devices[a.name]
           new == CardOf(card, a)
<1>1. t \in Target /\ a \in Answer
  BY DEF LoggerInv, PollInv, PollState, FoldAnswer
<1>2. a.name \in Name /\ a.entries \in Entries /\ a.online \in BOOLEAN
  BY <1>1 DEF Answer
<1>3. /\ byTarget' = [byTarget EXCEPT ![t] = a.name]
      /\ targetOf' = [targetOf EXCEPT ![a.name] = t]
      /\ devices' = [devices EXCEPT ![a.name] = new]
      /\ events' = Pushed(News(card, a))
      /\ Done(w) /\ UNCHANGED <<node, answers, changes>>
  BY DEF FoldAnswer
<1>4. card \in DeviceState \cup {None}
  BY <1>2 DEF LoggerInv, EventsInv
<1> HIDE DEF t, a
<1>5. new \in DeviceState
  BY <1>2 DEF CardOf, DeviceState
<1>6. EventsInv'
  <2>1. Tells(News(card, a), a.name, card, new)
    BY <1>1, <1>4, AnswerTells
  <2> HIDE DEF new
  <2> QED BY <1>2, <1>3, <1>5, <2>1, FoldTells DEF LoggerInv
<1> HIDE DEF new, card
<1>7. new # None
  BY <1>5, LoggerAssumption
<1>8. CardsInv'
  BY <1>1, <1>2, <1>3, <1>7 DEF LoggerInv, CardsInv, EventsInv
<1>9. PollInv'
  BY <1>1, <1>2, <1>3, DoneKeepsPolls DEF LoggerInv, CardsInv, PollInv
<1> QED BY <1>3, <1>6, <1>8, <1>9 DEF LoggerInv, NodesInv

\* A failure is folded: it is attributed to the device last heard at the target.
LEMMA FoldFailureKeepsInv ==
  ASSUME LoggerInv, NEW w \in Worker, FoldFailure(w)
  PROVE  LoggerInv'
<1> DEFINE t == poll[w].target
           d == byTarget[t]
           card == devices[d]
           new == [card EXCEPT !.reachable = FALSE]
           said == When(card.reachable, Say(d, "unreachable"))
<1>1. t \in Target
  BY DEF LoggerInv, PollInv, PollState
<1>2. d \in Name \cup {None} /\ (d # None => card # None)
  BY <1>1 DEF LoggerInv, CardsInv
<1>3. Done(w) /\ UNCHANGED <<node, answers, changes, byTarget, targetOf>>
  BY DEF FoldFailure
<1>4. NodesInv' /\ PollInv'
  BY <1>3, DoneKeepsPolls DEF LoggerInv, NodesInv, CardsInv, PollInv
<1>5. CASE d = None
  <2>1. UNCHANGED <<devices, events>>
    BY <1>5 DEF FoldFailure
  <2> QED BY <1>3, <1>4, <2>1, EventsKept DEF LoggerInv, CardsInv
<1>6. CASE d # None
  <2>1. d \in Name /\ devices \in [Name -> DeviceState \cup {None}] /\ card \in DeviceState
    BY <1>2, <1>6 DEF LoggerInv, EventsInv
  <2>2. devices' = [devices EXCEPT ![d] = new] /\ events' = Pushed(said)
    BY <1>6, <2>1 DEF FoldFailure
  <2>3. Tells(said, d, card, new)
    BY <2>1, FailureTells
  <2>4. new \in DeviceState
    BY <2>1, Zenon DEF DeviceState
  <2>5. new # None
    BY <2>4, LoggerAssumption
  <2> HIDE DEF new, said, d
  <2>6. EventsInv'
    BY <2>1, <2>2, <2>3, <2>4, FoldTells DEF LoggerInv
  <2>7. CardsInv'
    BY <1>3, <2>1, <2>2, <2>5 DEF LoggerInv, CardsInv
  <2> QED BY <1>4, <2>6, <2>7 DEF LoggerInv
<1> QED BY <1>5, <1>6

\* A command changes at most the node, and then polls the target it looks up.
LEMMA CommandKeepsInv ==
  ASSUME LoggerInv, NEW r \in Request, Forward(r) \/ Deliver(r)
  PROVE  LoggerInv'
<1>1. r \in Worker /\ poll \in [Worker -> PollState]
  BY DEF Worker, LoggerInv, PollInv
<1>2. CASE Forward(r)
  <2>1. PICK d \in Name :
          /\ targetOf[d] # None
          /\ poll' = [poll EXCEPT ![r] =
               [step |-> "post", target |-> targetOf[d], device |-> d, answer |-> None]]
    BY <1>2 DEF Forward
  <2>2. targetOf[d] \in Target
    BY <2>1 DEF LoggerInv, CardsInv
  <2> DEFINE p == [step |-> "post", target |-> targetOf[d], device |-> d, answer |-> None]
  <2>3. p \in PollState /\ p.device = d
    BY <2>2 DEF PollState
  <2>4. poll' = [poll EXCEPT ![r] = p]
    BY <2>1
  <2> HIDE DEF p
  <2>5. PollInv'
    BY <1>1, <1>2, <2>2, <2>3, <2>4 DEF Forward, LoggerInv, PollInv
  <2> QED BY <1>2, <2>5, EventsKept DEF Forward, LoggerInv, NodesInv, CardsInv
<1>3. CASE Deliver(r)
  <2> DEFINE t == poll[r].target
             p == Fetching(targetOf[poll[r].device])
  <2>1. t \in Target
    BY <1>1 DEF PollState
  <2>2. /\ targetOf[poll[r].device] \in Target
        /\ poll' = [poll EXCEPT ![r] = p]
    BY <1>1, <1>3 DEF Deliver, LoggerInv, PollInv
  <2>3. p \in PollState /\ p.step # "post"
    BY <2>2 DEF Fetching, PollState
  <2> HIDE DEF p
  <2>4. PollInv'
    BY <1>1, <1>3, <2>2, <2>3 DEF Deliver, LoggerInv, PollInv
  <2>5. NodesInv'
    <3>1. node[t] \in Answer /\ node \in [Target -> Answer]
      BY <2>1 DEF LoggerInv, NodesInv
    <3>2. CASE UNCHANGED <<node, changes>>
      BY <1>3, <3>2 DEF Deliver, LoggerInv, NodesInv
    <3>3. CASE /\ Change
               /\ node' \in {[node EXCEPT ![t] = a] :
                               a \in Edited(node[t]) \cup {[node[t] EXCEPT !.online = ~ @]}}
      <4>1. PICK a \in Edited(node[t]) \cup {[node[t] EXCEPT !.online = ~ @]} :
              node' = [node EXCEPT ![t] = a]
        BY <3>3
      <4>2. [node[t] EXCEPT !.online = ~ @] \in Answer
        BY <3>1, Zenon DEF Answer
      <4>3. a \in Answer
        BY <3>1, <4>1, <4>2, EditedIsAnswer
      <4>4. changes' \in 0 .. MaxChanges
        BY <3>3, LoggerAssumption DEF Change, LoggerInv, NodesInv
      <4> QED BY <1>3, <3>1, <4>1, <4>3, <4>4 DEF Deliver, LoggerInv, NodesInv
    <3> QED BY <1>3, <3>2, <3>3 DEF Deliver
  <2> QED BY <1>3, <2>4, <2>5, EventsKept DEF Deliver, LoggerInv, CardsInv
<1> QED BY <1>2, <1>3

\* Every step keeps the invariant.
LEMMA LoggerInvNext ==
  ASSUME LoggerInv, [LoggerNext]_loggerVars
  PROVE  LoggerInv'
<1>1. ASSUME NEW t \in Target, NodeStep(t) PROVE LoggerInv'
  BY <1>1, NodeStepKeepsInv
<1>2. ASSUME NEW w \in Worker, PollStep(w) PROVE LoggerInv'
  BY <1>2, FetchKeepsInv, FoldAnswerKeepsInv, FoldFailureKeepsInv DEF PollStep
<1>3. ASSUME NEW r \in Request, Forward(r) \/ Deliver(r) PROVE LoggerInv'
  BY <1>3, CommandKeepsInv
<1>4. CASE UNCHANGED loggerVars
  BY <1>4, EventsKept DEF loggerVars, LoggerInv, NodesInv, CardsInv, PollInv
<1> QED BY <1>1, <1>2, <1>3, <1>4 DEF LoggerNext

\* The invariant always holds.
LEMMA LoggerInvAlways == LoggerSpec => []LoggerInv
BY LoggerInvInit, LoggerInvNext, PTL DEF LoggerSpec

\* Nodes, cards, events and polls have their types, and the list of events is
\* never longer than it may be: LoggerTypeOK for any number of targets and events.
THEOREM LoggerTypeCorrect == LoggerSpec => []LoggerTypeOK
<1>1. LoggerInv => LoggerTypeOK
  BY DEF LoggerInv, NodesInv, CardsInv, PollInv, EventsInv, LoggerTypeOK
<1> QED BY <1>1, LoggerInvAlways, PTL

\* What the newest event on a matter says is what the card shows, whoever folded
\* which answer last and whatever was cut from the end of the list: EventsAgree.
THEOREM EventsAgreeAlways == LoggerSpec => []EventsAgree
<1>1. LoggerInv => EventsAgree
  BY DEF LoggerInv, EventsInv
<1> QED BY <1>1, LoggerInvAlways, PTL

\* No event repeats the one before it on the same matter: NoEventRepeats.
THEOREM NoEventRepeatsAlways == LoggerSpec => []NoEventRepeats
<1>1. LoggerInv => NoEventRepeats
  BY DEF LoggerInv, EventsInv
<1> QED BY <1>1, LoggerInvAlways, PTL
=============================================================================
