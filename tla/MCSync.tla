------------------------------- MODULE MCSync -------------------------------
(***************************************************************************)
(* Values of the constants of Sync for TLC.  Devices are 1, 2, 3.           *)
(***************************************************************************)
EXTENDS SyncStore, TLC

\* Who has whose address on every tick: all of all; all of device 1; device 2 of
\* device 1 and device 1 of device 3.
FullMesh == [n \in Device |-> Device \ {n}]
Star == [n \in Device |-> IF n = 1 THEN {} ELSE {1}]
Chain == [n \in Device |-> CASE n = 2 -> {1} [] n = 1 -> {3} [] OTHER -> {}]

\* Who is found on some ticks: nobody else; the second device by the first; and
\* the first by itself.
NobodyElse == [n \in Device |-> {}]
SecondByFirst == [n \in Device |-> IF n = 1 THEN {2} ELSE {}]
BothByFirst == [n \in Device |-> IF n = 1 THEN {1, 2} ELSE {}]

\* Local writes per device.
TwoAndOne == [n \in Device |-> IF n = 1 THEN 2 ELSE 1]
NotTheFirst == [n \in Device |-> IF n = 1 THEN 0 ELSE 1]

\* Device 1 visits itself, or its push to itself is under way.
VisitsItself ==
  \/ client[1].pc # "loop" /\ client[1].peer = 1
  \/ \E k \in Slot : push[k] # NoPush /\ push[k].from = push[k].to

TwoPushes == \A k \in Slot : push[k] # NoPush

\* Bounds: device 2 deletes, the other writes; and only while device 2 has not
\* written anything are two pushes under way or does device 1 visit itself, one
\* or the other.
OneThingAtATime ==
  /\ \A n \in Device : \A o \in OwnedBy(n) : (o.value = Deleted) <=> (n = 2)
  /\ VisitsItself \/ TwoPushes => replica[2].seq = 0
  /\ ~ (VisitsItself /\ TwoPushes)

SlotSymmetry == Permutations(Slot)
=============================================================================
