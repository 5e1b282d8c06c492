---------------------------- MODULE MCDiscovery ----------------------------
(***************************************************************************)
(* Values of the constants of Discovery for TLC.  Machines are 1, 2, 3.     *)
(***************************************************************************)
EXTENDS Discovery

\* All on the local network; or the first and the third on a tailnet as well.
NoTailnet == [n \in Node |-> NoAddr]
TailnetButTwo == [n \in Node |-> IF n = 2 THEN NoAddr ELSE 100 + n]

AtHome == [n \in Node |-> n]
\* The third machine may get a new address, or the one that the second had before.
AwayFromHome == [n \in Node |-> CASE n = 1 -> {} [] n = 2 -> {12} [] n = 3 -> {2, 13}]
OnlyThird == [n \in Node |-> IF n = 3 THEN {13} ELSE {}]

\* Only the second machine is told of another, the first.
TwoKnowsHub == [n \in Node |-> IF n = 2 THEN {1} ELSE {}]
ToHub == {<<2, 1>>, <<3, 1>>}
ThirdToHub == {<<3, 1>>}
TwiceTheThird == [n \in Node |-> IF n = 3 THEN 2 ELSE 1]

\* Bounds: the device_id file fails only to be read; the third machine moves or
\* changes its id, and is not started twice when the second has moved or had no route
\* out; and what it leaves behind is its first request, sent from where it no longer
\* is, with a machine that the second has called.  All of this cuts steps that no
\* fairness asks for (Roam, Restart, and leaving a request behind), so no behaviour is
\* cut short that has to go on.
MeshBounds ==
  /\ \A n \in Node : file[n] = proc[n].id
  /\ proc[3].id = <<3, 1>> \/ lan[3] = Home[3]
  /\ proc[2].lan = NoAddr \/ lan[2] # Home[2] => starts[3] = 1
  /\ proc[2].lan = NoAddr => lan[2] = Home[2]
  /\ late[1] # Nobody =>
       /\ starts[3] = 2 /\ proc[3].lan # Home[3]
       /\ DOMAIN late[1] = {<<1, 1>>, <<3, 1>>} /\ late[1][<<3, 1>>] = Home[3]
       /\ <<2, 1>> \in DOMAIN pex[1]
=============================================================================
