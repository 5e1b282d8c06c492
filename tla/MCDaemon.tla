------------------------------ MODULE MCDaemon ------------------------------
(***************************************************************************)
(* Values of the constants of Daemon for TLC: the daemon is device 1, its   *)
(* peer device 2.                                                           *)
(***************************************************************************)
EXTENDS Daemon, TLC

\* Local writes per device.
TwoAndNone == [d \in Device |-> IF d = Me THEN 2 ELSE 0]
TwoAndOne == [d \in Device |-> IF d = Me THEN 2 ELSE 1]
TwoEach == [d \in Device |-> 2]

\* Bounds: in a file that lost its header to a kill no append fails, and one that
\* was cut by a kill has its header and the peer has written nothing.
OneKindOfFault ==
  /\ ledger \notin {NoFile, <<>>} /\ ledger[1] # Header => reported = {}
  /\ ~ Readable /\ reported = {} => ledger[1] = Header /\ peer.seq = 0

\* Bound: where the peer writes twice no append fails, and where it does, or writes
\* once next to a file that is torn, the daemon writes once.
OneWritesTwice ==
  /\ peer.seq = 2 => reported = {}
  /\ peer.seq = 2 \/ (peer.seq = 1 /\ ~ Readable) =>
       \A o \in replica.log \cup forgotten : o.device = Me => o.seq = 1

DaemonBounds == OneKindOfFault /\ OneWritesTwice

TaskSymmetry == Permutations(Task)
=============================================================================
