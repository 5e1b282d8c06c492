----------------------------- MODULE PrefixStore -----------------------------
(***************************************************************************)
(* What syncd promises (README.md, "Architecture"), without a protocol:     *)
(* every device owns a history of writes; every device knows a prefix of    *)
(* each history, all of its own; and what it shows is the last-writer-wins  *)
(* reading of the writes it knows.  A step writes one op, or lets one       *)
(* device learn the next op of one history.  Nothing is learnt out of       *)
(* order, forgotten or changed.                                             *)
(***************************************************************************)
EXTENDS Replica, Sequences

VARIABLES
  history,  \* history[d]: the ops of device d, in seq order
  known,    \* known[n][d]: how long a prefix of history[d] device n has
  view      \* view[n]: the live entities of device n with their values

storeVars == <<history, known, view>>

KnownOps(h, k) == UNION {{h[d][s] : s \in 1 .. k[d]} : d \in Device}

\* The last writer of e: no other op on e beats it.
Winners(ops, e) == {o \in ops : o.entity = e /\ \A p \in ops : p.entity = e => ~ Beats(p, o)}

\* The live entities of a set of ops, with the value of their last writer.
Reading(ops) ==
  LET live == {e \in Entity : \E o \in Winners(ops, e) : o.value # Deleted}
  IN  [e \in live |-> (CHOOSE o \in Winners(ops, e) : TRUE).value]

StoreInit ==
  /\ history = [d \in Device |-> <<>>]
  /\ known = [n \in Device |-> EmptyVv]
  /\ view = [n \in Device |-> Reading({})]

\* Device n appends an op to its history; it is stamped later than the last.
Write(n) ==
  /\ known' = [known EXCEPT ![n][n] = known[n][n] + 1]
  /\ Len(history'[n]) = Len(history[n]) + 1
  /\ LET o == history'[n][Len(history'[n])] IN
       /\ o.device = n
       /\ o.seq = Len(history[n]) + 1
       /\ history[n] = <<>> \/ HlcLess(history[n][Len(history[n])].hlc, o.hlc)
       /\ history' = [history EXCEPT ![n] = Append(history[n], o)]
  /\ view' = [view EXCEPT ![n] = Reading(KnownOps(history', known'[n]))]

\* Device n learns the next op of device d.
Learn(n, d) ==
  /\ known[n][d] < Len(history[d])
  /\ known' = [known EXCEPT ![n][d] = known[n][d] + 1]
  /\ view' = [view EXCEPT ![n] = Reading(KnownOps(history, known'[n]))]
  /\ UNCHANGED history

StoreNext == \E n \in Device : Write(n) \/ \E d \in Device : Learn(n, d)

StoreSpec == StoreInit /\ [][StoreNext]_storeVars
=============================================================================
