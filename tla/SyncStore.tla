------------------------------ MODULE SyncStore ------------------------------
(***************************************************************************)
(* Sync implements PrefixStore.  A device's history is what its own replica *)
(* has logged of itself, `known` is its version vector, and `view` is what  *)
(* GET /state answers.                                                      *)
(***************************************************************************)
EXTENDS Sync

OwnOp(n, s) == CHOOSE o \in replica[n].log : o.device = n /\ o.seq = s

OwnHistory == [n \in Device |-> [s \in 1 .. replica[n].seq |-> OwnOp(n, s)]]

Vectors == [n \in Device |-> replica[n].vv]

Views == [n \in Device |-> Visible(replica[n])]

Store == INSTANCE PrefixStore WITH history <- OwnHistory, known <- Vectors, view <- Views

\* Every behaviour of the protocol is one of the store: a device only ever
\* learns the next op of another device, and shows the last-writer-wins
\* reading of exactly the ops its version vector claims.
ImplementsStore == Store!StoreSpec
=============================================================================
