---------------------------- MODULE AtomicStore ----------------------------
(***************************************************************************)
(* What journal/mod.rs promises its callers (its header, lines 3 to 7): a  *)
(* store of blocks that changes by whole transactions.  An acknowledged    *)
(* transaction stays; a crash may keep one that is still running, whole,   *)
(* or none of it, and the restart decides.  "outside" says that the caller *)
(* has left the limits within which the promise is made; from then on      *)
(* nothing is said.                                                        *)
(***************************************************************************)
EXTENDS WriteLists

CONSTANTS Threads, Transactions

VARIABLES
  stores,    \* the contents the store may be found with: one while it is up
  pending,   \* the running transaction of each thread, <<>> when there is none
  up, outside

vars == <<stores, pending, up, outside>>

Idle == [t \in Threads |-> <<>>]

After(t) == {Overlay(f, pending[t]) : f \in stores}

Init ==
  /\ pending = Idle
  /\ ~up /\ ~outside
  /\ \E f \in stores : stores = {f}

Submit(t) ==
  /\ up /\ pending[t] = <<>>
  /\ \E ws \in Transactions : pending' = [pending EXCEPT ![t] = ws]
  /\ UNCHANGED <<stores, up, outside>>

Acknowledge(t) ==
  /\ pending[t] # <<>>
  /\ stores' = After(t)
  /\ pending' = [pending EXCEPT ![t] = <<>>]
  /\ UNCHANGED <<up, outside>>

\* refused without effect ("Journal is full" on the first block)
Refuse(t) ==
  /\ pending[t] # <<>>
  /\ pending' = [pending EXCEPT ![t] = <<>>]
  /\ UNCHANGED <<stores, up, outside>>

Crash ==
  /\ ~up'
  /\ pending' = Idle
  /\ stores' = stores \cup UNION {After(t) : t \in Threads}
  /\ UNCHANGED outside

Restart ==
  /\ ~up /\ up'
  /\ \E f \in stores : stores' = {f}
  /\ UNCHANGED <<pending, outside>>

Outside == outside'

Next ==
  \/ \E t \in Threads : Submit(t) \/ Acknowledge(t) \/ Refuse(t)
  \/ Crash \/ Restart \/ Outside

Spec == Init /\ [][Next]_vars
=============================================================================
