------------------------------ MODULE CommitLog ------------------------------
(***************************************************************************)
(* What a .cstore file promises, with no bytes, locks or offsets: a log of *)
(* committed records that one writing session at a time extends, whole or  *)
(* not at all.  The module docstring of src/colstore/writer.py states it;  *)
(* StoreWriter implements it.                                              *)
(***************************************************************************)
EXTENDS Sequences

CONSTANTS Procs,     \* the processes that write
          Vals,      \* what a record can hold
          NoStore    \* no log: the value of log while no readable store exists

VARIABLES log,       \* the committed records, what a reader opening now sees
          pend       \* pend[p]: what p's session has written and not committed

vars == <<log, pend>>

Init == /\ log = NoStore
        /\ pend = [p \in Procs |-> <<>>]

Quiet(S) == \A p \in S : pend[p] = <<>>

\* A truncating open starts over; no other session may have data pending.
Reset == /\ Quiet(Procs)
         /\ log' = NoStore
         /\ UNCHANGED pend

\* The schema is laid down: the store exists and is empty.
Format == /\ log = NoStore
          /\ log' = <<>>
          /\ UNCHANGED pend

\* A session writes one record; the first write of a new store formats it.
Write(p) == /\ Quiet(Procs \ {p})
            /\ \E v \in Vals : pend' = [pend EXCEPT ![p] = Append(@, v)]
            /\ log' = IF log = NoStore THEN <<>> ELSE log

\* A session becomes visible as a whole, after everything already committed.
Commit(p) == /\ log # NoStore
             /\ log' = log \o pend[p]
             /\ pend' = [pend EXCEPT ![p] = <<>>]

\* A session is lost as a whole: a crash, or a close that failed.
Discard(p) == /\ pend' = [pend EXCEPT ![p] = <<>>]
              /\ UNCHANGED log

Next == \/ Reset
        \/ Format
        \/ \E p \in Procs : Write(p) \/ Commit(p) \/ Discard(p)

Spec == Init /\ [][Next]_vars
==============================================================================
