----------------------------- MODULE SessionLog -----------------------------
(***************************************************************************)
(* What the two stores of a session promise together, without lists,       *)
(* locks, streams, caches or retries.  An append numbers one more exchange *)
(* and leaves it waiting for the archive; it waits until the archive has   *)
(* it or the session is deleted; what is archived stays; and the archive   *)
(* of a deleted session is empty for ever.                                 *)
(***************************************************************************)
EXTENDS Naturals

VARIABLES size,       \* exchanges appended so far
          waiting,    \* those a Redis payload and a stream entry hold for the archive
          archived,   \* those PostgreSQL has, or has another under the number of
          live        \* the session's row exists

vars == <<size, waiting, archived, live>>

Init == size = 0 /\ waiting = {} /\ archived = {} /\ live = TRUE

\* An exchange that takes a number the archive has already needs no archiving.
Append == /\ size' = size + 1
          /\ waiting' = waiting \cup {size + 1}
          /\ \/ archived' = archived
             \/ live /\ archived' = archived \cup {size + 1}
          /\ UNCHANGED live

Archive == /\ live
           /\ \E batch \in SUBSET waiting : archived' = archived \cup batch
           /\ UNCHANGED <<size, waiting, live>>

Settle == /\ \E done \in SUBSET waiting : /\ live => done \subseteq archived
                                          /\ waiting' = waiting \ done
          /\ UNCHANGED <<size, archived, live>>

Delete == /\ live
          /\ live' = FALSE /\ archived' = {}
          /\ UNCHANGED <<size, waiting>>

Next == Append \/ Archive \/ Settle \/ Delete

Spec == Init /\ [][Next]_vars
=============================================================================
