-------------------------- MODULE ExclusiveSection --------------------------
(***************************************************************************)
(* What the retrieval gate promises, without threads, counters or wakeups: *)
(* recalls share the index, a commit has it alone, and from the moment a   *)
(* commit announces itself until it ends or gives up, no recall begins.    *)
(***************************************************************************)
CONSTANTS Requests, Commits

VARIABLES reading,    \* the recalls that are using the index
          pending,    \* the commits that have shut the gate and wait for recalls
          writing     \* the commits that are swapping the index

vars == <<reading, pending, writing>>

TypeOK == /\ reading \subseteq Requests
          /\ pending \subseteq Commits
          /\ writing \subseteq Commits

Init == reading = {} /\ pending = {} /\ writing = {}

Closed == pending \cup writing # {}

BeginRead(r) == /\ r \notin reading /\ ~Closed
                /\ reading' = reading \cup {r}
                /\ UNCHANGED <<pending, writing>>

EndRead(r) == /\ r \in reading
              /\ reading' = reading \ {r}
              /\ UNCHANGED <<pending, writing>>

Announce(c) == /\ ~Closed
               /\ pending' = {c}
               /\ UNCHANGED <<reading, writing>>

GiveUp(c) == /\ c \in pending
             /\ pending' = {}
             /\ UNCHANGED <<reading, writing>>

\* A commit that finds no recall may go straight in.
BeginWrite(c) == /\ reading = {}
                 /\ pending = {c} \/ ~Closed
                 /\ pending' = {} /\ writing' = {c}
                 /\ UNCHANGED reading

EndWrite(c) == /\ c \in writing
               /\ writing' = {}
               /\ UNCHANGED <<reading, pending>>

Next == \/ \E r \in Requests : BeginRead(r) \/ EndRead(r)
        \/ \E c \in Commits : Announce(c) \/ GiveUp(c) \/ BeginWrite(c) \/ EndWrite(c)

Spec == Init /\ [][Next]_vars
=============================================================================
