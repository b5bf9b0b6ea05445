-------------------------- MODULE DurableDocument --------------------------
(***************************************************************************)
(* What canvist Sync promises about one document, without rooms, flush     *)
(* ticks, rows or snapshots: the updates a peer can see (content), and the *)
(* part of them that survives a restart (durable).  Content only grows,    *)
(* saving never invents or forgets an update, and only a restart of the    *)
(* process gives up what was not saved yet.                                *)
(***************************************************************************)
EXTENDS Naturals

CONSTANT Updates      \* the updates editors can make

VARIABLES content,    \* the updates in the document, as a peer reads it
          durable,    \* the updates the store holds
          restarts    \* how often the process restarted

vars == <<content, durable, restarts>>

TypeOK ==
    /\ content \in SUBSET Updates
    /\ durable \in SUBSET Updates
    /\ restarts \in Nat

Init ==
    /\ content = {}
    /\ durable = {}
    /\ restarts = 0

\* A peer's update is accepted, with the earlier ones it was holding up.
Accept ==
    /\ content' \in SUBSET Updates
    /\ content \subseteq content'
    /\ UNCHANGED <<durable, restarts>>

\* Accepted updates reach the store.
Save ==
    /\ durable' \in SUBSET content
    /\ durable \subseteq durable'
    /\ UNCHANGED <<content, restarts>>

\* The process starts over from the store.
Restart ==
    /\ content' = durable
    /\ restarts' = restarts + 1
    /\ UNCHANGED durable

Next == Accept \/ Save \/ Restart

Spec == Init /\ [][Next]_vars
=============================================================================
