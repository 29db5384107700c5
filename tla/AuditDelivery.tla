--------------------------- MODULE AuditDelivery ---------------------------
(***************************************************************************)
(* What an audit log with a buffer and several sinks promises, whatever    *)
(* its buffering: an entry that was accepted stays owed until every sink   *)
(* registered from the start holds it.  A sink may be handed the same      *)
(* entry again while it is owed (at least once), and is handed nothing     *)
(* that is not owed.  AuditLogger is shown to implement this when entries  *)
(* are logged on the event loop only.                                      *)
(***************************************************************************)
EXTENDS Naturals

CONSTANTS Entries,     \* every entry that may be logged
          InitSinks,   \* the sinks 1..InitSinks are registered from the start
          MaxSinks     \* sinks that may be registered in all

VARIABLES owed,        \* accepted, not yet given to every initial sink
          settled,     \* done with
          held         \* held[k]: the entries sink k persisted

vars == <<owed, settled, held>>

Init ==
  /\ owed = {}
  /\ settled = {}
  /\ held = [k \in 1..MaxSinks |-> {}]

Accept(e) ==
  /\ e \notin owed \cup settled
  /\ owed' = owed \cup {e}
  /\ UNCHANGED <<settled, held>>

\* Sink k persists a batch that stays owed.
Persist(k, B) ==
  /\ B \subseteq owed
  /\ held' = [held EXCEPT ![k] = @ \cup B]
  /\ UNCHANGED <<owed, settled>>

\* A batch is released: each initial sink holds it, counting what the last
\* sink persists in this very step (P is empty when there is no sink at all).
Settle(B, k, P) ==
  /\ B \subseteq owed
  /\ P \subseteq B
  /\ held' = [held EXCEPT ![k] = @ \cup P]
  /\ \A j \in 1..InitSinks : B \subseteq held'[j]
  /\ owed' = owed \ B
  /\ settled' = settled \cup B

Next ==
  \/ \E e \in Entries : Accept(e)
  \/ \E k \in 1..MaxSinks, B \in SUBSET owed : Persist(k, B)
  \/ \E k \in 1..MaxSinks, B \in SUBSET owed : \E P \in {{}, B} : Settle(B, k, P)

Spec == Init /\ [][Next]_vars
=============================================================================
