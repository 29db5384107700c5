---------------------------- MODULE AuditLogger ----------------------------
(***************************************************************************)
(* chassis/audit.py: AuditLogger buffers entries in memory and flushes     *)
(* them to the registered sinks, in registration order.                    *)
(*                                                                         *)
(* Two kinds of actors touch _buffer.  Coroutines run on the event loop    *)
(* and can be interleaved only where they await; flush() awaits nothing    *)
(* but write_batch (its asyncio.Lock is never contended: no await happens  *)
(* under it).  Threads that call log() run between any two bytecodes of    *)
(* the loop's thread: they hold _sync_lock, which flush() never takes.     *)
(* So flush() is cut at the awaits and, inside one turn of the loop, where *)
(* a thread can come between: copy | clear and concat | rebind.            *)
(***************************************************************************)
EXTENDS Naturals, Sequences, FiniteSets, Functions

CONSTANTS LoopEntries,    \* entries logged by code running on the event loop
          ThreadEntries,  \* entries logged by other threads
          Flushers,       \* concurrent callers of flush()
          InitSinks,      \* sinks passed to the constructor
          MaxSinks,       \* bound: sinks registered in all
          MaxFailures,    \* bound: write_batch calls that raise
          MaxCancels,     \* bound: flush() tasks cancelled at an await
          None            \* nobody

Entries == LoopEntries \cup ThreadEntries

ASSUME EntriesAssumption == LoopEntries \cap ThreadEntries = {}
ASSUME SinksAssumption ==
  /\ InitSinks \in Nat /\ MaxSinks \in Nat \ {0} /\ InitSinks <= MaxSinks
ASSUME BoundsAssumption == MaxFailures \in Nat /\ MaxCancels \in Nat
ASSUME NoneAssumption == None \notin Entries \cup Flushers

VARIABLES
  buffer,    \* _buffer
  sinks,     \* len(_sinks): the sinks are numbered in registration order
  holder,    \* the entry of the thread that holds _sync_lock, or None
  stale,     \* _buffer was rebound since the holder read the attribute
  loop,      \* the flush() whose turn of the event loop is cut, or None
  pc,        \* where each flush() stands
  batch,     \* its local variable entries, then the list it will rebind
  at,        \* the sink its for loop is at
  logged,    \* history: the entries log() returned, in order
  store,     \* store[k]: what sink k persisted, in order
  settled,   \* history: the entries of the flushes that returned
  overlapped,\* history: two calls of flush() were under way at once
  failures, cancels

vars == <<buffer, sinks, holder, stale, loop, pc, batch, at,
          logged, store, settled, overlapped, failures, cancels>>
flushVars == <<loop, pc, batch, at, store, settled, overlapped, failures, cancels>>
threadVars == <<holder, stale>>

TypeOK ==
  /\ buffer \in Seq(Entries)
  /\ sinks \in InitSinks..MaxSinks
  /\ holder \in ThreadEntries \cup {None}
  /\ stale \in BOOLEAN
  /\ loop \in Flushers \cup {None}
  /\ pc \in [Flushers -> {"idle", "copied", "writing", "rebinding"}]
  /\ batch \in [Flushers -> Seq(Entries)]
  /\ at \in [Flushers -> 1..MaxSinks]
  /\ logged \in Seq(Entries)
  /\ store \in [1..MaxSinks -> Seq(Entries)]
  /\ settled \in SUBSET Entries
  /\ overlapped \in BOOLEAN
  /\ failures \in 0..MaxFailures
  /\ cancels \in 0..MaxCancels

Init ==
  /\ buffer = <<>>
  /\ sinks = InitSinks
  /\ holder = None
  /\ stale = FALSE
  /\ loop = None
  /\ pc = [f \in Flushers |-> "idle"]
  /\ batch = [f \in Flushers |-> <<>>]
  /\ at = [f \in Flushers |-> 1]
  /\ logged = <<>>
  /\ store = [k \in 1..MaxSinks |-> <<>>]
  /\ settled = {}
  /\ overlapped = FALSE
  /\ failures = 0
  /\ cancels = 0

-----------------------------------------------------------------------------
(* log() *)

\* On the loop's own thread: _sync_lock is free (a thread holding it would
\* block the loop until it is done) and no flush() is in mid-turn.
LogOnLoop(e) ==
  /\ loop = None /\ holder = None
  /\ e \notin Range(logged)
  /\ buffer' = Append(buffer, e)
  /\ logged' = Append(logged, e)
  /\ UNCHANGED <<sinks, threadVars, flushVars>>

\* A thread enters _emit's critical section and reads the attribute _buffer.
ThreadLoad(e) ==
  /\ holder = None
  /\ e \notin Range(logged)
  /\ holder' = e
  /\ stale' = FALSE
  /\ UNCHANGED <<buffer, sinks, logged, flushVars>>

\* It appends to the list it read: to nobody's list if _buffer was rebound.
ThreadAppend ==
  /\ holder # None
  /\ buffer' = IF stale THEN buffer ELSE Append(buffer, holder)
  /\ logged' = Append(logged, holder)
  /\ holder' = None
  /\ stale' = FALSE
  /\ UNCHANGED <<sinks, flushVars>>

AddSink ==
  /\ loop = None
  /\ sinks < MaxSinks
  /\ sinks' = sinks + 1
  /\ UNCHANGED <<buffer, threadVars, logged, flushVars>>

-----------------------------------------------------------------------------
(* flush().  A name ending in _Mut is not part of the model: it is a bug of  *)
(* the kind this code could have, kept to show which property notices it.    *)

\* The body of _buffer after clear().
ClearedForgotten_Mut == buffer
Cleared == <<>>

\* entries + self._buffer: the failed batch goes back to the front.
RebufferedNot_Mut(f) == buffer
RebufferedBehind_Mut(f) == buffer \o batch[f]
Rebuffered(f) == batch[f] \o buffer

\* The for loop over the live list _sinks: where it starts, whether it goes on.
FirstSinkNewest_Mut == sinks
FirstSink == 1
MoreSinks(f) == at[f] < sinks

\* What a write_batch call leaves in its sink.
Persist(f) == [store EXCEPT ![at[f]] = @ \o batch[f]]

\* entries = list(self._buffer)
FlushCopy(f) ==
  /\ loop = None /\ pc[f] = "idle"
  /\ batch' = [batch EXCEPT ![f] = buffer]
  /\ pc' = [pc EXCEPT ![f] = "copied"]
  /\ loop' = f
  /\ overlapped' = (overlapped \/ \E g \in Flushers : pc[g] # "idle")
  /\ UNCHANGED <<buffer, sinks, threadVars, logged, at, store, settled,
                 failures, cancels>>

\* The call is over, its locals with it.
Finish(f) ==
  /\ pc' = [pc EXCEPT ![f] = "idle"]
  /\ batch' = [batch EXCEPT ![f] = <<>>]
  /\ at' = [at EXCEPT ![f] = 1]

\* self._buffer.clear(); an empty batch returns at once, and without a sink
\* the for loop has no iteration; else the first write_batch is awaited.
FlushClear(f) ==
  /\ loop = f /\ pc[f] = "copied"
  /\ buffer' = Cleared
  /\ loop' = None
  /\ IF batch[f] = <<>> \/ sinks = 0
       THEN /\ Finish(f)
            /\ settled' = settled \cup Range(batch[f])
       ELSE /\ pc' = [pc EXCEPT ![f] = "writing"]
            /\ at' = [at EXCEPT ![f] = FirstSink]
            /\ UNCHANGED <<batch, settled>>
  /\ UNCHANGED <<sinks, threadVars, logged, store, overlapped, failures, cancels>>

\* write_batch returns: on to the next sink registered by now, or return.
SinkOk(f) ==
  /\ loop = None /\ pc[f] = "writing"
  /\ store' = Persist(f)
  /\ IF MoreSinks(f)
       THEN /\ at' = [at EXCEPT ![f] = @ + 1]
            /\ UNCHANGED <<pc, batch, settled>>
       ELSE /\ Finish(f)
            /\ settled' = settled \cup Range(batch[f])
  /\ UNCHANGED <<buffer, sinks, threadVars, loop, logged, overlapped, failures,
                 cancels>>

\* write_batch raises, with the batch written or not; the except clause
\* evaluates entries + self._buffer, then a thread may come in.
SinkFail(f, wrote) ==
  /\ loop = None /\ pc[f] = "writing"
  /\ failures < MaxFailures
  /\ failures' = failures + 1
  /\ store' = IF wrote THEN Persist(f) ELSE store
  /\ batch' = [batch EXCEPT ![f] = Rebuffered(f)]
  /\ pc' = [pc EXCEPT ![f] = "rebinding"]
  /\ loop' = f
  /\ UNCHANGED <<buffer, sinks, threadVars, logged, at, settled, overlapped, cancels>>

\* self._buffer = (that list); raise
FlushRebind(f) ==
  /\ loop = f /\ pc[f] = "rebinding"
  /\ buffer' = batch[f]
  /\ stale' = (holder # None)
  /\ loop' = None
  /\ Finish(f)
  /\ UNCHANGED <<sinks, holder, logged, store, settled, overlapped, failures, cancels>>

\* The task is cancelled at the await: CancelledError is not an Exception,
\* so nothing is put back.
FlushCancel(f) ==
  /\ loop = None /\ pc[f] = "writing"
  /\ cancels < MaxCancels
  /\ cancels' = cancels + 1
  /\ Finish(f)
  /\ UNCHANGED <<buffer, sinks, threadVars, loop, logged, store, settled, overlapped,
                 failures>>

Flush(f) ==
  \/ FlushCopy(f) \/ FlushClear(f) \/ SinkOk(f)
  \/ \E wrote \in BOOLEAN : SinkFail(f, wrote)
  \/ FlushRebind(f) \/ FlushCancel(f)

Next ==
  \/ \E e \in LoopEntries : LogOnLoop(e)
  \/ \E e \in ThreadEntries : ThreadLoad(e)
  \/ ThreadAppend
  \/ AddSink
  \/ \E f \in Flushers : Flush(f)

Spec == Init /\ [][Next]_vars

\* asyncio runs ready callbacks in FIFO order, so a flush() that can go on
\* infinitely often does go on (strong fairness), given that sinks answer.
FlushFairness ==
  \A f \in Flushers :
    /\ WF_vars(FlushClear(f))
    /\ WF_vars(FlushRebind(f))
    /\ SF_vars(SinkOk(f) \/ \E wrote \in BOOLEAN : SinkFail(f, wrote))

\* On top of it, an assumption about the engine: flush() is called again and
\* again (audit.py has no timer, and buffer_size triggers nothing).
CallerFairness == \A f \in Flushers : SF_vars(FlushCopy(f))

FairSpec == Spec /\ FlushFairness /\ CallerFairness

-----------------------------------------------------------------------------
(* Correctness *)

InFlight == UNION {Range(batch[f]) : f \in Flushers}
Owed == Range(buffer) \cup InFlight
Held == [k \in 1..MaxSinks |-> Range(store[k])]

\* "Thread-safe for mixed sync/async usage": an entry that log() returned is
\* in the buffer, in a batch being written, or in a flush that returned.
NoEntryLost == Range(logged) \subseteq Owed \cup settled

\* Fan-out is by whole prefixes of the sink list: an entry a sink holds is
\* held by every sink registered before it, whatever failed, was retried,
\* was cancelled or was registered meanwhile.
FanOutInOrder ==
  \A j, k \in 1..sinks : j < k => Range(store[k]) \subseteq Range(store[j])

\* A flush() that returned (rather than raised) has given its entries to each
\* of the sinks the logger was built with.
SettledEverywhere ==
  \A k \in 1..InitSinks : settled \subseteq Range(store[k])

\* Between turns of the loop an entry has one owner: the buffer (once), or
\* one batch, or the settled set.  Two flushes never carry the same entry.
SingleOwner ==
  loop = None =>
    /\ IsInjective(buffer)
    /\ Range(buffer) \cap (InFlight \cup settled) = {}
    /\ InFlight \cap settled = {}
    /\ \A f, g \in Flushers : f # g => Range(batch[f]) \cap Range(batch[g]) = {}

Copies(k, e) == Cardinality({i \in DOMAIN store[k] : store[k][i] = e})

\* At least once, and no more often than failures explain: a sink is handed
\* an entry again only because some write_batch raised in between.
DuplicatesNeedFailures ==
  \A k \in 1..MaxSinks, e \in Entries : Copies(k, e) <= 1 + failures

FirstAt(s, e) == CHOOSE i \in DOMAIN s : s[i] = e /\ \A j \in 1..(i-1) : s[j] # e

\* As long as no two calls of flush() overlap, re-buffering at the front keeps
\* each initial sink in the order of the log: nothing overtakes an entry.
DeliveredInOrder ==
  ~overlapped =>
    \A k \in 1..InitSinks : \A i, j \in DOMAIN logged :
      (i < j /\ logged[j] \in Range(store[k])) =>
        /\ logged[i] \in Range(store[k])
        /\ FirstAt(store[k], logged[i]) < FirstAt(store[k], logged[j])

\* Sinks that recover get everything: each logged entry is settled in the end.
EventuallySettled == \A e \in Entries : e \in Range(logged) ~> e \in settled

-----------------------------------------------------------------------------
(* Strengthenings that are inductive, used by AuditLoggerProofs *)

\* SingleOwner in the middle of a turn too: a cut turn is the only time the
\* buffer shares entries with a batch, the batch of that very flush.
Ownership ==
  /\ \A f \in Flushers : loop = f <=> pc[f] \in {"copied", "rebinding"}
  /\ \A f \in Flushers : pc[f] = "idle" => batch[f] = <<>>
  /\ holder \notin Range(logged)
  /\ Range(buffer) \cup InFlight \cup settled \subseteq Range(logged)
  /\ IsInjective(buffer) /\ \A f \in Flushers : IsInjective(batch[f])
  /\ \A f, g \in Flushers : f # g => Range(batch[f]) \cap Range(batch[g]) = {}
  /\ \A f \in Flushers : loop # f => Range(buffer) \cap Range(batch[f]) = {}
  /\ settled \cap (Range(buffer) \cup InFlight) = {}

\* A batch being written is already in every sink before the one it is at,
\* and a sink not registered yet holds nothing.
PrefixWritten ==
  /\ \A f \in Flushers : pc[f] = "writing" =>
       /\ at[f] <= sinks
       /\ \A j \in 1..(at[f] - 1) : Range(batch[f]) \subseteq Range(store[j])
  /\ \A k \in (sinks + 1)..MaxSinks : store[k] = <<>>

\* Without threads nothing comes between copy and clear, or concat and rebind.
TurnsAtomic ==
  /\ holder = None
  /\ \A f \in Flushers : pc[f] = "copied" => Range(buffer) = Range(batch[f])
  /\ \A f \in Flushers : pc[f] = "rebinding" => Range(buffer) \subseteq Range(batch[f])

\* An entry that may still be handed to a sink has been there once less.
FewCopies ==
  /\ \A k \in 1..MaxSinks : Range(store[k]) \subseteq Range(logged)
  /\ \A k \in 1..MaxSinks, e \in Entries :
       /\ Copies(k, e) <= 1 + failures
       /\ e \in Range(buffer) => Copies(k, e) <= failures
       /\ \A f \in Flushers : e \in Range(batch[f]) /\ (pc[f] = "writing" => at[f] <= k) =>
                                Copies(k, e) <= failures

\* As long as no two flushes overlap, the log is what is settled, then the
\* batch, then the buffer (of which a cut turn has made one list).
Segment(s, d) == \A i \in DOMAIN s : d + i \in DOMAIN logged /\ s[i] = logged[d + i]

PartsAt(d) ==
  /\ \A i \in 1..d : logged[i] \in settled
  /\ (\A f \in Flushers : pc[f] = "idle") =>
       Len(logged) = d + Len(buffer) /\ Segment(buffer, d)
  /\ \A f \in Flushers :
       /\ pc[f] # "idle" => Segment(batch[f], d)
       /\ pc[f] \in {"copied", "rebinding"} => Len(logged) = d + Len(batch[f])
       /\ pc[f] = "writing" =>
            /\ Len(logged) = d + Len(batch[f]) + Len(buffer)
            /\ Segment(buffer, d + Len(batch[f]))

LoggedInParts ==
  ~ overlapped =>
    /\ \A f, g \in Flushers : pc[f] # "idle" /\ pc[g] # "idle" => f = g
    /\ \E d \in 0..Len(logged) : PartsAt(d)

-----------------------------------------------------------------------------
\* The promise of AuditDelivery, with what is owed read off the buffer and
\* the batches: an entry that vanished from both would be a forbidden step.
Delivery == INSTANCE AuditDelivery
  WITH owed <- Owed, settled <- settled, held <- Held
DeliverySpec == Delivery!Spec
=============================================================================
