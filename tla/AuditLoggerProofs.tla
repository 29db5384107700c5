------------------------- MODULE AuditLoggerProofs -------------------------
(***************************************************************************)
(* What holds of AuditLogger for any entries, flushes, sinks, failures and *)
(* cancellations, with logging threads (typing, ownership, fan-out) and    *)
(* without them (no entry is lost).                                        *)
(***************************************************************************)
EXTENDS AuditLogger, SequenceTheorems, FiniteSetTheorems, WellFoundedInduction, TLAPS

-----------------------------------------------------------------------------
(* Sequences and their ranges *)

LEMMA EmptySequence ==
  Range(<<>>) = {} /\ IsInjective(<<>>) /\ \A S : <<>> \in Seq(S)
  BY DEF Range, IsInjective

\* The range of a sequence over a set is a subset of the set.
LEMMA RangeInSet == ASSUME NEW S, NEW s \in Seq(S) PROVE Range(s) \subseteq S
  BY DEF Range

\* Appending an element adds it to the range, and keeps a sequence without
\* repetition so when the element is new.
LEMMA AppendRange ==
  ASSUME NEW S, NEW s \in Seq(S), NEW e \in S
  PROVE  /\ Append(s, e) \in Seq(S)
         /\ Range(Append(s, e)) = Range(s) \cup {e}
         /\ IsInjective(s) /\ e \notin Range(s) => IsInjective(Append(s, e))
<1>1. /\ Append(s, e) \in Seq(S)
      /\ Len(Append(s, e)) = Len(s) + 1
      /\ \A i \in 1..Len(s) : Append(s, e)[i] = s[i]
      /\ Append(s, e)[Len(s) + 1] = e
  OBVIOUS
<1>2. DOMAIN s = 1..Len(s) /\ DOMAIN Append(s, e) = 1..(Len(s) + 1) /\ Len(s) \in Nat
  BY <1>1
<1>3. Range(Append(s, e)) = Range(s) \cup {e}
  BY <1>1, <1>2 DEF Range
<1>4. ASSUME IsInjective(s), e \notin Range(s) PROVE IsInjective(Append(s, e))
  BY <1>1, <1>2, <1>4 DEF IsInjective, Range
<1>5. QED
  BY <1>1, <1>3, <1>4

\* Likewise for concatenation.
LEMMA ConcatRange ==
  ASSUME NEW S, NEW s \in Seq(S), NEW t \in Seq(S)
  PROVE  /\ s \o t \in Seq(S)
         /\ Range(s \o t) = Range(s) \cup Range(t)
         /\ IsInjective(s) /\ IsInjective(t) /\ Range(s) \cap Range(t) = {}
              => IsInjective(s \o t)
<1>1. /\ s \o t \in Seq(S)
      /\ Len(s \o t) = Len(s) + Len(t)
      /\ \A i \in 1..Len(s) : (s \o t)[i] = s[i]
      /\ \A i \in (Len(s) + 1)..(Len(s) + Len(t)) : (s \o t)[i] = t[i - Len(s)]
  OBVIOUS
<1>2. /\ DOMAIN s = 1..Len(s) /\ DOMAIN t = 1..Len(t)
      /\ DOMAIN (s \o t) = 1..(Len(s) + Len(t))
      /\ Len(s) \in Nat /\ Len(t) \in Nat
  BY <1>1
<1>3. Range(s \o t) = Range(s) \cup Range(t)
  BY RangeConcatenation
<1>4. ASSUME IsInjective(s), IsInjective(t), Range(s) \cap Range(t) = {},
             NEW a \in DOMAIN (s \o t), NEW b \in DOMAIN (s \o t),
             (s \o t)[a] = (s \o t)[b]
      PROVE  a = b
  <2>1. \A i \in DOMAIN (s \o t) : i \in DOMAIN s \/ i - Len(s) \in DOMAIN t
    BY <1>2
  <2>2. CASE a \in DOMAIN s /\ b \in DOMAIN s
    BY <1>1, <1>2, <1>4, <2>2 DEF IsInjective
  <2>3. CASE a \notin DOMAIN s /\ b \notin DOMAIN s
    <3>1. t[a - Len(s)] = t[b - Len(s)] /\ a - Len(s) \in DOMAIN t /\ b - Len(s) \in DOMAIN t
      BY <1>1, <1>2, <1>4, <2>3
    <3>2. a - Len(s) = b - Len(s)
      BY <3>1, <1>4 DEF IsInjective
    <3>3. QED
      BY <3>2, <1>2
  <2>4. CASE a \in DOMAIN s /\ b \notin DOMAIN s
    <3>1. s[a] = t[b - Len(s)] /\ b - Len(s) \in DOMAIN t
      BY <1>1, <1>2, <1>4, <2>4
    <3>2. QED
      BY <3>1, <2>4, <1>4 DEF Range
  <2>5. CASE a \notin DOMAIN s /\ b \in DOMAIN s
    <3>1. s[b] = t[a - Len(s)] /\ a - Len(s) \in DOMAIN t
      BY <1>1, <1>2, <1>4, <2>5
    <3>2. QED
      BY <3>1, <2>5, <1>4 DEF Range
  <2>6. QED
    BY <2>2, <2>3, <2>4, <2>5
<1>5. QED
  BY <1>1, <1>3, <1>4 DEF IsInjective

-----------------------------------------------------------------------------
(* Types *)

\* Every step keeps the shape of the state, logging threads included.
LEMMA TypeStep == TypeOK /\ [Next]_vars => TypeOK'
<1> SUFFICES ASSUME TypeOK, [Next]_vars PROVE TypeOK'
  OBVIOUS
<1> USE SinksAssumption, BoundsAssumption DEF TypeOK
<1>1. ASSUME NEW e \in LoopEntries, LogOnLoop(e) PROVE TypeOK'
  <2>1. e \in Entries
    BY DEF Entries
  <2>2. Append(buffer, e) \in Seq(Entries) /\ Append(logged, e) \in Seq(Entries)
    BY <2>1, AppendRange
  <2>3. QED
    BY <1>1, <2>2 DEF LogOnLoop, threadVars, flushVars
<1>2. ASSUME NEW e \in ThreadEntries, ThreadLoad(e) PROVE TypeOK'
  BY <1>2 DEF ThreadLoad, flushVars
<1>3. CASE ThreadAppend
  <2>1. holder \in Entries
    BY <1>3 DEF ThreadAppend, Entries
  <2>2. Append(buffer, holder) \in Seq(Entries) /\ Append(logged, holder) \in Seq(Entries)
    BY <2>1, AppendRange
  <2>3. QED
    BY <1>3, <2>2 DEF ThreadAppend, flushVars
<1>4. CASE AddSink
  BY <1>4 DEF AddSink, threadVars, flushVars
<1>5. ASSUME NEW f \in Flushers, FlushCopy(f) PROVE TypeOK'
  BY <1>5 DEF FlushCopy, threadVars
<1>6. ASSUME NEW f \in Flushers, FlushClear(f) PROVE TypeOK'
  <2>1. Range(batch[f]) \subseteq Entries
    BY RangeInSet
  <2>2. <<>> \in Seq(Entries)
    OBVIOUS
  <2>3. buffer' \in Seq(Entries) /\ loop' \in Flushers \cup {None} /\ settled' \in SUBSET Entries
    BY <1>6, <2>1, <2>2 DEF FlushClear, Cleared, Finish
  <2>4. /\ pc' \in [Flushers -> {"idle", "copied", "writing", "rebinding"}]
        /\ batch' \in [Flushers -> Seq(Entries)]
        /\ at' \in [Flushers -> 1..MaxSinks]
    <3>1. 1 \in 1..MaxSinks
      OBVIOUS
    <3>2. CASE batch[f] = <<>> \/ sinks = 0
      BY <1>6, <2>2, <3>1, <3>2 DEF FlushClear, Finish
    <3>3. CASE ~(batch[f] = <<>> \/ sinks = 0)
      BY <1>6, <3>1, <3>3 DEF FlushClear, FirstSink
    <3>4. QED
      BY <3>2, <3>3
  <2>5. QED
    BY <1>6, <2>3, <2>4 DEF FlushClear, threadVars
<1>7. ASSUME NEW f \in Flushers, SinkOk(f) PROVE TypeOK'
  <2>1. Range(batch[f]) \subseteq Entries /\ <<>> \in Seq(Entries)
    BY RangeInSet
  <2>2. store' \in [1..MaxSinks -> Seq(Entries)]
    BY <1>7, ConcatRange DEF SinkOk, Persist
  <2>3. /\ pc' \in [Flushers -> {"idle", "copied", "writing", "rebinding"}]
        /\ batch' \in [Flushers -> Seq(Entries)]
        /\ at' \in [Flushers -> 1..MaxSinks]
        /\ settled' \in SUBSET Entries
    <3>1. CASE MoreSinks(f)
      <4>1. at[f] + 1 \in 1..MaxSinks
        BY <3>1 DEF MoreSinks
      <4>2. at' = [at EXCEPT ![f] = at[f] + 1] /\ UNCHANGED <<pc, batch, settled>>
        BY <1>7, <3>1 DEF SinkOk
      <4>3. QED
        BY <4>1, <4>2
    <3>2. CASE ~MoreSinks(f)
      <4>1. Finish(f) /\ settled' = settled \cup Range(batch[f])
        BY <1>7, <3>2 DEF SinkOk
      <4>2. 1 \in 1..MaxSinks
        OBVIOUS
      <4>3. QED
        BY <2>1, <4>1, <4>2 DEF Finish
    <3>3. QED
      BY <3>1, <3>2
  <2>4. QED
    BY <1>7, <2>2, <2>3 DEF SinkOk, threadVars
<1>8. ASSUME NEW f \in Flushers, NEW wrote \in BOOLEAN, SinkFail(f, wrote) PROVE TypeOK'
  <2>1. store' \in [1..MaxSinks -> Seq(Entries)]
    BY <1>8, ConcatRange DEF SinkFail, Persist
  <2>2. batch[f] \o buffer \in Seq(Entries)
    BY ConcatRange
  <2>3. QED
    BY <1>8, <2>1, <2>2 DEF SinkFail, Rebuffered, threadVars
<1>9. ASSUME NEW f \in Flushers, FlushRebind(f) PROVE TypeOK'
  BY <1>9 DEF FlushRebind, Finish
<1>10. ASSUME NEW f \in Flushers, FlushCancel(f) PROVE TypeOK'
  BY <1>10 DEF FlushCancel, Finish, threadVars
<1>11. CASE UNCHANGED vars
  BY <1>11 DEF vars
<1>12. QED
  BY <1>1, <1>2, <1>3, <1>4, <1>5, <1>6, <1>7, <1>8, <1>9, <1>10, <1>11 DEF Next, Flush

LEMMA TypeInit == Init => TypeOK
<1>1. /\ 1 \in 1..MaxSinks /\ InitSinks \in InitSinks..MaxSinks
      /\ 0 \in 0..MaxFailures /\ 0 \in 0..MaxCancels
  BY SinksAssumption, BoundsAssumption
<1>2. QED
  BY <1>1, EmptySequence DEF Init, TypeOK

\* The typing invariant of the logger, for any number of entries, flushes,
\* sinks and failures.
THEOREM AuditTypeCorrect == Spec => []TypeOK
  BY TypeInit, TypeStep, PTL DEF Spec

\* The numbers of the sinks.
LEMMA SinkNumbers ==
  ASSUME TypeOK
  PROVE  /\ InitSinks \in Nat /\ sinks \in Nat /\ MaxSinks \in Nat
         /\ InitSinks <= sinks /\ sinks <= MaxSinks /\ 1 <= MaxSinks
         /\ \A f \in Flushers : at[f] \in Nat /\ 1 <= at[f] /\ at[f] <= MaxSinks
  BY SinksAssumption DEF TypeOK

-----------------------------------------------------------------------------
(* Fan-out *)

\* What a write_batch call adds to its sink, and to no other.
LEMMA PersistRange ==
  ASSUME TypeOK, NEW f \in Flushers
  PROVE  /\ Persist(f) \in [1..MaxSinks -> Seq(Entries)]
         /\ \A k \in 1..MaxSinks : Range(Persist(f)[k]) =
              IF k = at[f] THEN Range(store[k]) \cup Range(batch[f]) ELSE Range(store[k])
<1>1. /\ at[f] \in 1..MaxSinks /\ store \in [1..MaxSinks -> Seq(Entries)]
      /\ batch[f] \in Seq(Entries)
  BY DEF TypeOK
<1>2. /\ store[at[f]] \o batch[f] \in Seq(Entries)
      /\ Range(store[at[f]] \o batch[f]) = Range(store[at[f]]) \cup Range(batch[f])
  BY <1>1, ConcatRange
<1>3. QED
  BY <1>1, <1>2 DEF Persist

FanOutInv == TypeOK /\ PrefixWritten /\ FanOutInOrder /\ SettledEverywhere

\* A write_batch call, returned or raised, extends a prefix of the sinks.
LEMMA PersistKeepsPrefix ==
  ASSUME FanOutInv, NEW f \in Flushers, pc[f] = "writing"
  PROVE  /\ \A j, k \in 1..sinks : j < k => Range(Persist(f)[k]) \subseteq Range(Persist(f)[j])
         /\ \A j \in 1..MaxSinks : Range(store[j]) \subseteq Range(Persist(f)[j])
         /\ \A j \in 1..at[f] : Range(batch[f]) \subseteq Range(Persist(f)[j])
         /\ \A k \in (sinks + 1)..MaxSinks : Persist(f)[k] = <<>>
<1>1. /\ sinks \in Nat /\ MaxSinks \in Nat /\ sinks <= MaxSinks
      /\ at[f] \in Nat /\ 1 <= at[f] /\ at[f] <= sinks
  BY SinkNumbers DEF FanOutInv, PrefixWritten
<1>2. \A j \in 1..(at[f] - 1) : Range(batch[f]) \subseteq Range(store[j])
  BY DEF FanOutInv, PrefixWritten
<1>3. \A j, k \in 1..sinks : j < k => Range(store[k]) \subseteq Range(store[j])
  BY DEF FanOutInv, FanOutInOrder
<1>4. \A k \in 1..MaxSinks : Range(Persist(f)[k]) =
        IF k = at[f] THEN Range(store[k]) \cup Range(batch[f]) ELSE Range(store[k])
  BY PersistRange DEF FanOutInv
<1>5. \A k \in 1..sinks : k \in 1..MaxSinks
  BY <1>1
<1>6. ASSUME NEW j \in 1..sinks, NEW k \in 1..sinks, j < k
      PROVE  Range(Persist(f)[k]) \subseteq Range(Persist(f)[j])
  <2>1. Range(store[k]) \subseteq Range(store[j])
    BY <1>3, <1>6
  <2>2. Range(store[j]) \subseteq Range(Persist(f)[j])
    BY <1>4, <1>5
  <2>3. CASE k = at[f]
    <3>1. j \in 1..(at[f] - 1)
      BY <1>1, <1>6, <2>3
    <3>2. Range(batch[f]) \subseteq Range(store[j])
      BY <1>2, <3>1
    <3>3. QED
      BY <1>4, <1>5, <2>1, <2>2, <2>3, <3>2
  <2>4. CASE k # at[f]
    BY <1>4, <1>5, <2>1, <2>2, <2>4
  <2>5. QED
    BY <2>3, <2>4
<1>7. \A j \in 1..MaxSinks : Range(store[j]) \subseteq Range(Persist(f)[j])
  BY <1>4
<1>8. ASSUME NEW j \in 1..at[f] PROVE Range(batch[f]) \subseteq Range(Persist(f)[j])
  <2>1. j \in 1..MaxSinks
    BY <1>1
  <2>2. CASE j = at[f]
    BY <1>4, <2>1, <2>2
  <2>3. CASE j # at[f]
    <3>1. j \in 1..(at[f] - 1)
      BY <1>1, <2>3
    <3>2. QED
      BY <1>2, <1>7, <2>1, <3>1
  <2>4. QED
    BY <2>2, <2>3
<1>9. ASSUME NEW k \in (sinks + 1)..MaxSinks PROVE Persist(f)[k] = <<>>
  <2>1. store[k] = <<>>
    BY DEF FanOutInv, PrefixWritten
  <2>2. k # at[f] /\ k \in 1..MaxSinks
    BY <1>1
  <2>3. QED
    BY <2>1, <2>2 DEF Persist, FanOutInv, TypeOK
<1>10. QED
  BY <1>6, <1>7, <1>8, <1>9

\* Every step keeps the fan-out invariant.
LEMMA FanOutStep == FanOutInv /\ [Next]_vars => FanOutInv'
<1> SUFFICES ASSUME FanOutInv, [Next]_vars PROVE FanOutInv'
  OBVIOUS
<1>0. TypeOK /\ TypeOK'
  BY TypeStep DEF FanOutInv
<1>1. ASSUME UNCHANGED <<sinks, pc, batch, at, store, settled>> PROVE FanOutInv'
  BY <1>0, <1>1 DEF FanOutInv, PrefixWritten, FanOutInOrder, SettledEverywhere
<1>2. ASSUME NEW e \in Entries, LogOnLoop(e) \/ ThreadLoad(e) \/ ThreadAppend PROVE FanOutInv'
  BY <1>1, <1>2 DEF LogOnLoop, ThreadLoad, ThreadAppend, flushVars
<1>3. CASE AddSink
  <2>1. sinks' = sinks + 1 /\ UNCHANGED <<pc, batch, at, store, settled>>
    BY <1>3 DEF AddSink, flushVars
  <2>2. PrefixWritten'
    <3>1. \A f \in Flushers : at[f] <= sinks => at[f] <= sinks + 1
      BY <1>0, SinkNumbers
    <3>2. \A k \in (sinks + 1 + 1)..MaxSinks : k \in (sinks + 1)..MaxSinks
      BY <1>0, SinkNumbers
    <3>3. QED
      BY <2>1, <3>1, <3>2 DEF FanOutInv, PrefixWritten
  <2>3. FanOutInOrder'
    <3>1. sinks + 1 <= MaxSinks /\ store[sinks + 1] = <<>>
      BY <1>0, <1>3, SinkNumbers DEF AddSink, FanOutInv, PrefixWritten
    <3>2. Range(store[sinks + 1]) = {}
      BY <3>1, EmptySequence
    <3>3. QED
      <4> SUFFICES ASSUME NEW j \in 1..(sinks + 1), NEW k \in 1..(sinks + 1), j < k
                   PROVE  Range(store[k]) \subseteq Range(store[j])
        BY <2>1 DEF FanOutInOrder
      <4>1. k = sinks + 1 \/ (j \in 1..sinks /\ k \in 1..sinks)
        BY <1>0, SinkNumbers
      <4>2. QED
        BY <3>2, <4>1 DEF FanOutInv, FanOutInOrder
  <2>4. SettledEverywhere'
    BY <2>1 DEF FanOutInv, SettledEverywhere
  <2>5. QED
    BY <1>0, <2>2, <2>3, <2>4 DEF FanOutInv
<1>4. ASSUME NEW f \in Flushers, UNCHANGED <<sinks, store, settled>>,
             \A g \in Flushers : pc'[g] = "writing" =>
                pc[g] = "writing" /\ at'[g] = at[g] /\ batch'[g] = batch[g]
      PROVE  FanOutInv'
  BY <1>0, <1>4 DEF FanOutInv, PrefixWritten, FanOutInOrder, SettledEverywhere
<1>5. ASSUME NEW f \in Flushers, FlushCopy(f) \/ FlushRebind(f) \/ FlushCancel(f)
      PROVE  FanOutInv'
  BY <1>0, <1>4, <1>5 DEF FlushCopy, FlushRebind, FlushCancel, Finish, TypeOK
<1>6. ASSUME NEW f \in Flushers, FlushClear(f) PROVE FanOutInv'
  <2>1. CASE batch[f] = <<>> \/ sinks = 0
    <3>1. SettledEverywhere'
      <4>1. SettledEverywhere /\ UNCHANGED store /\ settled' = settled \cup Range(batch[f])
        BY <1>6, <2>1 DEF FlushClear, FanOutInv
      <4>2. CASE batch[f] = <<>>
        BY <4>1, <4>2, EmptySequence DEF SettledEverywhere
      <4>3. CASE sinks = 0
        <5>1. InitSinks = 0
          BY <1>0, <4>3, SinksAssumption DEF TypeOK
        <5>2. QED
          BY <5>1 DEF SettledEverywhere
      <4>4. QED
        BY <2>1, <4>2, <4>3
    <3>2. /\ UNCHANGED <<sinks, store>>
          /\ \A g \in Flushers : pc'[g] = "writing" =>
               pc[g] = "writing" /\ at'[g] = at[g] /\ batch'[g] = batch[g]
      BY <1>0, <1>6, <2>1 DEF FlushClear, Finish, TypeOK
    <3>3. QED
      BY <1>0, <3>1, <3>2 DEF FanOutInv, PrefixWritten, FanOutInOrder
  <2>2. CASE ~(batch[f] = <<>> \/ sinks = 0)
    <3>1. /\ UNCHANGED <<sinks, store, settled, batch>>
          /\ at' = [at EXCEPT ![f] = 1] /\ pc' = [pc EXCEPT ![f] = "writing"]
      BY <1>6, <2>2 DEF FlushClear, FirstSink
    <3>2. 1 <= sinks
      BY <1>0, <2>2, SinksAssumption DEF TypeOK
    <3>3. PrefixWritten'
      BY <1>0, <3>1, <3>2 DEF FanOutInv, PrefixWritten, TypeOK
    <3>4. QED
      BY <1>0, <3>1, <3>3 DEF FanOutInv, FanOutInOrder, SettledEverywhere
  <2>3. QED
    BY <2>1, <2>2
<1>7. ASSUME NEW f \in Flushers, pc[f] = "writing",
             store' = Persist(f) \/ store' = store, UNCHANGED sinks,
             \A g \in Flushers : pc'[g] = "writing" =>
                /\ pc[g] = "writing" /\ batch'[g] = batch[g]
                /\ \/ at'[g] = at[g]
                   \/ g = f /\ store' = Persist(f) /\ at[f] < sinks /\ at'[f] = at[f] + 1,
             \/ settled' = settled
             \/ store' = Persist(f) /\ at[f] = sinks /\ settled' = settled \cup Range(batch[f])
      PROVE  FanOutInv'
  <2>1. /\ \A j \in 1..MaxSinks : Range(store[j]) \subseteq Range(store'[j])
        /\ \A k \in (sinks + 1)..MaxSinks : store'[k] = <<>>
        /\ \A j, k \in 1..sinks : j < k => Range(store'[k]) \subseteq Range(store'[j])
    BY <1>7, PersistKeepsPrefix DEF FanOutInv, PrefixWritten, FanOutInOrder
  <2>2. store' = Persist(f) => \A j \in 1..at[f] : Range(batch[f]) \subseteq Range(store'[j])
    BY <1>7, PersistKeepsPrefix
  <2>3. \A g \in Flushers : at[g] \in 1..MaxSinks
    BY <1>0 DEF TypeOK
  <2>4. PrefixWritten'
    <3>1. ASSUME NEW g \in Flushers, pc'[g] = "writing"
          PROVE  /\ at'[g] <= sinks
                 /\ \A j \in 1..(at'[g] - 1) : Range(batch'[g]) \subseteq Range(store'[j])
      <4>1. CASE at'[g] = at[g]
        <5>1. /\ at[g] <= sinks
              /\ \A j \in 1..(at[g] - 1) : Range(batch[g]) \subseteq Range(store[j])
          BY <1>7, <3>1 DEF FanOutInv, PrefixWritten
        <5>2. sinks \in Nat /\ sinks <= MaxSinks /\ MaxSinks \in Nat
          BY <1>0, SinksAssumption DEF TypeOK
        <5>3. QED
          BY <1>7, <2>1, <2>3, <3>1, <4>1, <5>1, <5>2
      <4>2. CASE at'[g] # at[g]
        <5>1. g = f /\ store' = Persist(f) /\ at[f] < sinks /\ at'[f] = at[f] + 1 /\ batch'[g] = batch[f]
          BY <1>7, <3>1, <4>2
        <5>2. sinks \in Nat
          BY <1>0, SinksAssumption DEF TypeOK
        <5>3. QED
          BY <2>2, <2>3, <5>1, <5>2
      <4>3. QED
        BY <4>1, <4>2
    <3>2. QED
      BY <1>7, <2>1, <3>1 DEF PrefixWritten
  <2>5. FanOutInOrder'
    BY <1>7, <2>1 DEF FanOutInOrder
  <2>6. SettledEverywhere'
    <3>1. InitSinks <= sinks /\ sinks <= MaxSinks /\ InitSinks \in Nat /\ sinks \in Nat /\ MaxSinks \in Nat
      BY <1>0, SinksAssumption DEF TypeOK
    <3>2. \A k \in 1..InitSinks : settled \subseteq Range(store'[k])
      BY <2>1, <3>1 DEF FanOutInv, SettledEverywhere
    <3>3. QED
      BY <1>7, <2>2, <3>1, <3>2 DEF SettledEverywhere
  <2>7. QED
    BY <1>0, <2>4, <2>5, <2>6 DEF FanOutInv
<1>8. ASSUME NEW f \in Flushers, SinkOk(f) PROVE FanOutInv'
  <2>1. /\ at[f] <= sinks /\ at[f] \in Nat /\ sinks \in Nat
        /\ pc[f] = "writing" /\ store' = Persist(f) /\ UNCHANGED sinks
    BY <1>0, <1>8, SinksAssumption DEF SinkOk, FanOutInv, PrefixWritten, TypeOK
  <2>2. CASE MoreSinks(f)
    <3>1. /\ UNCHANGED <<pc, batch, settled>>
          /\ at' = [at EXCEPT ![f] = at[f] + 1] /\ at[f] < sinks
      BY <1>8, <2>2 DEF SinkOk, MoreSinks
    <3>2. \A g \in Flushers : pc'[g] = "writing" =>
            /\ pc[g] = "writing" /\ batch'[g] = batch[g]
            /\ \/ at'[g] = at[g]
               \/ g = f /\ store' = Persist(f) /\ at[f] < sinks /\ at'[f] = at[f] + 1
      BY <1>0, <2>1, <3>1 DEF TypeOK
    <3>3. QED
      BY <1>7, <2>1, <3>1, <3>2
  <2>3. CASE ~MoreSinks(f)
    <3>1. at[f] = sinks
      BY <2>1, <2>3 DEF MoreSinks
    <3>2. Finish(f) /\ settled' = settled \cup Range(batch[f])
      BY <1>8, <2>3 DEF SinkOk
    <3>3. \A g \in Flushers : pc'[g] = "writing" =>
             /\ pc[g] = "writing" /\ batch'[g] = batch[g]
             /\ \/ at'[g] = at[g]
                \/ g = f /\ store' = Persist(f) /\ at[f] < sinks /\ at'[f] = at[f] + 1
      BY <1>0, <3>2 DEF Finish, TypeOK
    <3>4. QED
      BY <1>7, <2>1, <3>1, <3>2, <3>3
  <2>4. QED
    BY <2>2, <2>3
<1>9. ASSUME NEW f \in Flushers, NEW wrote \in BOOLEAN, SinkFail(f, wrote) PROVE FanOutInv'
  <2>1. /\ pc[f] = "writing" /\ (store' = Persist(f) \/ store' = store)
        /\ UNCHANGED <<sinks, at, settled>>
        /\ pc' = [pc EXCEPT ![f] = "rebinding"]
        /\ batch' = [batch EXCEPT ![f] = Rebuffered(f)]
    BY <1>9 DEF SinkFail
  <2>2. \A g \in Flushers : pc'[g] = "writing" =>
           /\ pc[g] = "writing" /\ batch'[g] = batch[g]
           /\ \/ at'[g] = at[g]
              \/ g = f /\ store' = Persist(f) /\ at[f] < sinks /\ at'[f] = at[f] + 1
    BY <1>0, <2>1 DEF TypeOK
  <2>3. QED
    BY <1>7, <2>1, <2>2
<1>10. CASE UNCHANGED vars
  BY <1>1, <1>10 DEF vars
<1>11. QED
  BY <1>0, <1>2, <1>3, <1>5, <1>6, <1>8, <1>9, <1>10 DEF Next, Flush, Entries, TypeOK, ThreadAppend

LEMMA FanOutInit == Init => FanOutInv
<1> SUFFICES ASSUME Init PROVE FanOutInv
  OBVIOUS
<1>1. TypeOK
  BY TypeInit
<1>2. \A k \in 1..MaxSinks : store[k] = <<>> /\ Range(store[k]) = {}
  BY EmptySequence DEF Init
<1>3. PrefixWritten
  BY <1>2, SinksAssumption DEF Init, PrefixWritten
<1>4. FanOutInOrder /\ SettledEverywhere
  BY <1>2, SinksAssumption DEF Init, FanOutInOrder, SettledEverywhere
<1>5. QED
  BY <1>1, <1>3, <1>4 DEF FanOutInv

LEMMA FanOutInvariant == Spec => []FanOutInv
  BY FanOutInit, FanOutStep, PTL DEF Spec

\* Whatever fails, is cancelled, registered or logged by a thread meanwhile, a
\* sink never holds an entry that a sink registered before it does not.
THEOREM AuditFanOutInOrder == Spec => []FanOutInOrder
  BY FanOutInvariant, PTL DEF FanOutInv

\* A flush() that returned has given its entries to every initial sink.
THEOREM AuditSettledEverywhere == Spec => []SettledEverywhere
  BY FanOutInvariant, PTL DEF FanOutInv

-----------------------------------------------------------------------------
(* Ownership *)

LEMMA InitOwned == Init => Ownership
  BY EmptySequence, NoneAssumption DEF Init, Ownership, InFlight

\* What Ownership says, flush by flush.
LEMMA OwnedPointwise ==
  ASSUME TypeOK
  PROVE  Ownership <=>
    /\ \A f \in Flushers : loop = f <=> pc[f] \in {"copied", "rebinding"}
    /\ \A f \in Flushers : pc[f] = "idle" => batch[f] = <<>>
    /\ holder \notin Range(logged)
    /\ Range(buffer) \subseteq Range(logged) /\ settled \subseteq Range(logged)
    /\ IsInjective(buffer) /\ Range(buffer) \cap settled = {}
    /\ \A f \in Flushers :
         /\ IsInjective(batch[f])
         /\ Range(batch[f]) \subseteq Range(logged)
         /\ Range(batch[f]) \cap settled = {}
         /\ loop # f => Range(buffer) \cap Range(batch[f]) = {}
    /\ \A f, g \in Flushers : f # g => Range(batch[f]) \cap Range(batch[g]) = {}
  BY DEF Ownership, InFlight

\* Every step keeps it, with logging threads, failures and cancellations.
LEMMA OwnershipStep == TypeOK /\ Ownership /\ [Next]_vars => Ownership'
<1> SUFFICES ASSUME TypeOK, Ownership, [Next]_vars PROVE Ownership'
  OBVIOUS
<1>0. TypeOK'
  BY TypeStep
<1> DEFINE Owned ==
    /\ \A f \in Flushers : loop = f <=> pc[f] \in {"copied", "rebinding"}
    /\ \A f \in Flushers : pc[f] = "idle" => batch[f] = <<>>
    /\ holder \notin Range(logged)
    /\ Range(buffer) \subseteq Range(logged) /\ settled \subseteq Range(logged)
    /\ IsInjective(buffer) /\ Range(buffer) \cap settled = {}
    /\ \A f \in Flushers :
         /\ IsInjective(batch[f])
         /\ Range(batch[f]) \subseteq Range(logged)
         /\ Range(batch[f]) \cap settled = {}
         /\ loop # f => Range(buffer) \cap Range(batch[f]) = {}
    /\ \A f, g \in Flushers : f # g => Range(batch[f]) \cap Range(batch[g]) = {}
<1>o. Owned
  BY OwnedPointwise
<1>p. SUFFICES Owned'
  BY <1>0, OwnedPointwise DEF Ownership, InFlight
<1>t. /\ buffer \in Seq(Entries) /\ logged \in Seq(Entries)
      /\ holder \in ThreadEntries \cup {None} /\ ThreadEntries \subseteq Entries
      /\ LoopEntries \subseteq Entries /\ None \notin Entries /\ None \notin Flushers
      /\ pc \in [Flushers -> {"idle", "copied", "writing", "rebinding"}]
      /\ batch \in [Flushers -> Seq(Entries)]
  BY NoneAssumption DEF TypeOK, Entries
<1>e. Range(<<>>) = {} /\ IsInjective(<<>>)
  BY EmptySequence
<1>1. ASSUME NEW e \in LoopEntries, LogOnLoop(e) PROVE Owned'
  <2>1. /\ Range(buffer') = Range(buffer) \cup {e}
        /\ Range(logged') = Range(logged) \cup {e}
        /\ e \notin Range(logged) /\ IsInjective(buffer')
    BY <1>1, <1>o, <1>t, AppendRange DEF LogOnLoop
  <2>2. UNCHANGED <<holder, loop, pc, batch, settled>> /\ holder = None
    BY <1>1 DEF LogOnLoop, threadVars, flushVars
  <2>3. holder # e
    BY <1>t, <2>2
  <2>4. QED
    BY <1>o, <2>1, <2>2, <2>3
<1>2. ASSUME NEW e \in ThreadEntries, ThreadLoad(e) PROVE Owned'
  BY <1>o, <1>2 DEF ThreadLoad, flushVars
<1>3. CASE ThreadAppend
  <2>1. /\ holder \in Entries /\ holder' = None
        /\ Range(logged') = Range(logged) \cup {holder}
        /\ UNCHANGED <<loop, pc, batch, settled>>
    BY <1>3, <1>t, AppendRange DEF ThreadAppend, flushVars
  <2>2. holder' \notin Range(logged')
    BY <1>t, <2>1, RangeInSet
  <2>3. /\ Range(buffer') \subseteq Range(buffer) \cup {holder}
        /\ IsInjective(buffer')
    <3>1. Range(buffer) \subseteq Range(logged) /\ holder \notin Range(logged)
      BY <1>o
    <3>2. QED
      BY <1>3, <1>o, <1>t, <2>1, <3>1, AppendRange DEF ThreadAppend
  <2>4. QED
    BY <1>o, <2>1, <2>2, <2>3
<1>4. CASE AddSink
  BY <1>o, <1>4 DEF AddSink, threadVars, flushVars
<1>5. ASSUME NEW f \in Flushers, FlushCopy(f) PROVE Owned'
  <2>1. /\ UNCHANGED <<buffer, holder, logged, settled>>
        /\ loop = None /\ loop' = f /\ pc[f] = "idle"
        /\ \A g \in Flushers : batch'[g] = IF g = f THEN buffer ELSE batch[g]
        /\ \A g \in Flushers : pc'[g] = IF g = f THEN "copied" ELSE pc[g]
    BY <1>5, <1>t DEF FlushCopy, threadVars
  <2>2. QED
    BY <1>o, <1>t, <2>1
<1>6. ASSUME NEW f \in Flushers, loop = f \/ loop = None,
             loop' = None, UNCHANGED <<holder, logged>>,
             Finish(f),
             \/ buffer' = <<>> /\ settled' \in {settled, settled \cup Range(batch[f])}
             \/ buffer' = buffer /\ loop = None
                  /\ settled' \in {settled, settled \cup Range(batch[f])}
             \/ buffer' = batch[f] /\ settled' = settled
      PROVE  Owned'
  <2>1. /\ \A g \in Flushers : batch'[g] = IF g = f THEN <<>> ELSE batch[g]
        /\ \A g \in Flushers : pc'[g] = IF g = f THEN "idle" ELSE pc[g]
    BY <1>6, <1>t DEF Finish
  <2>2. /\ \A g \in Flushers : loop' = g <=> pc'[g] \in {"copied", "rebinding"}
        /\ \A g \in Flushers : pc'[g] = "idle" => batch'[g] = <<>>
        /\ holder' \notin Range(logged')
    BY <1>6, <1>o, <1>t, <2>1
  <2>3. /\ Range(buffer') \subseteq Range(logged) /\ settled' \subseteq Range(logged)
        /\ IsInjective(buffer') /\ Range(buffer') \cap settled' = {}
    BY <1>6, <1>o, <1>t, <1>e
  <2>4. ASSUME NEW g \in Flushers
        PROVE  /\ IsInjective(batch'[g])
               /\ Range(batch'[g]) \subseteq Range(logged)
               /\ Range(batch'[g]) \cap settled' = {}
               /\ Range(buffer') \cap Range(batch'[g]) = {}
    <3>1. CASE g = f
      BY <2>1, <3>1, <1>e
    <3>2. CASE g # f
      <4>1. Range(batch[f]) \cap Range(batch[g]) = {} /\ loop # g
        BY <1>6, <1>o, <1>t, <3>2
      <4>2. QED
        BY <1>6, <1>o, <1>e, <2>1, <3>2, <4>1
    <3>3. QED
      BY <3>1, <3>2
  <2>5. \A g, h \in Flushers : g # h => Range(batch'[g]) \cap Range(batch'[h]) = {}
    BY <1>o, <1>e, <2>1
  <2>6. QED
    BY <1>6, <2>2, <2>3, <2>4, <2>5
<1>7. ASSUME NEW f \in Flushers, FlushClear(f) PROVE Owned'
  <2>1. /\ buffer' = <<>> /\ loop = f /\ loop' = None
        /\ UNCHANGED <<holder, logged>> /\ pc[f] = "copied"
    BY <1>7 DEF FlushClear, Cleared, threadVars
  <2>2. CASE batch[f] = <<>> \/ sinks = 0
    <3>1. Finish(f) /\ settled' = settled \cup Range(batch[f])
      BY <1>7, <2>2 DEF FlushClear
    <3>2. QED
      BY <1>6, <2>1, <3>1
  <2>3. CASE ~(batch[f] = <<>> \/ sinks = 0)
    <3>1. /\ UNCHANGED <<batch, settled>>
          /\ \A g \in Flushers : pc'[g] = IF g = f THEN "writing" ELSE pc[g]
      BY <1>7, <1>t, <2>3 DEF FlushClear
    <3>2. QED
      BY <1>o, <1>e, <1>t, <2>1, <3>1
  <2>4. QED
    BY <2>2, <2>3
<1>8. ASSUME NEW f \in Flushers, SinkOk(f) PROVE Owned'
  <2>1. /\ UNCHANGED <<buffer, holder, logged, loop>> /\ loop = None
    BY <1>8 DEF SinkOk, threadVars
  <2>2. CASE MoreSinks(f)
    <3>1. UNCHANGED <<pc, batch, settled>>
      BY <1>8, <2>2 DEF SinkOk
    <3>2. QED
      BY <1>o, <2>1, <3>1
  <2>3. CASE ~MoreSinks(f)
    <3>1. Finish(f) /\ settled' = settled \cup Range(batch[f])
      BY <1>8, <2>3 DEF SinkOk
    <3>2. QED
      BY <1>6, <2>1, <3>1
  <2>4. QED
    BY <2>2, <2>3
<1>9. ASSUME NEW f \in Flushers, NEW wrote \in BOOLEAN, SinkFail(f, wrote) PROVE Owned'
  <2>1. /\ UNCHANGED <<buffer, holder, logged, settled>>
        /\ loop = None /\ loop' = f
        /\ \A g \in Flushers : batch'[g] = IF g = f THEN batch[f] \o buffer ELSE batch[g]
        /\ \A g \in Flushers : pc'[g] = IF g = f THEN "rebinding" ELSE pc[g]
    BY <1>9, <1>t DEF SinkFail, Rebuffered, threadVars
  <2>2. Range(buffer) \cap Range(batch[f]) = {}
    BY <1>o, <1>t, <2>1
  <2>3. /\ Range(batch[f] \o buffer) = Range(batch[f]) \cup Range(buffer)
        /\ IsInjective(batch[f] \o buffer)
    BY <1>o, <1>t, <2>2, ConcatRange
  <2>4. \A g \in Flushers : g # f =>
          Range(batch'[f]) \cap Range(batch'[g]) = {}
    BY <1>o, <1>t, <2>1, <2>3
  <2>5. QED
    BY <1>o, <1>t, <2>1, <2>3, <2>4
<1>10. ASSUME NEW f \in Flushers, FlushRebind(f) PROVE Owned'
  <2>1. /\ loop = f /\ loop' = None /\ UNCHANGED <<holder, logged, settled>>
        /\ buffer' = batch[f] /\ Finish(f)
    BY <1>10 DEF FlushRebind
  <2>2. QED
    BY <1>6, <2>1
<1>11. ASSUME NEW f \in Flushers, FlushCancel(f) PROVE Owned'
  <2>1. /\ loop = None /\ loop' = None /\ UNCHANGED <<holder, logged, settled, buffer>>
        /\ Finish(f)
    BY <1>11 DEF FlushCancel, threadVars
  <2>2. QED
    BY <1>6, <2>1
<1>12. CASE UNCHANGED vars
  BY <1>o, <1>12 DEF vars
<1>13. QED
  BY <1>1, <1>2, <1>3, <1>4, <1>5, <1>7, <1>8, <1>9, <1>10, <1>11, <1>12 DEF Next, Flush

\* Between turns of the loop an entry has one owner, so concurrent flushes
\* never carry the same entry: what makes each failure cost one duplicate.
THEOREM AuditSingleOwner == Spec => []SingleOwner
<1>1. Ownership => SingleOwner
  <2> SUFFICES ASSUME Ownership, loop = None PROVE SingleOwner
    BY DEF SingleOwner
  <2>1. \A f \in Flushers : loop # f
    BY NoneAssumption
  <2>2. QED
    BY <2>1 DEF Ownership, SingleOwner, InFlight
<1>2. Spec => []Ownership
  BY InitOwned, OwnershipStep, AuditTypeCorrect, PTL DEF Spec
<1>3. QED
  BY <1>1, <1>2, PTL

-----------------------------------------------------------------------------
(* Duplicates *)

Occurrences(s, e) == {i \in DOMAIN s : s[i] = e}

\* A batch without repetition adds one copy of what is in it, and no other.
LEMMA OneMoreCopy ==
  ASSUME NEW S, NEW s \in Seq(S), NEW t \in Seq(S), IsInjective(t), NEW e
  PROVE  /\ Cardinality(Occurrences(s, e)) \in Nat
         /\ Cardinality(Occurrences(s \o t, e)) =
              IF e \in Range(t) THEN Cardinality(Occurrences(s, e)) + 1
              ELSE Cardinality(Occurrences(s, e))
<1>1. /\ Len(s \o t) = Len(s) + Len(t)
      /\ \A i \in 1..Len(s) : (s \o t)[i] = s[i]
      /\ \A i \in (Len(s) + 1)..(Len(s) + Len(t)) : (s \o t)[i] = t[i - Len(s)]
      /\ DOMAIN s = 1..Len(s) /\ DOMAIN t = 1..Len(t)
      /\ DOMAIN (s \o t) = 1..(Len(s) + Len(t))
      /\ Len(s) \in Nat /\ Len(t) \in Nat
  OBVIOUS
<1>2. IsFiniteSet(Occurrences(s, e)) /\ Cardinality(Occurrences(s, e)) \in Nat
  <2>1. IsFiniteSet(1..Len(s))
    BY <1>1, FS_Interval
  <2>2. Occurrences(s, e) \in SUBSET (1..Len(s))
    BY <1>1 DEF Occurrences
  <2>3. IsFiniteSet(Occurrences(s, e))
    BY <2>1, <2>2, FS_Subset
  <2>4. QED
    BY <2>3, FS_CardinalityType
<1>3. \A i \in DOMAIN (s \o t) : i \in 1..Len(s) \/ (i \notin 1..Len(s) /\ i - Len(s) \in DOMAIN t)
  BY <1>1
<1>4. CASE e \notin Range(t)
  <2>1. \A i \in DOMAIN (s \o t) : (s \o t)[i] = e <=> i \in 1..Len(s) /\ s[i] = e
    BY <1>1, <1>3, <1>4 DEF Range
  <2>2. Occurrences(s \o t, e) = Occurrences(s, e)
    BY <1>1, <2>1 DEF Occurrences
  <2>3. QED
    BY <1>2, <1>4, <2>2
<1>5. CASE e \in Range(t)
  <2>1. PICK j \in DOMAIN t : t[j] = e
    BY <1>5 DEF Range
  <2> DEFINE x == Len(s) + j
  <2>2. x \in DOMAIN (s \o t) /\ x \notin 1..Len(s) /\ (s \o t)[x] = e
    BY <1>1, <2>1
  <2>3. ASSUME NEW i \in DOMAIN (s \o t), (s \o t)[i] = e, i \notin 1..Len(s) PROVE i = x
    <3>1. i - Len(s) \in DOMAIN t /\ t[i - Len(s)] = e
      BY <1>1, <1>3, <2>3
    <3>2. i - Len(s) = j
      BY <2>1, <3>1 DEF IsInjective
    <3>3. QED
      BY <1>1, <3>2
  <2> HIDE DEF x
  <2>4. Occurrences(s \o t, e) = Occurrences(s, e) \cup {x}
    BY <1>1, <2>2, <2>3 DEF Occurrences
  <2>5. x \notin Occurrences(s, e)
    BY <1>1, <2>2 DEF Occurrences
  <2>6. QED
    BY <1>2, <1>5, <2>4, <2>5, FS_AddElement
<1>6. QED
  BY <1>2, <1>4, <1>5

LEMMA CopiesAre ==
  /\ \A k, e : Copies(k, e) = Cardinality(Occurrences(store[k], e))
  /\ \A k, e : Copies(k, e)' = Cardinality(Occurrences(store'[k], e))
  BY DEF Copies, Occurrences

LEMMA CopiesCount ==
  ASSUME NEW stores \in [1..MaxSinks -> Seq(Entries)], NEW k \in 1..MaxSinks, NEW e
  PROVE  Cardinality(Occurrences(stores[k], e)) \in Nat
<1>1. stores[k] \in Seq(Entries) /\ <<>> \in Seq(Entries) /\ IsInjective(<<>>)
  BY EmptySequence
<1>2. QED
  BY <1>1, OneMoreCopy

\* A write_batch that persists adds a copy of each entry of the batch, at its
\* own sink.
LEMMA CopiesPersist ==
  ASSUME TypeOK, Ownership, NEW f \in Flushers, store' = Persist(f)
  PROVE  \A k \in 1..MaxSinks, e \in Entries :
           /\ Copies(k, e) \in Nat
           /\ Copies(k, e)' = IF k = at[f] /\ e \in Range(batch[f])
                              THEN Copies(k, e) + 1 ELSE Copies(k, e)
<1>1. /\ at[f] \in 1..MaxSinks /\ store \in [1..MaxSinks -> Seq(Entries)]
      /\ batch[f] \in Seq(Entries) /\ IsInjective(batch[f])
  BY OwnedPointwise DEF TypeOK
<1>2. \A k \in 1..MaxSinks : store'[k] = IF k = at[f] THEN store[k] \o batch[f] ELSE store[k]
  BY <1>1 DEF Persist
<1>3. ASSUME NEW k \in 1..MaxSinks, NEW e \in Entries
      PROVE  /\ Copies(k, e) \in Nat
             /\ Copies(k, e)' = IF k = at[f] /\ e \in Range(batch[f])
                                THEN Copies(k, e) + 1 ELSE Copies(k, e)
  <2>1. /\ Cardinality(Occurrences(store[k], e)) \in Nat
        /\ Cardinality(Occurrences(store[k] \o batch[f], e)) =
             IF e \in Range(batch[f]) THEN Cardinality(Occurrences(store[k], e)) + 1
             ELSE Cardinality(Occurrences(store[k], e))
    <3>1. store[k] \in Seq(Entries)
      BY <1>1
    <3>2. QED
      BY <1>1, <3>1, OneMoreCopy
  <2>2. QED
    BY <1>2, <2>1, CopiesAre
<1>4. QED
  BY <1>3

\* An entry that no sink has been handed.
LEMMA NoCopyYet ==
  ASSUME TypeOK, NEW k \in 1..MaxSinks, NEW e, e \notin Range(store[k])
  PROVE  Copies(k, e) = 0
<1>1. Occurrences(store[k], e) = {}
  BY DEF Occurrences, Range
<1>2. QED
  BY <1>1, CopiesAre, FS_EmptySet

LEMMA CopiesSame ==
  ASSUME store' = store PROVE \A k, e : Copies(k, e)' = Copies(k, e)
  BY CopiesAre

\* Every step keeps it: what a step puts in the buffer or a batch is new, or
\* was in one of them; what stays owed after a write_batch cost a failure.
LEMMA FewCopiesStep == ASSUME TypeOK, Ownership, FewCopies, [Next]_vars PROVE FewCopies'
<1>0. /\ TypeOK' /\ failures \in Nat /\ failures' \in Nat
      /\ buffer \in Seq(Entries) /\ logged \in Seq(Entries) /\ None \notin Flushers
      /\ pc \in [Flushers -> {"idle", "copied", "writing", "rebinding"}]
      /\ batch \in [Flushers -> Seq(Entries)] /\ at \in [Flushers -> 1..MaxSinks]
      /\ \A g \in Flushers : at[g] \in Nat /\ at[g] \in 1..MaxSinks
      /\ \A k \in 1..MaxSinks : k \in Nat
  <2>1. TypeOK'
    BY TypeStep
  <2>2. failures \in Nat /\ failures' \in Nat
    BY <2>1, BoundsAssumption DEF TypeOK
  <2>3. MaxSinks \in Nat /\ \A g \in Flushers : at[g] \in Nat /\ at[g] \in 1..MaxSinks
    BY SinksAssumption DEF TypeOK
  <2>4. None \notin Flushers
    BY NoneAssumption
  <2>5. /\ buffer \in Seq(Entries) /\ logged \in Seq(Entries)
        /\ pc \in [Flushers -> {"idle", "copied", "writing", "rebinding"}]
        /\ batch \in [Flushers -> Seq(Entries)] /\ at \in [Flushers -> 1..MaxSinks]
    BY DEF TypeOK
  <2>6. \A k \in 1..MaxSinks : k \in Nat
    BY <2>3
  <2>7. QED
    BY <2>1, <2>2, <2>3, <2>4, <2>5, <2>6
<1>1. /\ \A k \in 1..MaxSinks : Range(store[k]) \subseteq Range(logged)
      /\ \A k \in 1..MaxSinks, e \in Entries :
           /\ Copies(k, e) <= 1 + failures
           /\ e \in Range(buffer) => Copies(k, e) <= failures
           /\ \A f \in Flushers : e \in Range(batch[f]) /\ (pc[f] = "writing" => at[f] <= k) =>
                                    Copies(k, e) <= failures
  BY DEF FewCopies
<1>2. ASSUME store' = store, failures' = failures, Range(logged) \subseteq Range(logged'),
             (\A k \in 1..MaxSinks, e \in Range(buffer') : Copies(k, e) <= failures),
             \A g \in Flushers : \A k \in 1..MaxSinks, e \in Range(batch'[g]) :
               (pc'[g] = "writing" => at'[g] <= k) => Copies(k, e) <= failures
      PROVE  FewCopies'
  BY <1>1, <1>2, CopiesSame DEF FewCopies
<1>3. ASSUME NEW e \in Entries, e \notin Range(logged), store' = store, failures' = failures,
             buffer' = buffer \/ buffer' = Append(buffer, e), logged' = Append(logged, e),
             UNCHANGED <<pc, batch, at>>
      PROVE  FewCopies'
  <2>1. Range(logged') = Range(logged) \cup {e} /\ Range(buffer') \subseteq Range(buffer) \cup {e}
    <3>1. /\ Range(Append(logged, e)) = Range(logged) \cup {e}
          /\ Range(Append(buffer, e)) = Range(buffer) \cup {e}
      BY <1>0, AppendRange
    <3>2. QED
      BY <1>3, <3>1
  <2>2. \A k \in 1..MaxSinks : Copies(k, e) = 0
    BY <1>1, <1>3, NoCopyYet
  <2>3. \A k \in 1..MaxSinks, x \in Range(buffer') : Copies(k, x) <= failures
    <3>1. Range(buffer) \subseteq Entries
      BY <1>0, RangeInSet
    <3>2. ASSUME NEW k \in 1..MaxSinks, NEW x \in Range(buffer') PROVE Copies(k, x) <= failures
      <4>1. CASE x \in Range(buffer)
        BY <1>1, <3>1, <4>1
      <4>2. CASE x = e
        <5>1. Copies(k, e) = 0
          BY <2>2
        <5>2. QED
          BY <1>0, <4>2, <5>1
      <4>3. QED
        BY <2>1, <4>1, <4>2
    <3>3. QED
      BY <3>2
  <2>4. \A g \in Flushers : Range(batch[g]) \subseteq Entries
    BY <1>0, RangeInSet
  <2>5. QED
    BY <1>1, <1>2, <1>3, <2>1, <2>3, <2>4
<1>4. ASSUME NEW e \in LoopEntries, LogOnLoop(e) PROVE FewCopies'
  BY <1>3, <1>4 DEF LogOnLoop, flushVars, Entries
<1>5. CASE ThreadAppend
  <2>1. holder \in Entries /\ holder \notin Range(logged)
    BY <1>5 DEF ThreadAppend, TypeOK, Ownership, Entries
  <2>2. QED
    BY <1>3, <1>5, <2>1 DEF ThreadAppend, flushVars
<1>6. CASE AddSink \/ UNCHANGED vars \/ \E e \in ThreadEntries : ThreadLoad(e)
  <2>1. UNCHANGED <<store, failures, logged, buffer, pc, batch, at>>
    BY <1>6 DEF AddSink, ThreadLoad, vars, flushVars
  <2>2. Range(buffer) \subseteq Entries /\ \A g \in Flushers : Range(batch[g]) \subseteq Entries
    BY <1>0, RangeInSet
  <2>3. QED
    BY <1>1, <1>2, <2>1, <2>2
\* One flush moves, and nothing is persisted.
<1>7. ASSUME NEW f \in Flushers, store' = store, failures' = failures, logged' = logged,
             Range(buffer') \subseteq Range(buffer) \cup (IF pc[f] # "writing" THEN Range(batch[f]) ELSE {}),
             \/ batch'[f] = <<>>
             \/ batch'[f] = buffer
             \/ batch'[f] = batch[f] /\ pc[f] # "writing",
             \A g \in Flushers \ {f} : pc'[g] = pc[g] /\ batch'[g] = batch[g] /\ at'[g] = at[g]
      PROVE  FewCopies'
  <2>1. Range(buffer) \subseteq Entries /\ \A g \in Flushers : Range(batch[g]) \subseteq Entries
    BY <1>0, RangeInSet
  <2>2. \A k \in 1..MaxSinks, e \in Range(buffer') : Copies(k, e) <= failures
    BY <1>1, <1>7, <2>1
  <2>3. ASSUME NEW g \in Flushers, NEW k \in 1..MaxSinks, NEW e \in Range(batch'[g]),
               pc'[g] = "writing" => at'[g] <= k
        PROVE  Copies(k, e) <= failures
    <3>1. CASE g # f
      BY <1>1, <1>7, <2>1, <2>3, <3>1
    <3>2. CASE g = f
      BY <1>1, <1>7, <2>1, <2>3, <3>2, EmptySequence
    <3>3. QED
      BY <3>1, <3>2
  <2>4. QED
    BY <1>2, <1>7, <2>2, <2>3
<1>8. ASSUME NEW f \in Flushers, FlushCopy(f) \/ FlushClear(f) \/ FlushRebind(f) \/ FlushCancel(f)
      PROVE  FewCopies'
  <2>1. CASE FlushCopy(f)
    BY <1>0, <1>7, <2>1 DEF FlushCopy
  <2>2. CASE FlushClear(f)
    <3>1. buffer' = <<>> /\ UNCHANGED <<store, failures, logged>> /\ pc[f] = "copied"
      BY <2>2 DEF FlushClear, Cleared
    <3>2. /\ batch'[f] = <<>> \/ batch'[f] = batch[f]
          /\ \A g \in Flushers \ {f} : pc'[g] = pc[g] /\ batch'[g] = batch[g] /\ at'[g] = at[g]
      BY <1>0, <2>2 DEF FlushClear, Finish
    <3>3. QED
      BY <1>7, <3>1, <3>2, EmptySequence
  <2>3. CASE FlushRebind(f) \/ FlushCancel(f)
    <3>1. /\ batch'[f] = <<>> /\ UNCHANGED <<store, failures, logged>>
          /\ \A g \in Flushers \ {f} : pc'[g] = pc[g] /\ batch'[g] = batch[g] /\ at'[g] = at[g]
          /\ buffer' = buffer \/ (buffer' = batch[f] /\ pc[f] # "writing")
      BY <1>0, <2>3 DEF FlushRebind, FlushCancel, Finish
    <3>2. QED
      BY <1>7, <3>1
  <2>4. QED
    BY <1>8, <2>1, <2>2, <2>3
<1>9. ASSUME NEW f \in Flushers, SinkOk(f) PROVE FewCopies'
  <2>1. /\ store' = Persist(f) /\ failures' = failures /\ logged' = logged /\ buffer' = buffer
        /\ loop = None /\ pc[f] = "writing"
        /\ \A g \in Flushers \ {f} : pc'[g] = pc[g] /\ batch'[g] = batch[g] /\ at'[g] = at[g]
        /\ \/ batch'[f] = <<>>
           \/ batch'[f] = batch[f] /\ pc'[f] = "writing" /\ at'[f] = at[f] + 1
    BY <1>0, <1>9 DEF SinkOk, Finish
  <2>2. \A k \in 1..MaxSinks, e \in Entries :
          /\ Copies(k, e) \in Nat
          /\ Copies(k, e)' = IF k = at[f] /\ e \in Range(batch[f])
                             THEN Copies(k, e) + 1 ELSE Copies(k, e)
    BY <2>1, CopiesPersist
  <2>3. /\ Range(buffer) \cap Range(batch[f]) = {} /\ Range(batch[f]) \subseteq Range(logged)
        /\ \A g \in Flushers : g # f => Range(batch[g]) \cap Range(batch[f]) = {}
    BY <1>0, <2>1, OwnedPointwise
  <2>4. \A k \in 1..MaxSinks : Range(store'[k]) \subseteq Range(logged')
    BY <1>1, <2>1, <2>3, PersistRange
  <2>5. ASSUME NEW k \in 1..MaxSinks, NEW e \in Entries
        PROVE  /\ Copies(k, e)' <= 1 + failures'
               /\ e \in Range(buffer') => Copies(k, e)' <= failures'
               /\ \A g \in Flushers :
                    e \in Range(batch'[g]) /\ (pc'[g] = "writing" => at'[g] <= k) =>
                      Copies(k, e)' <= failures'
    <3>1. Copies(k, e)' <= 1 + failures'
      <4>1. k = at[f] /\ e \in Range(batch[f]) => Copies(k, e) <= failures
        BY <1>0, <1>1
      <4>2. Copies(k, e) \in Nat /\ Copies(k, e) <= 1 + failures
        BY <1>1, <2>2
      <4>3. QED
        BY <1>0, <2>1, <2>2, <4>1, <4>2
    <3>2. e \in Range(buffer') => Copies(k, e)' <= failures'
      BY <1>1, <2>1, <2>2, <2>3
    <3>3. ASSUME NEW g \in Flushers, e \in Range(batch'[g]), pc'[g] = "writing" => at'[g] <= k
          PROVE  Copies(k, e)' <= failures'
      <4>1. CASE g # f
        BY <1>1, <2>1, <2>2, <2>3, <3>3, <4>1
      <4>2. CASE g = f
        <5>1. e \in Range(batch[f]) /\ at[f] + 1 <= k
          BY <2>1, <3>3, <4>2, EmptySequence
        <5>2. k # at[f] /\ at[f] <= k
          BY <1>0, <5>1
        <5>3. QED
          BY <1>1, <2>1, <2>2, <5>1, <5>2
      <4>3. QED
        BY <4>1, <4>2
    <3>4. QED
      BY <3>1, <3>2, <3>3
  <2>6. QED
    BY <2>4, <2>5 DEF FewCopies
<1>10. ASSUME NEW f \in Flushers, NEW wrote \in BOOLEAN, SinkFail(f, wrote) PROVE FewCopies'
  <2>1. /\ store' = (IF wrote THEN Persist(f) ELSE store) /\ failures' = failures + 1
        /\ logged' = logged /\ buffer' = buffer /\ loop = None
        /\ \A g \in Flushers \ {f} : pc'[g] = pc[g] /\ batch'[g] = batch[g] /\ at'[g] = at[g]
    BY <1>0, <1>10 DEF SinkFail
  <2>2. \A k \in 1..MaxSinks, e \in Entries :
          /\ Copies(k, e)' <= 1 + failures
          /\ e \notin Range(batch[f]) => Copies(k, e)' <= Copies(k, e)
    <3>1. CASE wrote
      <4>1. \A k \in 1..MaxSinks, e \in Entries :
              /\ Copies(k, e) \in Nat
              /\ Copies(k, e)' = IF k = at[f] /\ e \in Range(batch[f])
                                 THEN Copies(k, e) + 1 ELSE Copies(k, e)
        BY <2>1, <3>1, CopiesPersist
      <4>2. pc[f] = "writing"
        BY <1>10 DEF SinkFail
      <4>3. \A k \in 1..MaxSinks, e \in Entries :
              k = at[f] /\ e \in Range(batch[f]) => Copies(k, e) <= failures
        BY <1>0, <1>1, <4>2
      <4>4. ASSUME NEW k \in 1..MaxSinks, NEW e \in Entries
            PROVE  /\ Copies(k, e)' <= 1 + failures
                   /\ e \notin Range(batch[f]) => Copies(k, e)' <= Copies(k, e)
        <5>1. Copies(k, e) \in Nat /\ Copies(k, e) <= 1 + failures
          BY <1>1, <4>1
        <5>2. CASE k = at[f] /\ e \in Range(batch[f])
          <6>1. Copies(k, e)' = Copies(k, e) + 1 /\ Copies(k, e) <= failures
            BY <4>1, <4>3, <5>2
          <6>2. QED
            BY <1>0, <5>1, <5>2, <6>1
        <5>3. CASE ~ (k = at[f] /\ e \in Range(batch[f]))
          <6>1. Copies(k, e)' = Copies(k, e)
            BY <4>1, <5>3
          <6>2. QED
            BY <5>1, <6>1
        <5>4. QED
          BY <5>2, <5>3
      <4>5. QED
        BY <4>4
    <3>2. CASE ~ wrote
      <4>1. \A k \in 1..MaxSinks, e \in Entries : Copies(k, e) \in Nat
        BY CopiesCount, CopiesAre DEF TypeOK
      <4>2. QED
        BY <1>1, <2>1, <3>2, <4>1, CopiesSame
    <3>3. QED
      BY <3>1, <3>2
  <2>3. Range(batch[f]) \subseteq Range(logged)
    BY OwnedPointwise
  <2>4. \A k \in 1..MaxSinks : Range(store'[k]) \subseteq Range(logged')
    BY <1>1, <2>1, <2>3, PersistRange
  <2>5. ASSUME NEW k \in 1..MaxSinks, NEW e \in Entries
        PROVE  Copies(k, e)' <= failures' /\ Copies(k, e)' <= 1 + failures'
    <3>1. Copies(k, e)' <= 1 + failures
      BY <2>2
    <3>2. Copies(k, e)' \in Nat
      BY <1>0, CopiesCount, CopiesAre DEF TypeOK
    <3>3. 1 + failures = failures'
      BY <1>0, <2>1
    <3>4. QED
      BY <1>0, <3>1, <3>2, <3>3
  <2>6. QED
    BY <2>4, <2>5 DEF FewCopies
<1>11. QED
  BY <1>4, <1>5, <1>6, <1>8, <1>9, <1>10 DEF Next, Flush

LEMMA FewCopiesInit == Init => FewCopies
<1> SUFFICES ASSUME Init PROVE FewCopies
  OBVIOUS
<1>1. /\ TypeOK /\ failures = 0 /\ buffer = <<>> /\ Range(<<>>) = {}
      /\ \A k \in 1..MaxSinks : store[k] = <<>>
      /\ \A f \in Flushers : batch[f] = <<>>
  BY TypeInit, EmptySequence DEF Init
<1>2. \A k \in 1..MaxSinks, e \in Entries : Copies(k, e) = 0
  BY <1>1, NoCopyYet
<1>3. QED
  BY <1>1, <1>2 DEF FewCopies

\* However flushes overlap, fail or are cancelled and whichever threads log, a
\* sink is handed an entry at most once more than write_batch has raised.
THEOREM AuditDuplicatesNeedFailures == Spec => []DuplicatesNeedFailures
<1>1. Spec => [](TypeOK /\ Ownership)
  BY InitOwned, OwnershipStep, AuditTypeCorrect, PTL DEF Spec
<1>2. Spec => []FewCopies
  BY <1>1, FewCopiesInit, FewCopiesStep, PTL DEF Spec
<1>3. FewCopies => DuplicatesNeedFailures
  BY DEF FewCopies, DuplicatesNeedFailures
<1>4. QED
  BY <1>2, <1>3, PTL

-----------------------------------------------------------------------------
(* Logging on the event loop only: no entry is lost *)

LoopOnly == ThreadEntries = {} /\ MaxCancels = 0

LoopInv == FanOutInv /\ Ownership /\ TurnsAtomic /\ NoEntryLost

\* What is owed apart from the batch of f.
OwedByOthers(f) == UNION {Range(batch[g]) : g \in Flushers \ {f}}

\* A step that touches no batch but that of f changes what is owed only
\* through the buffer and that batch.
LEMMA OwedSplit ==
  ASSUME NEW f \in Flushers, \A g \in Flushers : g # f => batch'[g] = batch[g]
  PROVE  /\ Owed = Range(buffer) \cup Range(batch[f]) \cup OwedByOthers(f)
         /\ Owed' = Range(buffer') \cup Range(batch'[f]) \cup OwedByOthers(f)
  BY DEF Owed, InFlight, OwedByOthers

\* A step that leaves what is owed, settled and held alone is a stutter.
LEMMA QuietStep ==
  ASSUME LoopInv, Owed' = Owed, settled' = settled, Held' = Held, logged' = logged
  PROVE  NoEntryLost' /\ [Delivery!Next]_Delivery!vars
  BY DEF LoopInv, NoEntryLost, Delivery!vars

\* A write_batch that persists adds the batch to the sink that f is at.
LEMMA HeldPersist ==
  ASSUME TypeOK, TypeOK', NEW f \in Flushers, store' = Persist(f)
  PROVE  Held' = [Held EXCEPT ![at[f]] = @ \cup Range(batch[f])] /\ at[f] \in 1..MaxSinks
<1>1. at[f] \in 1..MaxSinks
  BY DEF TypeOK
<1>2. \A k \in 1..MaxSinks : Range(store'[k]) =
        IF k = at[f] THEN Range(store[k]) \cup Range(batch[f]) ELSE Range(store[k])
  BY PersistRange
<1>3. QED
  BY <1>1, <1>2 DEF Held

\* On the event loop alone a turn is atomic: nothing comes between the copy
\* and the clear, or between the concatenation and the rebinding.
LEMMA TurnsAtomicStep ==
  ASSUME LoopOnly, LoopInv, [Next]_vars
  PROVE  TurnsAtomic'
<1>1. /\ buffer \in Seq(Entries) /\ batch \in [Flushers -> Seq(Entries)]
      /\ pc \in [Flushers -> {"idle", "copied", "writing", "rebinding"}]
      /\ None \notin Flushers
  BY NoneAssumption DEF LoopInv, FanOutInv, TypeOK
<1>2. /\ holder = None
      /\ \A f \in Flushers : pc[f] = "copied" => Range(buffer) = Range(batch[f])
      /\ \A f \in Flushers : pc[f] = "rebinding" => Range(buffer) \subseteq Range(batch[f])
      /\ \A f \in Flushers : loop = f <=> pc[f] \in {"copied", "rebinding"}
  BY DEF LoopInv, TurnsAtomic, Ownership
<1>3. ASSUME NEW e \in LoopEntries, LogOnLoop(e) PROVE TurnsAtomic'
  BY <1>1, <1>2, <1>3 DEF LogOnLoop, TurnsAtomic, threadVars, flushVars
<1>4. ASSUME NEW f \in Flushers, FlushCopy(f) PROVE TurnsAtomic'
  BY <1>1, <1>2, <1>4 DEF FlushCopy, TurnsAtomic, threadVars
<1>5. ASSUME NEW f \in Flushers, FlushClear(f) \/ SinkOk(f) \/ FlushRebind(f) \/ FlushCancel(f)
      PROVE  TurnsAtomic'
  <2>1. /\ UNCHANGED holder /\ (loop = f \/ loop = None)
        /\ \/ pc' = [pc EXCEPT ![f] = "idle"]
           \/ pc' = [pc EXCEPT ![f] = "writing"]
           \/ pc' = pc /\ pc[f] = "writing"
    BY <1>5 DEF FlushClear, SinkOk, FlushRebind, FlushCancel, Finish, threadVars
  <2>2. pc'[f] \in {"idle", "writing"} /\ \A g \in Flushers : g # f => pc'[g] = pc[g]
    BY <1>1, <2>1
  <2>3. ASSUME NEW g \in Flushers PROVE pc'[g] \notin {"copied", "rebinding"}
    <3>1. CASE g = f
      BY <2>2, <3>1
    <3>2. CASE g # f
      <4>1. loop # g
        BY <1>1, <2>1, <3>2
      <4>2. QED
        BY <1>2, <2>2, <3>2, <4>1
    <3>3. QED
      BY <3>1, <3>2
  <2>4. QED
    BY <1>2, <2>1, <2>3 DEF TurnsAtomic
<1>7. ASSUME NEW f \in Flushers, NEW wrote \in BOOLEAN, SinkFail(f, wrote) PROVE TurnsAtomic'
  <2>1. Range(buffer) \subseteq Range(batch[f] \o buffer)
    BY <1>1, ConcatRange
  <2>2. QED
    BY <1>1, <1>2, <1>7, <2>1 DEF SinkFail, Rebuffered, TurnsAtomic, threadVars
<1>8. CASE AddSink \/ UNCHANGED vars
  BY <1>2, <1>8 DEF AddSink, TurnsAtomic, vars, threadVars, flushVars
<1>9. ~ThreadAppend /\ \A e \in ThreadEntries : ~ThreadLoad(e)
  BY <1>2 DEF LoopOnly, ThreadAppend
<1>10. QED
  BY <1>3, <1>4, <1>5, <1>7, <1>8, <1>9 DEF Next, Flush

\* Each step of the logger is a step of the abstract log, or changes nothing
\* of it; in particular whatever leaves a batch goes to the sinks or back.
LEMMA DeliveryStep ==
  ASSUME LoopOnly, LoopInv, [Next]_vars
  PROVE  NoEntryLost' /\ [Delivery!Next]_Delivery!vars
<1>0. TypeOK /\ TypeOK'
  BY TypeStep DEF LoopInv, FanOutInv
<1>1. /\ buffer \in Seq(Entries) /\ logged \in Seq(Entries)
      /\ batch \in [Flushers -> Seq(Entries)] /\ LoopEntries \subseteq Entries
      /\ pc \in [Flushers -> {"idle", "copied", "writing", "rebinding"}]
      /\ None \notin Flushers /\ cancels \in Nat /\ sinks \in Nat
      /\ MaxSinks \in Nat /\ MaxSinks >= 1 /\ InitSinks \in Nat /\ InitSinks <= sinks
  BY NoneAssumption, SinksAssumption, BoundsAssumption DEF LoopInv, FanOutInv, TypeOK, Entries
<1>2. /\ holder = None
      /\ \A f \in Flushers : pc[f] = "copied" => Range(buffer) = Range(batch[f])
      /\ \A f \in Flushers : pc[f] = "rebinding" => Range(buffer) \subseteq Range(batch[f])
      /\ \A f \in Flushers : loop = f <=> pc[f] \in {"copied", "rebinding"}
      /\ \A f \in Flushers : pc[f] = "idle" => batch[f] = <<>>
      /\ Range(logged) \subseteq Owed \cup settled
      /\ Owed \cup settled \subseteq Range(logged)
  BY DEF LoopInv, TurnsAtomic, Ownership, NoEntryLost, Owed
<1>3. Range(<<>>) = {}
  BY EmptySequence
<1>4. ASSUME NEW f \in Flushers, NEW P \in {{}, Range(batch[f])}, NEW k \in 1..MaxSinks,
             Finish(f), buffer' \in {buffer, <<>>}, Range(buffer') \cap Range(batch[f]) = {},
             buffer' = buffer \/ Range(buffer) = Range(batch[f]),
             settled' = settled \cup Range(batch[f]), logged' = logged,
             Held' = [Held EXCEPT ![k] = @ \cup P],
             \A j \in 1..InitSinks : Range(batch[f]) \subseteq Held'[j]
      PROVE  NoEntryLost' /\ [Delivery!Next]_Delivery!vars
  <2>1. \A g \in Flushers : batch'[g] = IF g = f THEN <<>> ELSE batch[g]
    BY <1>1, <1>4 DEF Finish
  <2>2. Range(batch[f]) \cap OwedByOthers(f) = {}
    BY DEF LoopInv, Ownership, OwedByOthers
  <2>3. /\ Owed' = Range(buffer') \cup OwedByOthers(f)
        /\ Owed = Range(buffer) \cup Range(batch[f]) \cup OwedByOthers(f)
    BY <1>3, <2>1, OwedSplit
  <2>4. Owed' = Owed \ Range(batch[f]) /\ Range(batch[f]) \subseteq Owed
    <3>1. CASE buffer' = buffer
      BY <1>4, <2>2, <2>3, <3>1
    <3>2. CASE buffer' = <<>>
      BY <1>3, <1>4, <2>2, <2>3, <3>2
    <3>3. QED
      BY <1>4, <3>1, <3>2
  <2>5. Delivery!Settle(Range(batch[f]), k, P)
    BY <1>4, <2>4 DEF Delivery!Settle
  <2>6. NoEntryLost'
    BY <1>2, <1>4, <2>4 DEF NoEntryLost
  <2>7. QED
    BY <2>4, <2>5, <2>6 DEF Delivery!Next
<1>5. ASSUME NEW f \in Flushers, store' = Persist(f), Owed' = Owed,
             settled' = settled, logged' = logged
      PROVE  NoEntryLost' /\ [Delivery!Next]_Delivery!vars
  <2>1. Delivery!Persist(at[f], Range(batch[f])) /\ at[f] \in 1..MaxSinks
    BY <1>0, <1>5, HeldPersist DEF Delivery!Persist, Owed, InFlight
  <2>2. Range(batch[f]) \subseteq Owed
    BY DEF Owed, InFlight
  <2>3. QED
    BY <1>2, <1>5, <2>1, <2>2 DEF Delivery!Next, NoEntryLost
<1>6. ASSUME NEW e \in LoopEntries, LogOnLoop(e)
      PROVE  NoEntryLost' /\ [Delivery!Next]_Delivery!vars
  <2>1. /\ e \in Entries /\ e \notin Range(logged)
        /\ Range(buffer') = Range(buffer) \cup {e} /\ Range(logged') = Range(logged) \cup {e}
        /\ UNCHANGED <<batch, settled, store>>
    BY <1>1, <1>6, AppendRange DEF LogOnLoop, flushVars
  <2>2. Owed' = Owed \cup {e} /\ Held' = Held
    BY <2>1 DEF Owed, InFlight, Held
  <2>3. Delivery!Accept(e) /\ NoEntryLost'
    BY <1>2, <2>1, <2>2 DEF Delivery!Accept, NoEntryLost
  <2>4. QED
    BY <2>1, <2>3 DEF Delivery!Next
<1>7. CASE AddSink \/ UNCHANGED vars
  BY <1>7, QuietStep DEF AddSink, vars, flushVars, threadVars, Owed, InFlight, Held
<1>8. ASSUME NEW f \in Flushers, FlushCopy(f)
      PROVE  NoEntryLost' /\ [Delivery!Next]_Delivery!vars
  <2>1. /\ \A g \in Flushers : batch'[g] = IF g = f THEN buffer ELSE batch[g]
        /\ batch[f] = <<>> /\ UNCHANGED <<buffer, store, settled, logged>>
    BY <1>1, <1>2, <1>8 DEF FlushCopy
  <2>2. Owed' = Owed
    BY <1>3, <2>1, OwedSplit
  <2>3. QED
    BY <2>1, <2>2, QuietStep DEF Held
<1>9. ASSUME NEW f \in Flushers, FlushClear(f)
      PROVE  NoEntryLost' /\ [Delivery!Next]_Delivery!vars
  <2>1. /\ Range(buffer) = Range(batch[f]) /\ Range(buffer') = {} /\ buffer' = <<>>
        /\ UNCHANGED <<store, logged>>
    BY <1>2, <1>3, <1>9 DEF FlushClear, Cleared
  <2>2. CASE ~(batch[f] = <<>> \/ sinks = 0)
    <3>1. UNCHANGED <<batch, settled>>
      BY <1>9, <2>2 DEF FlushClear
    <3>2. Owed' = Owed
      BY <2>1, <3>1 DEF Owed, InFlight
    <3>3. QED
      BY <2>1, <3>1, <3>2, QuietStep DEF Held
  <2>3. CASE batch[f] = <<>> \/ sinks = 0
    <3>1. Finish(f) /\ settled' = settled \cup Range(batch[f])
      BY <1>9, <2>3 DEF FlushClear
    <3>2. \A j \in 1..InitSinks : Range(batch[f]) \subseteq Held'[j]
      BY <1>1, <1>3, <2>3
    <3>3. 1 \in 1..MaxSinks
      BY SinksAssumption
    <3>4. Held' = Held
      BY <2>1 DEF Held
    <3>5. [Held EXCEPT ![1] = @ \cup {}] = Held
      <4>1. Held = [k \in 1..MaxSinks |-> Range(store[k])]
        BY DEF Held
      <4>2. Held[1] \cup {} = Held[1]
        OBVIOUS
      <4>3. QED
        BY <4>1, <4>2
    <3>6. QED
      BY <1>4, <2>1, <3>1, <3>2, <3>3, <3>4, <3>5
  <2>4. QED
    BY <2>2, <2>3
<1>10. ASSUME NEW f \in Flushers, SinkOk(f)
       PROVE  NoEntryLost' /\ [Delivery!Next]_Delivery!vars
  <2>1. /\ pc[f] = "writing" /\ loop = None /\ store' = Persist(f)
        /\ UNCHANGED <<buffer, sinks, logged>>
    BY <1>10 DEF SinkOk
  <2>2. CASE MoreSinks(f)
    <3>1. UNCHANGED <<batch, settled>>
      BY <1>10, <2>2 DEF SinkOk
    <3>2. Owed' = Owed
      BY <2>1, <3>1 DEF Owed, InFlight
    <3>3. QED
      BY <1>5, <2>1, <3>1, <3>2
  <2>3. CASE ~MoreSinks(f)
    <3>1. Finish(f) /\ settled' = settled \cup Range(batch[f])
      BY <1>10, <2>3 DEF SinkOk
    <3>2. Range(buffer) \cap Range(batch[f]) = {}
      BY <1>1, <2>1 DEF LoopInv, Ownership
    <3>3. \A j \in 1..InitSinks : Range(batch[f]) \subseteq Held'[j]
      <4>1. at[f] \in 1..MaxSinks /\ ~(at[f] < sinks)
        BY <1>0, <2>3 DEF TypeOK, MoreSinks
      <4>2. \A j \in 1..InitSinks : j \in 1..at[f] /\ j \in 1..MaxSinks
        <5>1. sinks <= MaxSinks /\ at[f] \in Nat /\ at[f] >= sinks
          BY <1>0, <1>1, <4>1, SinkNumbers
        <5>2. QED
          BY <1>1, <5>1
      <4>3. \A j \in 1..at[f] : Range(batch[f]) \subseteq Range(store'[j])
        BY <2>1, PersistKeepsPrefix DEF LoopInv
      <4>4. QED
        BY <4>2, <4>3 DEF Held
    <3>4. QED
      BY <1>0, <1>4, <2>1, <3>1, <3>2, <3>3, HeldPersist
  <2>4. QED
    BY <2>2, <2>3
<1>11. ASSUME NEW f \in Flushers, NEW wrote \in BOOLEAN, SinkFail(f, wrote)
       PROVE  NoEntryLost' /\ [Delivery!Next]_Delivery!vars
  <2>1. /\ UNCHANGED <<buffer, logged, settled>>
        /\ \A g \in Flushers : batch'[g] = IF g = f THEN batch[f] \o buffer ELSE batch[g]
        /\ store' = Persist(f) \/ store' = store
    BY <1>1, <1>11 DEF SinkFail, Rebuffered
  <2>2. Owed' = Owed
    <3>1. Range(batch'[f]) = Range(batch[f]) \cup Range(buffer)
      BY <1>1, <2>1, ConcatRange
    <3>2. QED
      BY <2>1, <3>1, OwedSplit
  <2>3. CASE store' = Persist(f)
    BY <1>5, <2>1, <2>2, <2>3
  <2>4. CASE store' = store
    BY <2>1, <2>2, <2>4, QuietStep DEF Held
  <2>5. QED
    BY <2>1, <2>3, <2>4
<1>12. ASSUME NEW f \in Flushers, FlushRebind(f)
       PROVE  NoEntryLost' /\ [Delivery!Next]_Delivery!vars
  <2>1. /\ buffer' = batch[f] /\ Range(buffer) \subseteq Range(batch[f])
        /\ \A g \in Flushers : batch'[g] = IF g = f THEN <<>> ELSE batch[g]
        /\ UNCHANGED <<store, logged, settled>>
    BY <1>1, <1>2, <1>12 DEF FlushRebind, Finish
  <2>2. Owed' = Owed
    BY <1>3, <2>1, OwedSplit
  <2>3. QED
    BY <2>1, <2>2, QuietStep DEF Held
<1>13. \A f \in Flushers : ~FlushCancel(f)
  BY <1>1 DEF FlushCancel, LoopOnly
<1>14. ~ThreadAppend /\ \A e \in ThreadEntries : ~ThreadLoad(e)
  BY <1>2 DEF LoopOnly, ThreadAppend
<1>15. QED
  BY <1>6, <1>7, <1>8, <1>9, <1>10, <1>11, <1>12, <1>13, <1>14 DEF Next, Flush

LEMMA LoopInvariant == ASSUME LoopOnly PROVE Spec => []LoopInv
<1>1. Init => LoopInv
  <2> SUFFICES ASSUME Init PROVE LoopInv
    OBVIOUS
  <2>1. Ownership /\ Range(<<>>) = {}
    BY InitOwned, EmptySequence
  <2>2. TurnsAtomic /\ NoEntryLost
    BY <2>1 DEF Init, TurnsAtomic, NoEntryLost
  <2>3. QED
    BY <2>1, <2>2, FanOutInit DEF LoopInv
<1>2. LoopInv /\ [Next]_vars => LoopInv'
  <2> SUFFICES ASSUME LoopInv, [Next]_vars PROVE LoopInv'
    OBVIOUS
  <2>1. FanOutInv' /\ Ownership'
    BY FanOutStep, OwnershipStep DEF LoopInv, FanOutInv
  <2>2. TurnsAtomic' /\ NoEntryLost'
    BY TurnsAtomicStep, DeliveryStep
  <2>3. QED
    BY <2>1, <2>2 DEF LoopInv
<1>3. QED
  BY <1>1, <1>2, PTL DEF Spec

\* When only code on the event loop logs and no flush() is cancelled, an
\* entry that log() returned is never lost, whatever sinks fail.
THEOREM AuditNoEntryLost == ASSUME LoopOnly PROVE Spec => []NoEntryLost
  BY LoopInvariant, PTL DEF LoopInv

\* Under the same conditions the logger implements the at-least-once log.
THEOREM AuditImplementsDelivery == ASSUME LoopOnly PROVE Spec => DeliverySpec
<1>1. Init => Delivery!Init
  <2> SUFFICES ASSUME Init PROVE Delivery!Init
    OBVIOUS
  <2>1. Range(<<>>) = {}
    BY EmptySequence
  <2>2. QED
    BY <2>1 DEF Init, Delivery!Init, Owed, InFlight, Held
<1>2. LoopInv /\ [Next]_vars => [Delivery!Next]_Delivery!vars
  BY DeliveryStep
<1>3. QED
  BY <1>1, <1>2, LoopInvariant, PTL DEF Spec, DeliverySpec, Delivery!Spec

-----------------------------------------------------------------------------
(* Order of delivery *)

LEMMA LeastIndex ==
  ASSUME NEW S \in SUBSET Nat, S # {}
  PROVE  \E k \in S : \A j \in S : k <= j
<1>1. PICK k \in S : \A j \in S : <<j, k>> \notin OpToRel(<, Nat)
  BY NatLessThanWellFounded, WFMin
<1>2. \A j \in S : ~ j < k
  BY <1>1 DEF OpToRel
<1>3. QED
  BY <1>2

\* Where an entry first is in a list.
LEMMA FirstAtIs ==
  ASSUME NEW S, NEW s \in Seq(S), NEW e
  PROVE  /\ e \in Range(s) =>
              /\ FirstAt(s, e) \in DOMAIN s /\ s[FirstAt(s, e)] = e
              /\ \A j \in 1..(FirstAt(s, e) - 1) : s[j] # e
         /\ \A i \in DOMAIN s : s[i] = e /\ (\A j \in 1..(i - 1) : s[j] # e) => FirstAt(s, e) = i
<1>1. DOMAIN s = 1..Len(s) /\ Len(s) \in Nat
  OBVIOUS
<1>2. ASSUME e \in Range(s)
      PROVE  \E i \in DOMAIN s : s[i] = e /\ \A j \in 1..(i - 1) : s[j] # e
  <2>1. Occurrences(s, e) \in SUBSET Nat /\ Occurrences(s, e) # {}
    BY <1>1, <1>2 DEF Occurrences, Range
  <2>2. PICK i \in Occurrences(s, e) : \A j \in Occurrences(s, e) : i <= j
    BY <2>1, LeastIndex
  <2>3. i \in DOMAIN s /\ s[i] = e
    BY <2>2 DEF Occurrences
  <2>4. ASSUME NEW j \in 1..(i - 1), s[j] = e PROVE FALSE
    <3>1. j \in DOMAIN s /\ ~ i <= j
      BY <1>1, <2>3
    <3>2. QED
      BY <2>2, <2>4, <3>1 DEF Occurrences
  <2>5. QED
    BY <2>3, <2>4
<1>3. ASSUME NEW i \in DOMAIN s, s[i] = e, \A j \in 1..(i - 1) : s[j] # e,
             NEW k \in DOMAIN s, s[k] = e, \A j \in 1..(k - 1) : s[j] # e
      PROVE  i = k
  BY <1>1, <1>3
<1>4. e \in Range(s) =>
        /\ FirstAt(s, e) \in DOMAIN s /\ s[FirstAt(s, e)] = e
        /\ \A j \in 1..(FirstAt(s, e) - 1) : s[j] # e
  BY <1>2 DEF FirstAt
<1>5. ASSUME NEW i \in DOMAIN s, s[i] = e, \A j \in 1..(i - 1) : s[j] # e
      PROVE  FirstAt(s, e) = i
  <2>1. e \in Range(s)
    BY <1>5 DEF Range
  <2>2. QED
    BY <1>3, <1>4, <1>5, <2>1
<1>6. QED
  BY <1>4, <1>5

LEMMA FirstAtConcat ==
  ASSUME NEW S, NEW s \in Seq(S), NEW t \in Seq(S), IsInjective(t)
  PROVE  /\ \A e \in Range(s) : FirstAt(s \o t, e) = FirstAt(s, e) /\ FirstAt(s, e) \in 1..Len(s)
         /\ \A q \in DOMAIN t : t[q] \notin Range(s) => FirstAt(s \o t, t[q]) = Len(s) + q
<1>1. /\ s \o t \in Seq(S) /\ Len(s \o t) = Len(s) + Len(t)
      /\ \A i \in 1..Len(s) : (s \o t)[i] = s[i]
      /\ \A i \in (Len(s) + 1)..(Len(s) + Len(t)) : (s \o t)[i] = t[i - Len(s)]
      /\ DOMAIN s = 1..Len(s) /\ DOMAIN t = 1..Len(t)
      /\ DOMAIN (s \o t) = 1..(Len(s) + Len(t))
      /\ Len(s) \in Nat /\ Len(t) \in Nat
  OBVIOUS
<1>2. ASSUME NEW e \in Range(s)
      PROVE  FirstAt(s \o t, e) = FirstAt(s, e) /\ FirstAt(s, e) \in 1..Len(s)
  <2> DEFINE i == FirstAt(s, e)
  <2>1. i \in 1..Len(s) /\ s[i] = e /\ \A j \in 1..(i - 1) : s[j] # e
    BY <1>1, FirstAtIs
  <2> HIDE DEF i
  <2>2. i \in DOMAIN (s \o t) /\ (s \o t)[i] = e
    BY <1>1, <2>1
  <2>3. \A j \in 1..(i - 1) : (s \o t)[j] # e
    BY <1>1, <2>1
  <2>4. FirstAt(s \o t, e) = i
    BY <1>1, <2>2, <2>3, FirstAtIs
  <2>5. QED
    BY <2>1, <2>4 DEF i
<1>3. ASSUME NEW q \in DOMAIN t, t[q] \notin Range(s) PROVE FirstAt(s \o t, t[q]) = Len(s) + q
  <2> DEFINE i == Len(s) + q
  <2>1. i \in DOMAIN (s \o t) /\ (s \o t)[i] = t[q]
    BY <1>1
  <2>2. ASSUME NEW j \in 1..(i - 1), (s \o t)[j] = t[q] PROVE FALSE
    <3>1. CASE j \in 1..Len(s)
      BY <1>1, <1>3, <2>2, <3>1 DEF Range
    <3>2. CASE j \notin 1..Len(s)
      <4>1. j - Len(s) \in DOMAIN t /\ t[j - Len(s)] = t[q] /\ j - Len(s) # q
        BY <1>1, <2>2, <3>2
      <4>2. QED
        BY <4>1 DEF IsInjective
    <3>3. QED
      BY <3>1, <3>2
  <2> HIDE DEF i
  <2>3. FirstAt(s \o t, t[q]) = i
    BY <1>1, <2>1, <2>2, FirstAtIs
  <2>4. QED
    BY <2>3 DEF i
<1>4. QED
  BY <1>2, <1>3

\* A list in which the log's entries first come in the log's order.
InLogOrder(s) ==
  \A i, j \in DOMAIN logged : (i < j /\ logged[j] \in Range(s)) =>
    logged[i] \in Range(s) /\ FirstAt(s, logged[i]) < FirstAt(s, logged[j])

\* Such a list stays one when a piece of the log is added of which nothing
\* before is missing.
LEMMA OrderKept ==
  ASSUME NEW s \in Seq(Entries), NEW t \in Seq(Entries), IsInjective(t),
         logged \in Seq(Entries), IsInjective(logged), NEW d \in Nat, Segment(t, d),
         \A i \in 1..d : logged[i] \in Range(s), InLogOrder(s)
  PROVE  InLogOrder(s \o t)
<1> SUFFICES ASSUME NEW i \in DOMAIN logged, NEW j \in DOMAIN logged, i < j,
                    logged[j] \in Range(s \o t)
             PROVE  /\ logged[i] \in Range(s \o t)
                    /\ FirstAt(s \o t, logged[i]) < FirstAt(s \o t, logged[j])
  BY DEF InLogOrder
<1>1. /\ Range(s \o t) = Range(s) \cup Range(t)
      /\ \A e \in Range(s) : FirstAt(s \o t, e) = FirstAt(s, e) /\ FirstAt(s, e) \in 1..Len(s)
      /\ \A q \in DOMAIN t : t[q] \notin Range(s) => FirstAt(s \o t, t[q]) = Len(s) + q
  BY ConcatRange, FirstAtConcat
<1>2. /\ Len(s) \in Nat /\ DOMAIN t = 1..Len(t) /\ Len(t) \in Nat
      /\ DOMAIN logged = 1..Len(logged) /\ Len(logged) \in Nat
  OBVIOUS
<1>3. CASE logged[j] \in Range(s)
  <2>1. logged[i] \in Range(s) /\ FirstAt(s, logged[i]) < FirstAt(s, logged[j])
    BY <1>3 DEF InLogOrder
  <2>2. QED
    BY <1>1, <1>3, <2>1
<1>4. CASE logged[j] \notin Range(s)
  <2>1. PICK q \in DOMAIN t : t[q] = logged[j]
    BY <1>1, <1>4 DEF Range
  <2>2. d + q \in DOMAIN logged /\ logged[d + q] = logged[j]
    BY <2>1 DEF Segment
  <2>3. j = d + q
    BY <2>2 DEF IsInjective
  <2>4. FirstAt(s \o t, logged[j]) = Len(s) + q
    BY <1>1, <1>4, <2>1
  <2>5. CASE logged[i] \in Range(s)
    BY <1>1, <1>2, <2>1, <2>4, <2>5
  <2>6. CASE logged[i] \notin Range(s)
    <3>1. i \notin 1..d
      BY <2>6
    <3>2. i - d \in DOMAIN t /\ d + (i - d) = i /\ i - d < q
      BY <1>2, <2>1, <2>3, <3>1
    <3>3. t[i - d] = logged[i]
      BY <3>2 DEF Segment
    <3>4. FirstAt(s \o t, logged[i]) = Len(s) + (i - d)
      BY <1>1, <2>6, <3>2, <3>3
    <3>5. logged[i] \in Range(t)
      BY <3>2, <3>3 DEF Range
    <3>6. QED
      BY <1>1, <1>2, <2>1, <2>4, <3>2, <3>4, <3>5
  <2>7. QED
    BY <2>5, <2>6
<1>5. QED
  BY <1>3, <1>4

OneFlush == \A f, g \in Flushers : pc[f] # "idle" /\ pc[g] # "idle" => f = g

\* Every step moves the borders between settled, batch and buffer along the log.
LEMMA PartsStep ==
  ASSUME LoopOnly, LoopInv, IsInjective(logged), LoggedInParts, [Next]_vars
  PROVE  LoggedInParts' /\ IsInjective(logged')
<1>0. /\ buffer \in Seq(Entries) /\ logged \in Seq(Entries) /\ None \notin Flushers
      /\ pc \in [Flushers -> {"idle", "copied", "writing", "rebinding"}]
      /\ batch \in [Flushers -> Seq(Entries)] /\ cancels \in Nat
      /\ \A f \in Flushers : loop = f <=> pc[f] \in {"copied", "rebinding"}
      /\ holder = None
  BY NoneAssumption, BoundsAssumption DEF LoopInv, FanOutInv, TypeOK, Ownership, TurnsAtomic
<1>1. /\ Len(logged) \in Nat /\ DOMAIN logged = 1..Len(logged)
      /\ Len(buffer) \in Nat /\ DOMAIN buffer = 1..Len(buffer)
      /\ \A f \in Flushers : Len(batch[f]) \in Nat /\ DOMAIN batch[f] = 1..Len(batch[f])
  BY <1>0
<1>2. ASSUME ~ overlapped PROVE OneFlush /\ \E d \in 0..Len(logged) : PartsAt(d)
  BY <1>2 DEF LoggedInParts, OneFlush
<1>3. ASSUME OneFlush', NEW d \in Nat, d <= Len(logged'), PartsAt(d)' PROVE LoggedInParts'
  <2>1. Len(logged') \in Nat
    BY TypeStep DEF LoopInv, FanOutInv, TypeOK
  <2>2. QED
    BY <1>3, <2>1 DEF LoggedInParts, OneFlush
<1>4. ASSUME overlapped' PROVE LoggedInParts'
  BY <1>4 DEF LoggedInParts
<1>5. ASSUME NEW e \in LoopEntries, LogOnLoop(e) PROVE LoggedInParts' /\ IsInjective(logged')
  <2>1. /\ loop = None /\ e \in Entries /\ e \notin Range(logged)
        /\ buffer' = Append(buffer, e) /\ logged' = Append(logged, e)
        /\ UNCHANGED <<pc, batch, settled, overlapped>>
    BY <1>5 DEF LogOnLoop, flushVars, Entries
  <2>2. IsInjective(logged')
    BY <1>0, <2>1, AppendRange
  <2>3. /\ Len(logged') = Len(logged) + 1 /\ DOMAIN logged' = 1..(Len(logged) + 1)
        /\ \A i \in 1..Len(logged) : logged'[i] = logged[i]
        /\ logged'[Len(logged) + 1] = e
        /\ Len(buffer') = Len(buffer) + 1 /\ DOMAIN buffer' = 1..(Len(buffer) + 1)
        /\ \A i \in 1..Len(buffer) : buffer'[i] = buffer[i]
        /\ buffer'[Len(buffer) + 1] = e
    BY <1>0, <1>1, <2>1
  <2>4. ASSUME ~ overlapped PROVE LoggedInParts'
    <3>1. PICK d \in 0..Len(logged) : PartsAt(d)
      BY <1>2, <2>4
    <3>2. ASSUME NEW x \in Nat, Len(logged) = x + Len(buffer), Segment(buffer, x)
          PROVE  Len(logged') = x + Len(buffer') /\ Segment(buffer, x)'
      <4>1. ASSUME NEW i \in DOMAIN buffer'
            PROVE  x + i \in DOMAIN logged' /\ buffer'[i] = logged'[x + i]
        <5>1. CASE i = Len(buffer) + 1
          <6>1. x + i = Len(logged) + 1
            BY <1>1, <3>2, <5>1
          <6>2. QED
            BY <1>1, <2>3, <5>1, <6>1
        <5>2. CASE i # Len(buffer) + 1
          <6>1. i \in DOMAIN buffer
            BY <1>1, <2>3, <5>2
          <6>2. x + i \in 1..Len(logged) /\ buffer[i] = logged[x + i]
            BY <1>1, <3>2, <6>1 DEF Segment
          <6>3. QED
            BY <1>1, <2>3, <6>1, <6>2
        <5>3. QED
          BY <5>1, <5>2
      <4>2. QED
        BY <1>1, <2>3, <3>2, <4>1 DEF Segment
    <3>3. ASSUME NEW f \in Flushers, Segment(batch[f], d) PROVE Segment(batch[f], d)'
      <4>1. \A i \in DOMAIN batch[f] : d + i \in 1..Len(logged) /\ batch[f][i] = logged[d + i]
        BY <1>1, <3>3 DEF Segment
      <4>2. QED
        BY <1>1, <2>1, <2>3, <4>1 DEF Segment
    <3>4. \A i \in 1..d : logged'[i] \in settled'
      <4>1. \A i \in 1..d : logged[i] \in settled
        BY <3>1 DEF PartsAt
      <4>2. \A i \in 1..d : logged'[i] = logged[i]
        BY <1>1, <2>3
      <4>3. settled' = settled
        BY <2>1
      <4>4. QED
        BY <4>1, <4>2, <4>3
    <3>5. (\A f \in Flushers : pc'[f] = "idle") =>
             Len(logged') = d + Len(buffer') /\ Segment(buffer, d)'
      BY <2>1, <3>1, <3>2 DEF PartsAt
    <3>6. ASSUME NEW f \in Flushers
          PROVE  /\ pc'[f] # "idle" => Segment(batch[f], d)'
                 /\ pc'[f] \notin {"copied", "rebinding"}
                 /\ pc'[f] = "writing" =>
                      /\ Len(logged') = d + Len(batch'[f]) + Len(buffer')
                      /\ Segment(buffer, d + Len(batch[f]))'
      <4>1. pc'[f] \notin {"copied", "rebinding"}
        BY <1>0, <2>1
      <4>2. pc'[f] # "idle" => Segment(batch[f], d)'
        BY <2>1, <3>1, <3>3 DEF PartsAt
      <4>3. d + Len(batch[f]) \in Nat
        BY <1>1
      <4>4. pc'[f] = "writing" =>
              /\ Len(logged') = d + Len(batch[f]) + Len(buffer')
              /\ Segment(buffer, d + Len(batch[f]))'
        BY <2>1, <3>1, <3>2, <4>3 DEF PartsAt
      <4>5. QED
        BY <2>1, <4>1, <4>2, <4>4 DEF Segment
    <3>7. PartsAt(d)'
      BY <3>4, <3>5, <3>6 DEF PartsAt, Segment
    <3>8. OneFlush'
      BY <1>2, <2>1, <2>4 DEF OneFlush
    <3>9. d \in Nat /\ d <= Len(logged')
      BY <1>1, <2>3
    <3>10. QED
      BY <1>3, <3>7, <3>8, <3>9
  <2>5. QED
    BY <1>4, <2>1, <2>2, <2>4
\* A step of one flush, which is the only one under way.
<1>6. ASSUME NEW f \in Flushers, ~ overlapped, overlapped' = overlapped, logged' = logged,
             pc[f] # "idle", \A g \in Flushers \ {f} : pc'[g] = pc[g],
             NEW d \in 0..Len(logged),
             \A i \in 1..d : logged[i] \in settled',
             pc'[f] = "idle" => Len(logged) = d + Len(buffer') /\ Segment(buffer, d)',
             pc'[f] # "idle" => Segment(batch[f], d)',
             pc'[f] \in {"copied", "rebinding"} => Len(logged) = d + Len(batch'[f]),
             pc'[f] = "writing" => /\ Len(logged) = d + Len(batch'[f]) + Len(buffer')
                                   /\ Segment(buffer, d + Len(batch[f]))'
      PROVE  LoggedInParts'
  <2>1. \A g \in Flushers \ {f} : pc[g] = "idle" /\ pc'[g] = "idle"
    BY <1>2, <1>6 DEF OneFlush
  <2>2. OneFlush'
    BY <2>1 DEF OneFlush
  <2>3. PartsAt(d)'
    BY <1>6, <2>1 DEF PartsAt
  <2>4. d \in Nat /\ d <= Len(logged')
    BY <1>1, <1>6
  <2>5. QED
    BY <1>3, <2>2, <2>3, <2>4
<1>7. ASSUME NEW f \in Flushers, FlushCopy(f) PROVE LoggedInParts' /\ IsInjective(logged')
  <2>1. /\ batch'[f] = buffer /\ pc'[f] = "copied" /\ \A g \in Flushers \ {f} : pc'[g] = pc[g]
        /\ UNCHANGED <<buffer, logged, settled>>
        /\ overlapped' = (overlapped \/ \E g \in Flushers : pc[g] # "idle")
    BY <1>0, <1>7 DEF FlushCopy
  <2>2. ASSUME ~ overlapped' PROVE LoggedInParts'
    <3>1. ~ overlapped /\ \A g \in Flushers : pc[g] = "idle"
      BY <2>1, <2>2
    <3>2. PICK d \in 0..Len(logged) : PartsAt(d)
      BY <1>2, <3>1
    <3>3. Len(logged) = d + Len(buffer) /\ Segment(buffer, d) /\ \A i \in 1..d : logged[i] \in settled
      BY <3>1, <3>2 DEF PartsAt
    <3>4. Segment(batch[f], d)'
      BY <2>1, <3>3 DEF Segment
    <3>5. \A g \in Flushers \ {f} : pc'[g] = "idle"
      BY <2>1, <3>1
    <3>6. OneFlush'
      BY <3>5 DEF OneFlush
    <3>7. PartsAt(d)'
      BY <2>1, <3>3, <3>4, <3>5 DEF PartsAt
    <3>8. d \in Nat /\ d <= Len(logged')
      BY <1>1, <2>1
    <3>9. QED
      BY <1>3, <3>6, <3>7, <3>8
  <2>3. QED
    BY <1>4, <2>1, <2>2
<1>8. ASSUME NEW f \in Flushers, FlushClear(f) PROVE LoggedInParts' /\ IsInjective(logged')
  <2>1. /\ pc[f] = "copied" /\ buffer' = <<>> /\ UNCHANGED <<logged, overlapped>>
        /\ \A g \in Flushers \ {f} : pc'[g] = pc[g]
        /\ \/ pc'[f] = "idle" /\ settled' = settled \cup Range(batch[f])
           \/ pc'[f] = "writing" /\ batch' = batch /\ settled' = settled
    BY <1>0, <1>8 DEF FlushClear, Cleared, Finish
  <2>2. ASSUME ~ overlapped PROVE LoggedInParts'
    <3>1. PICK d \in 0..Len(logged) : PartsAt(d)
      BY <1>2, <2>2
    <3>2. /\ \A i \in 1..d : logged[i] \in settled
          /\ Segment(batch[f], d) /\ Len(logged) = d + Len(batch[f])
      BY <2>1, <3>1 DEF PartsAt
    <3>3. Len(buffer') = 0 /\ \A x : Segment(buffer, x)'
      BY <2>1 DEF Segment
    <3>4. CASE pc'[f] = "idle" /\ settled' = settled \cup Range(batch[f])
      <4>1. ASSUME NEW i \in 1..Len(logged) PROVE logged[i] \in settled'
        <5>1. CASE i <= d
          BY <1>1, <3>2, <3>4, <5>1
        <5>2. CASE ~ i <= d
          <6>1. i - d \in DOMAIN batch[f] /\ d + (i - d) = i
            BY <1>1, <3>2, <5>2
          <6>2. batch[f][i - d] = logged[i]
            BY <3>2, <6>1 DEF Segment
          <6>3. QED
            BY <3>4, <6>1, <6>2 DEF Range
        <5>3. QED
          BY <5>1, <5>2
      <4>2. Len(logged) \in 0..Len(logged) /\ Len(logged) = Len(logged) + Len(buffer')
        BY <1>1, <3>3
      <4>3. QED
        BY <1>6, <2>1, <2>2, <3>3, <3>4, <4>1, <4>2
    <3>5. CASE pc'[f] = "writing" /\ batch' = batch /\ settled' = settled
      <4>1. Segment(batch[f], d)'
        BY <2>1, <3>2, <3>5 DEF Segment
      <4>2. Len(logged) = d + Len(batch'[f]) + Len(buffer')
        BY <1>1, <3>2, <3>3, <3>5
      <4>3. \A i \in 1..d : logged[i] \in settled'
        BY <3>2, <3>5
      <4>4. QED
        BY <1>6, <2>1, <2>2, <3>3, <3>5, <4>1, <4>2, <4>3
    <3>6. QED
      BY <2>1, <3>4, <3>5
  <2>3. QED
    BY <1>4, <2>1, <2>2
<1>9. ASSUME NEW f \in Flushers, SinkOk(f) PROVE LoggedInParts' /\ IsInjective(logged')
  <2>1. /\ pc[f] = "writing" /\ UNCHANGED <<buffer, logged, overlapped>>
        /\ \A g \in Flushers \ {f} : pc'[g] = pc[g]
        /\ \/ pc'[f] = "idle" /\ settled' = settled \cup Range(batch[f])
           \/ pc'[f] = "writing" /\ batch' = batch /\ settled' = settled
    BY <1>0, <1>9 DEF SinkOk, Finish
  <2>2. ASSUME ~ overlapped PROVE LoggedInParts'
    <3>1. PICK d \in 0..Len(logged) : PartsAt(d)
      BY <1>2, <2>2
    <3>2. /\ \A i \in 1..d : logged[i] \in settled
          /\ Segment(batch[f], d) /\ Len(logged) = d + Len(batch[f]) + Len(buffer)
          /\ Segment(buffer, d + Len(batch[f]))
      BY <2>1, <3>1 DEF PartsAt
    <3>3. CASE pc'[f] = "idle" /\ settled' = settled \cup Range(batch[f])
      <4>0. PICK n \in Nat : n = d + Len(batch[f])
        BY <1>1
      <4>1. ASSUME NEW i \in 1..n PROVE logged[i] \in settled'
        <5>1. CASE i <= d
          <6>1. i \in 1..d
            BY <5>1
          <6>2. QED
            BY <3>2, <3>3, <6>1
        <5>2. CASE ~ i <= d
          <6>1. i - d \in DOMAIN batch[f] /\ d + (i - d) = i
            BY <1>1, <4>0, <5>2
          <6>2. batch[f][i - d] = logged[i]
            BY <3>2, <6>1 DEF Segment
          <6>3. QED
            BY <3>3, <6>1, <6>2 DEF Range
        <5>3. QED
          BY <5>1, <5>2
      <4>2. n \in 0..Len(logged) /\ Len(logged) = n + Len(buffer')
        BY <1>1, <2>1, <3>2, <4>0
      <4>3. Segment(buffer, n)'
        BY <2>1, <3>2, <4>0 DEF Segment
      <4>4. QED
        BY <1>6, <2>1, <2>2, <3>3, <4>1, <4>2, <4>3
    <3>4. CASE pc'[f] = "writing" /\ batch' = batch /\ settled' = settled
      <4>1. Segment(batch[f], d)' /\ Segment(buffer, d + Len(batch[f]))'
        BY <2>1, <3>2, <3>4 DEF Segment
      <4>2. Len(logged) = d + Len(batch'[f]) + Len(buffer')
        BY <2>1, <3>2, <3>4
      <4>3. \A i \in 1..d : logged[i] \in settled'
        BY <3>2, <3>4
      <4>4. QED
        BY <1>6, <2>1, <2>2, <3>4, <4>1, <4>2, <4>3
    <3>5. QED
      BY <2>1, <3>3, <3>4
  <2>3. QED
    BY <1>4, <2>1, <2>2
<1>10. ASSUME NEW f \in Flushers, NEW wrote \in BOOLEAN, SinkFail(f, wrote)
       PROVE  LoggedInParts' /\ IsInjective(logged')
  <2>1. /\ pc[f] = "writing" /\ pc'[f] = "rebinding" /\ batch'[f] = batch[f] \o buffer
        /\ UNCHANGED <<buffer, logged, overlapped, settled>>
        /\ \A g \in Flushers \ {f} : pc'[g] = pc[g]
    BY <1>0, <1>10 DEF SinkFail, Rebuffered
  <2>2. ASSUME ~ overlapped PROVE LoggedInParts'
    <3>1. PICK d \in 0..Len(logged) : PartsAt(d)
      BY <1>2, <2>2
    <3>2. /\ \A i \in 1..d : logged[i] \in settled
          /\ Segment(batch[f], d) /\ Len(logged) = d + Len(batch[f]) + Len(buffer)
          /\ Segment(buffer, d + Len(batch[f]))
      BY <2>1, <3>1 DEF PartsAt
    <3> DEFINE s == batch[f]
    <3>3. /\ Len(s \o buffer) = Len(s) + Len(buffer)
          /\ DOMAIN (s \o buffer) = 1..(Len(s) + Len(buffer))
          /\ \A i \in 1..Len(s) : (s \o buffer)[i] = s[i]
          /\ \A i \in (Len(s) + 1)..(Len(s) + Len(buffer)) : (s \o buffer)[i] = buffer[i - Len(s)]
      <4>1. s \in Seq(Entries)
        BY <1>0
      <4> HIDE DEF s
      <4>2. QED
        BY <1>0, <4>1
    <3>4. ASSUME NEW i \in DOMAIN (s \o buffer)
          PROVE  d + i \in DOMAIN logged /\ (s \o buffer)[i] = logged[d + i]
      <4>1. CASE i \in 1..Len(s)
        BY <1>1, <3>2, <3>3, <4>1 DEF Segment
      <4>2. CASE i \notin 1..Len(s)
        <5>1. i - Len(s) \in DOMAIN buffer /\ d + Len(s) + (i - Len(s)) = d + i
          BY <1>1, <3>3, <4>2
        <5>2. (s \o buffer)[i] = buffer[i - Len(s)]
          BY <1>1, <3>3, <4>2
        <5>3. QED
          BY <3>2, <5>1, <5>2 DEF Segment
      <4>3. QED
        BY <4>1, <4>2
    <3>5. Segment(batch[f], d)'
      BY <2>1, <3>4 DEF Segment
    <3>6. Len(logged) = d + Len(batch'[f])
      BY <1>1, <2>1, <3>2, <3>3
    <3>7. QED
      BY <1>6, <2>1, <2>2, <3>2, <3>5, <3>6
  <2>3. QED
    BY <1>4, <2>1, <2>2
<1>11. ASSUME NEW f \in Flushers, FlushRebind(f) PROVE LoggedInParts' /\ IsInjective(logged')
  <2>1. /\ pc[f] = "rebinding" /\ pc'[f] = "idle" /\ buffer' = batch[f]
        /\ UNCHANGED <<logged, overlapped, settled>>
        /\ \A g \in Flushers \ {f} : pc'[g] = pc[g]
    BY <1>0, <1>11 DEF FlushRebind, Finish
  <2>2. ASSUME ~ overlapped PROVE LoggedInParts'
    <3>1. PICK d \in 0..Len(logged) : PartsAt(d)
      BY <1>2, <2>2
    <3>2. /\ \A i \in 1..d : logged[i] \in settled'
          /\ Segment(buffer, d)' /\ Len(logged) = d + Len(buffer')
      BY <2>1, <3>1 DEF PartsAt, Segment
    <3>3. QED
      BY <1>6, <2>1, <2>2, <3>2
  <2>3. QED
    BY <1>4, <2>1, <2>2
<1>12. CASE AddSink \/ UNCHANGED vars
  <2>1. UNCHANGED <<buffer, logged, pc, batch, settled, overlapped>>
    BY <1>12 DEF AddSink, vars, flushVars
  <2>2. QED
    BY <2>1 DEF LoggedInParts, PartsAt, Segment
<1>13. /\ \A f \in Flushers : ~FlushCancel(f)
       /\ ~ThreadAppend /\ \A e \in ThreadEntries : ~ThreadLoad(e)
  BY <1>0 DEF LoopOnly, ThreadAppend, FlushCancel
<1>14. QED
  BY <1>5, <1>7, <1>8, <1>9, <1>10, <1>11, <1>12, <1>13 DEF Next, Flush

-----------------------------------------------------------------------------
(* The order at the sinks *)

OrderInv ==
  /\ LoopInv /\ FewCopies
  /\ IsInjective(logged) /\ LoggedInParts
  /\ DeliveredInOrder

\* A write hands the next piece of the log to a sink that has all before it;
\* nothing else that happens moves an entry a sink holds.
LEMMA OrderStep == ASSUME LoopOnly, OrderInv, [Next]_vars PROVE DeliveredInOrder'
<1>0. /\ logged \in Seq(Entries) /\ store \in [1..MaxSinks -> Seq(Entries)]
      /\ batch \in [Flushers -> Seq(Entries)] /\ at \in [Flushers -> 1..MaxSinks]
      /\ holder = None
      /\ \A k \in 1..MaxSinks : Range(store[k]) \subseteq Range(logged)
      /\ \A k \in 1..InitSinks : k \in 1..MaxSinks /\ settled \subseteq Range(store[k])
      /\ \A f \in Flushers : IsInjective(batch[f])
      /\ IsInjective(logged)
  BY SinkNumbers, SinksAssumption DEF OrderInv, LoopInv, FanOutInv, TypeOK, SettledEverywhere,
     Ownership, TurnsAtomic, FewCopies
<1>1. DeliveredInOrder <=> (~ overlapped => \A k \in 1..InitSinks : InLogOrder(store[k]))
  BY DEF DeliveredInOrder, InLogOrder
<1>2. ASSUME overlapped => overlapped', logged' = logged,
             ~ overlapped => \A k \in 1..InitSinks : InLogOrder(store[k]) => InLogOrder(store[k])'
      PROVE  DeliveredInOrder'
  <2>1. ~ overlapped' => \A k \in 1..InitSinks : InLogOrder(store[k])'
    BY <1>1, <1>2 DEF OrderInv
  <2>2. QED
    BY <2>1 DEF DeliveredInOrder, InLogOrder
<1>3. ASSUME UNCHANGED <<logged, store>>, overlapped => overlapped' PROVE DeliveredInOrder'
  <2>1. \A k \in 1..InitSinks : InLogOrder(store[k]) => InLogOrder(store[k])'
    BY <1>3 DEF InLogOrder
  <2>2. QED
    BY <1>2, <1>3, <2>1
<1>4. ASSUME NEW e \in LoopEntries, LogOnLoop(e) PROVE DeliveredInOrder'
  <2>1. /\ e \in Entries /\ e \notin Range(logged) /\ logged' = Append(logged, e)
        /\ store' = store /\ overlapped' = overlapped
    BY <1>4 DEF LogOnLoop, flushVars, Entries
  <2>2. /\ DOMAIN logged = 1..Len(logged) /\ Len(logged) \in Nat
        /\ DOMAIN logged' = 1..(Len(logged) + 1) /\ logged'[Len(logged) + 1] = e
        /\ \A i \in 1..Len(logged) : logged'[i] = logged[i]
    BY <1>0, <2>1
  <2>3. ASSUME NEW k \in 1..InitSinks, ~ overlapped PROVE InLogOrder(store[k])'
    <3>1. InLogOrder(store[k]) /\ e \notin Range(store[k])
      BY <1>0, <1>1, <2>1, <2>3 DEF OrderInv
    <3> SUFFICES ASSUME NEW i \in DOMAIN logged', NEW j \in DOMAIN logged', i < j,
                        logged'[j] \in Range(store[k])
                 PROVE  /\ logged'[i] \in Range(store[k])
                        /\ FirstAt(store[k], logged'[i]) < FirstAt(store[k], logged'[j])
      BY <2>1 DEF InLogOrder
    <3>2. j # Len(logged) + 1
      BY <2>2, <3>1
    <3>3. i \in DOMAIN logged /\ j \in DOMAIN logged
      BY <2>2, <3>2
    <3>4. logged'[i] = logged[i] /\ logged'[j] = logged[j]
      BY <2>2, <3>3
    <3>5. QED
      BY <3>1, <3>3, <3>4 DEF InLogOrder
  <2>4. ~ overlapped' => \A k \in 1..InitSinks : InLogOrder(store[k])'
    BY <2>1, <2>3
  <2>5. QED
    BY <2>4 DEF DeliveredInOrder, InLogOrder
<1>5. ASSUME NEW f \in Flushers, pc[f] = "writing", store' = Persist(f),
             UNCHANGED <<logged, overlapped>>
      PROVE  DeliveredInOrder'
  <2>1. ASSUME NEW k \in 1..InitSinks, ~ overlapped, InLogOrder(store[k])
        PROVE  InLogOrder(store[k])'
    <3>1. k \in 1..MaxSinks
      BY <1>0
    <3>2. CASE at[f] # k
      <4>1. store'[k] = store[k]
        BY <1>0, <1>5, <3>1, <3>2 DEF Persist
      <4>2. QED
        BY <1>5, <2>1, <4>1 DEF InLogOrder
    <3>3. CASE at[f] = k
      <4>1. store'[k] = store[k] \o batch[f]
        BY <1>0, <1>5, <3>1, <3>3 DEF Persist
      <4>2. PICK d \in 0..Len(logged) : PartsAt(d)
        BY <2>1 DEF OrderInv, LoggedInParts
      <4>3. Segment(batch[f], d) /\ \A i \in 1..d : logged[i] \in Range(store[k])
        BY <1>0, <1>5, <4>2 DEF PartsAt
      <4>4. store[k] \in Seq(Entries) /\ batch[f] \in Seq(Entries) /\ IsInjective(batch[f])
        BY <1>0, <3>1
      <4>5. d \in Nat
        OBVIOUS
      <4>6. InLogOrder(store[k] \o batch[f])
        BY <1>0, <2>1, <4>3, <4>4, <4>5, OrderKept
      <4>7. QED
        BY <1>5, <4>1, <4>6 DEF InLogOrder
    <3>4. QED
      BY <3>2, <3>3
  <2>2. QED
    BY <1>2, <1>5, <2>1
<1>6. ASSUME NEW f \in Flushers, Flush(f) PROVE DeliveredInOrder'
  <2>1. CASE FlushCopy(f)
    BY <1>3, <2>1 DEF FlushCopy
  <2>2. CASE FlushClear(f)
    BY <1>3, <2>2 DEF FlushClear
  <2>3. CASE SinkOk(f)
    BY <1>5, <2>3 DEF SinkOk
  <2>4. ASSUME NEW wrote \in BOOLEAN, SinkFail(f, wrote) PROVE DeliveredInOrder'
    BY <1>3, <1>5, <2>4 DEF SinkFail
  <2>5. CASE FlushRebind(f)
    BY <1>3, <2>5 DEF FlushRebind
  <2>6. CASE FlushCancel(f)
    BY <1>3, <2>6 DEF FlushCancel
  <2>7. QED
    BY <1>6, <2>1, <2>2, <2>3, <2>4, <2>5, <2>6 DEF Flush
<1>7. CASE AddSink
  BY <1>3, <1>7 DEF AddSink, flushVars
<1>8. CASE UNCHANGED vars
  BY <1>3, <1>8 DEF vars
<1>9. ~ThreadAppend /\ \A e \in ThreadEntries : ~ThreadLoad(e)
  BY <1>0 DEF LoopOnly, ThreadAppend
<1>10. QED
  BY <1>4, <1>6, <1>7, <1>8, <1>9 DEF Next

LEMMA OrderInit == Init => IsInjective(logged) /\ LoggedInParts /\ DeliveredInOrder
<1> SUFFICES ASSUME Init PROVE IsInjective(logged) /\ LoggedInParts /\ DeliveredInOrder
  OBVIOUS
<1>1. logged = <<>> /\ buffer = <<>> /\ \A f \in Flushers : pc[f] = "idle"
  BY DEF Init
<1>2. DOMAIN logged = {} /\ DOMAIN buffer = {} /\ Len(logged) = 0 /\ Len(buffer) = 0
  BY <1>1
<1>3. PartsAt(0)
  BY <1>1, <1>2 DEF PartsAt, Segment
<1>4. LoggedInParts
  BY <1>1, <1>2, <1>3 DEF LoggedInParts
<1>5. QED
  BY <1>2, <1>4 DEF IsInjective, DeliveredInOrder

\* What asyncio code alone can do to the order of the audit log: as long as no
\* two flush() calls overlap, failures and retries included, every sink the
\* logger was built with has received the entries in the order of the log.
THEOREM AuditDeliveredInOrder == ASSUME LoopOnly PROVE Spec => []DeliveredInOrder
<1>1. Init => FewCopies /\ IsInjective(logged) /\ LoggedInParts /\ DeliveredInOrder
  BY FewCopiesInit, OrderInit
<1>2. ASSUME LoopInv, FewCopies, IsInjective(logged), LoggedInParts, DeliveredInOrder,
             [Next]_vars
      PROVE  FewCopies' /\ IsInjective(logged') /\ LoggedInParts' /\ DeliveredInOrder'
  <2>1. TypeOK /\ Ownership
    BY <1>2 DEF LoopInv, FanOutInv
  <2>2. FewCopies'
    BY <1>2, <2>1, FewCopiesStep
  <2>3. IsInjective(logged') /\ LoggedInParts'
    BY <1>2, PartsStep
  <2>4. DeliveredInOrder'
    BY <1>2, OrderStep DEF OrderInv
  <2>5. QED
    BY <2>2, <2>3, <2>4
<1>3. (IsInjective(logged))' <=> IsInjective(logged')
  BY DEF IsInjective
<1>4. Spec => []LoopInv
  BY LoopInvariant
<1>5. QED
  BY <1>1, <1>2, <1>3, <1>4, PTL DEF Spec
=============================================================================
