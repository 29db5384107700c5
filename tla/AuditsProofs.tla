---------------------------- MODULE AuditsProofs ----------------------------
(***************************************************************************)
(* What the two audits promise the build that waits for their exit code:   *)
(* for any files, answers and rates the Perplexity audit keeps its rate    *)
(* limit, takes no longer than that and its queries ask for and reports    *)
(* what it heard; for any trees the dispatcher passes those only that keep *)
(* the plain signatures of the API; and both are gates.                    *)
(***************************************************************************)
EXTENDS MCAudits, SequenceTheorems, FiniteSetTheorems, WellFoundedInduction, TLAPS

-----------------------------------------------------------------------------
(* Lists *)

IsList(s) == s \in Seq({s[i] : i \in DOMAIN s})

LEMMA ListIs ==
  ASSUME NEW S, NEW s \in Seq(S)
  PROVE  IsList(s) /\ Len(s) \in Nat /\ DOMAIN s = 1..Len(s)
<1> DEFINE T == {s[i] : i \in DOMAIN s}
<1>1. Len(s) \in Nat /\ DOMAIN s = 1..Len(s)
  OBVIOUS
<1>2. \A i \in 1..Len(s) : s[i] \in T
  BY <1>1
<1> HIDE DEF T
<1>3. s \in Seq(T)
  BY <1>1, <1>2
<1>4. QED
  BY <1>1, <1>3 DEF IsList, T

LEMMA EmptyIsList == IsList(<<>>) /\ DOMAIN <<>> = {}
<1>1. <<>> \in Seq({}) /\ DOMAIN <<>> = {}
  OBVIOUS
<1>2. QED
  BY <1>1, ListIs

LEMMA AppendIs ==
  ASSUME NEW s, NEW e, IsList(s)
  PROVE  /\ IsList(Append(s, e)) /\ Len(s) \in Nat /\ DOMAIN s = 1..Len(s)
         /\ Len(Append(s, e)) = Len(s) + 1 /\ DOMAIN Append(s, e) = 1..(Len(s) + 1)
         /\ \A i \in 1..Len(s) : Append(s, e)[i] = s[i]
         /\ Append(s, e)[Len(s) + 1] = e
<1> DEFINE S == {s[i] : i \in DOMAIN s} \cup {e}
<1>1. s \in Seq(S) /\ e \in S
  BY DEF IsList
<1> HIDE DEF S
<1>2. /\ Append(s, e) \in Seq(S) /\ Len(Append(s, e)) = Len(s) + 1
      /\ \A i \in 1..Len(s) : Append(s, e)[i] = s[i]
      /\ Append(s, e)[Len(s) + 1] = e
  BY <1>1, AppendProperties
<1>3. QED
  BY <1>1, <1>2, ListIs

LEMMA ConcatIs ==
  ASSUME NEW s, NEW t, IsList(s), IsList(t)
  PROVE  /\ IsList(s \o t) /\ DOMAIN s = 1..Len(s) /\ DOMAIN t = 1..Len(t)
         /\ Len(s) \in Nat /\ Len(t) \in Nat
         /\ DOMAIN (s \o t) = 1..(Len(s) + Len(t))
         /\ \A i \in 1..Len(s) : (s \o t)[i] = s[i]
         /\ \A i \in 1..Len(t) : (s \o t)[Len(s) + i] = t[i]
<1> DEFINE S == {s[i] : i \in DOMAIN s} \cup {t[i] : i \in DOMAIN t}
<1>1. s \in Seq(S) /\ t \in Seq(S)
  BY DEF IsList
<1> HIDE DEF S
<1>2. /\ s \o t \in Seq(S) /\ Len(s \o t) = Len(s) + Len(t)
      /\ \A i \in 1..(Len(s) + Len(t)) :
           (s \o t)[i] = IF i <= Len(s) THEN s[i] ELSE t[i - Len(s)]
  BY <1>1, ConcatProperties
<1>3. /\ DOMAIN s = 1..Len(s) /\ DOMAIN t = 1..Len(t) /\ Len(s) \in Nat /\ Len(t) \in Nat
      /\ IsList(s \o t) /\ DOMAIN (s \o t) = 1..(Len(s) + Len(t))
  BY <1>1, <1>2, ListIs
<1>4. ASSUME NEW i \in 1..Len(t) PROVE (s \o t)[Len(s) + i] = t[i]
  <2>1. /\ Len(s) + i \in 1..(Len(s) + Len(t)) /\ ~ Len(s) + i <= Len(s)
        /\ Len(s) + i - Len(s) = i
    BY <1>3
  <2>2. QED
    BY <1>2, <2>1
<1>5. \A i \in 1..Len(s) : (s \o t)[i] = s[i]
  BY <1>2, <1>3
<1>6. QED
  BY <1>3, <1>4, <1>5

-----------------------------------------------------------------------------
(* The rate limit *)

\* How many of the starts are forgotten.
Forgotten == Len(starts) - Len(requestTimes)

\* The list is the end of what started, in order; what is forgotten is aged, and
\* so is the first of a list that is longer than the limit.
RateTypeOK ==
  /\ now \in Nat /\ starts \in Seq(Nat) /\ requestTimes \in Seq(Nat)
  /\ attempt \in 0..MaxRetries

StartsInOrder ==
  /\ \A j, k \in DOMAIN starts : j <= k => starts[j] <= starts[k]
  /\ \A k \in DOMAIN starts : starts[k] <= now

KeepsTheRecent ==
  /\ Forgotten \in Nat /\ Len(requestTimes) <= RpmLimit + 1
  /\ \A k \in DOMAIN requestTimes : requestTimes[k] = starts[Forgotten + k]
  /\ \A k \in 1..Forgotten : now - starts[k] >= Window
  /\ Len(requestTimes) > RpmLimit => now - requestTimes[1] >= Window

RateInv == RateTypeOK /\ StartsInOrder /\ KeepsTheRecent /\ RateLimited

\* Aged times come first, so that what is left is the end of the list.
LEMMA LeastIndex ==
  ASSUME NEW S \in SUBSET Nat, S # {}
  PROVE  \E k \in S : \A j \in S : k <= j
<1>1. PICK k \in S : \A j \in S : <<j, k>> \notin OpToRel(<, Nat)
  BY NatLessThanWellFounded, WFMin
<1>2. \A j \in S : ~ j < k
  BY <1>1 DEF OpToRel
<1>3. QED
  BY <1>2

LEMMA RequestTimesInOrder ==
  ASSUME RateTypeOK, StartsInOrder, KeepsTheRecent
  PROVE  /\ Len(requestTimes) \in Nat /\ Len(starts) \in Nat
         /\ DOMAIN requestTimes = 1..Len(requestTimes) /\ DOMAIN starts = 1..Len(starts)
         /\ \A k \in DOMAIN requestTimes : /\ requestTimes[k] \in Nat /\ requestTimes[k] <= now
                                           /\ Forgotten + k \in DOMAIN starts
         /\ \A j, k \in DOMAIN requestTimes : j <= k => requestTimes[j] <= requestTimes[k]
<1>1. /\ Len(requestTimes) \in Nat /\ DOMAIN requestTimes = 1..Len(requestTimes)
      /\ Len(starts) \in Nat /\ DOMAIN starts = 1..Len(starts)
      /\ \A k \in DOMAIN requestTimes : requestTimes[k] \in Nat
  BY DEF RateTypeOK
<1>2. Forgotten \in Nat /\ Len(starts) = Forgotten + Len(requestTimes)
  BY <1>1 DEF KeepsTheRecent, Forgotten
<1>3. \A k \in DOMAIN requestTimes : Forgotten + k \in DOMAIN starts
  BY <1>1, <1>2
<1>4. \A k \in DOMAIN requestTimes : requestTimes[k] = starts[Forgotten + k]
  BY DEF KeepsTheRecent
<1>5. \A k \in DOMAIN requestTimes : requestTimes[k] <= now
  BY <1>3, <1>4 DEF StartsInOrder
<1>6. \A j, k \in DOMAIN requestTimes : j <= k => requestTimes[j] <= requestTimes[k]
  <2> SUFFICES ASSUME NEW j \in DOMAIN requestTimes, NEW k \in DOMAIN requestTimes, j <= k
               PROVE  requestTimes[j] <= requestTimes[k]
    OBVIOUS
  <2>1. Forgotten + j <= Forgotten + k
    BY <1>1, <1>2
  <2>2. QED
    BY <2>1, <1>3, <1>4 DEF StartsInOrder
<1>7. QED
  BY <1>1, <1>3, <1>5, <1>6

\* Aged times come first, so that what is left is the end of the list.
LEMMA AgedFirst ==
  ASSUME RateTypeOK, StartsInOrder, KeepsTheRecent
  PROVE  \E m \in Nat :
           /\ m <= Len(requestTimes) /\ Cardinality(Aged) = m
           /\ \A k \in DOMAIN requestTimes : now - requestTimes[k] >= Window <=> k <= m
<1> DEFINE n == Len(requestTimes)
           fresh == {k \in 1..n : ~ now - requestTimes[k] >= Window} \cup {n + 1}
<1>1. /\ n \in Nat /\ DOMAIN requestTimes = 1..n /\ now \in Nat /\ Window \in Nat
      /\ \A k \in 1..n : requestTimes[k] \in Nat
      /\ \A j, k \in 1..n : j <= k => requestTimes[j] <= requestTimes[k]
  BY RequestTimesInOrder, LimitsAssumption DEF RateTypeOK
<1> HIDE DEF n
<1>2. fresh \in SUBSET Nat /\ fresh # {}
  BY <1>1
<1>3. PICK first \in fresh : \A j \in fresh : first <= j
  BY <1>2, LeastIndex
<1> DEFINE m == first - 1
<1>4. m \in Nat /\ m <= n /\ first \in 1..(n + 1)
  BY <1>1, <1>3
<1>5. ASSUME NEW k \in 1..n PROVE now - requestTimes[k] >= Window <=> k <= m
  <2>1. CASE k <= m
    BY <2>1, <1>1, <1>3, <1>4
  <2>2. CASE ~ k <= m
    <3>1. first \in 1..n /\ first <= k
      BY <2>2, <1>1, <1>4
    <3>2. ~ now - requestTimes[first] >= Window
      BY <3>1, <1>1, <1>3
    <3>3. requestTimes[first] <= requestTimes[k]
      BY <3>1, <1>1
    <3>4. QED
      BY <2>2, <3>1, <3>2, <3>3, <1>1
  <2>3. QED
    BY <2>1, <2>2
<1>6. Aged = 1..m
  BY <1>1, <1>4, <1>5 DEF Aged
<1>7. Cardinality(1..m) = m
  BY <1>4, FS_Interval
<1>8. QED
  BY <1>1, <1>4, <1>5, <1>6, <1>7 DEF n

\* What is left are the last starts, all of them in the window that ends now,
\* and no other start is.
LEMMA RecentIs ==
  ASSUME RateTypeOK, StartsInOrder, KeepsTheRecent
  PROVE  /\ Recent \in Seq(Nat) /\ Len(Recent) \in Nat /\ Len(Recent) <= RpmLimit
         /\ Len(Recent) <= Len(starts)
         /\ \A k \in 1..Len(Recent) : /\ Recent[k] = starts[Len(starts) - Len(Recent) + k]
                                      /\ now - Recent[k] < Window
         /\ \A k \in 1..(Len(starts) - Len(Recent)) : now - starts[k] >= Window
<1> DEFINE n == Len(requestTimes)
<1>1. PICK m \in Nat : /\ m <= n /\ Cardinality(Aged) = m
                       /\ \A k \in DOMAIN requestTimes :
                            now - requestTimes[k] >= Window <=> k <= m
  BY AgedFirst
<1>2. /\ n \in Nat /\ Len(starts) \in Nat /\ DOMAIN requestTimes = 1..n
      /\ DOMAIN starts = 1..Len(starts)
      /\ \A k \in 1..n : requestTimes[k] \in Nat
  BY RequestTimesInOrder
<1>3. /\ now \in Nat /\ Window \in Nat /\ RpmLimit \in Nat
      /\ \A k \in 1..Len(starts) : starts[k] \in Nat
  BY <1>2, LimitsAssumption DEF RateTypeOK
<1>4. /\ Forgotten \in Nat /\ Len(starts) = Forgotten + n /\ n <= RpmLimit + 1
      /\ \A k \in 1..n : requestTimes[k] = starts[Forgotten + k]
      /\ \A k \in 1..Forgotten : now - starts[k] >= Window
      /\ n > RpmLimit => now - requestTimes[1] >= Window
  <2>1. Forgotten = Len(starts) - n
    BY DEF Forgotten
  <2>2. Forgotten \in Nat
    BY DEF KeepsTheRecent
  <2>3. Len(starts) = Forgotten + n
    BY <2>1, <1>2
  <2>4. QED
    BY <1>2, <2>2, <2>3 DEF KeepsTheRecent
<1>5. Recent = SubSeq(requestTimes, m + 1, n)
  BY <1>1 DEF Recent
<1>6. /\ Recent \in Seq(Nat) /\ Len(Recent) = (IF m + 1 <= n THEN n - (m + 1) + 1 ELSE 0)
      /\ \A k \in 1..(n - (m + 1) + 1) : Recent[k] = requestTimes[m + 1 + k - 1]
  <2>1. m + 1 \in Int /\ n \in Int /\ \A i \in (m + 1)..n : requestTimes[i] \in Nat
    BY <1>1, <1>2
  <2> HIDE DEF n
  <2>2. QED
    BY <1>5, <2>1, SubSeqProperties
<1> HIDE DEF n
<1>7. Len(Recent) = n - m /\ n - m \in Nat /\ Len(starts) - Len(Recent) = Forgotten + m
  BY <1>1, <1>2, <1>4, <1>6
<1>8. n - m <= RpmLimit
  BY <1>1, <1>2, <1>3, <1>4
<1>9. ASSUME NEW k \in 1..(n - m)
      PROVE  Recent[k] = starts[Forgotten + m + k] /\ now - Recent[k] < Window
  <2>1. m + k \in 1..n /\ ~ m + k <= m /\ k \in 1..(n - (m + 1) + 1) /\ m + 1 + k - 1 = m + k
        /\ Forgotten + (m + k) = Forgotten + m + k
    BY <1>1, <1>2, <1>4
  <2>2. Recent[k] = requestTimes[m + k] /\ requestTimes[m + k] = starts[Forgotten + m + k]
    BY <2>1, <1>4, <1>6
  <2>3. ~ now - requestTimes[m + k] >= Window
    BY <2>1, <1>1, <1>2
  <2>4. QED
    BY <2>1, <2>2, <2>3, <1>2, <1>3
<1>10. ASSUME NEW k \in 1..(Forgotten + m) PROVE now - starts[k] >= Window
  <2>1. CASE k <= Forgotten
    BY <2>1, <1>1, <1>4
  <2>2. CASE ~ k <= Forgotten
    <3> DEFINE j == k - Forgotten
    <3>1. j \in 1..n /\ j <= m /\ Forgotten + j = k
      BY <2>2, <1>1, <1>2, <1>4
    <3>2. QED
      BY <3>1, <1>1, <1>2, <1>4
  <2>3. QED
    BY <2>1, <2>2
<1>11. Len(Recent) <= Len(starts)
  BY <1>1, <1>2, <1>4, <1>7
<1>12. QED
  BY <1>6, <1>7, <1>8, <1>9, <1>10, <1>11

\* The new start is the last, and a window after the one that is RpmLimit before.
LEMMA SlotIs ==
  ASSUME RateInv
  PROVE  /\ Slot \in Nat /\ Slot >= now
         /\ Len(starts) >= RpmLimit => Slot - starts[Len(starts) + 1 - RpmLimit] >= Window
         /\ Len(Recent) >= RpmLimit => Slot - Recent[1] >= Window
<1> DEFINE n == Len(starts)
           r == Len(Recent)
<1>1. /\ r \in Nat /\ r <= RpmLimit /\ r <= n
      /\ \A k \in 1..r : Recent[k] = starts[n - r + k] /\ now - Recent[k] < Window
      /\ \A k \in 1..(n - r) : now - starts[k] >= Window
      /\ \A k \in 1..r : Recent[k] \in Nat
  BY RecentIs DEF RateInv
<1>2. n \in Nat /\ \A k \in 1..n : starts[k] \in Nat /\ starts[k] <= now
  BY DEF RateInv, RateTypeOK, StartsInOrder
<1>3. now \in Nat /\ RpmLimit \in Nat \ {0} /\ Window \in Nat
  BY LimitsAssumption DEF RateInv, RateTypeOK
<1> HIDE DEF n, r
<1>4. CASE r >= RpmLimit
  <2>1. Slot = Recent[1] + Window
    BY <1>4 DEF Slot, r
  <2>2. r = RpmLimit /\ 1 \in 1..r /\ n - r + 1 = n + 1 - RpmLimit
    BY <1>1, <1>2, <1>3, <1>4
  <2>3. Recent[1] = starts[n + 1 - RpmLimit] /\ now - Recent[1] < Window /\ Recent[1] \in Nat
    BY <2>2, <1>1
  <2>4. /\ Slot \in Nat /\ Slot >= now /\ Slot - starts[n + 1 - RpmLimit] >= Window
        /\ Slot - Recent[1] >= Window
    BY <2>1, <2>3, <1>3
  <2>5. QED
    BY <2>4 DEF n
<1>5. CASE ~ r >= RpmLimit
  <2>1. Slot = now
    BY <1>5 DEF Slot, r
  <2>2. n >= RpmLimit => n + 1 - RpmLimit \in 1..(n - r)
    BY <1>1, <1>2, <1>3, <1>5
  <2>3. n >= RpmLimit => Slot - starts[n + 1 - RpmLimit] >= Window
    BY <2>1, <2>2, <1>1
  <2>4. QED
    BY <2>1, <2>3, <1>3, <1>5 DEF n, r
<1>6. QED
  BY <1>4, <1>5

LEMMA RateLimitKeeps == ASSUME RateInv, RateLimit PROVE RateInv'
<1> DEFINE n == Len(starts)
           r == Len(Recent)
           N == Len(starts')
           R == Len(requestTimes')
<1>1. /\ r \in Nat /\ r <= RpmLimit /\ r <= n /\ Recent \in Seq(Nat)
      /\ \A k \in 1..r : Recent[k] = starts[n - r + k] /\ now - Recent[k] < Window
      /\ \A k \in 1..(n - r) : now - starts[k] >= Window
  BY RecentIs DEF RateInv
<1>2. /\ n \in Nat /\ DOMAIN starts = 1..n /\ starts \in Seq(Nat)
      /\ \A k \in 1..n : starts[k] \in Nat /\ starts[k] <= now
      /\ \A j, k \in 1..n : j <= k => starts[j] <= starts[k]
      /\ \A k \in 1..n : k > RpmLimit => starts[k] - starts[k - RpmLimit] >= Window
  BY DEF RateInv, RateTypeOK, StartsInOrder, RateLimited
<1>3. now \in Nat /\ RpmLimit \in Nat \ {0} /\ Window \in Nat /\ MaxRetries \in Nat \ {0}
  BY LimitsAssumption DEF RateInv, RateTypeOK
<1>4. /\ Slot \in Nat /\ Slot >= now
      /\ n >= RpmLimit => Slot - starts[n + 1 - RpmLimit] >= Window
      /\ r >= RpmLimit => Slot - Recent[1] >= Window
  BY SlotIs
<1>5. /\ starts' \in Seq(Nat) /\ N = n + 1 /\ DOMAIN starts' = 1..N
      /\ \A k \in 1..n : starts'[k] = starts[k]
      /\ starts'[n + 1] = Slot
  BY <1>2, <1>4, AppendProperties DEF RateLimit
<1>6. /\ requestTimes' \in Seq(Nat) /\ R = r + 1 /\ DOMAIN requestTimes' = 1..R
      /\ \A k \in 1..r : requestTimes'[k] = Recent[k]
      /\ requestTimes'[r + 1] = Slot
  BY <1>1, <1>4, AppendProperties DEF RateLimit
<1>7. now' = Slot /\ attempt' = 1
  BY DEF RateLimit
<1>8. Forgotten' = n - r
  BY <1>1, <1>2, <1>5, <1>6 DEF Forgotten
<1> HIDE DEF n, r, N, R
<1>9. RateTypeOK'
  BY <1>3, <1>4, <1>5, <1>6, <1>7 DEF RateTypeOK
<1>10. StartsInOrder'
  <2>1. \A k \in 1..N : starts'[k] \in Nat /\ starts'[k] <= Slot
    BY <1>2, <1>3, <1>4, <1>5
  <2>2. ASSUME NEW j \in 1..N, NEW k \in 1..N, j <= k PROVE starts'[j] <= starts'[k]
    <3>1. CASE k = n + 1
      BY <3>1, <2>1, <1>5
    <3>2. CASE k # n + 1
      <4>1. j \in 1..n /\ k \in 1..n
        BY <2>2, <3>2, <1>2, <1>5
      <4>2. QED
        BY <4>1, <2>2, <1>2, <1>5
    <3>3. QED
      BY <3>1, <3>2
  <2>3. QED
    BY <2>1, <2>2, <1>5, <1>7 DEF StartsInOrder
<1>11. KeepsTheRecent'
  <2>1. n - r \in Nat /\ R <= RpmLimit + 1
    BY <1>1, <1>2, <1>3, <1>6
  <2>2. ASSUME NEW k \in 1..R PROVE requestTimes'[k] = starts'[n - r + k]
    <3>1. CASE k = r + 1
      <4>1. n - r + k = n + 1
        BY <3>1, <1>1, <1>2
      <4>2. QED
        BY <3>1, <4>1, <1>5, <1>6
    <3>2. CASE k # r + 1
      <4>1. k \in 1..r /\ n - r + k \in 1..n
        BY <3>2, <1>1, <1>2, <1>6
      <4>2. QED
        BY <4>1, <1>1, <1>5, <1>6
    <3>3. QED
      BY <3>1, <3>2
  <2>3. ASSUME NEW k \in 1..(n - r) PROVE Slot - starts'[k] >= Window
    <3>1. k \in 1..n /\ now - starts[k] >= Window
      BY <1>1, <1>2
    <3>2. starts'[k] = starts[k] /\ starts[k] \in Nat
      BY <3>1, <1>2, <1>5
    <3>3. QED
      BY <3>1, <3>2, <1>3, <1>4
  <2>4. R > RpmLimit => Slot - requestTimes'[1] >= Window
    <3>1. R > RpmLimit => r >= RpmLimit /\ 1 \in 1..r
      BY <1>1, <1>3, <1>6
    <3>2. QED
      BY <3>1, <1>4, <1>6
  <2> USE DEF R
  <2>5. QED
    BY <2>1, <2>2, <2>3, <2>4, <1>6, <1>7, <1>8 DEF KeepsTheRecent
<1>12. RateLimited'
  <2> SUFFICES ASSUME NEW k \in 1..N, k > RpmLimit
               PROVE  starts'[k] - starts'[k - RpmLimit] >= Window
    BY <1>5 DEF RateLimited
  <2>1. CASE k = n + 1
    <3>1. n >= RpmLimit /\ k - RpmLimit \in 1..n /\ k - RpmLimit = n + 1 - RpmLimit
      BY <2>1, <1>2, <1>3
    <3>2. QED
      BY <2>1, <3>1, <1>4, <1>5
  <2>2. CASE k # n + 1
    <3>1. k \in 1..n /\ k - RpmLimit \in 1..n
      BY <2>2, <1>2, <1>3, <1>5
    <3>2. QED
      BY <3>1, <1>2, <1>5
  <2>3. QED
    BY <2>1, <2>2
<1>13. QED
  BY <1>9, <1>10, <1>11, <1>12 DEF RateInv

\* Time passes, and what is aged stays aged.
LEMMA TimePasses ==
  ASSUME RateInv, now' \in Nat, now' >= now, attempt' \in 0..MaxRetries,
         UNCHANGED <<starts, requestTimes>>
  PROVE  RateInv'
<1>1. /\ now \in Nat /\ Window \in Nat /\ RpmLimit \in Nat \ {0}
      /\ starts \in Seq(Nat) /\ requestTimes \in Seq(Nat)
      /\ \A k \in DOMAIN starts : starts[k] \in Nat
      /\ \A k \in DOMAIN requestTimes : requestTimes[k] \in Nat
  BY LimitsAssumption DEF RateInv, RateTypeOK
<1>2. RateTypeOK' /\ RateLimited' /\ StartsInOrder'
  BY <1>1 DEF RateInv, RateTypeOK, RateLimited, StartsInOrder
<1>3. KeepsTheRecent'
  <2>1. /\ Forgotten \in Nat /\ Forgotten' = Forgotten /\ Len(requestTimes) \in Nat
        /\ DOMAIN starts = 1..Len(starts) /\ DOMAIN requestTimes = 1..Len(requestTimes)
        /\ Len(starts) = Forgotten + Len(requestTimes)
    BY <1>1 DEF RateInv, KeepsTheRecent, Forgotten
  <2>2. ASSUME NEW k \in 1..Forgotten PROVE now' - starts[k] >= Window
    <3>1. k \in DOMAIN starts /\ now - starts[k] >= Window
      BY <2>1 DEF RateInv, KeepsTheRecent
    <3>2. QED
      BY <3>1, <1>1
  <2>3. Len(requestTimes) > RpmLimit => now' - requestTimes[1] >= Window
    <3>1. Len(requestTimes) > RpmLimit => 1 \in DOMAIN requestTimes
      BY <1>1, <2>1
    <3>2. QED
      BY <3>1, <1>1 DEF RateInv, KeepsTheRecent
  <2>4. QED
    BY <2>1, <2>2, <2>3 DEF RateInv, KeepsTheRecent
<1>4. QED
  BY <1>2, <1>3 DEF RateInv

\* A query that waits for its answer is being attempted.
AttemptStarted == at = "post" => attempt # 0

\* An attempt takes some time; no other step of the audit does, but for the
\* sleep of the rate limit.
LEMMA AttemptTakes ==
  ASSUME RateInv, AttemptStarted, Answered \/ Retry \/ GiveUp
  PROVE  /\ at = "post" /\ attempt' \in 1..MaxRetries
         /\ UNCHANGED <<starts, requestTimes>>
         /\ \E d \in Nat : Takes(d)
<1>1. attempt \in 1..MaxRetries /\ MaxRetries \in Nat \ {0} /\ Durations \subseteq Nat
  BY LimitsAssumption, DurationsAssumption
     DEF RateInv, RateTypeOK, AttemptStarted, Answered, Retry, GiveUp
<1>2. CASE Answered \/ GiveUp
  <2>1. \E d \in Durations : Takes(d)
    BY <1>2 DEF Answered, GiveUp
  <2>2. QED
    BY <1>1, <1>2, <2>1 DEF Answered, GiveUp
<1>3. CASE Retry
  <2>1. PICK d \in Durations : Takes(d + 2 ^ attempt)
    BY <1>3 DEF Retry
  <2>2. d + 2 ^ attempt \in Nat
    BY <1>1, BackoffAssumption
  <2>3. attempt' \in 1..MaxRetries
    BY <1>1, <1>3 DEF Retry, LastAttempt
  <2>4. QED
    BY <1>3, <2>1, <2>2, <2>3 DEF Retry
<1>4. QED
  BY <1>2, <1>3

LEMMA QuietTimes ==
  ASSUME \/ Collect \/ Scan \/ BuildReport \/ WriteJson \/ WriteMarkdown \/ WritePack
         \/ PacksDone \/ Exit \/ Crash \/ UNCHANGED vars
  PROVE  UNCHANGED <<times, attempt, starts, requestTimes>> /\ (at' = at \/ at' # "post")
  BY DEF Collect, Scan, BuildReport, WriteJson, WriteMarkdown, WritePack, PacksDone, Exit, Crash,
         vars, audit, times

LEMMA RateStep == ASSUME RateInv, AttemptStarted, [Next]_vars PROVE RateInv' /\ AttemptStarted'
<1>1. now \in Nat /\ attempt \in 0..MaxRetries /\ MaxRetries \in Nat \ {0}
  BY LimitsAssumption DEF RateInv, RateTypeOK
<1>2. CASE RateLimit
  BY <1>2, RateLimitKeeps DEF RateLimit, AttemptStarted
<1>3. CASE Answered \/ Retry \/ GiveUp
  <2>1. PICK d \in Nat : Takes(d)
    BY <1>3, AttemptTakes
  <2>2. now' \in Nat /\ now' >= now
    BY <1>1, <2>1 DEF Takes
  <2>3. attempt' \in 1..MaxRetries /\ UNCHANGED <<starts, requestTimes>>
    BY <1>3, AttemptTakes
  <2>4. QED
    BY <1>1, <2>2, <2>3, TimePasses DEF AttemptStarted
<1>4. CASE \/ Collect \/ Scan \/ BuildReport \/ WriteJson \/ WriteMarkdown \/ WritePack
           \/ PacksDone \/ Exit \/ Crash \/ UNCHANGED vars
  <2>1. UNCHANGED <<now, attempt, starts, requestTimes>> /\ (at' = at \/ at' # "post")
    BY <1>4, QuietTimes DEF times
  <2>2. QED
    BY <1>1, <2>1, TimePasses DEF AttemptStarted
<1>5. QED
  BY <1>2, <1>3, <1>4 DEF Next

LEMMA RateStart == ASSUME Init PROVE RateInv /\ AttemptStarted
  BY LimitsAssumption
     DEF Init, RateInv, RateTypeOK, StartsInOrder, KeepsTheRecent, Forgotten, RateLimited,
         AttemptStarted

(* No window sees more than RpmLimit queries start, for any files,         *)
(* answers, timeouts and rates: what _rate_limit() keeps is the end of     *)
(* what it let through, and what it forgets is aged (lines 382-390).       *)
THEOREM PerplexityRateLimited == Spec => []RateLimited
<1>1. Init => RateInv /\ AttemptStarted
  BY RateStart
<1>2. (RateInv /\ AttemptStarted) /\ [Next]_vars => (RateInv /\ AttemptStarted)'
  BY RateStep
<1>3. RateInv => RateLimited
  BY DEF RateInv
<1>4. QED
  BY <1>1, <1>2, <1>3, PTL DEF Spec

-----------------------------------------------------------------------------
(* The time an audit takes *)

\* What n queries may take, if none takes longer than q: b full windows, and the
\* others their own time.
Within(t, n, q) ==
  \E b \in Nat : (b = 0 \/ b * RpmLimit < n) /\ t <= (n - b * RpmLimit) * q + b * Window

\* Each start leaves room for its query, and what has passed since the last one
\* its query has spent.
TimeKept ==
  /\ spent \in Nat /\ longest \in Nat /\ spent <= longest
  /\ \A k \in DOMAIN starts : Within(starts[k] + longest, k, longest)
  /\ starts = <<>> => now = 0 /\ at # "post"
  /\ starts # <<>> => now = starts[Len(starts)] + spent

TimeInv == RateInv /\ AttemptStarted /\ TimeKept

LEMMA WithinBy ==
  ASSUME NEW t, NEW n, NEW q, NEW b \in Nat, b = 0 \/ b * RpmLimit < n,
         t <= (n - b * RpmLimit) * q + b * Window
  PROVE  Within(t, n, q)
  BY Zenon DEF Within

LEMMA Sooner ==
  ASSUME NEW n \in Nat, NEW q \in Nat, NEW t \in Int, NEW u \in Int, u <= t, Within(t, n, q)
  PROVE  Within(u, n, q)
<1>1. PICK b \in Nat : (b = 0 \/ b * RpmLimit < n) /\ t <= (n - b * RpmLimit) * q + b * Window
  BY DEF Within
<1>2. (n - b * RpmLimit) * q + b * Window \in Int
  BY LimitsAssumption
<1>3. u <= (n - b * RpmLimit) * q + b * Window
  BY <1>1, <1>2
<1>4. QED
  BY <1>1, <1>3 DEF Within

\* One query more takes its own time, and RpmLimit more take a window at most.
LEMMA OneQueryMore ==
  ASSUME NEW n \in Nat, NEW q \in Nat, NEW t \in Int, Within(t, n, q)
  PROVE  Within(t + q, n + 1, q)
<1>1. PICK b \in Nat : (b = 0 \/ b * RpmLimit < n) /\ t <= (n - b * RpmLimit) * q + b * Window
  BY DEF Within
<1>2. /\ b * RpmLimit \in Nat /\ b * Window \in Nat
  BY LimitsAssumption
<1>3. (n - b * RpmLimit) * q + q = ((n + 1) - b * RpmLimit) * q
  BY <1>2
<1>4. t + q <= ((n + 1) - b * RpmLimit) * q + b * Window
  <2>1. (n - b * RpmLimit) * q \in Int
    BY <1>2
  <2>2. QED
    BY <1>1, <1>2, <1>3, <2>1
<1>5. b = 0 \/ b * RpmLimit < n + 1
  BY <1>1, <1>2
<1>6. QED
  BY <1>4, <1>5, WithinBy, Zenon

LEMMA OneWindowMore ==
  ASSUME NEW n \in Nat, n >= 1, NEW q \in Nat, NEW t \in Int, Within(t, n, q)
  PROVE  Within(t + Window, n + RpmLimit, q)
<1>1. PICK b \in Nat : (b = 0 \/ b * RpmLimit < n) /\ t <= (n - b * RpmLimit) * q + b * Window
  BY DEF Within
<1>2. /\ b * RpmLimit \in Nat /\ b * Window \in Nat
      /\ RpmLimit \in Nat /\ Window \in Nat
      /\ (b + 1) * RpmLimit = b * RpmLimit + RpmLimit /\ (b + 1) * Window = b * Window + Window
  BY LimitsAssumption
<1>3. (n + RpmLimit) - (b + 1) * RpmLimit = n - b * RpmLimit
  BY <1>2
<1>4. t + Window <= ((n + RpmLimit) - (b + 1) * RpmLimit) * q + (b + 1) * Window
  <2>1. (n - b * RpmLimit) * q \in Int
    BY <1>2
  <2>2. t + Window <= (n - b * RpmLimit) * q + (b + 1) * Window
    BY <1>1, <1>2, <2>1
  <2>3. QED
    BY <1>3, <2>2
<1>5. (b + 1) * RpmLimit < n + RpmLimit
  BY <1>1, <1>2
<1>6. b + 1 \in Nat
  OBVIOUS
<1>7. QED
  BY <1>4, <1>5, <1>6, WithinBy, Zenon

\* Queries that may take longer leave room for a longer one, as at least one of
\* them is not in a full window.
LEMMA LongerQueries ==
  ASSUME NEW n \in Nat, n >= 1, NEW q \in Nat, NEW p \in Nat, q <= p, NEW t \in Int,
         Within(t + q, n, q)
  PROVE  Within(t + p, n, p)
<1>1. PICK b \in Nat : (b = 0 \/ b * RpmLimit < n) /\ t + q <= (n - b * RpmLimit) * q + b * Window
  BY DEF Within
<1>2. b * RpmLimit \in Nat /\ b * Window \in Nat /\ (b = 0 => b * RpmLimit = 0)
  BY LimitsAssumption
<1> DEFINE m == n - b * RpmLimit
<1>3. m \in Nat /\ m >= 1
  BY <1>1, <1>2
<1>4. t + q <= m * q + b * Window
  BY <1>1
<1> HIDE DEF m
<1>5. m * p = m * q + m * (p - q) /\ m * (p - q) >= p - q /\ m * q \in Nat /\ m * (p - q) \in Nat
  <2>1. PICK e \in Nat : p = q + e
    <3>1. p - q \in Nat /\ p = q + (p - q)
      OBVIOUS
    <3>2. QED
      BY <3>1
  <2>2. PICK l \in Nat : m = 1 + l
    <3>1. m - 1 \in Nat /\ m = 1 + (m - 1)
      BY <1>3
    <3>2. QED
      BY <3>1
  <2>3. p - q = e /\ m * p = m * q + m * e /\ m * e = e + l * e /\ l * e \in Nat /\ m * q \in Nat
    BY <1>3, <2>1, <2>2
  <2>4. QED
    BY <2>3
<1>6. t + p <= m * p + b * Window
  <2> DEFINE x == m * q
             y == m * (p - q)
             w == b * Window
  <2>1. x \in Nat /\ y \in Nat /\ w \in Nat /\ y >= p - q /\ t + q <= x + w /\ m * p = x + y
    BY <1>2, <1>4, <1>5
  <2> HIDE DEF x, y
  <2>2. t + p <= x + y + w
    <3> HIDE DEF w
    <3>1. QED
      BY <2>1
  <2>3. QED
    BY <2>1, <2>2
<1>7. t + p <= (n - b * RpmLimit) * p + b * Window
  BY <1>6 DEF m
<1>8. QED
  BY <1>1, <1>7, WithinBy, Zenon

\* What has passed is within what the queries so far may take.
LEMMA NowIsWithin == ASSUME TimeInv PROVE Within(now, Len(starts), longest)
<1>1. /\ now \in Nat /\ longest \in Nat /\ spent \in Nat /\ spent <= longest
      /\ starts \in Seq(Nat) /\ Len(starts) \in Nat
  BY DEF TimeInv, TimeKept, RateInv, RateTypeOK
<1>2. CASE starts = <<>>
  <2>1. now = 0 /\ Len(starts) = 0
    BY <1>2 DEF TimeInv, TimeKept
  <2>2. 0 <= (0 - 0 * RpmLimit) * longest + 0 * Window
    BY <1>1, LimitsAssumption
  <2>3. QED
    BY <2>1, <2>2 DEF Within
<1>3. CASE starts # <<>>
  <2>1. Len(starts) \in DOMAIN starts /\ starts[Len(starts)] \in Nat
    BY <1>1, <1>3
  <2>2. now = starts[Len(starts)] + spent /\ Within(starts[Len(starts)] + longest, Len(starts), longest)
    BY <1>3, <2>1 DEF TimeInv, TimeKept
  <2>3. /\ starts[Len(starts)] + longest \in Int /\ now \in Int
        /\ now <= starts[Len(starts)] + longest
    BY <1>1, <2>1, <2>2
  <2>4. QED
    BY <1>1, <2>2, <2>3, Sooner
<1>4. QED
  BY <1>2, <1>3

\* A query that goes out at once follows what the others took; one that waited
\* follows the query that is RpmLimit before it.
LEMMA RateLimitKeepsTime == ASSUME TimeInv, RateLimit PROVE TimeKept'
<1> DEFINE n == Len(starts)
<1>1. /\ n \in Nat /\ DOMAIN starts = 1..n /\ starts \in Seq(Nat) /\ now \in Nat /\ longest \in Nat
      /\ \A k \in 1..n : starts[k] \in Nat /\ Within(starts[k] + longest, k, longest)
  BY DEF TimeInv, TimeKept, RateInv, RateTypeOK
<1>2. Within(now, n, longest)
  BY NowIsWithin
<1>3. /\ Slot \in Nat /\ RpmLimit \in Nat \ {0} /\ Window \in Nat
      /\ now' = Slot /\ spent' = 0 /\ longest' = longest
  BY SlotIs, LimitsAssumption DEF TimeInv, RateLimit
<1>4. /\ starts' \in Seq(Nat) /\ Len(starts') = n + 1 /\ DOMAIN starts' = 1..(n + 1)
      /\ \A k \in 1..n : starts'[k] = starts[k]
      /\ starts'[n + 1] = Slot
  BY <1>1, <1>3, AppendProperties DEF RateLimit
<1>5. Within(Slot + longest, n + 1, longest)
  <2>1. CASE Len(Recent) >= RpmLimit
    <3> DEFINE k == n + 1 - RpmLimit
    <3>1. /\ Slot = Recent[1] + Window /\ Len(Recent) \in Nat /\ Len(Recent) <= RpmLimit
          /\ Len(Recent) <= n
          /\ \A j \in 1..Len(Recent) : Recent[j] = starts[n - Len(Recent) + j]
      BY <2>1, RecentIs DEF Slot, TimeInv, RateInv
    <3>2. Len(Recent) = RpmLimit /\ 1 \in 1..Len(Recent) /\ n - RpmLimit + 1 = k /\ k \in 1..n
      BY <1>1, <1>3, <2>1, <3>1
    <3>3. Slot = starts[k] + Window
      BY <3>1, <3>2
    <3>4. /\ Within(starts[k] + longest, k, longest) /\ starts[k] + longest \in Int
          /\ k \in Nat /\ k >= 1
      BY <1>1, <1>3, <3>2
    <3>5. k + RpmLimit = n + 1 /\ starts[k] + longest + Window = Slot + longest
      BY <1>1, <1>3, <3>2, <3>3
    <3> HIDE DEF k
    <3>6. Within(starts[k] + longest + Window, k + RpmLimit, longest)
      BY <1>1, <3>4, OneWindowMore
    <3>7. QED
      BY <3>5, <3>6
  <2>2. CASE ~ Len(Recent) >= RpmLimit
    <3>1. Slot = now
      BY <2>2 DEF Slot
    <3>2. QED
      BY <1>1, <1>2, <3>1, OneQueryMore
  <2>3. QED
    BY <2>1, <2>2
<1> HIDE DEF n
<1>6. \A k \in 1..(n + 1) : Within(starts'[k] + longest, k, longest)
  <2> SUFFICES ASSUME NEW k \in 1..(n + 1) PROVE Within(starts'[k] + longest, k, longest)
    OBVIOUS
  <2>1. CASE k = n + 1
    BY <1>4, <1>5, <2>1
  <2>2. CASE k # n + 1
    BY <1>1, <1>4, <2>2
  <2>3. QED
    BY <2>1, <2>2
<1>7. starts' # <<>> /\ now' = starts'[Len(starts')] + spent' /\ 0 <= longest
  BY <1>1, <1>3, <1>4
<1>8. QED
  BY <1>1, <1>3, <1>4, <1>6, <1>7 DEF TimeKept, Within

\* An attempt counts as its query's, and may make it the longest.
LEMMA AttemptKeepsTime == ASSUME TimeInv, Answered \/ Retry \/ GiveUp PROVE TimeKept'
<1>1. at = "post" /\ starts' = starts
  BY AttemptTakes DEF TimeInv
<1>2. PICK d \in Nat : Takes(d)
  BY AttemptTakes DEF TimeInv
<1>3. /\ now \in Nat /\ longest \in Nat /\ spent \in Nat /\ spent <= longest
      /\ starts \in Seq(Nat) /\ starts # <<>> /\ now = starts[Len(starts)] + spent
  BY <1>1 DEF TimeInv, TimeKept, RateInv, RateTypeOK
<1>4. Len(starts) \in DOMAIN starts /\ starts[Len(starts)] \in Nat
  BY <1>3
<1>5. /\ now' = starts[Len(starts)] + spent' /\ spent' \in Nat
      /\ longest' \in Nat /\ spent' <= longest' /\ longest <= longest'
  BY <1>2, <1>3, <1>4 DEF Takes
<1>6. ASSUME NEW k \in DOMAIN starts PROVE Within(starts[k] + longest', k, longest')
  <2>1. k \in Nat /\ k >= 1 /\ starts[k] \in Int /\ Within(starts[k] + longest, k, longest)
    BY <1>3 DEF TimeInv, TimeKept
  <2> DEFINE p == longest'
  <2>2. p \in Nat /\ longest <= p
    BY <1>5
  <2> HIDE DEF p
  <2>3. Within(starts[k] + p, k, p)
    BY <1>3, <2>1, <2>2, LongerQueries
  <2>4. QED
    BY <2>3 DEF p
<1>7. QED
  BY <1>1, <1>3, <1>5, <1>6 DEF TimeKept, Within

LEMMA TimeStep == ASSUME TimeInv, [Next]_vars PROVE TimeInv'
<1>1. RateInv' /\ AttemptStarted'
  BY RateStep DEF TimeInv
<1>2. CASE RateLimit \/ Answered \/ Retry \/ GiveUp
  BY <1>1, <1>2, RateLimitKeepsTime, AttemptKeepsTime DEF TimeInv
<1>3. CASE \/ Collect \/ Scan \/ BuildReport \/ WriteJson \/ WriteMarkdown \/ WritePack
           \/ PacksDone \/ Exit \/ Crash \/ UNCHANGED vars
  <2>1. UNCHANGED <<now, spent, longest, starts>> /\ (at' = at \/ at' # "post")
    BY <1>3, QuietTimes DEF times
  <2>2. QED
    BY <1>1, <2>1 DEF TimeInv, TimeKept, Within
<1>4. QED
  BY <1>2, <1>3 DEF Next

LEMMA TimeImplied == TimeInv => TimeBounded
<1> SUFFICES ASSUME TimeInv PROVE TimeBounded
  OBVIOUS
<1>1. Len(starts) \in Nat
  BY DEF TimeInv, RateInv, RateTypeOK
<1>2. Within(now, Len(starts), longest)
  BY NowIsWithin
<1>3. PICK b \in Nat : /\ b = 0 \/ b * RpmLimit < Len(starts)
                       /\ now <= (Len(starts) - b * RpmLimit) * longest + b * Window
  BY <1>2 DEF Within
<1>4. b <= b * RpmLimit /\ b * RpmLimit \in Nat
  BY LimitsAssumption
<1>5. b \in 0..Len(starts)
  BY <1>1, <1>3, <1>4
<1>6. QED
  BY <1>3, <1>5 DEF TimeBounded

(* However long the network and the model take over an attempt, an audit   *)
(* of any number of queries takes no longer than its longest query allows  *)
(* each, but for the windows that RpmLimit quick queries fill: the sleep   *)
(* of _rate_limit() is never added to work (lines 382-390, 392-452).       *)
THEOREM PerplexityTimeBounded == Spec => []TimeBounded
<1>1. Init => TimeInv
  <2> SUFFICES ASSUME Init PROVE TimeInv
    OBVIOUS
  <2>1. RateInv /\ AttemptStarted
    BY RateStart
  <2>2. /\ now = 0 /\ starts = <<>> /\ at = "query" /\ DOMAIN starts = {}
        /\ spent = 0 /\ longest = 0
    BY DEF Init
  <2>3. QED
    BY <2>1, <2>2 DEF TimeInv, TimeKept
<1>2. TimeInv /\ [Next]_vars => TimeInv'
  BY TimeStep
<1>3. QED
  BY <1>1, <1>2, TimeImplied, PTL DEF Spec

-----------------------------------------------------------------------------
(* Lists of lists *)

\* The recursive function in the definition of FlattenSeq, up to the n-th list.
Sums(f, s, n) == f = [i \in 1..n |-> IF i = 1 THEN s[i] ELSE f[i - 1] \o s[i]]

LEMMA FlattenChosen ==
  ASSUME NEW s, Len(s) # 0
  PROVE  FlattenSeq(s) = (CHOOSE f : Sums(f, s, Len(s)))[Len(s)]
  BY DEF FlattenSeq, Sums

LEMMA SumsIs ==
  ASSUME NEW f, NEW s, NEW n \in Nat, Sums(f, s, n)
  PROVE  /\ DOMAIN f = 1..n
         /\ \A i \in 1..n : f[i] = IF i = 1 THEN s[i] ELSE f[i - 1] \o s[i]
<1>1. f = [i \in 1..n |-> IF i = 1 THEN s[i] ELSE f[i - 1] \o s[i]]
  BY DEF Sums
<1> DEFINE g == [i \in 1..n |-> IF i = 1 THEN s[i] ELSE f[i - 1] \o s[i]]
<1>2. /\ DOMAIN g = 1..n
      /\ \A i \in 1..n : g[i] = IF i = 1 THEN s[i] ELSE f[i - 1] \o s[i]
  OBVIOUS
<1>3. f = g
  BY <1>1
<1> HIDE DEF g
<1>4. QED
  BY <1>2, <1>3

LEMMA SumsExist == ASSUME NEW s, NEW n \in Nat PROVE \E f : Sums(f, s, n)
<1> DEFINE missing == {m \in Nat : ~ \E f : Sums(f, s, m)}
<1>1. ASSUME missing # {} PROVE FALSE
  <2>1. missing \in SUBSET Nat
    OBVIOUS
  <2>2. PICK m \in missing : \A j \in missing : m <= j
    BY <1>1, <2>1, LeastIndex
  <2>3. m \in Nat /\ ~ \E f : Sums(f, s, m)
    BY <2>2
  <2>4. m # 0
    <3>1. Sums([i \in 1..0 |-> s[i]], s, 0)
      BY DEF Sums
    <3>2. QED
      BY <2>3, <3>1
  <2>5. m - 1 \in Nat /\ ~ m <= m - 1
    BY <2>3, <2>4
  <2>6. PICK f : Sums(f, s, m - 1)
    BY <2>2, <2>5
  <2>7. \A i \in 1..(m - 1) : f[i] = IF i = 1 THEN s[i] ELSE f[i - 1] \o s[i]
    BY <2>5, <2>6, SumsIs
  <2> DEFINE g == [i \in 1..m |-> IF i = m THEN IF m = 1 THEN s[m] ELSE f[m - 1] \o s[m] ELSE f[i]]
             h == [i \in 1..m |-> IF i = 1 THEN s[i] ELSE g[i - 1] \o s[i]]
  <2>8. ASSUME NEW i \in 1..m PROVE g[i] = h[i]
    <3>1. CASE i = 1
      BY <2>3, <2>5, <2>7, <3>1
    <3>2. CASE i # 1
      <4>0. i \in 1..m /\ i - 1 \in 1..m /\ i - 1 # m
        BY <2>3, <3>2
      <4>1. g[i - 1] = f[i - 1] /\ h[i] = g[i - 1] \o s[i]
        <5>1. g[i - 1] = f[i - 1]
          BY <4>0
        <5> HIDE DEF g
        <5>2. h[i] = g[i - 1] \o s[i]
          BY <3>2, <4>0
        <5>3. QED
          BY <5>1, <5>2
      <4>2. CASE i = m
        BY <3>2, <4>1, <4>2
      <4>3. CASE i # m
        <5>1. i \in 1..(m - 1) /\ g[i] = f[i]
          BY <2>3, <4>3
        <5>2. f[i] = f[i - 1] \o s[i]
          BY <2>7, <3>2, <5>1
        <5> HIDE DEF g, h
        <5>3. QED
          BY <4>1, <5>1, <5>2
      <4>4. QED
        BY <4>2, <4>3
    <3>3. QED
      BY <3>1, <3>2
  <2>9. g = h
    BY <2>8
  <2>10. Sums(g, s, m)
    BY <2>9 DEF Sums
  <2>11. QED
    BY <2>3, <2>10
<1>2. QED
  BY <1>1

\* Two lists that begin alike have the same sums as far as they do.
LEMMA SumsAgree ==
  ASSUME NEW f, NEW g, NEW s, NEW t, NEW n \in Nat, NEW m \in Nat, n <= m,
         Sums(f, s, n), Sums(g, t, m), \A i \in 1..n : s[i] = t[i]
  PROVE  \A i \in 1..n : f[i] = g[i]
<1> DEFINE differ == {i \in 1..n : f[i] # g[i]}
<1>1. /\ \A i \in 1..n : f[i] = IF i = 1 THEN s[i] ELSE f[i - 1] \o s[i]
      /\ \A i \in 1..m : g[i] = IF i = 1 THEN t[i] ELSE g[i - 1] \o t[i]
  BY SumsIs
<1>2. ASSUME differ # {} PROVE FALSE
  <2>1. differ \in SUBSET Nat
    OBVIOUS
  <2>2. PICK i \in differ : \A j \in differ : i <= j
    BY <1>2, <2>1, LeastIndex
  <2>3. i \in 1..n /\ i \in 1..m /\ f[i] # g[i] /\ s[i] = t[i]
    BY <2>2
  <2>4. i # 1
    BY <1>1, <2>3
  <2>5. i - 1 \in 1..n /\ ~ i <= i - 1
    BY <2>3, <2>4
  <2>6. f[i - 1] = g[i - 1]
    BY <2>2, <2>5
  <2>7. f[i] = f[i - 1] \o s[i] /\ g[i] = g[i - 1] \o t[i]
    BY <1>1, <2>3, <2>4
  <2>8. QED
    BY <2>3, <2>6, <2>7
<1>3. QED
  BY <1>2

LEMMA FlattenIs ==
  ASSUME NEW s, Len(s) \in Nat, Len(s) # 0, NEW f, Sums(f, s, Len(s))
  PROVE  FlattenSeq(s) = f[Len(s)]
<1> DEFINE g == CHOOSE h : Sums(h, s, Len(s))
<1>1. Sums(g, s, Len(s))
  BY SumsExist
<1> HIDE DEF g
<1>2. \A i \in 1..Len(s) : g[i] = f[i]
  BY <1>1, SumsAgree
<1>3. FlattenSeq(s) = g[Len(s)]
  BY FlattenChosen DEF g
<1>4. QED
  BY <1>2, <1>3

LEMMA FlattenEmpty == FlattenSeq(<<>>) = <<>>
  BY DEF FlattenSeq

LEMMA FlattenAppend ==
  ASSUME NEW s, IsList(s), NEW t, IsList(t)
  PROVE  FlattenSeq(Append(s, t)) = FlattenSeq(s) \o t
<1> DEFINE n == Len(s)
           u == Append(s, t)
<1>1. /\ n \in Nat /\ Len(u) = n + 1 /\ u[n + 1] = t
      /\ \A i \in 1..n : u[i] = s[i]
  BY AppendIs
<1> HIDE DEF u
<1>2. PICK f : Sums(f, u, n + 1)
  BY <1>1, SumsExist
<1>3. FlattenSeq(u) = f[n + 1]
  <2>1. Len(u) \in Nat /\ Len(u) # 0 /\ Sums(f, u, Len(u))
    BY <1>1, <1>2
  <2> HIDE DEF n
  <2>2. QED
    BY <1>1, <2>1, FlattenIs
<1>4. f[n + 1] = IF n + 1 = 1 THEN u[n + 1] ELSE f[n + 1 - 1] \o u[n + 1]
  <2>1. n + 1 \in Nat /\ n + 1 \in 1..(n + 1)
    BY <1>1
  <2>2. QED
    BY <1>2, <2>1, SumsIs
<1>5. CASE n = 0
  <2>1. s = <<>>
    BY <1>5 DEF IsList
  <2>2. f[n + 1] = t
    BY <1>1, <1>4, <1>5
  <2>3. <<>> \o t = t
    BY DEF IsList
  <2>4. QED
    BY <1>3, <2>1, <2>2, <2>3, FlattenEmpty DEF u
<1>6. CASE n # 0
  <2>1. PICK g : Sums(g, s, n)
    BY <1>1, SumsExist
  <2>2. FlattenSeq(s) = g[n]
    BY <1>1, <1>6, <2>1, FlattenIs
  <2>3. n + 1 \in Nat /\ n <= n + 1 /\ n \in 1..n /\ n + 1 - 1 = n /\ n + 1 # 1
    BY <1>1, <1>6
  <2> HIDE DEF n
  <2>4. \A i \in 1..n : g[i] = f[i]
    BY <1>1, <1>2, <2>1, <2>3, SumsAgree
  <2>5. QED
    BY <1>1, <1>3, <1>4, <2>2, <2>3, <2>4 DEF u
<1>7. QED
  BY <1>5, <1>6

LEMMA ListOf ==
  ASSUME NEW n \in Nat, NEW f, DOMAIN f = 1..n, f = [i \in 1..n |-> f[i]]
  PROVE  IsList(f) /\ Len(f) = n
<1> DEFINE T == {f[i] : i \in DOMAIN f}
<1>1. \A i \in 1..n : f[i] \in T
  OBVIOUS
<1> HIDE DEF T
<1>2. f \in Seq(T) /\ Len(f) = n
  BY <1>1
<1>3. QED
  BY <1>2 DEF IsList, T

-----------------------------------------------------------------------------
(* The gate of the Perplexity audit *)

NamesP0(h) == \E k \in DOMAIN h.answer : h.answer[k].severity = "P0"

\* What was heard is among the findings, but for an answer not yet collected;
\* the audit decides when it ends.
PerplexityInv ==
  /\ exit \in {0, 1, None} /\ (exit # None => at = "ended")
  /\ IsList(heard) /\ IsList(findings)
  /\ \A k \in DOMAIN heard : heard[k].answer \in Answers
  /\ at = "collect" => heard # <<>>
  /\ at # "ended" =>
       \A k \in DOMAIN heard : NamesP0(heard[k]) /\ (at = "collect" => k # Len(heard)) =>
                                 "P0" \in Severities

\* Each element of an answer becomes a finding of its severity.
LEMMA NewFindingsAre ==
  ASSUME NEW h, h.answer \in Answers
  PROVE  /\ IsList(NewFindings(h)) /\ DOMAIN NewFindings(h) = DOMAIN h.answer
         /\ \A i \in DOMAIN h.answer : NewFindings(h)[i].severity = h.answer[i].severity
<1> DEFINE a == h.answer
           new == NewFindings(h)
           f == [i \in DOMAIN a |-> [severity |-> a[i].severity,
                                     category |-> CategoryOf(a[i], queries[h.turn]),
                                     turn |-> h.turn]]
<1>1. a \in Seq(Elements)
  BY AnswersAssumption
<1>2. Len(a) \in Nat /\ DOMAIN a = 1..Len(a)
  BY <1>1
<1>3. new = f
  BY DEF NewFindings
<1>4. DOMAIN f = DOMAIN a /\ \A i \in DOMAIN a : f[i].severity = a[i].severity
  OBVIOUS
<1>5. f = [i \in DOMAIN a |-> f[i]]
  OBVIOUS
<1> HIDE DEF f
<1>6. IsList(f)
  BY <1>2, <1>4, <1>5, ListOf
<1> HIDE DEF new
<1>7. QED
  BY <1>3, <1>4, <1>6 DEF new

LEMMA AnsweredKeeps ==
  ASSUME PerplexityInv, Answered
  PROVE  PerplexityInv' /\ PerplexityFound \subseteq PerplexityFound'
<1>1. PICK answer \in Answers : heard' = Append(heard, [turn |-> turn, answer |-> answer])
  BY DEF Answered
<1> DEFINE h == [turn |-> turn, answer |-> answer]
           n == Len(heard)
<1>2. /\ IsList(heard') /\ n \in Nat /\ DOMAIN heard = 1..n
      /\ Len(heard') = n + 1 /\ DOMAIN heard' = 1..(n + 1)
      /\ \A i \in 1..n : heard'[i] = heard[i]
      /\ heard'[n + 1] = h
  BY <1>1, AppendIs DEF PerplexityInv
<1>3. /\ at = "post" /\ at' = "collect" /\ findings' = findings /\ exit' = exit
      /\ Severities' = Severities
  BY DEF Answered, output, Severities
<1>4. \A k \in 1..n : /\ heard[k].answer \in Answers
                      /\ NamesP0(heard[k]) => "P0" \in Severities
  BY <1>2, <1>3 DEF PerplexityInv
<1>5. h.answer \in Answers
  OBVIOUS
<1> HIDE DEF h, n
<1>6. \A k \in 1..(n + 1) : k = n + 1 \/ k \in 1..n
  BY <1>2
<1>7. \A k \in DOMAIN heard' : heard'[k].answer \in Answers
  BY <1>2, <1>4, <1>5, <1>6
<1>8. \A k \in DOMAIN heard' : NamesP0(heard'[k]) /\ k # Len(heard') => "P0" \in Severities
  BY <1>2, <1>4, <1>6
<1>9. heard' # <<>>
  BY <1>2, EmptyIsList
<1>10. PerplexityInv'
  BY <1>2, <1>3, <1>7, <1>8, <1>9 DEF PerplexityInv, NamesP0
<1>11. PerplexityFound \subseteq PerplexityFound'
  BY <1>2 DEF PerplexityFound
<1>12. QED
  BY <1>10, <1>11

LEMMA CollectKeeps == ASSUME PerplexityInv, Collect PROVE PerplexityInv'
<1> DEFINE n == Len(heard)
           new == NewFindings(Last(heard))
<1>1. /\ at = "collect" /\ at' = "query" /\ findings' = findings \o new
      /\ heard' = heard /\ exit' = exit /\ heard # <<>>
  BY DEF Collect, output, PerplexityInv
<1>2. n \in Nat /\ DOMAIN heard = 1..n
  BY ListIs DEF PerplexityInv, IsList
<1>3. n # 0
  BY <1>1 DEF PerplexityInv, IsList
<1>4. n \in DOMAIN heard /\ Last(heard) = heard[n]
  BY <1>2, <1>3 DEF Last
<1>5. heard[n].answer \in Answers
  BY <1>4 DEF PerplexityInv
<1>6. /\ IsList(new) /\ DOMAIN new = DOMAIN heard[n].answer
      /\ \A i \in DOMAIN new : new[i].severity = heard[n].answer[i].severity
  BY <1>4, <1>5, NewFindingsAre
<1>7. IsList(findings)
  BY DEF PerplexityInv
<1> HIDE DEF new
<1> DEFINE both == findings \o new
<1>8. /\ IsList(both) /\ DOMAIN findings = 1..Len(findings) /\ DOMAIN new = 1..Len(new)
      /\ Len(findings) \in Nat /\ Len(new) \in Nat
      /\ DOMAIN both = 1..(Len(findings) + Len(new))
      /\ \A i \in 1..Len(findings) : both[i] = findings[i]
      /\ \A i \in 1..Len(new) : both[Len(findings) + i] = new[i]
  BY <1>6, <1>7, ConcatIs
<1>9. findings' = both
  BY <1>1
<1> HIDE DEF both, n
<1>10. "P0" \in Severities => "P0" \in Severities'
  <2>1. \A i \in DOMAIN findings : i \in DOMAIN both /\ both[i] = findings[i]
    BY <1>8
  <2>2. QED
    BY <2>1, <1>9 DEF Severities
<1>11. NamesP0(heard[n]) => "P0" \in Severities'
  <2>1. \A i \in DOMAIN new : Len(findings) + i \in DOMAIN both /\ both[Len(findings) + i] = new[i]
    BY <1>8
  <2>2. NamesP0(heard[n]) => \E i \in DOMAIN new : new[i].severity = "P0"
    BY <1>6 DEF NamesP0
  <2>3. QED
    BY <2>1, <2>2, <1>9 DEF Severities
<1>12. \A k \in DOMAIN heard : NamesP0(heard[k]) => "P0" \in Severities'
  BY <1>1, <1>10, <1>11 DEF PerplexityInv, n
<1>13. QED
  BY <1>1, <1>8, <1>9, <1>12 DEF PerplexityInv, NamesP0

LEMMA PerplexityGateStep ==
  ASSUME PerplexityInv, [Next]_vars
  PROVE  PerplexityInv' /\ [PerplexityGate!GateNext]_<<PerplexityFound, PerplexityVerdict>>
<1>0. None # 0 /\ None # 1
  BY NoneAssumption
<1>1. CASE Answered
  <2>1. PerplexityInv' /\ PerplexityFound \subseteq PerplexityFound'
    BY <1>1, AnsweredKeeps
  <2>2. exit = None /\ exit' = None
    BY <1>1 DEF Answered, output, PerplexityInv
  <2>3. PerplexityGate!Find
    BY <2>1, <2>2, <1>0 DEF PerplexityGate!Find, PerplexityVerdict
  <2>4. QED
    BY <2>1, <2>3 DEF PerplexityGate!GateNext
<1>2. CASE Collect
  <2>1. PerplexityInv'
    BY <1>2, CollectKeeps
  <2>2. UNCHANGED <<heard, exit>>
    BY <1>2 DEF Collect, output
  <2>3. UNCHANGED <<PerplexityFound, PerplexityVerdict>>
    BY <2>2 DEF PerplexityFound, PerplexityVerdict
  <2>4. QED
    BY <2>1, <2>3
<1>3. CASE Exit \/ Crash
  <2>1. /\ at # "ended" /\ at' = "ended" /\ exit' \in {0, 1} /\ UNCHANGED <<heard, findings>>
    BY <1>3 DEF Exit, Crash, ExitCode, audit
  <2>2. exit = None
    BY <2>1 DEF PerplexityInv
  <2>3. PerplexityInv'
    BY <2>1 DEF PerplexityInv
  <2>4. UNCHANGED PerplexityFound
    BY <2>1 DEF PerplexityFound
  <2>5. CASE exit' = 1
    <3>1. PerplexityGate!Refuse
      BY <2>2, <2>4, <2>5, <1>0 DEF PerplexityGate!Refuse, PerplexityVerdict
    <3>2. QED
      BY <2>3, <3>1 DEF PerplexityGate!GateNext
  <2>6. CASE exit' = 0
    <3>1. at = "exit" /\ "P0" \notin Severities
      BY <2>6, <1>3 DEF Exit, Crash, ExitCode
    <3>2. PerplexityFound = {}
      BY <3>1 DEF PerplexityInv, PerplexityFound, NamesP0
    <3>3. PerplexityGate!Pass
      BY <2>2, <2>4, <2>6, <3>2, <1>0 DEF PerplexityGate!Pass, PerplexityVerdict
    <3>4. QED
      BY <2>3, <3>3 DEF PerplexityGate!GateNext
  <2>7. QED
    BY <2>1, <2>5, <2>6
<1>4. CASE \/ RateLimit \/ Retry \/ GiveUp \/ Scan \/ BuildReport
           \/ WriteJson \/ WriteMarkdown \/ WritePack \/ PacksDone \/ UNCHANGED vars
  <2>1. /\ UNCHANGED <<heard, findings, exit>>
        /\ at' = at \/ (at \notin {"collect", "ended"} /\ at' # "collect")
    <3>1. CASE RateLimit \/ Retry \/ GiveUp \/ Scan
      BY <3>1 DEF RateLimit, Retry, GiveUp, Scan, audit, output
    <3>2. CASE BuildReport \/ WriteJson \/ WriteMarkdown \/ WritePack \/ PacksDone
      BY <3>2 DEF BuildReport, WriteJson, WriteMarkdown, WritePack, PacksDone, audit, output
    <3>3. CASE UNCHANGED vars
      BY <3>3 DEF vars, output
    <3>4. QED
      BY <1>4, <3>1, <3>2, <3>3
  <2>2. PerplexityInv'
    BY <2>1 DEF PerplexityInv, Severities
  <2>3. UNCHANGED <<PerplexityFound, PerplexityVerdict>>
    BY <2>1 DEF PerplexityFound, PerplexityVerdict
  <2>4. QED
    BY <2>2, <2>3
<1>5. QED
  BY <1>1, <1>2, <1>3, <1>4 DEF Next

-----------------------------------------------------------------------------
(* The gate of the dispatcher *)

\* Nothing is found before the auditors run; the dispatcher decides when it ends.
GateInv ==
  /\ code \in {"none", "0", "1"} /\ (code # "none" => stage = "ended")
  /\ stage = "select" => results = {}

LEMMA DispatchKeeps ==
  ASSUME GateInv, [DispatchNext]_dispatchVars
  PROVE  /\ GateInv' /\ command' = command
         /\ \/ code' = code /\ results \subseteq results' /\ (code # "none" => results' = results)
            \/ /\ code = "none" /\ code' \in {"0", "1"} /\ results' = results
               /\ code' = "0" => ~ command.strict \/ ~ HasBlocking(results)
<1>1. CASE List \/ Select \/ WriteReport \/ RunApi \/ DiffMain \/ DiffOrigin \/ Compared
  BY <1>1 DEF List, Select, WriteReport, RunApi, DiffMain, DiffOrigin, Compared, End, AuditorEnds,
              input, outcome, GateInv, HasBlocking
<1>2. CASE SelectFails \/ ExitStatus
  BY <1>2 DEF SelectFails, ExitStatus, Uncaught, End, input, GateInv
<1>3. CASE \E a \in Auditors : RunStatic(a)
  BY <1>3 DEF RunStatic, AuditorEnds, input, outcome, GateInv
<1>4. CASE \E file \in TreeFiles : PassOver(file) \/ Compare(file)
  BY <1>4 DEF PassOver, Compare, Uncaught, End, input, outcome, GateInv
<1>5. CASE UNCHANGED dispatchVars
  BY <1>5 DEF dispatchVars, GateInv
<1>6. QED
  BY <1>1, <1>2, <1>3, <1>4, <1>5 DEF DispatchNext, ApiRegression

LEMMA DispatchGateStep ==
  ASSUME GateInv, [DispatchNext]_dispatchVars
  PROVE  GateInv' /\ [DispatchGate!GateNext]_<<DispatchFound, DispatchVerdict>>
<1>1. /\ GateInv' /\ command' = command
      /\ \/ code' = code /\ results \subseteq results' /\ (code # "none" => results' = results)
         \/ /\ code = "none" /\ code' \in {"0", "1"} /\ results' = results
            /\ code' = "0" => ~ command.strict \/ ~ HasBlocking(results)
  BY DispatchKeeps
<1>2. (results' = results => DispatchFound' = DispatchFound)
      /\ (results \subseteq results' => DispatchFound \subseteq DispatchFound')
  BY DEF DispatchFound
<1>3. CASE code' = code /\ code # "none" /\ results' = results
  BY <1>1, <1>2, <1>3 DEF DispatchVerdict
<1>4. CASE code' = code /\ code = "none" /\ results \subseteq results'
  <2>1. DispatchVerdict = "running" /\ DispatchVerdict' = "running"
    BY <1>1, <1>4 DEF DispatchVerdict
  <2>2. DispatchGate!Find
    BY <2>1, <1>2, <1>4 DEF DispatchGate!Find
  <2>3. QED
    BY <2>2, <1>1 DEF DispatchGate!GateNext
<1>5. CASE code = "none" /\ code' \in {"0", "1"} /\ results' = results
  <2>1. DispatchVerdict = "running"
    BY <1>5 DEF DispatchVerdict
  <2>2. CASE ~ command.strict
    <3>1. DispatchVerdict' = "running"
      BY <2>2, <1>1 DEF DispatchVerdict
    <3>2. QED
      BY <3>1, <2>1, <1>1, <1>2, <1>5
  <2>3. CASE command.strict /\ code' = "1"
    <3>1. DispatchVerdict' = "fail"
      BY <2>3, <1>1 DEF DispatchVerdict
    <3>2. QED
      BY <3>1, <2>1, <1>1, <1>2, <1>5 DEF DispatchGate!GateNext, DispatchGate!Refuse
  <2>4. CASE command.strict /\ code' = "0"
    <3>1. DispatchVerdict' = "pass"
      BY <2>4, <1>1 DEF DispatchVerdict
    <3>2. DispatchFound = {}
      BY <2>4, <1>1, <1>5 DEF HasBlocking, DispatchFound
    <3>3. QED
      BY <3>1, <3>2, <2>1, <1>1, <1>2, <1>5 DEF DispatchGate!GateNext, DispatchGate!Pass
  <2>5. QED
    BY <2>2, <2>3, <2>4, <1>5
<1>6. QED
  BY <1>1, <1>3, <1>4, <1>5

-----------------------------------------------------------------------------
(* Both audits are gates, whatever they look at, hear and run into: once   *)
(* something blocking is found the exit code is not 0, and the exit code   *)
(* is decided once (perplexity_audit_agent.py:738-746, 852-857;            *)
(* audit_dispatch.py:139-177).  Each step of either implements a step of   *)
(* BuildGate or stutters.                                                  *)
THEOREM AuditsImplementGate == AuditsSpec => GatesHold
<1>1. AuditsInit => /\ PerplexityInv /\ GateInv
                    /\ PerplexityGate!GateInit /\ DispatchGate!GateInit
  <2> SUFFICES ASSUME AuditsInit
               PROVE  /\ PerplexityInv /\ GateInv
                      /\ PerplexityGate!GateInit /\ DispatchGate!GateInit
    OBVIOUS
  <2>1. heard = <<>> /\ findings = <<>> /\ exit = None /\ at = "query"
    BY DEF AuditsInit, Init, PerplexityRests
  <2>2. stage = "select" /\ results = {} /\ code = "none"
    BY DEF AuditsInit, DispatchInit, DispatchRests
  <2>3. PerplexityInv /\ PerplexityFound = {}
    BY <2>1, EmptyIsList DEF PerplexityInv, PerplexityFound
  <2>4. GateInv /\ DispatchFound = {}
    BY <2>2 DEF GateInv, DispatchFound
  <2>5. PerplexityVerdict = "running" /\ DispatchVerdict = "running"
    BY <2>1, <2>2, NoneAssumption DEF PerplexityVerdict, DispatchVerdict
  <2>6. QED
    BY <2>3, <2>4, <2>5 DEF PerplexityGate!GateInit, DispatchGate!GateInit
<1>2. PerplexityInv /\ GateInv /\ [AuditsNext]_all =>
        /\ (PerplexityInv /\ GateInv)'
        /\ [PerplexityGate!GateNext]_<<PerplexityFound, PerplexityVerdict>>
        /\ [DispatchGate!GateNext]_<<DispatchFound, DispatchVerdict>>
  <2>1. [AuditsNext]_all => [Next]_vars /\ [DispatchNext]_dispatchVars
    BY DEF AuditsNext, all
  <2>2. QED
    BY <2>1, PerplexityGateStep, DispatchGateStep
<1>3. QED
  BY <1>1, <1>2, PTL
     DEF AuditsSpec, GatesHold, PerplexityGate!GateSpec, DispatchGate!GateSpec,
         PerplexityGate!gateVars, DispatchGate!gateVars

-----------------------------------------------------------------------------
(* What the findings are *)

LEMMA SameList ==
  ASSUME NEW s, NEW t, IsList(s), IsList(t), Len(s) = Len(t),
         \A i \in 1..Len(s) : s[i] = t[i]
  PROVE  s = t
<1> DEFINE S == {s[i] : i \in DOMAIN s} \cup {t[i] : i \in DOMAIN t}
<1>1. s \in Seq(S) /\ t \in Seq(S)
  BY DEF IsList
<1> HIDE DEF S
<1>2. QED
  BY <1>1, SeqEqual

\* A list is its front and its last element.
LEMMA FrontIs ==
  ASSUME NEW s, IsList(s), s # <<>>
  PROVE  /\ IsList(Front(s)) /\ Len(s) \in Nat \ {0} /\ Len(Front(s)) = Len(s) - 1
         /\ DOMAIN s = 1..Len(s) /\ DOMAIN Front(s) = 1..(Len(s) - 1)
         /\ \A i \in 1..(Len(s) - 1) : Front(s)[i] = s[i]
         /\ Last(s) = s[Len(s)] /\ s = Append(Front(s), Last(s))
<1> DEFINE n == Len(s)
           S == {s[i] : i \in DOMAIN s}
           front == SubSeq(s, 1, n - 1)
<1>1. s \in Seq(S) /\ n \in Nat /\ n # 0 /\ DOMAIN s = 1..n
  BY ListIs DEF IsList
<1>2. \A i \in 1..n : s[i] \in S
  BY <1>1
<1> HIDE DEF S, n
<1>3. 1 \in Int /\ n - 1 \in Int /\ \A i \in 1..(n - 1) : s[i] \in S
  BY <1>1, <1>2
<1>4. /\ front \in Seq(S) /\ Len(front) = (IF 1 <= n - 1 THEN n - 1 - 1 + 1 ELSE 0)
      /\ \A i \in 1..(n - 1 - 1 + 1) : front[i] = s[1 + i - 1]
  BY <1>3, SubSeqProperties
<1> HIDE DEF front
<1>5. Len(front) = n - 1 /\ n - 1 - 1 + 1 = n - 1
  BY <1>1, <1>4
<1>6. \A i \in 1..(n - 1) : front[i] = s[i]
  <2>1. \A i \in 1..(n - 1) : 1 + i - 1 = i
    BY <1>1
  <2>2. QED
    BY <1>4, <1>5, <2>1
<1>7. Front(s) = front /\ Last(s) = s[n]
  BY DEF Front, Last, front, n
<1>8. IsList(front) /\ DOMAIN front = 1..(n - 1)
  BY <1>4, <1>5, ListIs
<1>9. s = Append(front, s[n])
  <2>1. /\ IsList(Append(front, s[n])) /\ Len(Append(front, s[n])) = Len(front) + 1
        /\ \A i \in 1..Len(front) : Append(front, s[n])[i] = front[i]
        /\ Append(front, s[n])[Len(front) + 1] = s[n]
    BY <1>8, AppendIs
  <2>2. Len(front) + 1 = n /\ \A i \in 1..n : i = n \/ i \in 1..(n - 1)
    BY <1>1, <1>5
  <2>3. \A i \in 1..n : s[i] = Append(front, s[n])[i]
    BY <1>5, <1>6, <2>1, <2>2
  <2>4. QED
    BY <2>1, <2>2, <2>3, SameList DEF n
<1>10. QED
  BY <1>1, <1>5, <1>6, <1>7, <1>8, <1>9 DEF n

LEMMA FrontOfAppend ==
  ASSUME NEW s, IsList(s), NEW e
  PROVE  Front(Append(s, e)) = s /\ Last(Append(s, e)) = e /\ Append(s, e) # <<>>
<1> DEFINE t == Append(s, e)
<1>1. /\ IsList(t) /\ Len(s) \in Nat /\ Len(t) = Len(s) + 1 /\ DOMAIN t = 1..(Len(s) + 1)
      /\ \A i \in 1..Len(s) : t[i] = s[i]
      /\ t[Len(s) + 1] = e
  BY AppendIs
<1>2. t # <<>>
  BY <1>1, EmptyIsList
<1> HIDE DEF t
<1>3. /\ IsList(Front(t)) /\ Len(Front(t)) = Len(t) - 1 /\ Last(t) = t[Len(t)]
      /\ \A i \in 1..(Len(t) - 1) : Front(t)[i] = t[i]
  BY <1>1, <1>2, FrontIs
<1>4. Len(t) - 1 = Len(s)
  BY <1>1
<1>5. Front(t) = s
  BY <1>1, <1>3, <1>4, SameList
<1>6. QED
  BY <1>1, <1>2, <1>3, <1>5 DEF t

SaidLists == [i \in DOMAIN Taken |-> NewFindings(Taken[i])]

\* What is asked after an answer is of a later query; only an answer that is
\* being collected, or that a junk element ended the audit in, is pending.
TurnsInOrder ==
  /\ turn \in Nat /\ turn >= 1 /\ (at \in {"post", "collect"} => turn <= Len(queries))
  /\ IsList(heard)
  /\ \A k \in DOMAIN heard : /\ heard[k].answer \in Answers
                             /\ heard[k].turn \in Nat /\ heard[k].turn <= turn
  /\ \A i, j \in DOMAIN heard : i < j => heard[i].turn < heard[j].turn
  /\ at = "collect" => Pending
  /\ at \notin {"collect", "ended"} => ~ Pending

FindingsSaid == IsList(findings) /\ findings = Said

HeardInv == TurnsInOrder /\ FindingsSaid

\* An answer that is not pending is of a query before the one in hand.
LEMMA TurnsBefore ==
  ASSUME TurnsInOrder, ~ Pending
  PROVE  \A k \in DOMAIN heard : heard[k].turn < turn
<1> SUFFICES ASSUME NEW k \in DOMAIN heard PROVE heard[k].turn < turn
  OBVIOUS
<1> DEFINE n == Len(heard)
<1>1. /\ turn \in Nat /\ IsList(heard)
      /\ \A j \in DOMAIN heard : heard[j].turn \in Nat /\ heard[j].turn <= turn
      /\ \A i, j \in DOMAIN heard : i < j => heard[i].turn < heard[j].turn
  BY DEF TurnsInOrder
<1>2. heard # <<>>
  BY EmptyIsList
<1>3. n \in Nat \ {0} /\ DOMAIN heard = 1..n /\ Last(heard) = heard[n]
  BY <1>1, <1>2, FrontIs
<1>4. heard[n].turn # turn
  BY <1>2, <1>3 DEF Pending
<1> HIDE DEF n
<1>5. n \in DOMAIN heard /\ (k = n \/ k < n)
  BY <1>3
<1>6. heard[n].turn < turn
  BY <1>1, <1>4, <1>5
<1>7. heard[k].turn \in Nat /\ heard[n].turn \in Nat /\ (k < n => heard[k].turn < heard[n].turn)
  BY <1>1, <1>5
<1>8. QED
  BY <1>1, <1>5, <1>6, <1>7

\* What is taken is what makes the findings, wherever it stands.
LEMMA SameSaid == ASSUME UNCHANGED queries, Taken' = Taken PROVE Said' = Said
  BY DEF Said, NewFindings, CategoryOf

LEMMA QuietSteps ==
  ASSUME HeardInv,
         \/ RateLimit \/ Retry \/ Scan \/ BuildReport \/ WriteJson \/ WriteMarkdown \/ WritePack
         \/ PacksDone \/ Exit \/ Crash \/ UNCHANGED vars
  PROVE  HeardInv'
<1>1. UNCHANGED <<queries, turn, heard, findings>>
  <2>1. CASE RateLimit \/ Retry
    BY <2>1 DEF RateLimit, Retry, asked
  <2>2. CASE \/ Scan \/ BuildReport \/ WriteJson \/ WriteMarkdown \/ WritePack
             \/ PacksDone \/ Exit \/ Crash
    BY <2>2 DEF Scan, BuildReport, WriteJson, WriteMarkdown, WritePack, PacksDone, Exit, Crash,
                audit, asked
  <2>3. CASE UNCHANGED vars
    BY <2>3 DEF vars
  <2>4. QED
    BY <2>1, <2>2, <2>3
<1>2. \/ at' = at
      \/ at' = "ended"
      \/ at \notin {"collect", "ended"} /\ at' \notin {"collect", "ended", "post"}
      \/ at \notin {"collect", "ended"} /\ at' = "post" /\ turn <= Len(queries)
  <2>1. CASE RateLimit \/ Retry
    BY <2>1 DEF RateLimit, Retry
  <2>2. CASE \/ Scan \/ BuildReport \/ WriteJson \/ WriteMarkdown \/ WritePack
             \/ PacksDone \/ Exit \/ Crash
    BY <2>2 DEF Scan, BuildReport, WriteJson, WriteMarkdown, WritePack, PacksDone, Exit, Crash
  <2>3. CASE UNCHANGED vars
    BY <2>3 DEF vars
  <2>4. QED
    BY <2>1, <2>2, <2>3
<1>3. Pending' = Pending /\ Taken' = Taken
  BY <1>1 DEF Pending, Taken
<1>4. Said' = Said
  BY <1>1, <1>3, SameSaid
<1>5. TurnsInOrder'
  BY <1>1, <1>2, <1>3 DEF HeardInv, TurnsInOrder
<1>6. QED
  BY <1>1, <1>4, <1>5 DEF HeardInv, FindingsSaid

\* The answer to a query that was not answered before.
LEMMA AnswerHeard == ASSUME HeardInv, Answered PROVE HeardInv'
<1>1. PICK answer \in Answers : heard' = Append(heard, [turn |-> turn, answer |-> answer])
  BY DEF Answered
<1> DEFINE h == [turn |-> turn, answer |-> answer]
           n == Len(heard)
<1>2. /\ at = "post" /\ at' = "collect" /\ UNCHANGED <<queries, turn, findings>>
      /\ turn \in Nat /\ turn >= 1 /\ turn <= Len(queries)
  BY DEF Answered, asked, HeardInv, TurnsInOrder
<1>3. ~ Pending /\ Taken = heard
  BY <1>2 DEF HeardInv, TurnsInOrder, Taken
<1>4. /\ IsList(heard)
      /\ \A k \in DOMAIN heard : heard[k].answer \in Answers /\ heard[k].turn \in Nat
      /\ \A i, j \in DOMAIN heard : i < j => heard[i].turn < heard[j].turn
      /\ \A k \in DOMAIN heard : heard[k].turn < turn
  BY <1>3, TurnsBefore DEF HeardInv, TurnsInOrder
<1>5. /\ IsList(heard') /\ DOMAIN heard = 1..n /\ DOMAIN heard' = 1..(n + 1) /\ n \in Nat
      /\ \A i \in 1..n : heard'[i] = heard[i]
      /\ heard'[n + 1] = h
  BY <1>1, <1>4, AppendIs
<1>6. Front(heard') = heard /\ Last(heard') = h /\ heard' # <<>>
  BY <1>1, <1>4, FrontOfAppend
<1>7. h.answer \in Answers /\ h.turn = turn
  OBVIOUS
<1> HIDE DEF h, n
<1>8. Pending' /\ Taken' = heard
  BY <1>2, <1>6, <1>7 DEF Pending, Taken
<1>9. Said' = Said
  BY <1>2, <1>3, <1>8, SameSaid
<1>10. \A k \in 1..(n + 1) : k = n + 1 \/ k \in 1..n
  BY <1>5
<1>11. \A k \in DOMAIN heard' : /\ heard'[k].answer \in Answers
                                /\ heard'[k].turn \in Nat /\ heard'[k].turn <= turn
  BY <1>2, <1>4, <1>5, <1>7, <1>10
<1>12. \A i, j \in DOMAIN heard' : i < j => heard'[i].turn < heard'[j].turn
  <2> SUFFICES ASSUME NEW i \in 1..(n + 1), NEW j \in 1..(n + 1), i < j
               PROVE  heard'[i].turn < heard'[j].turn
    BY <1>5
  <2>1. i \in 1..n /\ heard'[i] = heard[i]
    BY <1>5
  <2>2. CASE j = n + 1
    BY <2>1, <2>2, <1>4, <1>5, <1>7
  <2>3. CASE j # n + 1
    BY <2>1, <2>3, <1>4, <1>5, <1>10
  <2>4. QED
    BY <2>2, <2>3
<1>13. TurnsInOrder'
  BY <1>2, <1>5, <1>8, <1>11, <1>12 DEF TurnsInOrder
<1>14. FindingsSaid'
  BY <1>2, <1>9 DEF HeardInv, FindingsSaid
<1>15. QED
  BY <1>13, <1>14 DEF HeardInv

\* The next query has no answer yet.
LEMMA NextTurn ==
  ASSUME TurnsInOrder, turn' = turn + 1, UNCHANGED <<heard, queries>>, at' = "query"
  PROVE  TurnsInOrder' /\ ~ Pending' /\ Taken' = heard
<1>1. /\ turn \in Nat /\ IsList(heard)
      /\ \A k \in DOMAIN heard : heard[k].turn \in Nat /\ heard[k].turn <= turn
  BY DEF TurnsInOrder
<1>2. heard # <<>> => Last(heard).turn # turn + 1
  <2> SUFFICES ASSUME heard # <<>> PROVE Last(heard).turn # turn + 1
    OBVIOUS
  <2>1. Len(heard) \in DOMAIN heard /\ Last(heard) = heard[Len(heard)]
    BY <1>1, FrontIs
  <2>2. QED
    BY <1>1, <2>1
<1>3. ~ Pending'
  BY <1>2 DEF Pending
<1>4. Taken' = heard
  BY <1>3 DEF Taken
<1>5. \A k \in DOMAIN heard : heard[k].turn <= turn + 1
  BY <1>1
<1>6. TurnsInOrder'
  BY <1>1, <1>3, <1>5 DEF TurnsInOrder
<1>7. QED
  BY <1>3, <1>4, <1>6

LEMMA GivenUp == ASSUME HeardInv, GiveUp PROVE HeardInv'
<1>1. /\ at = "post" /\ at' = "query" /\ UNCHANGED <<queries, heard, findings>>
      /\ turn' = turn + 1
  BY DEF GiveUp, asked
<1>2. TurnsInOrder' /\ Taken' = heard
  BY <1>1, NextTurn DEF HeardInv
<1>3. Taken = heard
  BY <1>1 DEF HeardInv, TurnsInOrder, Taken
<1>4. Said' = Said
  BY <1>1, <1>2, <1>3, SameSaid
<1>5. QED
  BY <1>1, <1>2, <1>4 DEF HeardInv, FindingsSaid

\* The findings of the answer follow those of the answers before it.
LEMMA SaidGrows ==
  ASSUME NEW s, IsList(s), s # <<>>
  PROVE  /\ IsList([i \in DOMAIN Front(s) |-> NewFindings(Front(s)[i])])
         /\ [i \in DOMAIN s |-> NewFindings(s[i])]
              = Append([i \in DOMAIN Front(s) |-> NewFindings(Front(s)[i])], NewFindings(Last(s)))
<1> DEFINE n == Len(s)
           front == [i \in DOMAIN Front(s) |-> NewFindings(Front(s)[i])]
           whole == [i \in DOMAIN s |-> NewFindings(s[i])]
           more == Append(front, NewFindings(Last(s)))
<1>1. /\ n \in Nat \ {0} /\ DOMAIN s = 1..n /\ DOMAIN Front(s) = 1..(n - 1)
      /\ \A i \in 1..(n - 1) : Front(s)[i] = s[i]
      /\ Last(s) = s[n]
  BY FrontIs
<1>2. DOMAIN front = 1..(n - 1) /\ DOMAIN whole = 1..n /\ n - 1 \in Nat /\ n \in Nat
  BY <1>1
<1>3. IsList(front) /\ Len(front) = n - 1
  BY <1>2, ListOf
<1>4. IsList(whole) /\ Len(whole) = n
  BY <1>2, ListOf
<1>5. /\ \A i \in 1..(n - 1) : front[i] = NewFindings(s[i])
      /\ \A i \in 1..n : whole[i] = NewFindings(s[i])
  BY <1>1
<1> HIDE DEF n, front, whole
<1>6. /\ IsList(more) /\ Len(more) = Len(front) + 1
      /\ \A i \in 1..Len(front) : more[i] = front[i]
      /\ more[Len(front) + 1] = NewFindings(Last(s))
  BY <1>3, AppendIs
<1> HIDE DEF more
<1>7. \A i \in 1..n : i = n \/ i \in 1..(n - 1)
  BY <1>1
<1>8. Len(front) + 1 = n
  BY <1>1, <1>3
<1>9. \A i \in 1..n : whole[i] = more[i]
  BY <1>1, <1>3, <1>5, <1>6, <1>7, <1>8
<1>10. whole = more
  BY <1>4, <1>6, <1>8, <1>9, SameList
<1>11. QED
  BY <1>3, <1>10 DEF front, whole, more

LEMMA Collected == ASSUME HeardInv, Collect PROVE HeardInv'
<1> DEFINE new == NewFindings(Last(heard))
<1>1. /\ at = "collect" /\ at' = "query" /\ UNCHANGED <<queries, heard>>
      /\ findings' = findings \o new /\ turn' = turn + 1
  BY DEF Collect, asked
<1>2. TurnsInOrder' /\ Taken' = heard
  BY <1>1, NextTurn DEF HeardInv
<1>3. Pending /\ Taken = Front(heard) /\ heard # <<>> /\ IsList(heard)
  BY <1>1 DEF HeardInv, TurnsInOrder, Taken, Pending
<1>4. IsList(new)
  <2>1. Len(heard) \in DOMAIN heard /\ Last(heard) = heard[Len(heard)]
    BY <1>3, FrontIs
  <2>2. Last(heard).answer \in Answers
    BY <2>1 DEF HeardInv, TurnsInOrder
  <2>3. QED
    BY <2>2, NewFindingsAre
<1>5. IsList(SaidLists) /\ SaidLists' = Append(SaidLists, new)
  <2>1. /\ SaidLists = [i \in DOMAIN Front(heard) |-> NewFindings(Front(heard)[i])]
        /\ SaidLists' = [i \in DOMAIN heard |-> NewFindings(heard[i])]
    BY <1>1, <1>2, <1>3 DEF SaidLists, NewFindings, CategoryOf
  <2>2. QED
    BY <2>1, <1>3, SaidGrows
<1>6. Said = FlattenSeq(SaidLists) /\ Said' = FlattenSeq(SaidLists')
  BY DEF Said, SaidLists
<1> HIDE DEF new
<1>7. findings' = Said'
  BY <1>1, <1>4, <1>5, <1>6, FlattenAppend DEF HeardInv, FindingsSaid
<1>8. IsList(findings')
  BY <1>1, <1>4, ConcatIs DEF HeardInv, FindingsSaid
<1>9. QED
  BY <1>2, <1>7, <1>8 DEF HeardInv, FindingsSaid

LEMMA HeardStart == ASSUME Init PROVE HeardInv
<1>1. turn = 1 /\ at = "query" /\ heard = <<>> /\ findings = <<>>
  BY DEF Init
<1>2. ~ Pending /\ Taken = <<>>
  BY <1>1 DEF Taken, Pending
<1>3. TurnsInOrder
  BY <1>1, <1>2, EmptyIsList DEF TurnsInOrder
<1>4. Said = <<>>
  <2>1. SaidLists = <<>>
    BY <1>2 DEF SaidLists
  <2>2. QED
    BY <2>1, FlattenEmpty DEF Said, SaidLists
<1>5. QED
  BY <1>1, <1>3, <1>4, EmptyIsList DEF HeardInv, FindingsSaid

LEMMA HeardStep == ASSUME HeardInv, [Next]_vars PROVE HeardInv'
  BY QuietSteps, AnswerHeard, GivenUp, Collected DEF Next

-----------------------------------------------------------------------------
(* The categories of the findings *)

\* Lists of elements of T make a list of elements of T.
LEMMA FlattenIn ==
  ASSUME NEW s, Len(s) \in Nat, NEW T, \A i \in 1..Len(s) : s[i] \in Seq(T)
  PROVE  FlattenSeq(s) \in Seq(T)
<1> DEFINE n == Len(s)
<1>1. PICK f : Sums(f, s, n)
  BY SumsExist
<1>2. \A i \in 1..n : f[i] = IF i = 1 THEN s[i] ELSE f[i - 1] \o s[i]
  BY <1>1, SumsIs
<1> DEFINE bad == {i \in 1..n : f[i] \notin Seq(T)}
<1>3. ASSUME bad # {} PROVE FALSE
  <2>1. bad \in SUBSET Nat
    OBVIOUS
  <2>2. PICK i \in bad : \A j \in bad : i <= j
    BY <1>3, <2>1, LeastIndex
  <2>3. i \in 1..n /\ f[i] \notin Seq(T) /\ s[i] \in Seq(T)
    BY <2>2
  <2>4. i # 1
    BY <1>2, <2>3
  <2>5. i - 1 \in 1..n /\ ~ i <= i - 1
    BY <2>3, <2>4
  <2>6. f[i - 1] \in Seq(T)
    BY <2>2, <2>5
  <2>7. f[i] = f[i - 1] \o s[i]
    BY <1>2, <2>3, <2>4
  <2>8. QED
    BY <2>3, <2>6, <2>7
<1>4. CASE n = 0
  <2>1. FlattenSeq(s) = <<>>
    BY <1>4 DEF FlattenSeq
  <2>2. QED
    BY <2>1
<1>5. CASE n # 0
  <2>1. FlattenSeq(s) = f[n] /\ n \in 1..n
    BY <1>1, <1>5, FlattenIs
  <2>2. QED
    BY <1>3, <2>1
<1>6. QED
  BY <1>4, <1>5

\* Lists of one element per element, for those that qualify.
LEMMA ThoseIn ==
  ASSUME NEW s, s \in Seq(ToSet(s)), NEW S
  PROVE  Those(s, S) \in Seq(ToSet(s))
<1> DEFINE T == ToSet(s)
           p == [i \in DOMAIN s |-> IF s[i] \in S THEN <<s[i]>> ELSE <<>>]
<1>1. Len(s) \in Nat /\ DOMAIN s = 1..Len(s) /\ \A i \in DOMAIN s : s[i] \in T
  BY DEF ToSet
<1> HIDE DEF T
<1>2. DOMAIN p = 1..Len(s) /\ \A i \in 1..Len(s) : p[i] \in Seq(T)
  BY <1>1
<1>3. p = [i \in 1..Len(s) |-> p[i]]
  BY <1>1
<1> HIDE DEF p
<1>4. Len(p) = Len(s)
  BY <1>1, <1>2, <1>3, ListOf
<1>5. FlattenSeq(p) \in Seq(T)
  BY <1>1, <1>2, <1>4, FlattenIn
<1>6. QED
  BY <1>5 DEF Those, p, T

\* The pairs of two lists, whichever is the outer one.
LEMMA ByOuter ==
  ASSUME NEW A, NEW B, NEW a \in Seq(A), NEW b \in Seq(B)
  PROVE  /\ FlattenSeq([i \in DOMAIN a |-> [j \in DOMAIN b |-> <<a[i], b[j]>>]]) \in Seq(A \X B)
         /\ FlattenSeq([i \in DOMAIN b |-> [j \in DOMAIN a |-> <<a[j], b[i]>>]]) \in Seq(A \X B)
<1>1. /\ Len(a) \in Nat /\ DOMAIN a = 1..Len(a) /\ \A i \in 1..Len(a) : a[i] \in A
      /\ Len(b) \in Nat /\ DOMAIN b = 1..Len(b) /\ \A i \in 1..Len(b) : b[i] \in B
  OBVIOUS
<1>2. FlattenSeq([i \in DOMAIN a |-> [j \in DOMAIN b |-> <<a[i], b[j]>>]]) \in Seq(A \X B)
  <2> DEFINE p == [i \in DOMAIN a |-> [j \in DOMAIN b |-> <<a[i], b[j]>>]]
  <2>1. ASSUME NEW i \in 1..Len(a) PROVE p[i] \in Seq(A \X B)
    <3>1. p[i] = [j \in 1..Len(b) |-> <<a[i], b[j]>>]
      BY <1>1
    <3>2. \A j \in 1..Len(b) : <<a[i], b[j]>> \in A \X B
      BY <1>1
    <3> HIDE DEF p
    <3>3. QED
      BY <1>1, <3>1, <3>2
  <2>2. DOMAIN p = 1..Len(a) /\ p = [i \in 1..Len(a) |-> p[i]]
    BY <1>1
  <2> HIDE DEF p
  <2>3. Len(p) = Len(a)
    BY <1>1, <2>2, ListOf
  <2>4. FlattenSeq(p) \in Seq(A \X B)
    BY <1>1, <2>1, <2>3, FlattenIn
  <2>5. QED
    BY <2>4 DEF p
<1>3. FlattenSeq([i \in DOMAIN b |-> [j \in DOMAIN a |-> <<a[j], b[i]>>]]) \in Seq(A \X B)
  <2> DEFINE p == [i \in DOMAIN b |-> [j \in DOMAIN a |-> <<a[j], b[i]>>]]
  <2>1. ASSUME NEW i \in 1..Len(b) PROVE p[i] \in Seq(A \X B)
    <3>1. p[i] = [j \in 1..Len(a) |-> <<a[j], b[i]>>]
      BY <1>1
    <3>2. \A j \in 1..Len(a) : <<a[j], b[i]>> \in A \X B
      BY <1>1
    <3> HIDE DEF p
    <3>3. QED
      BY <1>1, <3>1, <3>2
  <2>2. DOMAIN p = 1..Len(b) /\ p = [i \in 1..Len(b) |-> p[i]]
    BY <1>1
  <2> HIDE DEF p
  <2>3. Len(p) = Len(b)
    BY <1>1, <2>2, ListOf
  <2>4. FlattenSeq(p) \in Seq(A \X B)
    BY <1>1, <2>1, <2>3, FlattenIn
  <2>5. QED
    BY <2>4 DEF p
<1>4. QED
  BY <1>2, <1>3

\* Every query is of a category that has a pack.
LEMMA QueriesIn ==
  ASSUME NEW a \in Args, NEW readable
  PROVE  \E B : Queries(a, readable) \in Seq(AllCategories \X B)
<1> DEFINE A == AllCategories
           files == Those(Files, readable)
           edited == Those(a.changed, readable)
           outer == Scanned(a)
<1>1. \A s \in {Categories, Incremental, Files} : s \in Seq(ToSet(s))
  BY ListsAssumption
<1>2. a.changed \in Seq(ToSet(a.changed))
  <2>1. a.changed = <<>> \/ a.changed \in ChangedLists
    BY DEF Args
  <2>2. <<>> \in Seq(ToSet(<<>>))
    OBVIOUS
  <2>3. QED
    BY <2>1, <2>2, ListsAssumption
<1>3. files \in Seq(ToSet(Files)) /\ edited \in Seq(ToSet(a.changed))
  BY <1>1, <1>2, ThoseIn
<1>4. outer \in Seq(ToSet(Categories))
  <2>1. Categories \in Seq(ToSet(Categories))
    BY <1>1
  <2>2. Those(Categories, {a.category}) \in Seq(ToSet(Categories))
    BY <2>1, ThoseIn
  <2>3. QED
    BY <2>1, <2>2 DEF Scanned
<1>5. ToSet(Categories) \subseteq A /\ ToSet(Incremental) \subseteq A
  BY DEF AllCategories
<1> HIDE DEF A, files, edited, outer
<1>6. outer \in Seq(A) /\ Incremental \in Seq(A)
  BY <1>1, <1>4, <1>5
<1>7. /\ FlattenSeq([i \in DOMAIN outer |-> [j \in DOMAIN files |-> <<outer[i], files[j]>>]])
           \in Seq(A \X ToSet(Files))
      /\ FlattenSeq([i \in DOMAIN edited |-> [j \in DOMAIN Incremental |-> <<Incremental[j], edited[i]>>]])
           \in Seq(A \X ToSet(a.changed))
  BY <1>3, <1>6, ByOuter
<1>8. \/ Queries(a, readable)
           = FlattenSeq([i \in DOMAIN outer |-> [j \in DOMAIN files |-> <<outer[i], files[j]>>]])
      \/ Queries(a, readable)
           = FlattenSeq([i \in DOMAIN edited |->
                           [j \in DOMAIN Incremental |-> <<Incremental[j], edited[i]>>]])
  BY DEF Queries, outer, files, edited
<1>9. QED
  BY <1>7, <1>8 DEF A

Categorized ==
  /\ \E B : queries \in Seq(AllCategories \X B)
  /\ \A i \in DOMAIN findings : findings[i].category \in AllCategories

\* Whatever category an answer names, it is one of those that may be named.
LEMMA NewCategories ==
  ASSUME NEW h, h.answer \in Answers, h.turn \in 1..Len(queries), Categorized
  PROVE  \A i \in DOMAIN NewFindings(h) : NewFindings(h)[i].category \in AllCategories
<1> SUFFICES ASSUME NEW i \in DOMAIN NewFindings(h)
             PROVE  NewFindings(h)[i].category \in AllCategories
  OBVIOUS
<1>1. i \in DOMAIN h.answer /\ DOMAIN h.answer = 1..Len(h.answer)
  BY NewFindingsAre, AnswersAssumption
<1>2. NewFindings(h)[i].category = CategoryOf(h.answer[i], queries[h.turn])
  BY <1>1 DEF NewFindings
<1>3. h.answer[i] \in Elements
  BY <1>1, AnswersAssumption
<1>4. h.answer[i].category \in Named \cup {None}
  BY <1>3 DEF Elements
<1>5. queries[h.turn][1] \in AllCategories
  <2>1. PICK B : queries \in Seq(AllCategories \X B)
    BY DEF Categorized
  <2>2. queries[h.turn] \in AllCategories \X B
    BY <2>1
  <2>3. QED
    BY <2>2
<1>6. QED
  BY <1>2, <1>4, <1>5 DEF CategoryOf, AllCategories

LEMMA CategorizedStep ==
  ASSUME HeardInv, Categorized, [Next]_vars PROVE Categorized'
<1>1. CASE Collect
  <2> DEFINE h == Last(heard)
             new == NewFindings(h)
  <2>1. /\ at = "collect" /\ UNCHANGED queries /\ findings' = findings \o new
    BY <1>1 DEF Collect, asked
  <2>2. Pending /\ heard # <<>> /\ IsList(heard) /\ h.turn = turn /\ turn \in 1..Len(queries)
    <3>1. /\ Pending /\ IsList(heard) /\ turn \in Nat /\ turn >= 1 /\ turn <= Len(queries)
      BY <2>1 DEF HeardInv, TurnsInOrder
    <3>2. Len(queries) \in Nat
      BY DEF Categorized
    <3>3. QED
      BY <3>1, <3>2 DEF Pending
  <2>3. Len(heard) \in DOMAIN heard /\ h = heard[Len(heard)]
    BY <2>2, FrontIs
  <2>4. h.answer \in Answers
    BY <2>3 DEF HeardInv, TurnsInOrder
  <2> HIDE DEF h
  <2>5. IsList(new) /\ \A i \in DOMAIN new : new[i].category \in AllCategories
    BY <2>2, <2>4, NewFindingsAre, NewCategories
  <2>6. IsList(findings) /\ \A i \in DOMAIN findings : findings[i].category \in AllCategories
    BY DEF HeardInv, FindingsSaid, Categorized
  <2> HIDE DEF new
  <2> DEFINE both == findings \o new
  <2>7. /\ DOMAIN findings = 1..Len(findings) /\ DOMAIN new = 1..Len(new)
        /\ Len(findings) \in Nat /\ Len(new) \in Nat
        /\ DOMAIN both = 1..(Len(findings) + Len(new))
        /\ \A i \in 1..Len(findings) : both[i] = findings[i]
        /\ \A i \in 1..Len(new) : both[Len(findings) + i] = new[i]
    BY <2>5, <2>6, ConcatIs
  <2>8. findings' = both
    BY <2>1
  <2> HIDE DEF both
  <2>9. ASSUME NEW i \in DOMAIN both PROVE both[i].category \in AllCategories
    <3>1. CASE i \in 1..Len(findings)
      BY <2>6, <2>7, <3>1
    <3>2. CASE i \notin 1..Len(findings)
      <4> DEFINE j == i - Len(findings)
      <4>1. j \in 1..Len(new) /\ Len(findings) + j = i
        BY <2>7, <3>2
      <4>2. both[i] = new[j]
        BY <4>1, <2>7
      <4>3. QED
        BY <4>1, <4>2, <2>5, <2>7
    <3>3. QED
      BY <3>1, <3>2
  <2>10. QED
    BY <2>1, <2>8, <2>9 DEF Categorized
<1>2. CASE RateLimit \/ Answered \/ Retry \/ GiveUp
  BY <1>2 DEF RateLimit, Answered, Retry, GiveUp, asked, Categorized
<1>3. CASE \/ Scan \/ BuildReport \/ WriteJson \/ WriteMarkdown \/ WritePack
           \/ PacksDone \/ Exit \/ Crash \/ UNCHANGED vars
  BY <1>3 DEF Scan, BuildReport, WriteJson, WriteMarkdown, WritePack, PacksDone, Exit, Crash,
              vars, audit, asked, Categorized
<1>4. QED
  BY <1>1, <1>2, <1>3 DEF Next

-----------------------------------------------------------------------------
(* The phase packs *)

\* A pack is begun when those before it are written; a full audit that gets to
\* its exit code has written them all.
PacksInOrder ==
  /\ packs \in [AllCategories -> 0..PackParts]
  /\ at \notin {"packs", "exit", "ended"} => \A c \in AllCategories : packs[c] = 0
  /\ \A c \in AllCategories :
       packs[c] > 0 => /\ c \in Groups
                       /\ \A d \in Groups \ {c} : Precedes(d, c) => IsWritten(d)
  /\ at = "exit" \/ exit = 0 => IsIncremental(args) \/ \A c \in Groups : IsWritten(c)
  /\ exit \in {0, 1, None} /\ (exit # None => at = "ended")

AuditInv == HeardInv /\ Categorized /\ PacksInOrder

LEMMA GroupsIn == ASSUME AuditInv PROVE Groups \subseteq AllCategories
  BY DEF AuditInv, Categorized, Groups, Eligible

\* Of two packs one comes first: that with a P0, or that whose first finding does.
LEMMA PacksOrdered ==
  ASSUME AuditInv, NEW c \in Groups, NEW d \in Groups, c # d
  PROVE  Precedes(c, d) \/ Precedes(d, c)
<1>1. CASE ~ (IsUrgent(c) <=> IsUrgent(d))
  BY <1>1 DEF Precedes
<1>2. CASE IsUrgent(c) <=> IsUrgent(d)
  <2> DEFINE both == Group(c) \cup Group(d)
  <2>1. /\ Group(c) \in SUBSET Nat /\ Group(d) \in SUBSET Nat
        /\ Group(c) # {} /\ Group(d) # {} /\ Group(c) \cap Group(d) = {}
    <3>1. DOMAIN findings \in SUBSET Nat
      BY ListIs DEF AuditInv, HeardInv, FindingsSaid, IsList
    <3>2. QED
      BY <3>1 DEF Group, Groups, Eligible
  <2>2. PICK k \in both : \A j \in both : k <= j
    <3>1. both \in SUBSET Nat /\ both # {}
      BY <2>1
    <3>2. QED
      BY <3>1, LeastIndex
  <2>3. CASE k \in Group(c)
    <3>1. \A j \in Group(d) : k < j
      BY <2>1, <2>2, <2>3
    <3>2. QED
      BY <1>2, <2>3, <3>1 DEF Precedes
  <2>4. CASE k \in Group(d)
    <3>1. \A j \in Group(c) : k < j
      BY <2>1, <2>2, <2>4
    <3>2. QED
      BY <1>2, <2>4, <3>1 DEF Precedes
  <2>5. QED
    BY <2>2, <2>3, <2>4
<1>3. QED
  BY <1>1, <1>2

LEMMA SameGroups ==
  ASSUME UNCHANGED findings
  PROVE  /\ Groups' = Groups
         /\ \A c : IsUrgent(c)' = IsUrgent(c)
         /\ \A c, d : Precedes(c, d)' = Precedes(c, d)
  BY DEF Groups, Eligible, Group, IsUrgent, Precedes

\* Steps that neither find nor write a pack.
LEMMA PacksRest ==
  ASSUME PacksInOrder, UNCHANGED <<args, findings, packs>>,
         at \in {"packs", "exit", "ended"} => at' \in {"packs", "exit", "ended"},
         at' = "exit" \/ exit' = 0 =>
           IsIncremental(args) \/ \A c \in Groups : IsWritten(c),
         exit' \in {0, 1, None}, exit' # None => at' = "ended"
  PROVE  PacksInOrder'
<1>1. Groups' = Groups /\ \A c, d : Precedes(c, d)' = Precedes(c, d)
  BY SameGroups
<1>2. \A c : IsWritten(c)' = IsWritten(c)
  BY DEF IsWritten
<1>3. \A c \in AllCategories :
        packs'[c] > 0 => /\ c \in Groups'
                         /\ \A d \in Groups' \ {c} : Precedes(d, c)' => IsWritten(d)'
  BY <1>1, <1>2 DEF PacksInOrder
<1>4. at' = "exit" \/ exit' = 0 => IsIncremental(args)' \/ \A c \in Groups' : IsWritten(c)'
  BY <1>1, <1>2 DEF IsIncremental
<1>5. at' \notin {"packs", "exit", "ended"} => \A c \in AllCategories : packs'[c] = 0
  BY DEF PacksInOrder
<1>6. QED
  BY <1>3, <1>4, <1>5 DEF PacksInOrder

LEMMA WritePackKeeps == ASSUME AuditInv, WritePack PROVE PacksInOrder'
<1>1. PICK c \in Groups : /\ ~ IsWritten(c)
                          /\ \A d \in Groups \ {c} : Precedes(d, c) => IsWritten(d)
                          /\ packs' = [packs EXCEPT ![c] = @ + 1]
  BY DEF WritePack
<1>2. at = "packs" /\ at' = "packs" /\ UNCHANGED <<args, findings, exit>>
  BY DEF WritePack, audit, asked
<1>3. packs \in [AllCategories -> 0..PackParts] /\ c \in AllCategories /\ PackParts = 4
  BY <1>1, GroupsIn DEF AuditInv, PacksInOrder, PackParts
<1>4. /\ packs[c] \in 0..3 /\ packs'[c] = packs[c] + 1
      /\ \A d \in AllCategories \ {c} : packs'[d] = packs[d]
      /\ DOMAIN packs' = AllCategories
  BY <1>1, <1>3 DEF IsWritten
<1>5. packs' \in [AllCategories -> 0..PackParts]
  <2>1. \A d \in AllCategories : packs'[d] \in 0..PackParts
    BY <1>3, <1>4
  <2>2. QED
    BY <1>1, <1>3, <2>1
<1>6. Groups' = Groups /\ \A d, e : Precedes(d, e)' = Precedes(d, e)
  BY <1>2, SameGroups
<1>7. \A d \in Groups : IsWritten(d) => d # c /\ IsWritten(d)'
  <2>1. \A d \in Groups : d \in AllCategories
    BY GroupsIn
  <2>2. QED
    BY <1>1, <1>4, <2>1 DEF IsWritten
<1>8. ASSUME NEW b \in AllCategories, packs'[b] > 0
      PROVE  b \in Groups' /\ \A d \in Groups' \ {b} : Precedes(d, b)' => IsWritten(d)'
  <2>1. CASE b = c
    BY <1>1, <1>6, <1>7, <2>1
  <2>2. CASE b # c
    <3>1. packs[b] > 0
      BY <1>4, <1>8, <2>2
    <3>2. b \in Groups /\ \A d \in Groups \ {b} : Precedes(d, b) => IsWritten(d)
      BY <3>1 DEF AuditInv, PacksInOrder
    <3>3. QED
      BY <1>6, <1>7, <3>2
  <2>3. QED
    BY <2>1, <2>2
<1>9. exit' = None /\ None # 0
  BY <1>2, NoneAssumption DEF AuditInv, PacksInOrder
<1>10. QED
  BY <1>2, <1>5, <1>8, <1>9 DEF PacksInOrder

LEMMA PacksStep == ASSUME AuditInv, [Next]_vars PROVE PacksInOrder'
<1>0. None \notin {0, 1} /\ PacksInOrder
  BY NoneAssumption DEF AuditInv
<1>1. CASE RateLimit \/ Answered \/ Retry \/ GiveUp
  <2>1. /\ UNCHANGED <<args, findings, packs, exit>>
        /\ at \in {"query", "post"} /\ at' \in {"query", "post", "collect"}
    BY <1>1 DEF RateLimit, Answered, Retry, GiveUp, asked, output
  <2>2. exit' = None
    BY <2>1 DEF AuditInv, PacksInOrder
  <2>3. QED
    BY <1>0, <2>1, <2>2, PacksRest
<1>2. CASE Collect
  <2>1. at = "collect" /\ at' = "query" /\ UNCHANGED <<packs, exit>>
    BY <1>2 DEF Collect, output
  <2>2. exit' = None /\ \A c \in AllCategories : packs'[c] = 0
    BY <2>1 DEF AuditInv, PacksInOrder
  <2>3. ~ \E c \in AllCategories : packs'[c] > 0
    BY <2>2
  <2>4. packs' \in [AllCategories -> 0..PackParts]
    BY <2>1, <1>0 DEF PacksInOrder
  <2>5. QED
    BY <1>0, <2>1, <2>2, <2>3, <2>4 DEF PacksInOrder
<1>3. CASE Scan \/ BuildReport \/ WriteJson
  <2>1. /\ UNCHANGED <<args, findings, packs, exit>>
        /\ at \in {"query", "build", "json"} /\ at' \in {"build", "json", "markdown"}
    BY <1>3 DEF Scan, BuildReport, WriteJson, audit, asked, output
  <2>2. exit' = None
    BY <2>1 DEF AuditInv, PacksInOrder
  <2>3. QED
    BY <1>0, <2>1, <2>2, PacksRest
<1>4. CASE WriteMarkdown
  <2>1. /\ UNCHANGED <<args, findings, packs, exit>> /\ at = "markdown"
        /\ at' \in {"exit", "packs"} /\ (at' = "exit" => IsIncremental(args))
    BY <1>4 DEF WriteMarkdown, audit, asked
  <2>2. exit' = None
    BY <2>1 DEF AuditInv, PacksInOrder
  <2>3. QED
    BY <1>0, <2>1, <2>2, PacksRest
<1>5. CASE WritePack
  BY <1>5, WritePackKeeps
<1>6. CASE PacksDone
  <2>1. /\ UNCHANGED <<args, findings, packs, exit>> /\ at = "packs" /\ at' = "exit"
        /\ \A c \in Groups : IsWritten(c)
    BY <1>6 DEF PacksDone, audit, asked, output
  <2>2. exit' = None
    BY <2>1 DEF AuditInv, PacksInOrder
  <2>3. QED
    BY <1>0, <2>1, <2>2, PacksRest
<1>7. CASE Exit \/ Crash
  <2>1. /\ UNCHANGED <<args, findings, packs>> /\ at' = "ended"
        /\ exit' \in {0, 1} /\ (exit' = 0 => at = "exit")
    BY <1>7 DEF Exit, Crash, ExitCode, audit, asked
  <2>2. exit' = 0 => IsIncremental(args) \/ \A c \in Groups : IsWritten(c)
    BY <2>1 DEF AuditInv, PacksInOrder
  <2>3. QED
    BY <1>0, <2>1, <2>2, PacksRest
<1>8. CASE UNCHANGED vars
  <2>1. UNCHANGED <<args, findings, packs, at, exit>>
    BY <1>8 DEF vars
  <2>2. QED
    BY <1>0, <2>1, PacksRest DEF PacksInOrder
<1>9. QED
  BY <1>1, <1>2, <1>3, <1>4, <1>5, <1>6, <1>7, <1>8 DEF Next

\* What the findings say is what the answers said.
LEMMA CategoriesAre ==
  ASSUME AuditInv
  PROVE  /\ CategoriesSaid({"P0", "P1"}) = Groups
         /\ CategoriesSaid({"P0"}) = {c \in Groups : IsUrgent(c)}
<1>1. findings = Said
  BY DEF AuditInv, HeardInv, FindingsSaid
<1>2. ToSet(Said) = {findings[i] : i \in DOMAIN findings}
  BY <1>1 DEF ToSet
<1>3. CategoriesSaid({"P0", "P1"}) = Groups
  BY <1>2 DEF CategoriesSaid, Groups, Eligible
<1>4. \A c : c \in CategoriesSaid({"P0"}) <=>
             \E i \in DOMAIN findings : findings[i].severity = "P0" /\ findings[i].category = c
  BY <1>2 DEF CategoriesSaid
<1>5. \A c : c \in Groups /\ IsUrgent(c) <=>
             \E i \in DOMAIN findings : findings[i].severity = "P0" /\ findings[i].category = c
  BY DEF Groups, IsUrgent, Group, Eligible
<1>6. QED
  BY <1>3, <1>4, <1>5

LEMMA PacksImplied == ASSUME AuditInv PROVE PacksFollow
<1> DEFINE begun == {c \in AllCategories : packs[c] > 0}
           open == {c \in begun : ~ IsWritten(c)}
           urgent == {c \in Groups : IsUrgent(c)}
<1>1. /\ CategoriesSaid({"P0", "P1"}) = Groups /\ CategoriesSaid({"P0"}) = urgent
  BY CategoriesAre
<1>2. \A c \in begun : c \in Groups /\ \A d \in Groups \ {c} : Precedes(d, c) => IsWritten(d)
  BY DEF AuditInv, PacksInOrder
<1>3. ASSUME NEW c \in open, NEW d \in open PROVE c = d
  <2> SUFFICES ASSUME c # d PROVE FALSE
    OBVIOUS
  <2>1. c \in begun /\ d \in begun /\ ~ IsWritten(c) /\ ~ IsWritten(d)
    OBVIOUS
  <2> HIDE DEF begun, open
  <2>2. c \in Groups /\ d \in Groups
    BY <1>2, <2>1
  <2>3. Precedes(c, d) \/ Precedes(d, c)
    BY <2>2, PacksOrdered
  <2>4. QED
    BY <1>2, <2>1, <2>2, <2>3
<1>4. ASSUME NEW c \in urgent PROVE begun \subseteq urgent \/ IsWritten(c)
  <2> SUFFICES ASSUME ~ IsWritten(c), NEW b \in begun PROVE b \in urgent
    OBVIOUS
  <2>1. c \in Groups /\ IsUrgent(c) /\ b \in Groups
    BY <1>2
  <2>2. CASE b = c
    BY <2>2
  <2>3. CASE b # c
    <3>1. ~ Precedes(c, b)
      BY <1>2, <2>1, <2>3
    <3>2. IsUrgent(b)
      BY <2>1, <3>1 DEF Precedes
    <3>3. QED
      BY <2>1, <3>2
  <2>4. QED
    BY <2>2, <2>3
<1>5. at = "exit" \/ exit = 0 => IsIncremental(args) \/ \A c \in Groups : IsWritten(c)
  BY DEF AuditInv, PacksInOrder
<1>6. begun \subseteq Groups
  BY <1>2
<1> HIDE DEF urgent
<1>7. QED
  BY <1>1, <1>3, <1>4, <1>5, <1>6 DEF PacksFollow

LEMMA AuditStart == ASSUME Init PROVE AuditInv
<1>1. HeardInv
  BY HeardStart
<1>2. /\ at = "query" /\ exit = None /\ findings = <<>> /\ args \in Args
      /\ packs = [c \in AllCategories |-> 0]
      /\ \E readable \in Readable : queries = Queries(args, readable)
  BY DEF Init
<1>3. Categorized
  <2>1. PICK readable \in Readable : queries = Queries(args, readable)
    BY <1>2
  <2>2. \E B : queries \in Seq(AllCategories \X B)
    BY <1>2, <2>1, QueriesIn
  <2>3. QED
    BY <1>2, <2>2 DEF Categorized
<1>4. PacksInOrder
  <2>1. packs \in [AllCategories -> 0..PackParts] /\ \A c \in AllCategories : packs[c] = 0
    BY <1>2 DEF PackParts
  <2>2. QED
    BY <1>2, <2>1, NoneAssumption DEF PacksInOrder
<1>5. QED
  BY <1>1, <1>3, <1>4 DEF AuditInv

(* For any configuration, files, lists of changed files and answers,       *)
(* whatever was retried, given up or crashed: the findings are what the    *)
(* answers taken said, in their order and each query's once, a file that   *)
(* is listed twice being asked about twice; and the phase packs are begun  *)
(* one after the other, those with a P0 first, from these findings only,   *)
(* and are all there when a full audit gets to its exit code               *)
(* (PhasePackGenerator and PerplexityAuditAgent, lines 567-610, 690-746).  *)
THEOREM PerplexityFindingsHeard == Spec => []FindingsAreWhatWasHeard
<1>1. Init => AuditInv
  BY AuditStart
<1>2. AuditInv /\ [Next]_vars => AuditInv'
  BY HeardStep, CategorizedStep, PacksStep DEF AuditInv
<1>3. AuditInv => FindingsAreWhatWasHeard
  <2> SUFFICES ASSUME AuditInv PROVE FindingsAreWhatWasHeard
    OBVIOUS
  <2>1. PacksFollow
    BY PacksImplied
  <2>2. QED
    BY <2>1 DEF AuditInv, HeardInv, TurnsInOrder, FindingsSaid, FindingsAreWhatWasHeard
<1>4. QED
  BY <1>1, <1>2, <1>3, PTL DEF Spec

-----------------------------------------------------------------------------
(* What a passing dispatcher says of the public API *)

\* The premises about refs, checkout and git under which the contract is true.
Trusted ==
  /\ ~ gitFailed /\ world.work = world.head /\ InTree(world.work, "engine")
  /\ world.origin # NoTree /\ world.main \in {NoTree, world.origin}

Compatible(file) ==
  LET old == world.origin[file]
      new == world.work[file]
  IN old.form = "python" /\ new.form # "missing" =>
       /\ old.api # NoClass => new.form = "python" /\ new.api # NoClass
       /\ Signature(old.api) =>
            /\ Signature(new.api) /\ new.api.args = old.api.args
            /\ new.api.returns = "" \/ old.api.returns \in {"", new.api.returns}

Settled(file) == Compatible(file) \/ HasBlocking(results)

\* origin/main is asked only where there is no main; what needs no comparison
\* any more is compatible, or it blocks.
ApiInv ==
  /\ world.work = NoTree \/ \A file \in TreeFiles : world.work[file].form \in Forms
  /\ stage = "select" => ran = {}
  /\ code = "0" /\ command.strict /\ ran # {} => ~ HasBlocking(results)
  /\ Trusted =>
       /\ stage = "diff origin" => world.main = NoTree
       /\ stage = "compare" => \A file \in TreeFiles \ changed : Settled(file)
       /\ "api_regression" \in ran => \A file \in TreeFiles : Settled(file)

\* A file that is the same on both sides is compatible.
LEMMA SameIsCompatible ==
  ASSUME NEW file, world.work[file] = world.origin[file]
  PROVE  Compatible(file)
  BY DEF Compatible

\* What is found between two contents of which the new one is not compatible.
LEMMA BreaksBlock ==
  ASSUME NEW file, world.work[file].form \in {"python", "broken"},
         world.origin[file].form = "python", ~ Compatible(file)
  PROVE  \E c \in Breaks(Api(world.origin[file]), Api(world.work[file])) :
           SeverityOf(c) \in {"CRITICAL", "HIGH"}
<1> DEFINE old == world.origin[file]
           new == world.work[file]
           base == Api(old)
           current == Api(new)
<1>1. /\ base = old.api /\ current = (IF new.form = "broken" THEN NoClass ELSE new.api)
      /\ new.form \in {"python", "broken"}
  BY DEF Api
<1>2. \/ old.api # NoClass /\ (new.form # "python" \/ new.api = NoClass)
      \/ Signature(old.api) /\ ~ Signature(new.api)
      \/ /\ Signature(old.api) /\ Signature(new.api)
         /\ new.api.args # old.api.args
      \/ /\ Signature(old.api) /\ Signature(new.api)
         /\ new.api.returns # "" /\ old.api.returns # "" /\ old.api.returns # new.api.returns
  BY DEF Compatible
<1>3. /\ SeverityOf("CLASS_REMOVED") = "CRITICAL" /\ SeverityOf("METHOD_REMOVED") = "CRITICAL"
      /\ SeverityOf("SIGNATURE_CHANGED") = "HIGH" /\ SeverityOf("RETURN_TYPE_CHANGED") = "HIGH"
  BY DEF SeverityOf, Critical, Medium
<1> HIDE DEF old, new, base, current
<1>4. CASE base # NoClass /\ current = NoClass
  BY <1>3, <1>4 DEF Breaks, Signature, base, current, old, new
<1>5. CASE Signature(base) /\ current = NoMethod /\ current # NoClass
  BY <1>3, <1>5 DEF Breaks, Signature, base, current, old, new
<1>6. CASE Signature(base) /\ Signature(current) /\ base.args # current.args
  BY <1>3, <1>6 DEF Breaks, Signature, base, current, old, new
<1>7. CASE /\ Signature(base) /\ Signature(current)
           /\ base.returns # "" /\ current.returns # "" /\ base.returns # current.returns
  BY <1>3, <1>7 DEF Breaks, Signature, base, current, old, new
<1>8. QED
  BY <1>1, <1>2, <1>4, <1>5, <1>6, <1>7 DEF Signature

\* Nothing that was settled is unsettled, as long as no call of git fails.
LEMMA SettledStays ==
  ASSUME world' = world, results \subseteq results', gitFailed => gitFailed'
  PROVE  /\ Trusted' => Trusted
         /\ \A file : Settled(file) => Settled(file)'
         /\ HasBlocking(results) => HasBlocking(results')
<1>1. HasBlocking(results) => HasBlocking(results')
  BY DEF HasBlocking
<1>2. \A file : Compatible(file) => Compatible(file)'
  BY DEF Compatible
<1>3. Trusted' => Trusted
  BY DEF Trusted
<1>4. QED
  BY <1>1, <1>2, <1>3 DEF Settled

\* Comparing a file settles it: the contents compared are those of origin/main
\* and of the checkout.
LEMMA CompareSettles ==
  ASSUME ApiInv, NEW file \in TreeFiles, Compare(file), Trusted', code' # "1"
  PROVE  Settled(file)'
<1>1. PICK shown \in {world.main, world.origin, NoTree} :
        LET base == IF shown = NoTree THEN [form |-> "missing", api |-> NoClass] ELSE shown[file]
            current == world.work[file]
        IN /\ shown # NoTree => InTree(shown, file)
           /\ gitFailed' = (gitFailed \/ (shown # world.main /\ InTree(world.main, file))
                                      \/ (shown = NoTree /\ InTree(world.origin, file)))
           /\ IF "binary" \in {current.form, base.form} THEN Uncaught
              ELSE /\ results' = results \cup
                        FindingsOf("api_regression", file, Breaks(Api(base), Api(current)))
                   /\ changed' = changed \ {file}
                   /\ UNCHANGED <<input, stage, queue, outcome, ran>>
  BY DEF Compare
<1>2. world' = world
  BY <1>1 DEF Uncaught, input
<1>3. /\ ~ gitFailed' /\ world.origin # NoTree /\ world.main \in {NoTree, world.origin}
  BY <1>2 DEF Trusted
<1>4. stage = "compare" /\ InTree(world.work, file)
  BY DEF Compare
<1>5. world.work[file].form \in {"python", "broken", "binary"}
  BY <1>4 DEF ApiInv, InTree, Forms
<1> DEFINE old == world.origin[file]
           new == world.work[file]
<1>6. CASE old.form # "python"
  <2>1. Compatible(file)'
    BY <1>2, <1>6 DEF Compatible
  <2>2. QED
    BY <2>1 DEF Settled
<1>7. CASE old.form = "python"
  <2>1. InTree(world.origin, file)
    BY <1>3, <1>7 DEF InTree
  <2>2. shown = world.origin /\ shown # NoTree
    BY <1>1, <1>3, <2>1
  <2>3. CASE new.form = "binary"
    <3>1. Uncaught
      BY <1>1, <2>3
    <3>2. code' = "1" /\ stage' = "ended"
      BY <3>1 DEF Uncaught, End
    <3>3. QED
      BY <3>2
  <2>4. CASE new.form # "binary"
    <3>1. results' = results \cup FindingsOf("api_regression", file, Breaks(Api(old), Api(new)))
      BY <1>1, <1>7, <2>2, <2>4
    <3>2. CASE Compatible(file)
      BY <3>2, <1>2 DEF Settled, Compatible
    <3>3. CASE ~ Compatible(file)
      <4>1. PICK c \in Breaks(Api(old), Api(new)) : SeverityOf(c) \in {"CRITICAL", "HIGH"}
        BY <1>5, <1>7, <2>4, <3>3, BreaksBlock
      <4> DEFINE f == [auditor |-> "api_regression", file |-> file, category |-> c]
      <4>2. f \in results' /\ f.category = c
        BY <3>1, <4>1 DEF FindingsOf
      <4>3. QED
        BY <4>1, <4>2 DEF Settled, HasBlocking
    <3>4. QED
      BY <3>2, <3>3
  <2>5. QED
    BY <2>3, <2>4
<1>8. QED
  BY <1>6, <1>7

LEMMA CompareKeeps ==
  ASSUME ApiInv, GateInv, NEW file \in TreeFiles, Compare(file)
  PROVE  ApiInv'
<1>1. stage = "compare" /\ code = "none"
  BY DEF Compare, GateInv
<1>2. PICK shown \in {world.main, world.origin, NoTree} :
        /\ gitFailed => gitFailed'
        /\ \/ Uncaught
           \/ /\ results \subseteq results' /\ changed' = changed \ {file}
              /\ UNCHANGED <<input, stage, queue, outcome, ran>>
  BY DEF Compare
<1>3. CASE Uncaught
  <2>1. /\ world' = world /\ code' = "1" /\ stage' = "ended" /\ results' = results /\ ran' = ran
        /\ command' = command
    BY <1>3 DEF Uncaught, End, input
  <2>2. (Trusted' => Trusted) /\ \A f \in TreeFiles : Settled(f) => Settled(f)'
    BY <2>1, <1>2, SettledStays
  <2>3. QED
    BY <2>1, <2>2 DEF ApiInv
<1>4. CASE /\ results \subseteq results' /\ changed' = changed \ {file}
           /\ UNCHANGED <<input, stage, queue, outcome, ran>>
  <2>1. world' = world /\ code' = "none" /\ stage' = "compare" /\ ran' = ran
    BY <1>1, <1>4 DEF input, outcome
  <2>2. (Trusted' => Trusted) /\ \A f \in TreeFiles : Settled(f) => Settled(f)'
    BY <2>1, <1>2, <1>4, SettledStays
  <2>3. Trusted' => Settled(file)'
    BY <2>1, CompareSettles
  <2>4. Trusted' => \A f \in TreeFiles \ changed' : Settled(f)'
    BY <1>1, <1>4, <2>2, <2>3 DEF ApiInv
  <2>5. QED
    BY <2>1, <2>2, <2>4 DEF ApiInv
<1>5. QED
  BY <1>2, <1>3, <1>4

\* The diff is against what will be compared with.
LEMMA DiffKeeps == ASSUME ApiInv, GateInv, DiffMain \/ DiffOrigin PROVE ApiInv'
<1>1. PICK ok \in BOOLEAN, tree \in {world.main, world.origin} :
        /\ GitSays(tree # NoTree, ok)
        /\ DiffMain => tree = world.main
        /\ DiffOrigin => tree = world.origin
        /\ ok => changed' = Differing(tree) /\ stage' = "compare" /\ ran' = ran
        /\ ~ ok => \/ DiffMain /\ stage' = "diff origin" /\ ran' = ran
                   \/ DiffOrigin /\ stage' = "run"
  BY DEF DiffMain, DiffOrigin, AuditorEnds
<1>2. /\ world' = world /\ results' = results /\ code' = code /\ command' = command
      /\ code = "none" /\ stage \in {"diff main", "diff origin"}
      /\ ran' \in {ran, ran \cup {"api_regression"}}
  BY DEF DiffMain, DiffOrigin, AuditorEnds, input, outcome, GateInv
<1>3. /\ gitFailed => gitFailed'
      /\ ok # (tree # NoTree) => gitFailed'
  BY <1>1 DEF GitSays
<1>4. (Trusted' => Trusted) /\ \A f \in TreeFiles : Settled(f) => Settled(f)'
  BY <1>2, <1>3, SettledStays
<1>5. stage' \in {"compare", "diff origin", "run"}
  BY <1>1
<1>6. ASSUME Trusted', stage' = "diff origin" PROVE world.main = NoTree
  <2>1. ~ ok /\ DiffMain /\ tree = world.main
    BY <1>1, <1>6
  <2>2. QED
    BY <2>1, <1>3, <1>6 DEF Trusted
<1>7. ASSUME Trusted', stage' = "compare", NEW f \in TreeFiles \ changed' PROVE Settled(f)'
  <2>1. ok
    BY <1>1, <1>7
  <2>2. tree # NoTree
    BY <2>1, <1>3, <1>7 DEF Trusted
  <2>3. Trusted /\ tree = world.origin
    BY <2>2, <1>1, <1>4, <1>7 DEF Trusted
  <2>4. changed' = Differing(world.origin)
    BY <2>1, <2>3, <1>1
  <2>5. world.work[f] = world.origin[f]
    BY <2>3, <2>4, <1>7 DEF Trusted, Differing
  <2>6. QED
    BY <2>5, <1>4, SameIsCompatible DEF Settled
<1>8. ASSUME Trusted', "api_regression" \in ran', NEW f \in TreeFiles PROVE Settled(f)'
  <2>1. CASE ran' = ran
    BY <2>1, <1>4, <1>8 DEF ApiInv
  <2>2. CASE ran' # ran
    <3>1. DiffOrigin /\ ~ ok /\ tree = world.origin
      BY <2>2, <1>1
    <3>2. QED
      BY <3>1, <1>2, <1>3, <1>8 DEF Trusted
  <2>3. QED
    BY <2>1, <2>2
<1>9. QED
  BY <1>2, <1>5, <1>6, <1>7, <1>8 DEF ApiInv

\* The other steps settle nothing, except that Compared ends a comparison of all.
LEMMA OthersKeep ==
  ASSUME ApiInv, GateInv,
         \/ List \/ SelectFails \/ Select \/ WriteReport \/ ExitStatus
         \/ \E a \in Auditors : RunStatic(a)
         \/ RunApi \/ Compared
         \/ \E file \in TreeFiles : PassOver(file)
         \/ UNCHANGED dispatchVars
  PROVE  ApiInv'
<1>1. world' = world /\ command' = command /\ gitFailed' = gitFailed /\ results \subseteq results'
  BY DEF List, SelectFails, Select, WriteReport, ExitStatus, RunStatic, RunApi, Compared, PassOver,
         End, Uncaught, AuditorEnds, input, dispatchVars
<1>2. (Trusted' => Trusted) /\ \A f \in TreeFiles : Settled(f) => Settled(f)'
  BY <1>1, SettledStays
<1>3. CASE List \/ SelectFails \/ Select \/ WriteReport
  <2>1. /\ ran' = ran /\ stage' \in {"ended", "run", "exit"}
        /\ code' # "0" \/ ran = {}
    BY <1>3 DEF List, SelectFails, Select, WriteReport, End, Uncaught, ApiInv, GateInv
  <2>2. QED
    BY <2>1, <1>1, <1>2 DEF ApiInv
<1>4. CASE ExitStatus
  <2>1. /\ ran' = ran /\ stage' = "ended" /\ results' = results
        /\ code' = "0" => ~ command.strict \/ ~ HasBlocking(results)
    BY <1>4 DEF ExitStatus, End
  <2>2. QED
    BY <2>1, <1>1, <1>2 DEF ApiInv
<1>5. CASE \E a \in Auditors : RunStatic(a)
  <2>1. PICK a \in Auditors : RunStatic(a)
    BY <1>5
  <2>2. /\ a # "api_regression" /\ ran' = ran \cup {a} /\ stage' = "run" /\ stage = "run"
        /\ code' = code /\ code = "none"
    BY <2>1 DEF RunStatic, AuditorEnds, outcome, GateInv
  <2>3. QED
    BY <2>2, <1>1, <1>2 DEF ApiInv
<1>6. CASE RunApi
  <2>1. /\ stage = "run" /\ code' = code /\ code = "none"
        /\ \/ ran' = ran /\ stage' = "diff main"
           \/ ~ InTree(world.work, "engine") /\ stage' = "run"
    BY <1>6 DEF RunApi, AuditorEnds, outcome, GateInv
  <2>2. Trusted' => ran' = ran
    BY <2>1, <1>2 DEF Trusted
  <2>3. QED
    BY <2>1, <2>2, <1>1, <1>2 DEF ApiInv
<1>7. CASE Compared
  <2>1. /\ stage = "compare" /\ changed = {} /\ stage' = "run" /\ code' = code /\ code = "none"
    BY <1>7 DEF Compared, AuditorEnds, outcome, GateInv
  <2>2. Trusted' => \A f \in TreeFiles : Settled(f)'
    BY <2>1, <1>2 DEF ApiInv
  <2>3. QED
    BY <2>1, <2>2, <1>1 DEF ApiInv
<1>8. CASE \E file \in TreeFiles : PassOver(file)
  <2>1. PICK file \in TreeFiles : PassOver(file)
    BY <1>8
  <2>2. /\ stage' = "compare" /\ stage = "compare" /\ changed' = changed \ {file} /\ ran' = ran
        /\ ~ InTree(world.work, file) /\ code' = code /\ code = "none"
    BY <2>1 DEF PassOver, outcome, GateInv
  <2>3. Trusted' => Settled(file)'
    <3> SUFFICES ASSUME Trusted' PROVE Compatible(file)'
      BY DEF Settled
    <3>1. world.work # NoTree
      BY <1>2 DEF Trusted, InTree
    <3>2. world.work[file].form = "missing"
      BY <2>2, <3>1 DEF InTree
    <3>3. QED
      BY <3>2, <1>1 DEF Compatible
  <2>4. QED
    BY <2>2, <2>3, <1>1, <1>2 DEF ApiInv
<1>9. CASE UNCHANGED dispatchVars
  <2>1. UNCHANGED <<stage, code, ran, changed, results>>
    BY <1>9 DEF dispatchVars
  <2>2. QED
    BY <2>1, <1>1, <1>2 DEF ApiInv
<1>10. QED
  BY <1>3, <1>4, <1>5, <1>6, <1>7, <1>8, <1>9

(* For any refs, checkout, command line and importable auditors, and       *)
(* whichever call of git fails: where no call failed that should not, the  *)
(* checkout is clean and main is up to date or absent, a strict run that   *)
(* passes leaves the classes, methods, plain argument names and named      *)
(* return types of origin/main in place; of other arguments it says        *)
(* nothing (tools/auditors/api_regression.py, API_REGRESSION.md).          *)
THEOREM DispatchPassIsCompatible == DispatchSpec => []PassMeansCompatible
<1>1. DispatchInit => ApiInv /\ GateInv
  BY CasesAssumption DEF DispatchInit, ApiInv, GateInv
<1>2. (ApiInv /\ GateInv) /\ [DispatchNext]_dispatchVars => (ApiInv /\ GateInv)'
  <2> SUFFICES ASSUME ApiInv, GateInv, [DispatchNext]_dispatchVars PROVE ApiInv' /\ GateInv'
    OBVIOUS
  <2>1. GateInv'
    BY DispatchKeeps
  <2>2. CASE \E file \in TreeFiles : Compare(file)
    BY <2>1, <2>2, CompareKeeps
  <2>3. CASE DiffMain \/ DiffOrigin
    BY <2>1, <2>3, DiffKeeps
  <2>4. CASE ~ (\E file \in TreeFiles : Compare(file)) /\ ~ (DiffMain \/ DiffOrigin)
    BY <2>1, <2>4, OthersKeep DEF DispatchNext, ApiRegression
  <2>5. QED
    BY <2>2, <2>3, <2>4
<1>3. ApiInv => PassMeansCompatible
  BY DEF ApiInv, PassMeansCompatible, Trusted, Settled, Compatible
<1>4. QED
  BY <1>1, <1>2, <1>3, PTL DEF DispatchSpec
=============================================================================
