--------------------------- MODULE PerplexityAudit ---------------------------
(***************************************************************************)
(* scripts/perplexity_audit_agent.py: the audit that asks an external      *)
(* model about every file and category, one query at a time under a rate   *)
(* limit and with retries, reports what it heard, and fails the build when *)
(* a P0 is among it.                                                       *)
(*                                                                         *)
(* The program is sequential; time is counted in seconds of any length and *)
(* passes in the sleeps, which last what they ask for, and in the HTTP     *)
(* calls.  An answer is a list of elements, each with a severity and the   *)
(* category it names, or None; "junk" stands for an element that is not an *)
(* object, "odd" for one with a value that no report can be built from.    *)
(***************************************************************************)
EXTENDS Naturals, FiniteSets, Sequences, SequencesExt

CONSTANTS Categories,   \* categories of the configuration, in order
          Incremental,  \* incremental_categories
          Files,        \* files of the scanned directories, in order
          ChangedLists, \* lists that --changed-files may give
          Named,        \* categories that an answer may name itself
          Answers,      \* what the model may answer
          Durations,    \* how long an attempt may take, however long: the
                        \* timeout bounds each operation of httpx, not their sum
          RpmLimit, Window, MaxRetries,
          None

Elements == [severity : {"P0", "P1", "P2", "junk", "odd"}, category : Named \cup {None}]

ASSUME LimitsAssumption == RpmLimit \in Nat \ {0} /\ Window \in Nat /\ MaxRetries \in Nat \ {0}
ASSUME DurationsAssumption == Durations \subseteq Nat
\* Plain arithmetic, which the provers do not know of exponents.
ASSUME BackoffAssumption == \A k \in 1..MaxRetries : 2 ^ k \in Nat
ASSUME NoneAssumption == None \notin {0, 1}
\* Lists may repeat themselves: an overlapping directory, a file given twice.
ASSUME ListsAssumption ==
  /\ \A s \in {Categories, Incremental, Files} : s \in Seq(ToSet(s))
  /\ \A s \in ChangedLists : s \in Seq(ToSet(s))
ASSUME AnswersAssumption == Answers \subseteq Seq(Elements)

VARIABLES
  args,      \* --mode, --category and --changed-files
  queries,   \* what will be asked, in order: <<category, file>>
  turn,      \* number of the query that is next or under way
  at,        \* where the program is
  attempt,   \* of the current query
  now,
  requestTimes, \* _request_times
  findings,  \* all_findings: [severity, category, turn of its query]
  report,    \* "json" and "markdown", as far as written
  packs,     \* how many of PackParts each category's phase pack has
  exit,      \* exit code of the process, or None
  starts,    \* history: when each query passed the rate limit
  spent,     \* history: the time since the last of them
  longest,   \* history: the longest that a query took from there
  heard      \* history: [turn, answer] for each answer understood

vars == <<args, queries, turn, at, attempt, now, requestTimes, findings, report, packs,
          exit, starts, spent, longest, heard>>
asked == <<args, queries>>
times == <<now, spent, longest>>

AllCategories == ToSet(Categories) \cup ToSet(Incremental) \cup Named
Query == AllCategories \X (ToSet(Files) \cup UNION {ToSet(s) : s \in ChangedLists})

\* A phase pack: mkdir, README.md, findings.json, IMPLEMENTATION_CHECKLIST.md.
PackParts == 4

TypeOK ==
  /\ queries \in Seq(Query) /\ turn \in 1..(Len(queries) + 1) /\ attempt \in 0..MaxRetries
  /\ at \in {"query", "post", "collect", "build", "json", "markdown", "packs", "exit", "ended"}
  /\ now \in Nat /\ requestTimes \in Seq(0..now) /\ Len(requestTimes) <= RpmLimit + 1
  /\ findings \in Seq([severity : {"P0", "P1", "P2", "odd"}, category : AllCategories, turn : Nat])
  /\ report \subseteq {"json", "markdown"}
  /\ packs \in [AllCategories -> 0..PackParts]
  /\ exit \in {0, 1, None}

-----------------------------------------------------------------------------
(* What to ask: main(), run_full_audit() and run_incremental_audit(). *)

\* The elements of a list that are in S.  SelectSeq does the same, by a recursion
\* that the provers cannot expand.
Those(s, S) == FlattenSeq([i \in DOMAIN s |-> IF s[i] \in S THEN <<s[i]>> ELSE <<>>])

\* Incremental without changed files is a full audit; full audits group by
\* category, incremental ones by file.
IsIncremental(a) == a.mode = "incremental" /\ a.changed # <<>>
Scanned(a) == IF a.mode = "category" THEN Those(Categories, {a.category}) ELSE Categories
Queries(a, readable) ==
  LET files == Those(Files, readable)
      edited == Those(a.changed, readable)
  IN IF IsIncremental(a)
     THEN FlattenSeq([i \in DOMAIN edited |->
                        [j \in DOMAIN Incremental |-> <<Incremental[j], edited[i]>>]])
     ELSE FlattenSeq([i \in DOMAIN Scanned(a) |->
                        [j \in DOMAIN files |-> <<Scanned(a)[i], files[j]>>]])

\* A category that is not configured is legal, and selects nothing; a file may
\* be listed twice, or lie outside of the scanned directories.
Args == [mode : {"full"}, category : {None}, changed : {<<>>}]
  \cup [mode : {"category"}, category : AllCategories, changed : {<<>>}]
  \cup [mode : {"incremental"}, category : {None}, changed : ChangedLists]

\* Files that exist, are Python and have text.
Readable == SUBSET (ToSet(Files) \cup UNION {ToSet(s) : s \in ChangedLists})

Init ==
  /\ args \in Args
  /\ \E readable \in Readable : queries = Queries(args, readable)
  /\ turn = 1 /\ at = "query" /\ attempt = 0 /\ now = 0
  /\ requestTimes = <<>> /\ findings = <<>> /\ report = {} /\ exit = None
  /\ packs = [c \in AllCategories |-> 0]
  /\ starts = <<>> /\ spent = 0 /\ longest = 0 /\ heard = <<>>

output == <<report, packs, exit>>

-----------------------------------------------------------------------------
(* One query. *)

Aged_Mut == {k \in DOMAIN requestTimes : now - requestTimes[k] >= Window - 1}
Aged == {k \in DOMAIN requestTimes : now - requestTimes[k] >= Window}
\* Without the aged ones, which come first: the list is in order.
Recent == SubSeq(requestTimes, Cardinality(Aged) + 1, Len(requestTimes))
\* When the query may go out: at once, or when the oldest recent one is a
\* window ago.
Slot_Mut == IF Len(Recent) >= RpmLimit THEN Last(Recent) + Window ELSE now
Slot == IF Len(Recent) >= RpmLimit THEN Recent[1] + Window ELSE now

RateLimit ==
  /\ at = "query" /\ turn <= Len(queries)
  /\ now' = Slot /\ spent' = 0
  /\ requestTimes' = Append(Recent, Slot)
  /\ starts' = Append(starts, Slot)
  /\ at' = "post" /\ attempt' = 1
  /\ UNCHANGED <<asked, turn, findings, output, longest, heard>>

\* The attempt, and the sleep that may follow it.
Takes(d) ==
  /\ now' = now + d
  /\ spent' = spent + d
  /\ longest' = IF spent + d > longest THEN spent + d ELSE longest

\* The answer is a list, or an object with "findings", or a single object; an
\* answer that is not JSON counts as no findings.
Answered ==
  /\ at = "post"
  /\ \E d \in Durations : Takes(d)
  /\ \E answer \in Answers : heard' = Append(heard, [turn |-> turn, answer |-> answer])
  /\ at' = "collect"
  /\ UNCHANGED <<asked, turn, attempt, requestTimes, findings, output, starts>>

\* HTTPStatusError, TimeoutException, KeyError: sleep and try again, or give up
\* and take it for no findings.
LastAttempt == attempt = MaxRetries

Retry ==
  /\ at = "post" /\ ~ LastAttempt
  /\ \E d \in Durations : Takes(d + 2 ^ attempt)
  /\ attempt' = attempt + 1
  /\ UNCHANGED <<asked, turn, at, requestTimes, findings, output, starts, heard>>

GiveUp ==
  /\ at = "post" /\ LastAttempt
  /\ \E d \in Durations : Takes(d)
  /\ at' = "query" /\ turn' = turn + 1
  /\ UNCHANGED <<asked, attempt, requestTimes, findings, output, starts, heard>>

\* Each element becomes a Finding, of the category it names or the query's.
CategoryOf(element, query) == IF element.category = None THEN query[1] ELSE element.category
NewFindings(h) ==
  [i \in DOMAIN h.answer |-> [severity |-> h.answer[i].severity,
                              category |-> CategoryOf(h.answer[i], queries[h.turn]),
                              turn |-> h.turn]]
HasJunk(answer) == \E i \in DOMAIN answer : answer[i].severity = "junk"

Collect ==
  /\ at = "collect" /\ ~ HasJunk(Last(heard).answer)
  /\ findings' = findings \o NewFindings(Last(heard))
  /\ at' = "query" /\ turn' = turn + 1
  /\ UNCHANGED <<asked, attempt, times, requestTimes, output, starts, heard>>

-----------------------------------------------------------------------------
(* The report, the phase packs and the exit code. *)

audit == <<asked, turn, attempt, times, requestTimes, findings, starts, heard>>

Scan ==
  /\ at = "query" /\ turn > Len(queries) /\ at' = "build"
  /\ UNCHANGED <<audit, output>>

Severities == {findings[i].severity : i \in DOMAIN findings}

BuildReport ==
  /\ at = "build" /\ "odd" \notin Severities /\ at' = "json"
  /\ UNCHANGED <<audit, output>>

WriteJson ==
  /\ at = "json" /\ report' = report \cup {"json"} /\ at' = "markdown"
  /\ UNCHANGED <<audit, packs, exit>>

WriteMarkdown ==
  /\ at = "markdown" /\ report' = report \cup {"markdown"}
  /\ at' = IF IsIncremental(args) THEN "exit" ELSE "packs"
  /\ UNCHANGED <<audit, packs, exit>>

\* Findings that get into a phase pack: min_severity is P1.  Packs are per
\* category, those with a P0 first, otherwise as the categories came up.
Eligible_Mut == {i \in DOMAIN findings : findings[i].severity = "P0"}
Eligible == {i \in DOMAIN findings : findings[i].severity \in {"P0", "P1"}}
Groups == {findings[i].category : i \in Eligible}
Group(c) == {i \in Eligible : findings[i].category = c}
IsUrgent(c) == \E i \in Group(c) : findings[i].severity = "P0"
Precedes(c, d) ==
  \/ IsUrgent(c) /\ ~ IsUrgent(d)
  \/ /\ IsUrgent(c) <=> IsUrgent(d)
     /\ \E i \in Group(c) : \A j \in Group(d) : i < j

IsWritten(c) == packs[c] = PackParts

\* One file, or directory, of the current pack.
WritePack ==
  /\ at = "packs"
  /\ \E c \in Groups :
       /\ ~ IsWritten(c) /\ \A d \in Groups \ {c} : Precedes(d, c) => IsWritten(d)
       /\ packs' = [packs EXCEPT ![c] = @ + 1]
  /\ UNCHANGED <<audit, at, report, exit>>

PacksDone ==
  /\ at = "packs" /\ \A c \in Groups : IsWritten(c)
  /\ at' = "exit"
  /\ UNCHANGED <<audit, output>>

ExitCode == IF "P0" \in Severities THEN 1 ELSE 0

Exit ==
  /\ at = "exit" /\ exit' = ExitCode /\ at' = "ended"
  /\ UNCHANGED <<audit, report, packs>>

\* Any other exception ends the process with a traceback: of the transport
\* or of an answer without a closing fence (post), of a junk element
\* (collect), of an odd finding (build), of the file system (between any two
\* files of a report or a pack: what is written stays).
Crash ==
  /\ \/ at \in {"post", "json", "markdown", "packs"}
     \/ at = "collect" /\ HasJunk(Last(heard).answer)
     \/ at = "build" /\ "odd" \in Severities
  /\ exit' = 1 /\ at' = "ended"
  /\ UNCHANGED <<audit, report, packs>>

Next ==
  \/ RateLimit \/ Answered \/ Retry \/ GiveUp \/ Collect
  \/ Scan \/ BuildReport \/ WriteJson \/ WriteMarkdown \/ WritePack \/ PacksDone \/ Exit
  \/ Crash

Spec == Init /\ [][Next]_vars

-----------------------------------------------------------------------------
(* Properties. *)

(* No window of Window seconds sees more than RpmLimit queries start,      *)
(* wherever it begins (_rate_limit, lines 382-390).                        *)
RateLimited ==
  \A k \in DOMAIN starts : k > RpmLimit => starts[k] - starts[k - RpmLimit] >= Window

(* What the answers said: of each query at most one, in the order of the   *)
(* queries, though a file may be asked about twice; not of the answer that *)
(* is being collected, or that the collecting of ended the program.        *)
Pending == heard # <<>> /\ Last(heard).turn = turn
Taken == IF Pending THEN Front(heard) ELSE heard
Said == FlattenSeq([i \in DOMAIN Taken |-> NewFindings(Taken[i])])
CategoriesSaid(S) == {f.category : f \in {f \in ToSet(Said) : f.severity \in S}}

(* Phase packs exist for the categories with a P0 or P1 only; at most one  *)
(* is unfinished, wherever the program stopped; none of P1s alone is begun *)
(* before those with a P0 are finished; and a full audit gets to its exit  *)
(* code only when all of them are (PhasePackGenerator, lines 567-610).     *)
PacksFollow ==
  LET begun == {c \in AllCategories : packs[c] > 0}
      open == {c \in begun : ~ IsWritten(c)}
  IN /\ begun \subseteq CategoriesSaid({"P0", "P1"})
     /\ \A c, d \in open : c = d
     /\ \A c \in CategoriesSaid({"P0"}) : begun \subseteq CategoriesSaid({"P0"}) \/ IsWritten(c)
     /\ (at = "exit" \/ exit = 0) /\ ~ IsIncremental(args) =>
          \A c \in CategoriesSaid({"P0", "P1"}) : IsWritten(c)

(* Whatever was retried, given up or crashed, the findings are exactly     *)
(* what the understood answers said, each query's once and in the order    *)
(* of the queries, and the phase packs follow from them (690-746).         *)
FindingsAreWhatWasHeard ==
  /\ findings = Said
  /\ \A i, j \in DOMAIN heard : i < j => heard[i].turn < heard[j].turn
  /\ PacksFollow

(* The time an audit takes: each query what its attempts and backoffs took *)
(* at most, unless RpmLimit quick ones fill a window and share its length; *)
(* waiting for the rate limit is never added to work (query, 392-452).     *)
(* How long an attempt takes is up to the network and the model.           *)
TimeBounded ==
  \E b \in 0..Len(starts) :
    /\ b * RpmLimit < Len(starts) \/ b = 0
    /\ now <= (Len(starts) - b * RpmLimit) * longest + b * Window

=============================================================================
