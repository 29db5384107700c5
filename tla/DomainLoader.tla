---------------------------- MODULE DomainLoader ----------------------------
(***************************************************************************)
(* chassis/config.py, YAMLDomainLoader: domains/{id}/spec.yaml is read and *)
(* cached under the file's mtime.  A load is synchronous, so loads do not  *)
(* interleave, but files change between its system calls.  Domains do not  *)
(* interact: one stands for all.  Ids that _resolve_path refuses (empty,   *)
(* with a NUL, outside of the base path) and symlinks have no state.       *)
(***************************************************************************)
EXTENDS Naturals

CONSTANTS MaxChanges, \* bound: changes of the file
          MaxClock    \* bound: ticks of the clock behind mtimes

ASSUME LoaderAssumption == MaxChanges \in Nat /\ MaxClock \in Nat

VARIABLES
  spec,       \* the file: its form, its version (a number per change) and mtime
  clock,      \* what the file system stamps a file with that is written now
  cache,      \* _cache[domain_id]: a version and the mtime it is kept under
  loading,    \* where load_raw stands
  stamp,      \* its mtime
  answer,     \* what the last load returned: a version, or that it raised
  quiet,      \* history: no change and no invalidation since the last load began
  sure        \* history: no change left the file with an mtime it had before,
              \* or an earlier one, since the cache was last empty

loaderVars == <<spec, clock, cache, loading, stamp, answer, quiet, sure>>

\* "mapping", parsed and not a mapping, not parsed or not UTF-8, above the cap.
SpecForms == {"mapping", "other", "broken", "huge", "missing"}
NotCached == [version |-> MaxChanges + 1, mtime |-> 0]
Raised == MaxChanges + 2

LoaderTypeOK ==
  /\ spec \in [form : SpecForms, version : 0..MaxChanges, mtime : 0..MaxClock]
  /\ clock \in 0..MaxClock /\ stamp \in 0..MaxClock
  /\ cache \in [version : 0..MaxChanges, mtime : 0..MaxClock] \cup {NotCached}
  /\ loading \in {"idle", "resolved", "missed", "sized"}
  /\ answer \in 0..MaxChanges \cup {Raised}
  /\ quiet \in BOOLEAN /\ sure \in BOOLEAN

LoaderInit ==
  /\ spec \in [form : SpecForms, version : {0}, mtime : {0}]
  /\ clock = 0 /\ cache = NotCached /\ sure = TRUE
  /\ loading = "idle" /\ stamp = 0 /\ answer = Raised /\ quiet = FALSE

-----------------------------------------------------------------------------
(* Loading.  (Names ending in _Mut are plausible bugs in the definition      *)
(* after them, kept to show which property notices; they are not the model.) *)

\* DomainNotFoundError, FileNotFoundError, DomainSpecError, UnicodeDecodeError:
\* the cache stays.
Raise == answer' = Raised /\ loading' = "idle" /\ UNCHANGED <<cache, stamp>>

Resolve ==
  /\ loading = "idle"
  /\ quiet' = TRUE
  /\ IF spec.form = "missing" THEN Raise
     ELSE loading' = "resolved" /\ UNCHANGED <<cache, stamp, answer>>
  /\ UNCHANGED <<spec, clock, sure>>

Hit(mtime) == cache # NotCached /\ cache.mtime >= mtime

Stat ==
  /\ loading = "resolved"
  /\ IF spec.form = "missing" THEN Raise
     ELSE IF Hit(spec.mtime)
     THEN answer' = cache.version /\ loading' = "idle" /\ UNCHANGED <<cache, stamp>>
     ELSE stamp' = spec.mtime /\ loading' = "missed" /\ UNCHANGED <<cache, answer>>
  /\ UNCHANGED <<spec, clock, quiet, sure>>

CheckSize ==
  /\ loading = "missed"
  /\ IF spec.form \in {"missing", "huge"} THEN Raise
     ELSE loading' = "sized" /\ UNCHANGED <<cache, stamp, answer>>
  /\ UNCHANGED <<spec, clock, quiet, sure>>

\* A file that grew after CheckSize is read all the same.
Parsed(form) == form \in {"mapping", "huge"}

KeptUnder_Mut == clock               \* the time of the load
KeptUnder == stamp                   \* the file's, from before it was read

ReadYaml ==
  /\ loading = "sized"
  /\ IF Parsed(spec.form)
     THEN /\ cache' = [version |-> spec.version, mtime |-> KeptUnder]
          /\ answer' = spec.version
          /\ loading' = "idle" /\ UNCHANGED stamp
     ELSE Raise
  /\ UNCHANGED <<spec, clock, quiet, sure>>

Invalidate ==
  /\ loading = "idle"
  /\ cache' = NotCached /\ sure' = TRUE /\ quiet' = FALSE
  /\ UNCHANGED <<spec, clock, loading, stamp, answer>>

-----------------------------------------------------------------------------
(* The file.  Saving in place is two changes or more; a write stamps the     *)
(* file with the clock, a restored file comes with its old mtime.            *)

ChangeSpec ==
  /\ spec.version < MaxChanges
  /\ \E form \in SpecForms, mtime \in 0..clock :
       /\ spec' = [form |-> form, version |-> spec.version + 1, mtime |-> mtime]
       /\ sure' = (sure /\ mtime > spec.mtime)
  /\ quiet' = FALSE
  /\ UNCHANGED <<clock, cache, loading, stamp, answer>>

TickClock ==
  /\ clock < MaxClock /\ clock' = clock + 1
  /\ UNCHANGED <<spec, cache, loading, stamp, answer, quiet, sure>>

LoaderNext ==
  Resolve \/ Stat \/ CheckSize \/ ReadYaml \/ Invalidate \/ ChangeSpec \/ TickClock

LoaderSpec == LoaderInit /\ [][LoaderNext]_loaderVars

-----------------------------------------------------------------------------
(* Correctness *)

\* A load during which the file did not change returns what is in the file, as
\* long as every change since the cache was last empty gave it a later mtime:
\* one that came between stat() and read_text() of an earlier load is noticed
\* by the next (config.py:91-101).
LoadServesCurrent ==
  loading = "idle" /\ quiet /\ sure /\ answer # Raised => answer = spec.version
=============================================================================
