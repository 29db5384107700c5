---------------------------- MODULE FeatureFlags ----------------------------
(***************************************************************************)
(* engine/features.py and its variant engine/P2_3_features.py: flags are   *)
(* read from a JSON file when the module is imported and at each reload,   *)
(* while operators edit the file; requests behind the decorator and direct *)
(* callers of is_enabled are answered from what was last read.             *)
(*                                                                         *)
(* Flags do not interact: one stands for all.  Its fields have the types   *)
(* of features.json.  Callers who give a context all give the same one, so *)
(* that a rule is known by how it comes out for it.                        *)
(***************************************************************************)
EXTENDS Naturals, Sequences

CONSTANTS Users,
          NoUser,    \* user_id is None or empty
          NoList,    \* the flag has no "allowed_users"
          Bucket,    \* _hash_user_to_bucket, on a scale of 0..Full-1
          Full,      \* a rollout of 100 percent
          Env,       \* ENVIRONMENT of the process
          Configs,   \* what operators write for the flag
          Impls,     \* which of the two modules is installed
          MaxEdits   \* bound: changes of the file

RuleKinds == {"met", "unmet", "missing", "unknown", "incomparable"}

\* A flag's form is that of its value in the object.
FlagForms == {"object", "scalar", "null", "absent"}

Flag == [form : FlagForms, enabled : BOOLEAN, environments : SUBSET STRING,
         blocked : SUBSET Users, allowed : {NoList} \cup SUBSET Users, rollout : 0..Full,
         rules : Seq(RuleKinds)]

ASSUME UsersAssumption == NoUser \notin Users /\ Full \in Nat
ASSUME BucketAssumption == Bucket \in [Users -> Nat] /\ \A u \in Users : Bucket[u] < Full
ASSUME ConfigsAssumption == Configs \subseteq Flag
ASSUME ImplsAssumption == Impls \subseteq {"features", "P2_3"}
ASSUME BoundAssumption == MaxEdits \in Nat

VARIABLES
  impl,    \* the installed module
  up,      \* its import succeeded
  file,    \* FEATURE_FLAGS_PATH
  pending, \* what an operator is about to write into the truncated file
  edits,   \* changes of the file so far
  served,  \* _flags
  loaded,  \* history: what the last load met: "whole", "failed" or "raised"
  last     \* answer to the last caller

vars == <<impl, up, file, pending, edits, served, loaded, last>>

\* form: "object" parses as one, "list" and "scalar" parse, "broken" does not,
\* "binary" is not UTF-8.
FileForms == {"object", "list", "scalar", "broken", "binary", "unreadable", "missing"}

Absent == [form |-> "absent", enabled |-> FALSE, environments |-> {}, blocked |-> {},
           allowed |-> NoList, rollout |-> Full, rules |-> <<>>]
NoFlags == [form |-> "object", flag |-> Absent]
Idle == [form |-> "none", flag |-> Absent]

\* What a load takes as flags.  features.py turns every exception into no flags,
\* also that of .items() on what is not an object.
Parses(i) == IF i = "features" THEN {"object"} ELSE {"object", "list", "scalar"}

TypeOK ==
  /\ impl \in Impls /\ up \in BOOLEAN /\ edits \in 0..MaxEdits
  /\ file \in [form : FileForms, flag : Flag]
  /\ pending \in {Idle} \cup [form : {"object"}, flag : Flag]
  /\ served \in [form : Parses(impl), flag : Flag]
  /\ loaded \in {"whole", "failed", "raised"}
  /\ last \in {"none", "on", "off", "error", "ran", "404", "500"}

-----------------------------------------------------------------------------
(* Loading. *)

\* What it returns: the parsed file, or no flags.
Load_Mut(i, f, old) == IF f.form \in Parses(i) THEN f ELSE old    \* keep what was served
Load(i, f, old) == IF f.form \in Parses(i) THEN f ELSE NoFlags

\* UnicodeDecodeError is neither a JSONDecodeError nor an OSError.
LoadRaises(i, f) == i = "P2_3" /\ f.form = "binary"

LoadFlags ==
  IF LoadRaises(impl, file)
  THEN loaded' = "raised" /\ UNCHANGED served
  ELSE /\ served' = Load(impl, file, served)
       /\ loaded' = IF file.form = "object" THEN "whole" ELSE "failed"

Unloaded(f) == [form |-> f, flag |-> Absent]

Init ==
  /\ impl \in Impls /\ up = FALSE
  /\ file \in {[form |-> "object", flag |-> c] : c \in Configs} \cup {Unloaded("missing")}
  /\ pending = Idle /\ edits = 0
  /\ served = NoFlags /\ loaded = "failed" /\ last = "none"

\* The import builds the global instance, whose log line takes len(_flags); a
\* process that is up may be restarted at any time.
Import ==
  /\ LoadFlags
  /\ up' = (loaded' # "raised" /\ served'.form # "scalar")
  /\ last' = "none"
  /\ UNCHANGED <<impl, file, pending, edits>>

Reload ==
  /\ up
  /\ LoadFlags
  /\ UNCHANGED <<impl, up, file, pending, edits, last>>

-----------------------------------------------------------------------------
(* Answering. *)

GlobalSwitch(c) == IF c.enabled THEN "pass" ELSE "off"

Environment(c) == IF c.environments = {} \/ Env \in c.environments THEN "pass" ELSE "off"

Blocklist(c, u) == IF u \in c.blocked THEN "off" ELSE "pass"

Allowlist(c, u) ==
  IF u = NoUser \/ c.allowed = NoList THEN "pass"
  ELSE IF u \in c.allowed THEN "on" ELSE "off"

InRollout_Mut(c, u) ==                         \* salted with the percentage too
  (Bucket[u] + 2 * c.rollout) % Full < c.rollout
InRollout(c, u) == Bucket[u] < c.rollout

Rollout(c, u) ==
  IF c.rollout < Full /\ u # NoUser /\ ~ InRollout(c, u) THEN "off" ELSE "pass"

FirstVerdict(verdicts) ==
  LET decided == {k \in DOMAIN verdicts : verdicts[k] # "pass"}
  IN IF decided = {} THEN "pass" ELSE verdicts[CHOOSE k \in decided : \A j \in decided : k <= j]

\* An operator that no branch knows: features.py goes on, P2_3 answers no.
UnknownOperator(i) == IF i = "features" THEN "pass" ELSE "off"

RuleVerdict(i, kind) ==
  CASE kind = "met" -> "pass"
    [] kind \in {"unmet", "missing"} -> "off"
    [] kind = "incomparable" -> "error"
    [] kind = "unknown" -> UnknownOperator(i)

Rules(i, c, context) ==
  IF context THEN FirstVerdict([k \in DOMAIN c.rules |-> RuleVerdict(i, c.rules[k])])
  ELSE "pass"

\* The gates in the order in which each module consults them.
FeaturesGates(c, u, context) ==
  <<GlobalSwitch(c), Environment(c), Blocklist(c, u), Allowlist(c, u), Rollout(c, u),
    Rules("features", c, context)>>
VariantGates_Mut(c, u, context) ==             \* the allowlist before the blocklist
  <<GlobalSwitch(c), Environment(c), Allowlist(c, u), Blocklist(c, u), Rollout(c, u),
    Rules("P2_3", c, context)>>
VariantGates(c, u, context) ==
  <<GlobalSwitch(c), Environment(c), Blocklist(c, u), Allowlist(c, u), Rollout(c, u),
    Rules("P2_3", c, context)>>

Enabled(i, c, u, context) ==
  LET verdict == FirstVerdict(IF i = "features" THEN FeaturesGates(c, u, context)
                                                ELSE VariantGates(c, u, context))
  IN IF verdict = "pass" THEN "on" ELSE verdict

\* A null flag is there for `in` and not there for .get().
IsEnabled(i, flags, u, context, default) ==
  LET c == flags.flag
  IN IF flags.form # "object" THEN "error"
     ELSE IF c.form = "absent" \/ (i = "P2_3" /\ c.form = "null")
     THEN IF default THEN "on" ELSE "off"
     ELSE IF c.form # "object" THEN "error"
     ELSE Enabled(i, c, u, context)

\* The decorator gives neither a context nor a default.
Gate(i, flags, u) == IsEnabled(i, flags, u, FALSE, FALSE)

Request(u) ==
  /\ up
  /\ LET answer == Gate(impl, served, u)
     IN last' = CASE answer = "on" -> "ran" [] answer = "off" -> "404" [] OTHER -> "500"
  /\ UNCHANGED <<impl, up, file, pending, edits, served, loaded>>

Ask(u, context, default) ==
  /\ up
  /\ last' = IsEnabled(impl, served, u, context, default)
  /\ UNCHANGED <<impl, up, file, pending, edits, served, loaded>>

-----------------------------------------------------------------------------
(* The operators' edits. *)

\* Saving in place truncates the file, which then does not parse.
Truncate ==
  /\ pending = Idle /\ edits < MaxEdits /\ edits' = edits + 1
  /\ \E c \in Configs : pending' = [form |-> "object", flag |-> c]
  /\ file' = Unloaded("broken")
  /\ UNCHANGED <<impl, up, served, loaded, last>>

Fill ==
  /\ pending # Idle
  /\ file' = pending /\ pending' = Idle
  /\ UNCHANGED <<impl, up, edits, served, loaded, last>>

\* Anything else that can become of the file.
Spoil ==
  /\ pending = Idle /\ edits < MaxEdits /\ edits' = edits + 1
  /\ \E f \in FileForms \ {"object"} : file' = Unloaded(f)
  /\ UNCHANGED <<impl, up, pending, served, loaded, last>>

Next ==
  \/ Import \/ Reload \/ Truncate \/ Fill \/ Spoil
  \/ \E u \in Users \cup {NoUser} :
       \/ Request(u)
       \/ \E context, default \in BOOLEAN : Ask(u, context, default)

Spec == Init /\ [][Next]_vars
-----------------------------------------------------------------------------
(* Properties. *)

(* After a load that met no JSON object nobody is answered from a flag,    *)
(* whatever was served before, unless it raised and the flags before it    *)
(* stay: every caller gets the default it gave, or an error, and so the    *)
(* decorator, which gives FALSE, lets nobody through.  A direct caller     *)
(* with default=True is let through (features.py:76-81, 112-114).          *)
FailsClosed ==
  loaded = "failed" =>
    \A u \in Users \cup {NoUser} :
      /\ Gate(impl, served, u) # "on"
      /\ \A context, default \in BOOLEAN :
           IsEnabled(impl, served, u, context, default)
             \in {"error", IF default THEN "on" ELSE "off"}

(* Stable rollout (features.py:158): when new flags are served that differ *)
(* from the old ones in a higher percentage or a shorter blocklist, nobody *)
(* who was let in is turned away.                                          *)
WideningKeepsUsers ==
  [][LET c == served.flag
         d == served'.flag
     IN served.form = "object" /\ d.rollout >= c.rollout /\ d.blocked \subseteq c.blocked
          /\ served' = [served EXCEPT !.flag.rollout = d.rollout, !.flag.blocked = d.blocked]
          => \A u \in Users \cup {NoUser}, context \in BOOLEAN :
               IsEnabled(impl, served, u, context, FALSE) = "on" =>
                 IsEnabled(impl, served', u, context, FALSE) = "on"]_served

(* From the same file, whatever default a caller gives: the variant says   *)
(* on only if features.py does, but for a null flag, where it gives the    *)
(* default and features.py raises; about a well-formed flag whose          *)
(* operators both know they answer alike; and in both the gates have this  *)
(* precedence: a flag that is off, or of another environment, or a blocked *)
(* user stays off for those on the allowlist, too, and an allowlist        *)
(* overrides percentage and rules (features.py:118-150, P2_3:82-118).      *)
Shut(c, u) ==
  ~ c.enabled \/ (c.environments # {} /\ Env \notin c.environments) \/ u \in c.blocked

VariantIsStricter ==
  \A u \in Users \cup {NoUser}, context, default \in BOOLEAN :
    ~ LoadRaises("P2_3", file) =>
      LET answer(i) == IsEnabled(i, Load(i, file, served), u, context, default)
          c == file.flag
      IN /\ answer("P2_3") = "on" =>
              \/ answer("features") = "on"
              \/ default /\ c.form = "null" /\ answer("features") = "error"
         /\ file.form = "object" /\ c.form = "object" =>
              /\ (\A k \in DOMAIN c.rules : c.rules[k] # "unknown") =>
                   answer("P2_3") = answer("features")
              /\ \A i \in {"features", "P2_3"} :
                   /\ Shut(c, u) => answer(i) = "off"
                   /\ ~ Shut(c, u) /\ c.allowed # NoList /\ u # NoUser =>
                        answer(i) = IF u \in c.allowed THEN "on" ELSE "off"
=============================================================================
