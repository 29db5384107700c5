--------------------------- MODULE NodePartsProofs ---------------------------
(***************************************************************************)
(* What the parts of a node promise that serve requests from a file or a   *)
(* payload: feature flags for all users and flags, domain specs for all    *)
(* changes of the file, cleaned payloads for all calls.                    *)
(***************************************************************************)
EXTENDS FeatureFlags, DomainLoader, PIIHandler, SequenceTheorems, WellFoundedInduction, TLAPS

-----------------------------------------------------------------------------
(* Feature flags: verdicts *)

LEMMA LeastIndex ==
  ASSUME NEW S \in SUBSET Nat, S # {}
  PROVE  \E k \in S : \A j \in S : k <= j
<1>1. PICK k \in S : \A j \in S : <<j, k>> \notin OpToRel(<, Nat)
  BY NatLessThanWellFounded, WFMin
<1>2. \A j \in S : ~ j < k
  BY <1>1 DEF OpToRel
<1>3. QED
  BY <1>2

LEMMA FirstVerdictIsFirst ==
  ASSUME NEW v, DOMAIN v \subseteq Nat
  PROVE  \/ FirstVerdict(v) = "pass" /\ \A k \in DOMAIN v : v[k] = "pass"
         \/ \E k \in DOMAIN v : /\ v[k] # "pass" /\ FirstVerdict(v) = v[k]
                                /\ \A j \in DOMAIN v : j < k => v[j] = "pass"
<1> DEFINE decided == {k \in DOMAIN v : v[k] # "pass"}
<1>1. CASE decided = {}
  BY <1>1 DEF FirstVerdict
<1>2. CASE decided # {}
  <2> DEFINE first == CHOOSE k \in decided : \A j \in decided : k <= j
  <2>1. first \in decided /\ \A j \in decided : first <= j
    BY <1>2, LeastIndex
  <2>2. FirstVerdict(v) = v[first]
    BY <1>2 DEF FirstVerdict
  <2> HIDE DEF first
  <2>3. QED
    BY <2>1, <2>2
<1>3. QED
  BY <1>1, <1>2

\* Rules let nobody in by themselves.
LEMMA RulesVerdict ==
  ASSUME NEW i \in {"features", "P2_3"}, NEW c \in Flag, NEW context \in BOOLEAN
  PROVE  /\ Rules(i, c, context) \in {"pass", "off", "error"}
         /\ Rules(i, c, context) = "pass" <=>
              (context => \A k \in DOMAIN c.rules : RuleVerdict(i, c.rules[k]) = "pass")
<1> DEFINE v == [k \in DOMAIN c.rules |-> RuleVerdict(i, c.rules[k])]
<1>1. DOMAIN c.rules = 1..Len(c.rules) /\ \A k \in DOMAIN c.rules : c.rules[k] \in RuleKinds
  BY DEF Flag
<1>2. \A k \in DOMAIN v : v[k] \in {"pass", "off", "error"}
  BY <1>1 DEF RuleKinds, RuleVerdict, UnknownOperator
<1>3. DOMAIN v \subseteq Nat
  BY <1>1
<1>4. \/ FirstVerdict(v) = "pass" /\ \A k \in DOMAIN v : v[k] = "pass"
      \/ \E k \in DOMAIN v : v[k] # "pass" /\ FirstVerdict(v) = v[k]
  BY <1>3, FirstVerdictIsFirst
<1>5. Rules(i, c, context) = IF context THEN FirstVerdict(v) ELSE "pass"
  BY DEF Rules
<1>6. QED
  BY <1>2, <1>4, <1>5

\* When a flag is on: nothing refuses before the allowlist, and then the
\* allowlist admits, or it has no opinion and nothing refuses after it.
Admitted(i, c, u, context) ==
  /\ c.enabled /\ (c.environments = {} \/ Env \in c.environments) /\ u \notin c.blocked
  /\ \/ Allowlist(c, u) = "on"
     \/ Allowlist(c, u) = "pass" /\ Rollout(c, u) = "pass" /\ Rules(i, c, context) = "pass"

LEMMA EnabledIsAdmitted ==
  ASSUME NEW i \in {"features", "P2_3"}, NEW c \in Flag, NEW u, NEW context \in BOOLEAN
  PROVE  /\ Enabled(i, c, u, context) \in {"on", "off", "error"}
         /\ Enabled(i, c, u, context) = "on" <=> Admitted(i, c, u, context)
<1> DEFINE v == <<GlobalSwitch(c), Environment(c), Blocklist(c, u),
                  Allowlist(c, u), Rollout(c, u), Rules(i, c, context)>>
<1>1. DOMAIN v = 1..6 /\ DOMAIN v \subseteq Nat
  OBVIOUS
<1>2. /\ v[1] = GlobalSwitch(c) /\ v[2] = Environment(c) /\ v[3] = Blocklist(c, u)
      /\ v[4] = Allowlist(c, u) /\ v[5] = Rollout(c, u) /\ v[6] = Rules(i, c, context)
  OBVIOUS
<1>3. /\ v[1] \in {"pass", "off"} /\ (v[1] = "pass" <=> c.enabled)
      /\ v[2] \in {"pass", "off"} /\ (v[2] = "pass" <=> c.environments = {} \/ Env \in c.environments)
      /\ v[3] \in {"pass", "off"} /\ (v[3] = "pass" <=> u \notin c.blocked)
      /\ v[4] \in {"pass", "on", "off"} /\ v[5] \in {"pass", "off"}
      /\ v[6] \in {"pass", "off", "error"}
  BY <1>2, RulesVerdict DEF GlobalSwitch, Environment, Blocklist, Allowlist, Rollout, Flag
<1>4. Enabled(i, c, u, context) = IF FirstVerdict(v) = "pass" THEN "on" ELSE FirstVerdict(v)
  BY DEF Enabled, FeaturesGates, VariantGates
<1>5. \/ FirstVerdict(v) = "pass" /\ \A k \in DOMAIN v : v[k] = "pass"
      \/ \E k \in DOMAIN v : /\ v[k] # "pass" /\ FirstVerdict(v) = v[k]
                             /\ \A j \in DOMAIN v : j < k => v[j] = "pass"
  BY <1>1, FirstVerdictIsFirst
<1>6. Admitted(i, c, u, context) <=>
        /\ v[1] = "pass" /\ v[2] = "pass" /\ v[3] = "pass"
        /\ v[4] = "on" \/ (v[4] = "pass" /\ v[5] = "pass" /\ v[6] = "pass")
  BY <1>2, <1>3 DEF Admitted
<1> HIDE DEF v
<1>7. CASE FirstVerdict(v) = "pass" /\ \A k \in DOMAIN v : v[k] = "pass"
  BY <1>1, <1>4, <1>6, <1>7
<1>8. ASSUME NEW k \in 1..6, v[k] # "pass", FirstVerdict(v) = v[k],
             \A j \in 1..6 : j < k => v[j] = "pass"
      PROVE  /\ Enabled(i, c, u, context) \in {"on", "off", "error"}
             /\ Enabled(i, c, u, context) = "on" <=> Admitted(i, c, u, context)
  <2>1. Enabled(i, c, u, context) = v[k]
    BY <1>4, <1>8
  <2>2. CASE k = 1
    BY <1>3, <1>6, <1>8, <2>1, <2>2
  <2>3. CASE k = 2
    BY <1>3, <1>6, <1>8, <2>1, <2>3
  <2>4. CASE k = 3
    BY <1>3, <1>6, <1>8, <2>1, <2>4
  <2>5. CASE k = 4
    BY <1>3, <1>6, <1>8, <2>1, <2>5
  <2>6. CASE k = 5 \/ k = 6
    BY <1>3, <1>6, <1>8, <2>1, <2>6
  <2>7. QED
    BY <2>2, <2>3, <2>4, <2>5, <2>6
<1>9. QED
  BY <1>1, <1>5, <1>7, <1>8

-----------------------------------------------------------------------------
(* Feature flags: the process and the file *)

LEMMA AbsentIsAFlag == Absent \in Flag
<1>1. <<>> \in Seq(RuleKinds) /\ Full \in 0..Full
  BY UsersAssumption, EmptySeq
<1>2. QED
  BY <1>1 DEF Absent, Flag, FlagForms

LEMMA LoadedFlags ==
  ASSUME TypeOK, LoadFlags
  PROVE  served' \in [form : Parses(impl), flag : Flag] /\ loaded' \in {"whole", "failed", "raised"}
<1>1. CASE LoadRaises(impl, file)
  BY <1>1 DEF LoadFlags, TypeOK
<1>2. CASE ~ LoadRaises(impl, file)
  BY <1>2, AbsentIsAFlag DEF LoadFlags, TypeOK, Load, NoFlags, Parses
<1>3. QED
  BY <1>1, <1>2

LEMMA FlagsTypeStep == TypeOK /\ [Next]_vars => TypeOK'
<1> SUFFICES ASSUME TypeOK, [Next]_vars PROVE TypeOK'
  OBVIOUS
<1>1. CASE Import
  BY <1>1, LoadedFlags DEF Import, TypeOK
<1>2. CASE Reload
  BY <1>2, LoadedFlags DEF Reload, TypeOK
<1>3. CASE Truncate
  BY <1>3, AbsentIsAFlag, ConfigsAssumption, BoundAssumption
  DEF Truncate, Unloaded, FileForms, TypeOK
<1>4. CASE Fill
  BY <1>4, AbsentIsAFlag DEF Fill, Idle, FileForms, TypeOK
<1>5. CASE Spoil
  BY <1>5, AbsentIsAFlag, BoundAssumption DEF Spoil, Unloaded, TypeOK
<1>6. ASSUME NEW u \in Users \cup {NoUser}, Request(u) PROVE TypeOK'
  BY <1>6 DEF Request, TypeOK
<1>7. ASSUME NEW u \in Users \cup {NoUser}, NEW context \in BOOLEAN, NEW default \in BOOLEAN,
             Ask(u, context, default)
      PROVE  TypeOK'
  <2>1. /\ impl \in {"features", "P2_3"} /\ served.flag \in Flag
    BY ImplsAssumption DEF TypeOK
  <2>2. Enabled(impl, served.flag, u, context) \in {"on", "off", "error"}
    BY <2>1, EnabledIsAdmitted
  <2>3. QED
    BY <1>7, <2>2 DEF Ask, IsEnabled, TypeOK
<1>8. CASE UNCHANGED vars
  BY <1>8 DEF vars, TypeOK
<1>9. QED
  BY <1>1, <1>2, <1>3, <1>4, <1>5, <1>6, <1>7, <1>8 DEF Next

\* Served flags that come from no object let nobody in.
FailedMeansNothing ==
  loaded = "failed" => served.form # "object" \/ served.flag.form = "absent"

FlagsInv == TypeOK /\ FailedMeansNothing

LEMMA FlagsInit == Init => FlagsInv
<1> SUFFICES ASSUME Init PROVE FlagsInv
  OBVIOUS
<1>1. file \in [form : FileForms, flag : Flag]
  BY AbsentIsAFlag, ConfigsAssumption DEF Init, Unloaded, FileForms
<1>2. served \in [form : Parses(impl), flag : Flag] /\ served.flag.form = "absent"
  BY AbsentIsAFlag DEF Init, NoFlags, Absent, Parses
<1>3. 0 \in 0..MaxEdits
  BY BoundAssumption
<1>4. TypeOK
  BY <1>1, <1>2, <1>3 DEF Init, TypeOK
<1>5. QED
  BY <1>2, <1>4 DEF FlagsInv, FailedMeansNothing

LEMMA FailedLoad ==
  ASSUME TypeOK, FailedMeansNothing, LoadFlags
  PROVE  FailedMeansNothing'
<1>1. CASE LoadRaises(impl, file)
  BY <1>1 DEF LoadFlags, FailedMeansNothing
<1>2. CASE ~ LoadRaises(impl, file)
  BY <1>2 DEF LoadFlags, FailedMeansNothing, Load, NoFlags, Absent
<1>3. QED
  BY <1>1, <1>2

LEMMA FlagsStep == FlagsInv /\ [Next]_vars => FlagsInv'
<1> SUFFICES ASSUME TypeOK, FailedMeansNothing, [Next]_vars PROVE FailedMeansNothing'
  BY FlagsTypeStep DEF FlagsInv
<1>1. CASE LoadFlags
  BY <1>1, FailedLoad
<1>2. CASE UNCHANGED <<served, loaded>>
  BY <1>2 DEF FailedMeansNothing
<1>3. Import \/ Reload => LoadFlags
  BY DEF Import, Reload
<1>4. ~ Import /\ ~ Reload => UNCHANGED <<served, loaded>>
  BY DEF Next, Truncate, Fill, Spoil, Request, Ask, vars
<1>5. QED
  BY <1>1, <1>2, <1>3, <1>4

(* Both modules keep their state within what the code can hold: flags that *)
(* were read are those that the installed module takes, whatever stands in *)
(* the file at any moment.                                                 *)
THEOREM FlagsTypeCorrect == Spec => []TypeOK
<1>1. FlagsInv => TypeOK
  BY DEF FlagsInv
<1>2. QED
  BY FlagsInit, FlagsStep, <1>1, PTL DEF Spec

(* Whatever flags were served before, a load that meets no JSON object     *)
(* leaves none that lets a user through the decorator, for any users and   *)
(* any flags (features.py:76-81, P2_3_features.py:51-53).                  *)
THEOREM FlagsFailClosed == Spec => []FailsClosed
<1>1. FlagsInv => FailsClosed
  BY DEF FlagsInv, FailedMeansNothing, FailsClosed, Gate, IsEnabled
<1>2. QED
  BY FlagsInit, FlagsStep, <1>1, PTL DEF Spec

\* Of the six verdicts only those on the user's bucket and the blocklist read
\* what widening changes.
LEMMA WiderAdmits ==
  ASSUME NEW i \in {"features", "P2_3"}, NEW c \in Flag, NEW d \in Flag,
         NEW u \in Users \cup {NoUser}, NEW context \in BOOLEAN,
         d.rollout >= c.rollout, d.blocked \subseteq c.blocked,
         d.enabled = c.enabled, d.environments = c.environments,
         d.allowed = c.allowed, d.rules = c.rules,
         Admitted(i, c, u, context)
  PROVE  Admitted(i, d, u, context)
<1>1. Allowlist(d, u) = Allowlist(c, u) /\ Rules(i, d, context) = Rules(i, c, context)
  BY DEF Allowlist, Rules
<1>2. c.rollout \in Nat /\ d.rollout \in Nat /\ c.rollout <= Full /\ d.rollout <= Full /\ Full \in Nat
  BY UsersAssumption DEF Flag
<1>3. u # NoUser => Bucket[u] \in Nat
  BY BucketAssumption
<1>4. Rollout(c, u) = "pass" => Rollout(d, u) = "pass"
  BY <1>2, <1>3 DEF Rollout, InRollout
<1>5. QED
  BY <1>1, <1>4 DEF Admitted

LEMMA WideningStep == TypeOK /\ TypeOK' /\ [Next]_vars =>
  [LET c == served.flag
       d == served'.flag
   IN served.form = "object" /\ d.rollout >= c.rollout /\ d.blocked \subseteq c.blocked
        /\ served' = [served EXCEPT !.flag.rollout = d.rollout, !.flag.blocked = d.blocked]
        => \A u \in Users \cup {NoUser}, context \in BOOLEAN :
             IsEnabled(impl, served, u, context, FALSE) = "on" =>
               IsEnabled(impl, served', u, context, FALSE) = "on"]_served
<1> DEFINE c == served.flag
           d == served'.flag
<1> SUFFICES ASSUME TypeOK, TypeOK', served.form = "object",
                    d.rollout >= c.rollout, d.blocked \subseteq c.blocked,
                    served' = [served EXCEPT !.flag.rollout = d.rollout, !.flag.blocked = d.blocked],
                    NEW u \in Users \cup {NoUser}, NEW context \in BOOLEAN,
                    IsEnabled(impl, served, u, context, FALSE) = "on"
             PROVE  IsEnabled(impl, served', u, context, FALSE) = "on"
  OBVIOUS
<1>1. c \in Flag /\ d \in Flag /\ impl \in {"features", "P2_3"}
  BY ImplsAssumption DEF TypeOK
<1>2. /\ d = [c EXCEPT !.rollout = d.rollout, !.blocked = d.blocked]
      /\ served'.form = "object"
  BY DEF TypeOK
<1>3. /\ d.enabled = c.enabled /\ d.environments = c.environments
      /\ d.allowed = c.allowed /\ d.rules = c.rules /\ d.form = c.form
  BY <1>1, <1>2 DEF Flag
<1>4. /\ ~ (c.form = "absent" \/ (impl = "P2_3" /\ c.form = "null")) /\ c.form = "object"
      /\ Enabled(impl, c, u, context) = "on"
  BY DEF IsEnabled
<1> HIDE DEF c, d
<1>5. Enabled(impl, d, u, context) = "on"
  BY <1>1, <1>3, <1>4, EnabledIsAdmitted, WiderAdmits
<1>6. QED
  BY <1>2, <1>3, <1>4, <1>5 DEF IsEnabled, c, d

(* For any users, buckets and flags: when the served flag only gets a      *)
(* higher percentage or a shorter blocklist, nobody who was let in is      *)
(* turned away (features.py:158).                                          *)
THEOREM FlagsWideningKeepsUsers == Spec => WideningKeepsUsers
<1>1. FlagsInv /\ FlagsInv' => TypeOK /\ TypeOK'
  BY DEF FlagsInv
<1>2. QED
  BY FlagsInit, FlagsStep, WideningStep, <1>1, PTL DEF Spec, WideningKeepsUsers

\* The variant differs from features.py in the operators it does not know.
LEMMA RulesAreStricter ==
  ASSUME NEW c \in Flag, NEW context \in BOOLEAN
  PROVE  /\ Rules("P2_3", c, context) = "pass" => Rules("features", c, context) = "pass"
         /\ (\A k \in DOMAIN c.rules : c.rules[k] # "unknown") =>
              Rules("P2_3", c, context) = Rules("features", c, context)
<1>1. \A k \in DOMAIN c.rules : c.rules[k] \in RuleKinds
  BY DEF Flag
<1>2. \A k \in DOMAIN c.rules :
        RuleVerdict("P2_3", c.rules[k]) = "pass" => RuleVerdict("features", c.rules[k]) = "pass"
  BY <1>1 DEF RuleVerdict, RuleKinds, UnknownOperator
<1>3. Rules("P2_3", c, context) = "pass" => Rules("features", c, context) = "pass"
  BY <1>2, RulesVerdict
<1>4. ASSUME \A k \in DOMAIN c.rules : c.rules[k] # "unknown"
      PROVE  Rules("P2_3", c, context) = Rules("features", c, context)
  <2>1. \A k \in DOMAIN c.rules :
          RuleVerdict("P2_3", c.rules[k]) = RuleVerdict("features", c.rules[k])
    BY <1>1, <1>4 DEF RuleVerdict, RuleKinds
  <2>2. [k \in DOMAIN c.rules |-> RuleVerdict("P2_3", c.rules[k])]
          = [k \in DOMAIN c.rules |-> RuleVerdict("features", c.rules[k])]
    BY <2>1
  <2>3. QED
    BY <2>2 DEF Rules
<1>5. QED
  BY <1>3, <1>4

\* What comes before the rules decides alike in both.
LEMMA GatesDecide ==
  ASSUME NEW i \in {"features", "P2_3"}, NEW c \in Flag, NEW u \in Users \cup {NoUser},
         NEW context \in BOOLEAN
  PROVE  /\ Shut(c, u) => Enabled(i, c, u, context) = "off"
         /\ ~ Shut(c, u) /\ c.allowed # NoList /\ u # NoUser =>
              Enabled(i, c, u, context) = IF u \in c.allowed THEN "on" ELSE "off"
<1> DEFINE v == <<GlobalSwitch(c), Environment(c), Blocklist(c, u),
                  Allowlist(c, u), Rollout(c, u), Rules(i, c, context)>>
<1>1. DOMAIN v = 1..6 /\ DOMAIN v \subseteq Nat
  OBVIOUS
<1>2. /\ v[1] = GlobalSwitch(c) /\ v[2] = Environment(c) /\ v[3] = Blocklist(c, u)
      /\ v[4] = Allowlist(c, u)
  OBVIOUS
<1>3. Enabled(i, c, u, context) = IF FirstVerdict(v) = "pass" THEN "on" ELSE FirstVerdict(v)
  BY DEF Enabled, FeaturesGates, VariantGates
<1>4. \/ FirstVerdict(v) = "pass" /\ \A k \in DOMAIN v : v[k] = "pass"
      \/ \E k \in DOMAIN v : /\ v[k] # "pass" /\ FirstVerdict(v) = v[k]
                             /\ \A j \in DOMAIN v : j < k => v[j] = "pass"
  BY <1>1, FirstVerdictIsFirst
<1>5. /\ v[1] \in {"pass", "off"} /\ v[2] \in {"pass", "off"} /\ v[3] \in {"pass", "off"}
      /\ Shut(c, u) <=> v[1] = "off" \/ v[2] = "off" \/ v[3] = "off"
  BY <1>2 DEF GlobalSwitch, Environment, Blocklist, Shut, Flag
<1>6. c.allowed # NoList /\ u # NoUser => v[4] = IF u \in c.allowed THEN "on" ELSE "off"
  BY <1>2 DEF Allowlist
<1> HIDE DEF v
<1>7. ASSUME Shut(c, u) PROVE Enabled(i, c, u, context) = "off"
  <2>1. PICK k \in 1..6 : /\ v[k] # "pass" /\ FirstVerdict(v) = v[k]
                          /\ \A j \in 1..6 : j < k => v[j] = "pass"
    BY <1>1, <1>4, <1>5, <1>7
  <2>2. k \in {1, 2, 3}
    BY <1>5, <1>7, <2>1
  <2>3. v[k] = "off"
    BY <1>5, <2>1, <2>2
  <2>4. QED
    BY <1>3, <2>1, <2>3
<1>8. ASSUME ~ Shut(c, u), c.allowed # NoList, u # NoUser
      PROVE  Enabled(i, c, u, context) = IF u \in c.allowed THEN "on" ELSE "off"
  <2>1. v[1] = "pass" /\ v[2] = "pass" /\ v[3] = "pass" /\ v[4] # "pass"
    BY <1>5, <1>6, <1>8
  <2>2. PICK k \in 1..6 : /\ v[k] # "pass" /\ FirstVerdict(v) = v[k]
                          /\ \A j \in 1..6 : j < k => v[j] = "pass"
    BY <1>1, <1>4, <2>1
  <2>3. k = 4
    BY <2>1, <2>2
  <2>4. QED
    BY <1>3, <1>6, <1>8, <2>2, <2>3
<1>9. QED
  BY <1>7, <1>8

LEMMA StricterOnce == TypeOK => VariantIsStricter
<1> SUFFICES ASSUME TypeOK, NEW u \in Users \cup {NoUser}, NEW context \in BOOLEAN,
                    NEW default \in BOOLEAN, ~ LoadRaises("P2_3", file)
             PROVE
               LET verdictOf(i) == IsEnabled(i, Load(i, file, served), u, context, default)
                   c == file.flag
               IN /\ verdictOf("P2_3") = "on" =>
                       \/ verdictOf("features") = "on"
                       \/ default /\ c.form = "null" /\ verdictOf("features") = "error"
                  /\ file.form = "object" /\ c.form = "object" =>
                       /\ (\A k \in DOMAIN c.rules : c.rules[k] # "unknown") =>
                            verdictOf("P2_3") = verdictOf("features")
                       /\ \A i \in {"features", "P2_3"} :
                            /\ Shut(c, u) => verdictOf(i) = "off"
                            /\ ~ Shut(c, u) /\ c.allowed # NoList /\ u # NoUser =>
                                 verdictOf(i) = IF u \in c.allowed THEN "on" ELSE "off"
  BY DEF VariantIsStricter
<1> DEFINE c == file.flag
           verdictOf(i) == IsEnabled(i, Load(i, file, served), u, context, default)
<1>1. c \in Flag
  BY DEF TypeOK
<1>2. CASE file.form # "object"
  <2>1. verdictOf("P2_3") = "on" => verdictOf("features") = "on"
    BY <1>2 DEF Load, Parses, IsEnabled, NoFlags, Absent
  <2>2. QED
    BY <1>2, <2>1
<1>3. CASE file.form = "object"
  <2>1. /\ Load("P2_3", file, served) = file
        /\ Load("features", file, served) = file
    BY <1>3 DEF Load, Parses
  <2>2. ASSUME c.form = "object"
        PROVE  \A i \in {"features", "P2_3"} : verdictOf(i) = Enabled(i, c, u, context)
    BY <1>3, <2>1, <2>2 DEF IsEnabled
  <2>3. ASSUME verdictOf("P2_3") = "on"
        PROVE  \/ verdictOf("features") = "on"
               \/ default /\ c.form = "null" /\ verdictOf("features") = "error"
    <3>1. CASE c.form = "object"
      <4>1. Enabled("P2_3", c, u, context) = "on"
        BY <2>2, <2>3, <3>1
      <4>2. Enabled("features", c, u, context) = "on"
        BY <1>1, <4>1, EnabledIsAdmitted, RulesAreStricter DEF Admitted
      <4>3. QED
        BY <2>2, <3>1, <4>2
    <3>2. CASE c.form # "object"
      BY <1>3, <2>1, <2>3, <3>2 DEF IsEnabled
    <3>3. QED
      BY <3>1, <3>2
  <2>4. ASSUME c.form = "object", \A k \in DOMAIN c.rules : c.rules[k] # "unknown"
        PROVE  verdictOf("P2_3") = verdictOf("features")
    <3>1. Rules("P2_3", c, context) = Rules("features", c, context)
      BY <1>1, <2>4, RulesAreStricter
    <3>2. Enabled("P2_3", c, u, context) = Enabled("features", c, u, context)
      BY <3>1 DEF Enabled, FeaturesGates, VariantGates
    <3>3. QED
      BY <2>2, <2>4, <3>2
  <2>5. ASSUME c.form = "object", NEW i \in {"features", "P2_3"}
        PROVE  /\ Shut(c, u) => verdictOf(i) = "off"
               /\ ~ Shut(c, u) /\ c.allowed # NoList /\ u # NoUser =>
                    verdictOf(i) = IF u \in c.allowed THEN "on" ELSE "off"
    <3>1. verdictOf(i) = Enabled(i, c, u, context)
      BY <2>2, <2>5
    <3> HIDE DEF verdictOf, c
    <3>2. QED
      BY <1>1, <3>1, GatesDecide
  <2> HIDE DEF verdictOf, c
  <2>6. verdictOf("P2_3") = "on" =>
          \/ verdictOf("features") = "on"
          \/ default /\ c.form = "null" /\ verdictOf("features") = "error"
    BY <2>3
  <2>7. c.form = "object" /\ (\A k \in DOMAIN c.rules : c.rules[k] # "unknown") =>
          verdictOf("P2_3") = verdictOf("features")
    BY <2>4
  <2>8. c.form = "object" => \A i \in {"features", "P2_3"} :
          /\ Shut(c, u) => verdictOf(i) = "off"
          /\ ~ Shut(c, u) /\ c.allowed # NoList /\ u # NoUser =>
               verdictOf(i) = IF u \in c.allowed THEN "on" ELSE "off"
    BY <2>5
  <2>9. QED
    BY <2>6, <2>7, <2>8 DEF c, verdictOf
<1>4. QED
  BY <1>2, <1>3

(* Of any file and for any default, the variant engine/P2_3_features.py    *)
(* says on only where engine/features.py does, but for a null flag, where  *)
(* it gives the default and features.py raises; about a well-formed flag   *)
(* whose operators both know they answer alike; and in both the switch,    *)
(* the environment and the blocklist come before the allowlist, and that   *)
(* before percentage and rules.                                            *)
THEOREM VariantNeverLooser == Spec => []VariantIsStricter
  BY FlagsTypeCorrect, StricterOnce, PTL

-----------------------------------------------------------------------------
(* Domain specs *)

\* While mtimes only grow, what is cached under the file's mtime is what is in
\* the file, and nothing is cached under a later one.
CacheTrue ==
  sure /\ cache # NotCached =>
    cache.mtime <= spec.mtime /\ (cache.mtime = spec.mtime => cache.version = spec.version)

\* The mtime that a load took before it reads is none of a later file.
StampTrue == sure /\ loading \in {"missed", "sized"} => stamp <= spec.mtime

LoaderInv == LoaderTypeOK /\ CacheTrue /\ StampTrue /\ LoadServesCurrent

LEMMA LoaderStarts == LoaderInit => LoaderInv
<1> SUFFICES ASSUME LoaderInit PROVE LoaderInv
  OBVIOUS
<1>1. 0 \in 0..MaxChanges /\ 0 \in 0..MaxClock
  BY LoaderAssumption
<1>2. LoaderTypeOK
  BY <1>1 DEF LoaderInit, LoaderTypeOK, Raised
<1>3. QED
  BY <1>2 DEF LoaderInit, LoaderInv, CacheTrue, StampTrue, LoadServesCurrent

LEMMA LoaderTypeStep == LoaderTypeOK /\ [LoaderNext]_loaderVars => LoaderTypeOK'
<1> SUFFICES ASSUME LoaderTypeOK, [LoaderNext]_loaderVars PROVE LoaderTypeOK'
  OBVIOUS
<1> USE LoaderAssumption
<1>1. CASE Resolve
  BY <1>1 DEF Resolve, Raise, LoaderTypeOK
<1>2. CASE Stat
  <2>1. cache # NotCached => cache.version \in 0..MaxChanges
    BY DEF LoaderTypeOK
  <2>2. QED
    BY <1>2, <2>1 DEF Stat, Hit, Raise, LoaderTypeOK
<1>3. CASE CheckSize
  BY <1>3 DEF CheckSize, Raise, LoaderTypeOK
<1>4. CASE ReadYaml
  BY <1>4 DEF ReadYaml, KeptUnder, Raise, LoaderTypeOK
<1>5. CASE Invalidate
  BY <1>5 DEF Invalidate, LoaderTypeOK
<1>6. CASE ChangeSpec
  <2>1. PICK form \in SpecForms, mtime \in 0..clock :
          spec' = [form |-> form, version |-> spec.version + 1, mtime |-> mtime]
    BY <1>6 DEF ChangeSpec
  <2>2. spec.version + 1 \in 0..MaxChanges /\ mtime \in 0..MaxClock
    BY <1>6 DEF ChangeSpec, LoaderTypeOK
  <2>3. sure' \in BOOLEAN
    BY <1>6 DEF ChangeSpec
  <2>4. spec' \in [form : SpecForms, version : 0..MaxChanges, mtime : 0..MaxClock]
    BY <2>1, <2>2
  <2>5. QED
    BY <1>6, <2>3, <2>4 DEF ChangeSpec, LoaderTypeOK
<1>7. CASE TickClock
  BY <1>7 DEF TickClock, LoaderTypeOK
<1>8. CASE UNCHANGED loaderVars
  BY <1>8 DEF loaderVars, LoaderTypeOK
<1>9. QED
  BY <1>1, <1>2, <1>3, <1>4, <1>5, <1>6, <1>7, <1>8 DEF LoaderNext

LEMMA LoaderStep == LoaderInv /\ [LoaderNext]_loaderVars => LoaderInv'
<1> SUFFICES ASSUME LoaderInv, [LoaderNext]_loaderVars, LoaderTypeOK'
             PROVE  CacheTrue' /\ StampTrue' /\ LoadServesCurrent'
  BY LoaderTypeStep DEF LoaderInv
<1>1. /\ MaxChanges \in Nat /\ spec.version \in 0..MaxChanges /\ spec.mtime \in Nat /\ stamp \in Nat
      /\ cache # NotCached => cache.version \in Nat /\ cache.mtime \in Nat
      /\ spec \in [form : SpecForms, version : 0..MaxChanges, mtime : 0..MaxClock]
  BY LoaderAssumption DEF LoaderInv, LoaderTypeOK
<1> USE <1>1 DEF LoaderInv, CacheTrue, StampTrue, LoadServesCurrent
<1>2. CASE Resolve
  BY <1>2 DEF Resolve, Raise
<1>3. CASE Stat
  BY <1>3 DEF Stat, Hit, Raise
<1>4. CASE CheckSize
  BY <1>4 DEF CheckSize, Raise
<1>5. CASE ReadYaml
  BY <1>5 DEF ReadYaml, KeptUnder, Raise
<1>6. CASE Invalidate
  BY <1>6 DEF Invalidate
<1>7. CASE ChangeSpec
  <2>1. PICK form \in SpecForms, mtime \in 0..clock :
          /\ spec' = [form |-> form, version |-> spec.version + 1, mtime |-> mtime]
          /\ sure' = (sure /\ mtime > spec.mtime)
    BY <1>7 DEF ChangeSpec
  <2>2. clock \in Nat /\ mtime \in Nat
    BY LoaderAssumption DEF LoaderTypeOK
  <2>3. spec'.mtime = mtime /\ spec'.version = spec.version + 1
    BY <2>1
  <2>4. sure' => sure /\ mtime > spec.mtime
    BY <2>1
  <2>5. CacheTrue'
    BY <1>7, <2>2, <2>3, <2>4 DEF ChangeSpec
  <2>6. StampTrue'
    BY <1>7, <2>2, <2>3, <2>4 DEF ChangeSpec
  <2>7. LoadServesCurrent'
    BY <1>7 DEF ChangeSpec
  <2>8. QED
    BY <2>5, <2>6, <2>7
<1>8. CASE TickClock
  BY <1>8 DEF TickClock
<1>9. CASE UNCHANGED loaderVars
  BY <1>9 DEF loaderVars
<1>10. QED
  BY <1>2, <1>3, <1>4, <1>5, <1>6, <1>7, <1>8, <1>9 DEF LoaderNext

(* A load during which the file stays as it is returns what is in the file *)
(* as long as mtimes grew with every change since the cache was empty, for *)
(* any number of changes between any of the loads' system calls            *)
(* (config.py:91-101).                                                     *)
THEOREM LoaderServesCurrent == LoaderSpec => []LoadServesCurrent
<1>1. LoaderInv => LoadServesCurrent
  BY DEF LoaderInv
<1>2. QED
  BY LoaderStarts, LoaderStep, <1>1, PTL DEF LoaderSpec

-----------------------------------------------------------------------------
(* Personal data: what a call changes *)

LEMMA AllChangedType ==
  ASSUME NEW K, NEW V, NEW dict \in [K -> V], NEW paths, NEW new \in V
  PROVE  AllChanged(dict, paths, new) \in [K -> V]
  BY DEF AllChanged

LEMMA BoxPath ==
  ASSUME NEW k
  PROVE  Tail(<<"box", k>>) = <<k>> /\ Len(<<"box", k>>) = 2 /\ <<"box", k>>[1] = "box"
<1> DEFINE p == <<"box", k>>
<1>1. /\ p \in Seq({"box", k})
      /\ Len(p) = 2 /\ p[1] = "box" /\ p[2] = k
  <2>1. p \in Seq({"box", k})
    OBVIOUS
  <2>2. Len(p) = 2
    OBVIOUS
  <2>3. p[1] = "box" /\ p[2] = k
    OBVIOUS
  <2>4. QED
    BY <2>1, <2>2, <2>3
<1>2. Tail(p) \in Seq({"box", k}) /\ Len(Tail(p)) = 1 /\ Tail(p)[1] = k
  <2>1. p # <<>>
    BY <1>1
  <2>2. QED
    BY <1>1, <2>1, HeadTailProperties
<1>3. QED
  BY <1>1, <1>2

LEMMA InBoxIs ==
  ASSUME NEW paths \in SUBSET Paths, NEW k \in InnerKeys
  PROVE  <<k>> \in InBox(paths) <=> <<"box", k>> \in paths
<1>1. ASSUME <<"box", k>> \in paths PROVE <<k>> \in InBox(paths)
  <2>1. Tail(<<"box", k>>) = <<k>> /\ Len(<<"box", k>>) = 2 /\ <<"box", k>>[1] = "box"
    BY BoxPath
  <2>2. QED
    BY <1>1, <2>1 DEF InBox
<1>2. ASSUME <<k>> \in InBox(paths) PROVE <<"box", k>> \in paths
  <2>1. PICK p \in paths : Len(p) = 2 /\ p[1] = "box" /\ Tail(p) = <<k>>
    BY <1>2 DEF InBox
  <2>2. PICK j \in InnerKeys : p = <<"box", j>>
    BY <2>1 DEF Paths
  <2>3. <<j>> = <<k>>
    BY <2>1, <2>2, BoxPath DEF InnerKeys
  <2>4. QED
    BY <2>2, <2>3
<1>3. QED
  BY <1>1, <1>2

LEMMA DetectedPaths ==
  ASSUME NEW d \in Outer
  PROVE  /\ Detect(d) \subseteq Paths
         /\ \A k \in OuterKeys \ {"box.email"} : Detected(k, d[k]) => <<k>> \in Detect(d)
         /\ \A k \in InnerKeys : d["box"] = "dict" /\ Detected(k, box[k]) => <<"box", k>> \in Detect(d)
         /\ d["box"] = "dict" => <<"box">> \notin Detect(d)
<1>1. Detect(d) \subseteq Paths
  BY DEF Detect, Split, PathInBox, Paths, OuterKeys, InnerKeys
<1>2. ASSUME NEW k \in OuterKeys \ {"box.email"}, Detected(k, d[k]) PROVE <<k>> \in Detect(d)
  BY <1>2 DEF Detect, Split
<1>3. ASSUME NEW k \in InnerKeys, d["box"] = "dict", Detected(k, box[k])
      PROVE  <<"box", k>> \in Detect(d)
  BY <1>3 DEF Detect, PathInBox
<1>4. ASSUME d["box"] = "dict" PROVE <<"box">> \notin Detect(d)
  <2>1. \A k \in OuterKeys : Detected(k, d[k]) => k # "box"
    BY <1>4 DEF Detected
  <2>2. \A k \in OuterKeys : k # "box" => Split(k) # <<"box">>
    BY DEF Split, OuterKeys, InnerKeys
  <2>3. \A k \in InnerKeys : PathInBox(k) # <<"box">>
    BY DEF PathInBox
  <2>4. QED
    BY <2>1, <2>2, <2>3 DEF Detect
<1>5. QED
  BY <1>1, <1>2, <1>3, <1>4

\* What Change appends to the copies and does to the box.
LEMMA ChangeIs ==
  ASSUME PIITypeOK, NEW i \in DOMAIN copies, NEW paths \in SUBSET Paths,
         NEW new \in {"masked", "absent"}, Change(i, paths, new)
  PROVE  /\ copies[i] \in Outer /\ copies' \in Seq(Outer)
         /\ DOMAIN copies = 1..Len(copies) /\ Len(copies) \in Nat
         /\ DOMAIN copies' = 1..(Len(copies) + 1) /\ Len(copies') = Len(copies) + 1
         /\ \A j \in DOMAIN copies : copies'[j] = copies[j]
         /\ copies'[Len(copies')] = AllChanged(copies[i], paths, new)
         /\ box' = box \/ box' = AllChanged(box, InBox(paths), new)
         /\ box' \in Inner
         /\ UNCHANGED origin
<1>1. copies \in Seq(Outer) /\ copies[i] \in Outer /\ Len(copies) \in Nat
      /\ DOMAIN copies = 1..Len(copies)
  BY DEF PIITypeOK
<1>2. new \in Leaves /\ AllChanged(copies[i], paths, new) \in Outer
      /\ AllChanged(box, InBox(paths), new) \in Inner
  BY <1>1, AllChangedType DEF Outer, Inner, Leaves, PIITypeOK
<1>3. copies' = Append(copies, AllChanged(copies[i], paths, new)) /\ UNCHANGED origin
  BY DEF Change
<1>4. box' = box \/ box' = AllChanged(box, InBox(paths), new)
  BY DEF Change
<1>5. /\ copies' \in Seq(Outer) /\ Len(copies') = Len(copies) + 1
      /\ \A j \in 1..Len(copies) : copies'[j] = copies[j]
      /\ copies'[Len(copies) + 1] = AllChanged(copies[i], paths, new)
  BY <1>1, <1>2, <1>3, AppendProperties
<1>6. DOMAIN copies' = 1..(Len(copies) + 1)
  BY <1>5
<1>7. box' \in Inner
  BY <1>2, <1>4 DEF PIITypeOK
<1>8. QED
  BY <1>1, <1>3, <1>4, <1>5, <1>6, <1>7

\* Every call is a change of what was found, or of what the caller lists.
LEMMA CallIs ==
  ASSUME PIITypeOK, NEW i \in DOMAIN copies, MaskOrRedact(i)
  PROVE  \E new \in {"masked", "absent"}, paths \in SUBSET Paths :
           /\ Change(i, paths, new) /\ given' = given \cup paths
           /\ \/ paths = Detect(copies[i]) /\ cleaned' = cleaned \cup {Len(copies')}
              \/ UNCHANGED cleaned
<1>1. copies[i] \in Outer
  BY DEF PIITypeOK
<1>2. PICK new \in {"masked", "absent"} :
        \/ Change(i, Detect(copies[i]), new) /\ cleaned' = cleaned \cup {Len(copies')}
        \/ \E p, q \in Paths : Change(i, {p, q}, new) /\ UNCHANGED cleaned
  BY DEF MaskOrRedact
<1>3. CASE Change(i, Detect(copies[i]), new) /\ cleaned' = cleaned \cup {Len(copies')}
  <2>1. Detect(copies[i]) \in SUBSET Paths
    BY <1>1, DetectedPaths
  <2>2. given' = given \cup Detect(copies[i])
    BY <1>3 DEF Change
  <2>3. QED
    BY <1>3, <2>1, <2>2
<1>4. ASSUME NEW p \in Paths, NEW q \in Paths, Change(i, {p, q}, new), UNCHANGED cleaned
      PROVE  \E paths \in SUBSET Paths :
               Change(i, paths, new) /\ given' = given \cup paths /\ UNCHANGED cleaned
  <2>1. {p, q} \in SUBSET Paths /\ given' = given \cup {p, q}
    BY <1>4 DEF Change
  <2>2. QED
    BY <1>4, <2>1
<1>5. QED
  BY <1>2, <1>3, <1>4

PIIInv == PIITypeOK /\ OnlyWhatWasFound /\ CleanedStaysClean

LEMMA PIIStarts == PIIInit => PIIInv
<1> SUFFICES ASSUME PIIInit PROVE PIIInv
  OBVIOUS
<1>1. origin \in [box : Inner, outer : Outer]
  BY DEF PIIInit, Inner, Outer, Leaves
<1>2. copies = <<origin.outer>> /\ copies \in Seq(Outer) /\ copies # <<>>
      /\ DOMAIN copies = {1} /\ copies[1] = origin.outer
  BY <1>1 DEF PIIInit
<1>3. box = origin.box /\ cleaned = {} /\ given = {} /\ box \in Inner
  BY <1>1 DEF PIIInit
<1>4. PIITypeOK
  BY <1>1, <1>2, <1>3 DEF PIITypeOK
<1>5. OnlyWhatWasFound
  BY <1>2, <1>3 DEF OnlyWhatWasFound
<1>6. CleanedStaysClean
  BY <1>3 DEF CleanedStaysClean
<1>7. QED
  BY <1>4, <1>5, <1>6 DEF PIIInv

LEMMA PIIStep == PIIInv /\ [PIINext]_piiVars => PIIInv'
<1> SUFFICES ASSUME PIIInv, [PIINext]_piiVars PROVE PIIInv'
  OBVIOUS
<1>1. PIITypeOK /\ OnlyWhatWasFound /\ CleanedStaysClean
  BY DEF PIIInv
<1>2. CASE UNCHANGED piiVars
  BY <1>1, <1>2 DEF piiVars, PIIInv, PIITypeOK, OnlyWhatWasFound, CleanedStaysClean
<1>3. ASSUME NEW i \in DOMAIN copies, NEW new \in {"masked", "absent"}, NEW paths \in SUBSET Paths,
             Change(i, paths, new), given' = given \cup paths,
             \/ paths = Detect(copies[i]) /\ cleaned' = cleaned \cup {Len(copies')}
             \/ UNCHANGED cleaned
      PROVE  PIIInv'
  <2> DEFINE n == Len(copies')
  <2>1. /\ copies[i] \in Outer /\ copies' \in Seq(Outer)
        /\ DOMAIN copies = 1..Len(copies) /\ Len(copies) \in Nat
        /\ DOMAIN copies' = 1..(Len(copies) + 1) /\ n = Len(copies) + 1
        /\ \A j \in DOMAIN copies : copies'[j] = copies[j]
        /\ copies'[n] = AllChanged(copies[i], paths, new)
        /\ box' = box \/ box' = AllChanged(box, InBox(paths), new)
        /\ box' \in Inner /\ UNCHANGED origin
    BY <1>1, <1>3, ChangeIs
  <2>2. DOMAIN copies' = DOMAIN copies \cup {n} /\ n \notin DOMAIN copies /\ copies' # <<>>
        /\ 1 \in DOMAIN copies
    BY <1>1, <2>1 DEF PIITypeOK
  <2>3. box \in Inner
    BY <1>1 DEF PIITypeOK
  <2>4. \A k \in InnerKeys :
          AllChanged(box, InBox(paths), new)[k] =
            IF <<"box", k>> \in paths /\ box[k] # "absent" THEN new ELSE box[k]
    <3>1. \A k \in InnerKeys :
            AllChanged(box, InBox(paths), new)[k] =
              IF <<k>> \in InBox(paths) /\ box[k] # "absent" THEN new ELSE box[k]
      BY <2>3 DEF Inner, AllChanged, Changed
    <3>2. QED
      BY <3>1, InBoxIs
  <2>5. \A k \in OuterKeys :
          copies'[n][k] = IF <<k>> \in paths /\ copies[i][k] # "absent" THEN new ELSE copies[i][k]
    <3>1. \A k \in OuterKeys :
            AllChanged(copies[i], paths, new)[k] =
              IF <<k>> \in paths /\ copies[i][k] # "absent" THEN new ELSE copies[i][k]
      BY <2>1 DEF Outer, AllChanged, Changed
    <3>2. QED
      BY <2>1, <3>1
  <2>6. PIITypeOK'
    BY <1>1, <1>3, <2>1, <2>2 DEF PIITypeOK
  <2>7. OnlyWhatWasFound'
    <3>1. copies'[1] = origin'.outer
      BY <1>1, <2>1, <2>2 DEF OnlyWhatWasFound
    <3>2. \A k \in InnerKeys : box'[k] # origin'.box[k] => <<"box", k>> \in given'
      BY <1>1, <1>3, <2>1, <2>4 DEF OnlyWhatWasFound
    <3>3. \A k \in OuterKeys : copies'[n][k] # origin.outer[k] => <<k>> \in given'
      BY <1>1, <1>3, <2>5 DEF OnlyWhatWasFound
    <3>4. \A j \in DOMAIN copies, k \in OuterKeys :
            copies'[j][k] # origin.outer[k] => <<k>> \in given'
      BY <1>1, <1>3, <2>1 DEF OnlyWhatWasFound
    <3>5. QED
      BY <2>1, <2>2, <3>1, <3>2, <3>3, <3>4 DEF OnlyWhatWasFound
  <2>8. \A j \in cleaned : copies[j]["box"] = "dict" =>
          \A k \in InnerKeys : Detected(k, box'[k]) => box'[k] = "masked"
    <3>1. SUFFICES ASSUME NEW j \in cleaned, copies[j]["box"] = "dict", NEW k \in InnerKeys,
                          Detected(k, box'[k])
                   PROVE  box'[k] = "masked"
      OBVIOUS
    <3>2. Detected(k, box[k]) => box[k] = "masked"
      BY <1>1, <3>1 DEF CleanedStaysClean
    <3>3. box'[k] = box[k] \/ box'[k] = new
      BY <2>1, <2>4
    <3>4. QED
      BY <3>1, <3>2, <3>3 DEF Detected
  <2>9. cleaned \subseteq DOMAIN copies
    BY <1>1 DEF PIITypeOK
  <2>10. \A j \in cleaned, k \in OuterKeys \ {"box.email"} :
           Detected(k, copies'[j][k]) => copies'[j][k] = "masked"
    BY <1>1, <2>1, <2>9 DEF CleanedStaysClean
  <2>11. \A j \in cleaned : copies'[j]["box"] = "dict" =>
           \A k \in InnerKeys : Detected(k, box'[k]) => box'[k] = "masked"
    BY <2>1, <2>8, <2>9
  <2>12. ASSUME UNCHANGED cleaned PROVE CleanedStaysClean'
    BY <2>10, <2>11, <2>12 DEF CleanedStaysClean
  <2>13. ASSUME paths = Detect(copies[i]), cleaned' = cleaned \cup {n}
         PROVE  CleanedStaysClean'
    <3>1. \A k \in OuterKeys \ {"box.email"} :
            Detected(k, copies'[n][k]) => copies'[n][k] = "masked"
      BY <2>1, <2>5, <2>13, DetectedPaths DEF Detected
    <3>2. ASSUME copies'[n]["box"] = "dict", NEW k \in InnerKeys, Detected(k, box'[k])
          PROVE  box'[k] = "masked"
      <4>1. copies[i]["box"] = "dict" /\ "box" \in OuterKeys
        BY <2>5, <3>2 DEF OuterKeys
      <4>2. <<"box">> \notin paths
        BY <2>1, <2>13, <4>1, DetectedPaths
      <4>3. box' = AllChanged(box, InBox(paths), new)
        BY <1>3, <4>1, <4>2 DEF Change
      <4>4. Detected(k, box[k]) => <<"box", k>> \in paths
        BY <2>1, <2>13, <4>1, DetectedPaths
      <4>5. box'[k] = IF <<"box", k>> \in paths /\ box[k] # "absent" THEN new ELSE box[k]
        BY <2>4, <4>3
      <4>6. QED
        BY <3>2, <4>4, <4>5 DEF Detected
    <3>3. QED
      BY <2>10, <2>11, <2>13, <3>1, <3>2 DEF CleanedStaysClean
  <2>14. QED
    BY <1>3, <2>6, <2>7, <2>12, <2>13 DEF PIIInv
<1>4. CASE PIINext
  BY <1>1, <1>3, <1>4, CallIs DEF PIINext
<1>5. QED
  BY <1>2, <1>4

(* Nothing but what was found or listed changes in any copy or in the dict *)
(* they share, and the caller's outer dict never does, for any calls on    *)
(* any copies (pii.py:123-140).                                            *)
THEOREM PIIOnlyWhatWasFound == PIISpec => []OnlyWhatWasFound
<1>1. PIIInv => OnlyWhatWasFound
  BY DEF PIIInv
<1>2. QED
  BY PIIStarts, PIIStep, <1>1, PTL DEF PIISpec

(* What mask() or redact() cleaned by itself stays clean, though the inner *)
(* dict is shared with copies that are changed later (pii.py:122-161).     *)
THEOREM PIICleanedStaysClean == PIISpec => []CleanedStaysClean
<1>1. PIIInv => CleanedStaysClean
  BY DEF PIIInv
<1>2. QED
  BY PIIStarts, PIIStep, <1>1, PTL DEF PIISpec
=============================================================================
