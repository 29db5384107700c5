--------------------------- MODULE MCFeatureFlags ---------------------------
EXTENDS FeatureFlags

CONSTANTS u1, u2

MCUsers == {u1, u2}
\* On a scale of three.
MCBucket == [u \in MCUsers |-> IF u = u1 THEN 0 ELSE 1]
MCImpls == {"features", "P2_3"}

\* Flags with lists and a percentage; flags with rules or an environment; odd ones.
MCConfigs ==
  LET Plain == [form |-> "object", enabled |-> TRUE, environments |-> {}, blocked |-> {},
                allowed |-> NoList, rollout |-> Full, rules |-> <<>>]
      RuleLists == {<<>>} \cup {<<k>> : k \in RuleKinds}
                          \cup {<<"unmet", "incomparable">>, <<"incomparable", "unmet">>,
                                <<"met", "unknown">>}
  IN {[Plain EXCEPT !.blocked = b, !.allowed = a, !.rollout = r] :
        b \in {{}, {u1}}, a \in {NoList, {u1}}, r \in 0..Full}
     \cup {[Plain EXCEPT !.rules = l] : l \in RuleLists}
     \cup {[Plain EXCEPT !.rules = <<"unmet">>, !.allowed = {u1}]}
     \cup {[Plain EXCEPT !.environments = e, !.allowed = a] :
              e \in {{"production"}, {"staging"}}, a \in {NoList, {u1}}}
     \cup {[Plain EXCEPT !.enabled = FALSE, !.allowed = a] : a \in {NoList, {u1}}}
     \cup {[Plain EXCEPT !.form = "scalar"],
           [Plain EXCEPT !.form = "null"], Absent}
=============================================================================
