----------------------------- MODULE PIIHandler -----------------------------
(***************************************************************************)
(* chassis/pii.py: detect(), mask() and redact() on a payload, on what     *)
(* they returned before, and on the same payload again.  mask() and        *)
(* redact() copy the outer dict only: the caller's payload and all copies  *)
(* share the inner one, here the value of the key "box".                   *)
(*                                                                         *)
(* A field is named by its path joined with dots, and found again by       *)
(* splitting it: the key "box.email" cannot be told from a key in the box. *)
(***************************************************************************)
EXTENDS Naturals, Sequences

CONSTANT MaxCopies   \* bound: dicts that mask() and redact() return

ASSUME PIIAssumption == MaxCopies \in Nat

VARIABLES
  origin,    \* history: the payload at first
  copies,    \* outer dicts: the caller's, then those returned
  box,       \* the inner dict
  cleaned,   \* history: copies made with fields=None
  given      \* history: all paths found or given so far

piiVars == <<origin, copies, box, cleaned, given>>

\* A text in which a pattern is found; any other that is no dict, such as a list,
\* whatever it holds; a run of mask characters.
Leaves == {"pii", "plain", "masked", "absent"}
InnerKeys == {"email", "note"}
OuterKeys == InnerKeys \cup {"box", "box.email"}
Paths == {<<k>> : k \in InnerKeys \cup {"box"}} \cup {<<"box", k>> : k \in InnerKeys}

Inner == [InnerKeys -> Leaves]
Outer == [OuterKeys -> Leaves \cup {"dict"}]

PIITypeOK ==
  /\ origin \in [box : Inner, outer : Outer]
  /\ copies \in Seq(Outer) /\ copies # <<>>
  /\ box \in Inner
  /\ cleaned \subseteq DOMAIN copies /\ given \subseteq Paths

PIIInit ==
  /\ origin \in [box : [InnerKeys -> Leaves \ {"masked"}],
                 outer : {d \in [OuterKeys -> {"pii", "plain", "dict", "absent"}] :
                            \A k \in OuterKeys : d[k] = "dict" <=> k = "box"}]
  /\ copies = <<origin.outer>> /\ box = origin.box
  /\ cleaned = {} /\ given = {}

-----------------------------------------------------------------------------
(* (Names ending in _Mut are plausible bugs in the definition after them,    *)
(* kept to show which property notices; they are not the model.)             *)

\* "email" is one of the hints, and in "box.email" too.
Hinted(key) == key \in {"email", "box.email"}

Detected(key, value) == value \notin {"absent", "dict"} /\ (Hinted(key) \/ value = "pii")

Split(key) == IF key = "box.email" THEN <<"box", "email">> ELSE <<key>>

PathInBox_Mut(key) == <<key>>                  \* the prefix is forgotten
PathInBox(key) == <<"box", key>>

\* detect() goes into a dict whatever its key, and into no list.
Detect(d) ==
  {Split(k) : k \in {k \in OuterKeys : Detected(k, d[k])}}
  \cup {PathInBox(k) : k \in {k \in InnerKeys : d["box"] = "dict" /\ Detected(k, box[k])}}

\* _set_at_path and _del_at_path: what is not there stays so.
Changed_Mut(dict, key, path, new) ==           \* by the name of the field alone
  IF path[Len(path)] = key /\ dict[key] # "absent" THEN new ELSE dict[key]
Changed(dict, key, path, new) ==
  IF path = <<key>> /\ dict[key] # "absent" THEN new ELSE dict[key]

AllChanged(dict, paths, new) ==
  [key \in DOMAIN dict |->
     IF \E p \in paths : Changed(dict, key, p, new) # dict[key] THEN new ELSE dict[key]]

InBox(paths) == {Tail(p) : p \in {p \in paths : Len(p) = 2 /\ p[1] = "box"}}

\* If the box itself is a field, it depends on the order of the list whether
\* fields in it are changed before it is gone from the copy.
Change(i, paths, new) ==
  /\ Len(copies) <= MaxCopies
  /\ copies' = Append(copies, AllChanged(copies[i], paths, new))
  /\ box' \in (IF copies[i]["box"] # "dict" THEN {box}
               ELSE {AllChanged(box, InBox(paths), new)} \cup IF <<"box">> \in paths THEN {box} ELSE {})
  /\ given' = given \cup paths
  /\ UNCHANGED origin

\* A longer list of fields is as good as several calls.
MaskOrRedact(i) ==
  \E new \in {"masked", "absent"} :
    \/ /\ Change(i, Detect(copies[i]), new)
       /\ cleaned' = cleaned \cup {Len(copies')}
    \/ /\ \E p, q \in Paths : Change(i, {p, q}, new)
       /\ UNCHANGED cleaned

PIINext == \E i \in DOMAIN copies : MaskOrRedact(i)

PIISpec == PIIInit /\ [][PIINext]_piiVars

-----------------------------------------------------------------------------
(* Correctness *)

\* Nothing that detect() finds is left readable in a copy made with fields=None,
\* whatever is done to it and to its relatives later; only under a key with a
\* dot it may be (pii.py:122-140, 147-161).
CleanedStaysClean ==
  \A i \in cleaned :
    /\ \A k \in OuterKeys \ {"box.email"} :
         Detected(k, copies[i][k]) => copies[i][k] = "masked"
    /\ copies[i]["box"] = "dict" =>
         \A k \in InnerKeys : Detected(k, box[k]) => box[k] = "masked"

\* "Returns new dict" as far as it is true: the caller's outer dict stays as it
\* was, and in the box that all share, as in any copy, nothing changes but what
\* was found or asked for (pii.py:123-140).
OnlyWhatWasFound ==
  /\ copies[1] = origin.outer
  /\ \A k \in InnerKeys : box[k] # origin.box[k] => <<"box", k>> \in given
  /\ \A i \in DOMAIN copies, k \in OuterKeys : copies[i][k] # origin.outer[k] => <<k>> \in given
=============================================================================
