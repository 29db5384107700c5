----------------------------- MODULE MCNodeParts -----------------------------
(***************************************************************************)
(* Three parts of a node that share nothing, side by side in one run: the  *)
(* behaviours are those of each part while the others rest.                *)
(***************************************************************************)
EXTENDS MCFeatureFlags, DomainLoader, PIIHandler

VARIABLE part

FlagsRest ==
  /\ impl = "features" /\ up = FALSE /\ file = Unloaded("missing") /\ pending = Idle
  /\ edits = 0 /\ served = NoFlags /\ loaded = "failed" /\ last = "none"

LoaderRests ==
  /\ spec = [form |-> "missing", version |-> 0, mtime |-> 0]
  /\ clock = 0 /\ cache = NotCached /\ loading = "idle"
  /\ stamp = 0 /\ answer = Raised /\ quiet = FALSE /\ sure = TRUE

PIIRests ==
  /\ origin = [box |-> [k \in InnerKeys |-> "absent"], outer |-> [k \in OuterKeys |-> "absent"]]
  /\ copies = <<origin.outer>> /\ box = origin.box /\ cleaned = {} /\ given = {}

PartsInit ==
  \/ part = "flags" /\ Init /\ LoaderRests /\ PIIRests
  \/ part = "specs" /\ FlagsRest /\ LoaderInit /\ PIIRests
  \/ part = "pii" /\ FlagsRest /\ LoaderRests /\ PIIInit

PartsNext ==
  \/ part = "flags" /\ Next /\ UNCHANGED <<part, loaderVars, piiVars>>
  \/ part = "specs" /\ LoaderNext /\ UNCHANGED <<part, vars, piiVars>>
  \/ part = "pii" /\ PIINext /\ UNCHANGED <<part, vars, loaderVars>>

PartsSpec == PartsInit /\ [][PartsNext]_<<part, vars, loaderVars, piiVars>>
=============================================================================
