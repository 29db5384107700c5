------------------------------ MODULE MCAudits ------------------------------
(***************************************************************************)
(* The two programs whose exit code gates a build, side by side in one run *)
(* (they share nothing): each implements BuildGate.                        *)
(***************************************************************************)
EXTENDS MCPerplexityAudit, AuditDispatch

\* Other plain arguments, other others, other return types.
NoReturn == [args |-> "x", others |-> "none", returns |-> ""]
MCSignatures == {NoReturn, [NoReturn EXCEPT !.args = "y"], [NoReturn EXCEPT !.others = "key"],
                 [NoReturn EXCEPT !.returns = "S"], [NoReturn EXCEPT !.returns = "T"]}
Python(api) == [form |-> "python", api |-> api]
Lost(form) == [form |-> form, api |-> NoClass]

MCContents == {Python(api) : api \in MCSignatures \cup {NoClass, NoMethod}}
              \cup {Lost(form) : form \in {"missing", "broken", "binary"}}
Tests == {Python(NoClass), Python(NoMethod), Lost("missing"), Lost("broken"), Lost("binary")}

Tree(engine, tests) == [engine |-> engine, tests |-> tests]
Plain == Tree(Python(NoReturn), Python(NoClass))

World(main, origin, head, work, flaws) ==
  [git |-> TRUE, main |-> main, origin |-> origin, head |-> head, work |-> work, flaws |-> flaws]

Strict == [auditor |-> "", tier |-> "", domain |-> "", strict |-> TRUE, prComment |-> FALSE,
           list |-> FALSE]
ApiOnly == [Strict EXCEPT !.auditor = "api_regression"]
MCCommands ==
  {Strict, ApiOnly, [Strict EXCEPT !.auditor = "gap_analysis"], [Strict EXCEPT !.list = TRUE],
   [Strict EXCEPT !.domain = "odoo"]}
  \cup {[Strict EXCEPT !.tier = t] : t \in {"static", "runtime", "all"}}
  \cup {[c EXCEPT !.strict = FALSE, !.prComment = p] : c \in {Strict, ApiOnly}, p \in BOOLEAN}

\* One ref and a clean checkout; both refs, and a checkout that is behind or
\* edited; the other auditors.
MCCases ==
  LET engines == {Tree(c, Python(NoClass)) : c \in MCContents}
      some == {NoTree, Plain, Tree(Python(NoClass), Python(NoClass)),
               Tree(Lost("missing"), Python(NoClass))}
      trees == {Tree(e, t) : e \in MCContents, t \in Tests}
      apiWorlds == {World(NoTree, o, h, h, {}) : o \in trees, h \in trees}
                   \cup {World(m, o, h, w, {}) : m \in some, o \in some, h \in engines, w \in engines}
      worlds == {World(Plain, NoTree, Plain, w, f) :
                   w \in trees,
                   f \in {{}, {"HANDLER_UNTESTED"}}
                         \cup {{g} : g \in UNION {FlawsOf[a] : a \in DOMAIN FlawsOf}}}
  IN [command : {ApiOnly}, world : apiWorlds, registry : {Auditors}]
     \cup [command : {Strict}, world : worlds, registry : {Auditors, Auditors \ {"api_regression"}}]
     \cup [command : MCCommands,
           world : {[World(Plain, NoTree, Plain, Plain, {"WEAK_TEST"}) EXCEPT !.git = g] :
                      g \in BOOLEAN},
           registry : SUBSET Auditors]

VARIABLE program
all == <<program, vars, dispatchVars>>

PerplexityRests ==
  /\ args = [mode |-> "full", category |-> None, changed |-> <<>>] /\ queries = <<>>
  /\ turn = 1 /\ at = "query" /\ attempt = 0 /\ now = 0
  /\ requestTimes = <<>> /\ findings = <<>> /\ report = {} /\ exit = None
  /\ packs = [c \in AllCategories |-> 0]
  /\ starts = <<>> /\ spent = 0 /\ longest = 0 /\ heard = <<>>

DispatchRests ==
  /\ command = Strict /\ registry = {}
  /\ world = [git |-> TRUE, main |-> Plain, origin |-> NoTree, head |-> Plain, work |-> Plain,
              flaws |-> {}]
  /\ stage = "select" /\ queue = {} /\ changed = {} /\ results = {}
  /\ written = FALSE /\ code = "none" /\ ran = {} /\ gitFailed = FALSE

AuditsInit ==
  \/ program = "perplexity" /\ Init /\ DispatchRests
  \/ program = "dispatch" /\ PerplexityRests /\ DispatchInit

AuditsNext ==
  \/ program = "perplexity" /\ Next /\ UNCHANGED <<program, dispatchVars>>
  \/ program = "dispatch" /\ DispatchNext /\ UNCHANGED <<program, vars>>

AuditsSpec == AuditsInit /\ [][AuditsNext]_all

\* What blocks: answers that name a P0; findings of a strict run.  Without
\* --strict the dispatcher is no gate.
PerplexityFound ==
  {i \in DOMAIN heard : \E k \in DOMAIN heard[i].answer : heard[i].answer[k].severity = "P0"}
DispatchFound == {f \in results : SeverityOf(f.category) \in {"CRITICAL", "HIGH"}}

PerplexityVerdict == CASE exit = None -> "running" [] exit = 0 -> "pass" [] exit = 1 -> "fail"
DispatchVerdict == CASE code = "none" \/ ~ command.strict -> "running"
                     [] code = "0" /\ command.strict -> "pass"
                     [] code = "1" /\ command.strict -> "fail"

PerplexityGate == INSTANCE BuildGate WITH found <- PerplexityFound, verdict <- PerplexityVerdict
DispatchGate == INSTANCE BuildGate WITH found <- DispatchFound, verdict <- DispatchVerdict

\* An audit never passes a build once it has found something blocking, whatever
\* was retried, failed or crashed before or after it, and decides once
\* (perplexity_audit_agent.py:738-746, 852-857; audit_dispatch.py:139-177).
GatesHold == PerplexityGate!GateSpec /\ DispatchGate!GateSpec
=============================================================================
