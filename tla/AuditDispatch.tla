---------------------------- MODULE AuditDispatch ----------------------------
(***************************************************************************)
(* tools/audit_dispatch.py with the auditors of tools/auditors/: one run   *)
(* selects auditors, lets each look at the working tree, or at git, and    *)
(* turns what they found into a report and an exit code.                   *)
(*                                                                         *)
(* A tree has one file under engine/ and one under tests/.  Of a file      *)
(* counts whether it can be read and parsed, and one public class with one *)
(* public method: its plain arguments ("args": those that may be given by  *)
(* position or by name), whatever else it takes ("others": keyword-only    *)
(* and positional-only arguments, *args, **kwargs, defaults) and what it   *)
(* returns.  Each call of git may fail (it has 30 s).                      *)
(***************************************************************************)
EXTENDS FiniteSets

CONSTANTS Cases,     \* command line, refs and trees, importable auditors of a run
          NoTree,    \* a ref that does not exist
          NoClass, NoMethod

VARIABLES
  command,   \* the parsed arguments
  world,     \* git, main, origin, head, work, flaws
  registry,  \* _REGISTRY: the auditors whose modules could be imported
  stage,     \* where main() stands, or api_regression's scan()
  queue,     \* runnable auditors still to run
  changed,   \* files api_regression still compares
  results,   \* findings of the auditors so far
  written,   \* audit_report.json holds the results of this run
  code,      \* exit code
  ran,       \* history: auditors that ended
  gitFailed  \* history: a call of git failed that should not

dispatchVars == <<command, world, registry, stage, queue, changed, results, written, code,
                  ran, gitFailed>>
input == <<command, world, registry>>
outcome == <<written, code>>

TreeFiles == {"engine", "tests"}
Forms == {"python", "broken", "binary", "missing"}
ASSUME CasesAssumption ==
  \A c \in Cases : c.world.work = NoTree \/ \A file \in TreeFiles : c.world.work[file].form \in Forms

-----------------------------------------------------------------------------
(* Auditors and what they find.  (Names ending in _Mut are plausible bugs in *)
(* the definition after them, kept to show which property notices.)          *)

Tier == [api_regression |-> "regression", log_safety |-> "static",
         query_performance |-> "static", test_quality |-> "static"]
Auditors == DOMAIN Tier

Critical == {"CLASS_REMOVED", "METHOD_REMOVED"}
Medium_Mut == {"STACK_TRACE_LEAK", "UNBOUNDED_QUERY", "HANDLER_UNTESTED", "SIGNATURE_CHANGED"}
Medium == {"STACK_TRACE_LEAK", "UNBOUNDED_QUERY", "HANDLER_UNTESTED"}
SeverityOf(category) ==
  IF category \in Critical THEN "CRITICAL" ELSE IF category \in Medium THEN "MEDIUM" ELSE "HIGH"

\* AuditResult.has_blocking
HasBlocking_Mut(fs) == \E f \in fs : SeverityOf(f.category) = "CRITICAL"
HasBlocking(fs) == \E f \in fs : SeverityOf(f.category) \in {"CRITICAL", "HIGH"}

FindingsOf(a, file, categories) == [auditor : {a}, file : {file}, category : categories]

\* What is wrong in the working tree, by the auditor that looks for it.
FlawsOf == [log_safety |-> {"SENSITIVE_LOGGED", "CREDENTIAL_PRINT", "STACK_TRACE_LEAK"},
            query_performance |-> {"N_PLUS_ONE", "UNBOUNDED_QUERY", "STR_COLLECTION"},
            test_quality |-> {"WEAK_TEST", "EMPTY_TEST_FILE", "FIXTURE_BROKEN"}]

\* A file that cannot be read or, where it is needed, parsed is passed over;
\* log_safety and the check of conftest.py only read.  test_quality does not
\* start without a file in tests/, and looks for the names of handlers in what
\* it cannot parse, too.
StaticScan(a) ==
  LET form(file) == world.work[file].form
      flaws == FlawsOf[a] \cap world.flaws
  IN CASE a = "log_safety" ->
            IF form("engine") \in {"python", "broken"} THEN FindingsOf(a, "engine", flaws) ELSE {}
       [] a = "query_performance" ->
            IF form("engine") = "python" THEN FindingsOf(a, "engine", flaws) ELSE {}
       [] a = "test_quality" ->
            FindingsOf(a, "tests", CASE form("tests") = "python" -> flaws
                                     [] form("tests") = "broken" -> flaws \cap {"FIXTURE_BROKEN"}
                                     [] OTHER -> {})
            \cup IF form("tests") # "missing" /\ form("engine") = "python"
                      /\ ("HANDLER_UNTESTED" \in world.flaws \/ form("tests") = "binary")
                 THEN FindingsOf(a, "engine", {"HANDLER_UNTESTED"}) ELSE {}

\* _extract_public_api: the class and the method, or what is missing of them.  It
\* keeps the names in args.args, and nobody compares the others.
Api(content) == IF content.form = "broken" THEN NoClass ELSE content.api
Signature(api) == api \notin {NoClass, NoMethod}

Breaks(base, current) ==
  CASE base = NoClass -> {}
    [] base # NoClass /\ current = NoClass -> {"CLASS_REMOVED"}
    [] base = NoMethod /\ current # NoClass -> {}
    [] Signature(base) /\ current = NoMethod -> {"METHOD_REMOVED"}
    [] Signature(base) /\ Signature(current) ->
         (IF base.args # current.args THEN {"SIGNATURE_CHANGED"} ELSE {})
         \cup IF base.returns # "" /\ current.returns # "" /\ base.returns # current.returns
              THEN {"RETURN_TYPE_CHANGED"} ELSE {}

DispatchTypeOK ==
  /\ registry \subseteq Auditors
  /\ stage \in {"select", "run", "diff main", "diff origin", "compare", "exit", "ended"}
  /\ queue \subseteq Auditors /\ ran \subseteq Auditors
  /\ changed \subseteq TreeFiles
  /\ \A f \in results : f.auditor \in Auditors /\ f.file \in TreeFiles
  /\ written \in BOOLEAN /\ code \in {"none", "0", "1"} /\ gitFailed \in BOOLEAN

-----------------------------------------------------------------------------
(* main() *)

\* A module that raises ImportError is left out.
DispatchInit ==
  /\ \E c \in Cases : command = c.command /\ world = c.world /\ registry = c.registry
  /\ stage = "select" /\ queue = {} /\ changed = {} /\ results = {}
  /\ written = FALSE /\ code = "none" /\ ran = {} /\ gitFailed = FALSE

End(c) == code' = c /\ stage' = "ended"
\* An exception that nobody catches: a traceback.
Uncaught == End("1") /\ UNCHANGED <<input, queue, changed, results, written, ran>>

\* get_auditor() and AuditTier() raise ValueError on what they do not know.
Unknown ==
  \/ command.auditor # "" /\ command.auditor \notin registry
  \/ command.auditor = "" /\ command.tier \notin {"", "static", "regression", "runtime", "schema"}

Selected ==
  CASE command.auditor # "" -> {command.auditor}
    [] command.auditor = "" /\ command.tier # "" -> {a \in registry : Tier[a] = command.tier}
    [] command.auditor = "" /\ command.tier = "" ->
         IF command.domain \in {"", "universal"} THEN registry ELSE {}

Runnable == {a \in Selected : a = "api_regression" => world.git}

List ==
  /\ stage = "select" /\ command.list
  /\ End("0") /\ UNCHANGED <<input, queue, changed, results, written, ran, gitFailed>>

SelectFails ==
  /\ stage = "select" /\ ~ command.list /\ Unknown
  /\ Uncaught /\ UNCHANGED gitFailed

Select ==
  /\ stage = "select" /\ ~ command.list /\ ~ Unknown
  /\ IF Runnable = {} THEN End("0") /\ UNCHANGED queue
     ELSE queue' = Runnable /\ stage' = "run" /\ UNCHANGED code
  /\ UNCHANGED <<input, changed, results, written, ran, gitFailed>>

AuditorEnds(a, fs) ==
  /\ results' = results \cup fs /\ ran' = ran \cup {a} /\ queue' = queue \ {a}
  /\ stage' = "run"
  /\ UNCHANGED <<input, outcome>>

\* In the order in which glob() had found the modules.
RunStatic(a) ==
  /\ stage = "run" /\ a \in queue \ {"api_regression"}
  /\ AuditorEnds(a, StaticScan(a))
  /\ UNCHANGED <<changed, gitFailed>>

WriteReport ==
  /\ stage = "run" /\ queue = {}
  /\ stage' = "exit"
  /\ written' = (command.strict \/ command.prComment)
  /\ UNCHANGED <<input, queue, changed, results, code, ran, gitFailed>>

ExitStatus ==
  /\ stage = "exit"
  /\ End(IF command.strict /\ HasBlocking(results) THEN "1" ELSE "0")
  /\ UNCHANGED <<input, queue, changed, results, written, ran, gitFailed>>

-----------------------------------------------------------------------------
(* api_regression *)

\* _run_git: None for a call that cannot succeed, or that failed.
GitSays(possible, ok) == (ok => possible) /\ gitFailed' = (gitFailed \/ ok # possible)

InTree(tree, file) == tree # NoTree /\ tree[file].form # "missing"
Differing(tree) == {file \in TreeFiles : tree[file] # world.head[file]}

RunApi ==
  /\ stage = "run" /\ "api_regression" \in queue
  /\ IF InTree(world.work, "engine")
     THEN stage' = "diff main" /\ UNCHANGED <<input, queue, results, outcome, ran>>
     ELSE AuditorEnds("api_regression", {})      \* nothing in its scope
  /\ UNCHANGED <<changed, gitFailed>>

\* git diff --name-only, against main or else origin/main.
DiffMain ==
  /\ stage = "diff main"
  /\ \E ok \in BOOLEAN :
       /\ GitSays(world.main # NoTree, ok)
       /\ IF ok THEN changed' = Differing(world.main) /\ stage' = "compare"
          ELSE stage' = "diff origin" /\ UNCHANGED changed
  /\ UNCHANGED <<input, queue, results, outcome, ran>>

DiffOrigin ==
  /\ stage = "diff origin"
  /\ \E ok \in BOOLEAN :
       /\ GitSays(world.origin # NoTree, ok)
       /\ IF ok THEN /\ changed' = Differing(world.origin) /\ stage' = "compare"
                     /\ UNCHANGED <<input, queue, results, outcome, ran>>
          ELSE AuditorEnds("api_regression", {}) /\ UNCHANGED changed

\* A deleted file is passed over.
PassOver(file) ==
  /\ stage = "compare" /\ file \in changed /\ ~ InTree(world.work, file)
  /\ changed' = changed \ {file}
  /\ UNCHANGED <<input, stage, queue, results, outcome, ran, gitFailed>>

\* The file as it is in the working tree, against git show main:file or else
\* origin/main:file, or nothing; what is not UTF-8 raises on either side.
Compare(file) ==
  /\ stage = "compare" /\ file \in changed /\ InTree(world.work, file)
  /\ \E shown \in {world.main, world.origin, NoTree} :
       LET base == IF shown = NoTree THEN [form |-> "missing", api |-> NoClass] ELSE shown[file]
           current == world.work[file]
       IN /\ shown # NoTree => InTree(shown, file)
          /\ gitFailed' = (gitFailed \/ (shown # world.main /\ InTree(world.main, file))
                                     \/ (shown = NoTree /\ InTree(world.origin, file)))
          /\ IF "binary" \in {current.form, base.form} THEN Uncaught
             ELSE /\ results' = results \cup
                       FindingsOf("api_regression", file, Breaks(Api(base), Api(current)))
                  /\ changed' = changed \ {file}
                  /\ UNCHANGED <<input, stage, queue, outcome, ran>>

Compared ==
  /\ stage = "compare" /\ changed = {}
  /\ AuditorEnds("api_regression", {})
  /\ UNCHANGED <<changed, gitFailed>>

ApiRegression ==
  \/ RunApi \/ DiffMain \/ DiffOrigin \/ Compared
  \/ \E file \in TreeFiles : PassOver(file) \/ Compare(file)

DispatchNext ==
  \/ List \/ SelectFails \/ Select \/ WriteReport \/ ExitStatus
  \/ \E a \in Auditors : RunStatic(a)
  \/ ApiRegression

DispatchSpec == DispatchInit /\ [][DispatchNext]_dispatchVars

-----------------------------------------------------------------------------
(* Correctness *)

\* What docs/contracts/API_REGRESSION.md says of a pull request, as far as it is
\* true: in a clean checkout with main up to date, or with origin/main only, and
\* with no call of git failing, a strict run that passes leaves every public
\* class and method of a file that is still there in place, with the names and
\* the order of its plain arguments and with the return type if both name one.
\* It says nothing of other arguments: api_regression.py:34 does not keep them.
PassMeansCompatible ==
  code = "0" /\ command.strict /\ "api_regression" \in ran /\ ~ gitFailed
    /\ world.work = world.head /\ InTree(world.work, "engine")
    /\ world.origin # NoTree /\ world.main \in {NoTree, world.origin} =>
    \A file \in TreeFiles :
      LET old == world.origin[file]
          new == world.work[file]
      IN old.form = "python" /\ new.form # "missing" =>
           /\ old.api # NoClass => new.form = "python" /\ new.api # NoClass
           /\ Signature(old.api) =>
                /\ Signature(new.api) /\ new.api.args = old.api.args
                /\ new.api.returns = "" \/ old.api.returns \in {"", new.api.returns}
=============================================================================
