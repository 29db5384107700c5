------------------------------- MODULE Deploy -------------------------------
(***************************************************************************)
(* tools/deploy/deploy.sh: an operator's clone is committed and pushed to  *)
(* origin, the server resets its checkout to origin, takes the operator's  *)
(* .env.vps, and rebuilds all services or some.  Any command may fail and  *)
(* the script runs under set -e, so a run may end after any step; several  *)
(* operators may run it at once, and nothing locks the server.             *)
(*                                                                         *)
(* A commit is the set of changes it contains: the next commit of a clone  *)
(* contains all of its last one.  Each operator works on DEPLOY_BRANCH     *)
(* (any other is refused, lines 305-308, as ALLOW_NON_MAIN is not set).    *)
(* A command whose connection drops has run or has not.                    *)
(***************************************************************************)
EXTENDS Naturals, FiniteSets

CONSTANTS Operators,
          Services,  \* of the compose files
          Modes,     \* flags of a run; prune only with ALLOW_DOCKER_PRUNE
          MaxEdits,  \* bound: changes an operator makes to its clone
          MaxRuns,   \* bound: runs of the script
          Initially, \* the server's env file before any run
          Partial,   \* an env file that is truncated or mixed
          Down,      \* a service without a running container
          Missing    \* a service without an image

ASSUME ModesAssumption ==
  /\ Modes # {}
  /\ Modes \subseteq [services : SUBSET Services \ {{}}, sync : BOOLEAN, rebuild : BOOLEAN,
                      prune : BOOLEAN, dry : BOOLEAN]
ASSUME EnvAssumption == Initially # Partial /\ {Initially, Partial} \cap Operators = {}
ASSUME BoundsAssumption == MaxEdits \in Nat /\ MaxRuns \in Nat

Changes == Operators \X (1..MaxEdits)
Commit == SUBSET Changes
EnvFile == Operators \cup {Initially, Partial}
Container == [code : Commit, env : EnvFile]

ASSUME DownAssumption == Down \notin Container

VARIABLES
  head,       \* head[o]: the commit of o's clone
  dirty,      \* dirty[o]: changes in o's working tree
  origin,     \* the commit of the branch on GitHub
  checkout,   \* the commit checked out on the server
  serverEnv,  \* whose .env.vps the server's env file is, or partly is
  image,      \* image[s]: the commit that s's image was built from, or Missing
  container,  \* container[s]: what runs for s, or Down
  runs,       \* runs started
  run,        \* run[o]: where o's run of the script is, and its flags
  stranded,   \* history: stranded[o]: the commit whose last push by o failed
  overlapped, \* history: o's run met another one past its push
  rewritten   \* history: another run wrote the env file after o last did, or checked it

vars == <<head, dirty, origin, checkout, serverEnv, image, container, runs,
          run, stranded, overlapped, rewritten>>

Steps == {"commit", "push", "reset", "write", "fill", "check", "stop",
          "build", "tag", "up", "prune", "health"}
Ended == {"new", "done", "failed"}

TypeOK ==
  /\ head \in [Operators -> Commit] /\ dirty \in [Operators -> Commit]
  /\ origin \in Commit /\ checkout \in Commit
  /\ serverEnv \in EnvFile
  /\ image \in [Services -> Commit \cup {Missing}]
  /\ container \in [Services -> Container \cup {Down}]
  /\ runs \in 0..MaxRuns
  /\ run \in [Operators -> [at : Steps \cup Ended, mode : Modes, pushed : Commit,
                            context : UNION {[S -> Commit] : S \in SUBSET Services}]]
  /\ stranded \in [Operators -> Commit]
  /\ overlapped \in [Operators -> BOOLEAN] /\ rewritten \in [Operators -> BOOLEAN]

NoContext == [s \in {} |-> {}]

Init ==
  /\ head = [o \in Operators |-> {}] /\ dirty = head /\ stranded = head
  /\ origin = {} /\ checkout = {} /\ serverEnv = Initially
  /\ image = [s \in Services |-> {}]
  /\ container = [s \in Services |-> [code |-> {}, env |-> Initially]]
  /\ runs = 0
  /\ run = [o \in Operators |-> [at |-> "new", mode |-> CHOOSE m \in Modes : TRUE,
                                pushed |-> {}, context |-> NoContext]]
  /\ overlapped = [o \in Operators |-> FALSE] /\ rewritten = overlapped

At(o, step) == run[o].at = step
Goto(o, step) == run' = [run EXCEPT ![o].at = step]
OnServer(o) == run[o].at \in Steps \ {"commit", "push"}
Selected(o) == run[o].mode.services

clones == <<head, dirty, origin>>
server == <<checkout, serverEnv, image, container>>
history == <<stranded, overlapped, rewritten>>

-----------------------------------------------------------------------------
(* What operators do by hand: edit, and merge origin after a rejected push. *)

Edit(o) ==
  \E c \in Changes \ (head[o] \cup dirty[o]) :
    /\ c[1] = o /\ run[o].at \in Ended
    /\ dirty' = [dirty EXCEPT ![o] = @ \cup {c}]
    /\ UNCHANGED <<runs, head, origin, server, run, history>>

Pull(o) ==
  /\ run[o].at \in Ended /\ ~ origin \subseteq head[o]
  /\ head' = [head EXCEPT ![o] = @ \cup origin]
  /\ UNCHANGED <<runs, dirty, origin, server, run, history>>

-----------------------------------------------------------------------------
(* The script. *)

\* .gitignore and .env.vps.template are brought up to date, which may change them.
Patched(o) == {{}} \cup {{c} : c \in {c \in Changes \ head[o] : c[1] = o}}

Start(o) ==
  /\ run[o].at \in Ended /\ runs < MaxRuns /\ runs' = runs + 1
  /\ \E m \in Modes :
       run' = [run EXCEPT ![o] = [at |-> "commit", mode |-> m, pushed |-> {},
                                  context |-> NoContext]]
  /\ overlapped' = [overlapped EXCEPT ![o] = FALSE]
  /\ rewritten' = [rewritten EXCEPT ![o] = FALSE]
  /\ \E patch \in Patched(o) : dirty' = [dirty EXCEPT ![o] = @ \cup patch]
  /\ UNCHANGED <<head, origin, server, stranded>>

AfterCommit_Mut(o) ==                          \* a run without sync does not push
  IF dirty[o] = {} \/ ~ run[o].mode.sync THEN "reset" ELSE "push"
AfterCommit(o) == IF dirty[o] = {} THEN "reset" ELSE "push"

\* git add -A, then commit and push unless nothing is staged.
CommitAll(o) ==
  /\ At(o, "commit")
  /\ head' = [head EXCEPT ![o] = @ \cup dirty[o]]
  /\ dirty' = [dirty EXCEPT ![o] = {}]
  /\ Goto(o, AfterCommit(o))
  /\ UNCHANGED <<runs, origin, server, history>>

FastForward_Mut(o) == TRUE                     \* git push --force
FastForward(o) == origin \subseteq head[o]

Push(o) ==
  /\ At(o, "push") /\ FastForward(o)
  /\ origin' = head[o]
  /\ run' = [run EXCEPT ![o].at = "reset", ![o].pushed = head[o]]
  /\ stranded' = [stranded EXCEPT ![o] = {}]
  /\ UNCHANGED <<runs, head, dirty, server, overlapped, rewritten>>

AfterReset_Mut(o) ==                           \* a sync replaces the rebuild
  IF run[o].mode.sync THEN "write" ELSE "health"
\* --dry-run spares the env file and nothing else: run() has no caller.
AfterReset(o) == IF run[o].mode.sync /\ ~ run[o].mode.dry THEN "write"
                 ELSE IF run[o].mode.rebuild THEN "stop" ELSE "health"

RemoteReset(o) ==
  /\ At(o, "reset")
  /\ checkout' = origin
  /\ Goto(o, AfterReset(o))
  /\ LET others == {p \in Operators \ {o} : OnServer(p) /\ ~ At(p, "reset")}
     IN overlapped' = [p \in Operators |-> overlapped[p] \/ p \in others
                                            \/ (p = o /\ others # {})]
  /\ UNCHANGED <<runs, clones, serverEnv, image, container, stranded, rewritten>>

EnvWritten(o, content) ==
  /\ serverEnv' = content
  /\ rewritten' = [p \in Operators |-> p # o]

\* cat > $remote_env truncates the file, then fills it; another run's cat that
\* has the file open as well may leave a mixture.
Truncate(o) ==
  /\ At(o, "write")
  /\ EnvWritten(o, Partial)
  /\ Goto(o, "fill")
  /\ UNCHANGED <<runs, clones, checkout, image, container, stranded, overlapped>>

SyncEnv(o) ==
  /\ At(o, "fill")
  /\ \E content \in {o} \cup (IF rewritten[o] THEN {Partial} ELSE {}) : EnvWritten(o, content)
  /\ Goto(o, "check")
  /\ UNCHANGED <<runs, clones, checkout, image, container, stranded, overlapped>>

HashesMatch_Mut(o) == TRUE                     \* the hashes are not compared
HashesMatch(o) == serverEnv = o

CheckEnv(o) ==
  /\ At(o, "check") /\ HashesMatch(o)
  /\ rewritten' = [rewritten EXCEPT ![o] = FALSE]
  /\ Goto(o, IF run[o].mode.rebuild THEN "stop" ELSE "health")
  /\ UNCHANGED <<runs, clones, server, stranded, overlapped>>

Stop(o) ==
  /\ At(o, "stop")
  /\ container' = [s \in Services |-> IF s \in Selected(o) THEN Down ELSE container[s]]
  /\ Goto(o, "build")
  /\ UNCHANGED <<runs, clones, checkout, serverEnv, image, history>>

\* Each service's build sends the checkout, as it then is, to the builder.
BuildContext(o) ==
  \E s \in Selected(o) \ DOMAIN run[o].context :
    LET built == [t \in DOMAIN run[o].context \cup {s} |->
                    IF t = s THEN checkout ELSE run[o].context[t]]
    IN /\ At(o, "build")
       /\ run' = [run EXCEPT ![o].context = built,
                             ![o].at = IF DOMAIN built = Selected(o) THEN "tag" ELSE "build"]
       /\ UNCHANGED <<runs, clones, server, history>>

TagImages(o) ==
  /\ At(o, "tag")
  /\ image' = [s \in Services |-> IF s \in Selected(o) THEN run[o].context[s] ELSE image[s]]
  /\ run' = [run EXCEPT ![o].at = "up", ![o].context = NoContext]
  /\ UNCHANGED <<runs, clones, checkout, serverEnv, container, history>>

\* up builds the images that are missing.
Up(o) ==
  /\ At(o, "up")
  /\ image' = [s \in Services |->
                 IF s \in Selected(o) /\ image[s] = Missing THEN checkout ELSE image[s]]
  /\ container' = [s \in Services |->
                     IF s \in Selected(o) THEN [code |-> image'[s], env |-> serverEnv]
                                          ELSE container[s]]
  /\ Goto(o, IF run[o].mode.prune THEN "prune" ELSE "health")
  /\ UNCHANGED <<runs, clones, checkout, serverEnv, history>>

\* docker system prune -a: stopped containers go, then images without a container.
Prune(o) ==
  /\ At(o, "prune")
  /\ image' = [s \in Services |->
                 IF container[s] # Down /\ container[s].code = image[s] THEN image[s] ELSE Missing]
  /\ Goto(o, "health")
  /\ UNCHANGED <<runs, clones, checkout, serverEnv, container, history>>

\* deep_mri.sh and the smoke test passed: "Done."
Health(o) ==
  /\ At(o, "health")
  /\ Goto(o, "done")
  /\ UNCHANGED <<runs, clones, server, history>>

\* A command failed, the push was rejected, the hashes differ, or Ctrl-C.
Fail(o) ==
  /\ run[o].at \in Steps
  /\ run' = [run EXCEPT ![o].at = "failed", ![o].context = NoContext]
  /\ stranded' = [stranded EXCEPT ![o] = IF At(o, "push") THEN head[o] ELSE @]
  /\ UNCHANGED <<runs, clones, server, overlapped, rewritten>>

Script(o) ==
  \/ Start(o) \/ CommitAll(o) \/ Push(o) \/ RemoteReset(o)
  \/ Truncate(o) \/ SyncEnv(o) \/ CheckEnv(o)
  \/ Stop(o) \/ BuildContext(o) \/ TagImages(o) \/ Up(o) \/ Prune(o) \/ Health(o)
  \/ Fail(o)

Next == \E o \in Operators : Script(o) \/ Edit(o) \/ Pull(o)

Spec == Init /\ [][Next]_vars
-----------------------------------------------------------------------------
(* Properties. *)

PastReset(o) == OnServer(o) /\ ~ At(o, "reset")

(* A run that pushed has its push checked out from its reset on, whatever  *)
(* other operators do; when it comes to the health check and no other run  *)
(* was on the server meanwhile, every service it rebuilt runs, from what   *)
(* is checked out (deploy.sh:323-338).                                     *)
PushedIsDeployed ==
  \A o \in Operators :
    /\ PastReset(o) => run[o].pushed \subseteq checkout
    /\ At(o, "health") /\ run[o].mode.rebuild /\ ~ overlapped[o] =>
         \A s \in Selected(o) : container[s] # Down /\ container[s].code = checkout

(* A run that synced and found the hashes equal starts its services with   *)
(* its own complete env file, unless another run wrote the file after the  *)
(* check (deploy.sh:183-190, 206-214).                                     *)
ServicesHaveCheckedEnv ==
  \A o \in Operators :
    At(o, "health") /\ run[o].mode.sync /\ run[o].mode.rebuild /\ ~ run[o].mode.dry
      /\ ~ rewritten[o] =>
      \A s \in Selected(o) : container[s] # Down => container[s].env = o

(* The checkout never goes back to an older commit, and neither does the   *)
(* image of a service in a run that met no other on the server             *)
(* (deploy.sh:197, 207, 213).                                              *)
NothingRollsBack ==
  [][/\ checkout \subseteq checkout'
     /\ \A o \in Operators : At(o, "tag") /\ run'[o].at = "up" /\ ~ overlapped[o] =>
          \A s \in Services : image[s] # Missing => image[s] \subseteq image'[s]]_vars

(* A run that comes to Done leaves no commit of its operator unpushed,     *)
(* except one whose push failed before: the next run finds nothing staged, *)
(* skips the push and deploys what origin has (deploy.sh:8, 318-328).      *)
OnlyFailedPushesAreSkipped ==
  \A o \in Operators : At(o, "health") => head[o] \subseteq origin \cup stranded[o]

(* deploy.sh:103 says of --dry-run "Print commands without executing": where *)
(* every run has the flag, nothing is committed, pushed, reset or stopped.   *)
DryRunsExecuteNothing ==
  (\A m \in Modes : m.dry) =>
    /\ origin = {} /\ checkout = {} /\ serverEnv = Initially
    /\ \A o \in Operators : head[o] = {}
    /\ \A s \in Services : container[s] = [code |-> {}, env |-> Initially]
=============================================================================
