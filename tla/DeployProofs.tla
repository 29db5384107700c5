---------------------------- MODULE DeployProofs ----------------------------
(***************************************************************************)
(* What the deploy script promises to operators who run it at once, for    *)
(* any number of them, of services and of runs, whichever step fails.      *)
(***************************************************************************)
EXTENDS Deploy, TLAPS

-----------------------------------------------------------------------------
(* The inductive invariant *)

\* Commits flow one way: from a clone to origin, from there to the checkout, and
\* from the checkout into builds and images.
NothingLost == \A o \in Operators : ~ At(o, "push") => head[o] \subseteq origin \cup stranded[o]

PushesReachOrigin ==
  /\ checkout \subseteq origin
  /\ \A o \in Operators : run[o].pushed \subseteq origin
  /\ \A o \in Operators : PastReset(o) => run[o].pushed \subseteq checkout

BuiltFromCheckout ==
  /\ \A s \in Services : image[s] # Missing => image[s] \subseteq checkout
  /\ \A o \in Operators : \A s \in DOMAIN run[o].context : run[o].context[s] \subseteq checkout

\* Two runs past their reset know of each other.
MeetingsNoted ==
  \A o, p \in Operators : o # p /\ PastReset(o) /\ PastReset(p) => overlapped[o]

\* Where the contexts of a build stand.
ContextsKept ==
  \A o \in Operators :
    /\ run[o].at \notin {"build", "tag"} => DOMAIN run[o].context = {}
    /\ At(o, "tag") => DOMAIN run[o].context = Selected(o)

\* What a run that met no other has made of the checkout so far.
RebuildsCheckout ==
  \A o \in Operators : ~ overlapped[o] =>
    /\ \A s \in DOMAIN run[o].context : run[o].context[s] = checkout
    /\ At(o, "up") => \A s \in Selected(o) : image[s] = checkout
    /\ At(o, "prune") \/ (At(o, "health") /\ run[o].mode.rebuild) =>
         \A s \in Selected(o) : container[s] # Down /\ container[s].code = checkout

\* From the check of the hashes on, the server's file is the operator's until
\* another run writes it.
Synced(o) == run[o].mode.sync /\ ~ run[o].mode.dry /\ run[o].mode.rebuild

KeepsCheckedEnv ==
  \A o \in Operators : Synced(o) /\ ~ rewritten[o] =>
    /\ run[o].at \in {"stop", "build", "tag", "up", "prune", "health"} => serverEnv = o
    /\ run[o].at \in {"prune", "health"} =>
         \A s \in Selected(o) : container[s] # Down => container[s].env = o

DeployInv == /\ TypeOK /\ NothingLost /\ PushesReachOrigin /\ BuiltFromCheckout
             /\ MeetingsNoted /\ ContextsKept /\ RebuildsCheckout /\ KeepsCheckedEnv

-----------------------------------------------------------------------------
(* What a step does to the runs *)

Contexts == UNION {[S -> Commit] : S \in SUBSET Services}
Run == [at : Steps \cup Ended, mode : Modes, pushed : Commit, context : Contexts]

LEMMA ContextsMember ==
  ASSUME NEW f
  PROVE  f \in Contexts <=> DOMAIN f \subseteq Services /\ f \in [DOMAIN f -> Commit]
  BY DEF Contexts

LEMMA NoContextIs == NoContext \in Contexts /\ DOMAIN NoContext = {}
  BY ContextsMember DEF NoContext

Moves(o, at, pushed, context) ==
  /\ run' \in [Operators -> Run]
  /\ run'[o].at = at /\ run'[o].mode = run[o].mode
  /\ run'[o].pushed = pushed /\ run'[o].context = context
  /\ \A p \in Operators \ {o} : run'[p] = run[p]

LEMMA RunFields ==
  ASSUME TypeOK, NEW o \in Operators
  PROVE  /\ run[o] \in Run /\ run[o].at \in Steps \cup Ended
         /\ run[o].mode \in Modes /\ run[o].mode.services \subseteq Services
         /\ run[o].pushed \in Commit /\ run[o].context \in Contexts
<1>1. run[o] \in Run
  BY DEF TypeOK, Run, Contexts
<1>2. QED
  BY <1>1, ModesAssumption DEF Run

LEMMA GotoMoves ==
  ASSUME TypeOK, NEW o \in Operators, NEW at \in Steps \cup Ended, Goto(o, at)
  PROVE  Moves(o, at, run[o].pushed, run[o].context)
<1>1. run \in [Operators -> Run]
  BY DEF TypeOK, Run, Contexts
<1>2. run' = [run EXCEPT ![o] = [run[o] EXCEPT !.at = at]]
  BY DEF Goto
<1>3. [run[o] EXCEPT !.at = at] \in Run
  BY <1>1 DEF Run
<1>4. QED
  BY <1>1, <1>2, <1>3 DEF Moves, Run

LEMMA PushMoves ==
  ASSUME TypeOK, NEW o \in Operators, Push(o)
  PROVE  Moves(o, "reset", head[o], run[o].context)
<1> DEFINE r == [run[o] EXCEPT !.at = "reset", !.pushed = head[o]]
<1>1. run \in [Operators -> Run] /\ head[o] \in Commit
  BY DEF TypeOK, Run, Contexts
<1>2. r \in Run /\ r.at = "reset" /\ r.mode = run[o].mode /\ r.pushed = head[o] /\ r.context = run[o].context
  BY <1>1 DEF Run, Steps
<1>3. run' = [run EXCEPT ![o] = r]
  BY <1>1 DEF Push, Run
<1> HIDE DEF r
<1>4. QED
  BY <1>1, <1>2, <1>3 DEF Moves

LEMMA ContextMoves ==
  ASSUME TypeOK, NEW o \in Operators, NEW at \in Steps \cup Ended, NEW context \in Contexts,
         run' = [run EXCEPT ![o].at = at, ![o].context = context]
  PROVE  Moves(o, at, run[o].pushed, context)
<1> DEFINE r == [run[o] EXCEPT !.at = at, !.context = context]
<1>1. run \in [Operators -> Run]
  BY DEF TypeOK, Run, Contexts
<1>2. r \in Run /\ r.at = at /\ r.mode = run[o].mode /\ r.pushed = run[o].pushed /\ r.context = context
  BY <1>1 DEF Run
<1>3. run' = [run EXCEPT ![o] = r]
  BY <1>1 DEF Run
<1> HIDE DEF r
<1>4. QED
  BY <1>1, <1>2, <1>3 DEF Moves

\* One more service is sent to the builder.
LEMMA BuildMoves ==
  ASSUME TypeOK, NEW o \in Operators, BuildContext(o)
  PROVE  \E context \in Contexts, at \in {"build", "tag"} :
           /\ Moves(o, at, run[o].pushed, context)
           /\ \A s \in DOMAIN context :
                context[s] = checkout \/ (s \in DOMAIN run[o].context /\ context[s] = run[o].context[s])
           /\ at = "tag" => DOMAIN context = Selected(o)
<1>1. PICK s \in Selected(o) \ DOMAIN run[o].context :
        LET built == [t \in DOMAIN run[o].context \cup {s} |->
                        IF t = s THEN checkout ELSE run[o].context[t]]
        IN run' = [run EXCEPT ![o].context = built,
                              ![o].at = IF DOMAIN built = Selected(o) THEN "tag" ELSE "build"]
  BY DEF BuildContext
<1> DEFINE built == [t \in DOMAIN run[o].context \cup {s} |->
                       IF t = s THEN checkout ELSE run[o].context[t]]
           at == IF DOMAIN built = Selected(o) THEN "tag" ELSE "build"
<1>2. built \in Contexts
  <2>1. /\ DOMAIN run[o].context \subseteq Services /\ s \in Services
        /\ run[o].context \in [DOMAIN run[o].context -> Commit]
    BY RunFields, ContextsMember DEF Selected
  <2>2. checkout \in Commit
    BY DEF TypeOK
  <2>3. DOMAIN built \subseteq Services /\ built \in [DOMAIN built -> Commit]
    BY <2>1, <2>2
  <2>4. QED
    BY <2>3, ContextsMember
<1>3. \A t \in DOMAIN built :
        built[t] = checkout \/ (t \in DOMAIN run[o].context /\ built[t] = run[o].context[t])
  OBVIOUS
<1>4. /\ at \in {"build", "tag"} /\ at \in Steps \cup Ended
      /\ at = "tag" => DOMAIN built = Selected(o)
  BY DEF Steps
<1>5. run' = [run EXCEPT ![o].context = built, ![o].at = at]
  BY <1>1
<1> HIDE DEF built, at
<1>6. run' = [run EXCEPT ![o].at = at, ![o].context = built]
  BY <1>5
<1>7. Moves(o, at, run[o].pushed, built)
  BY <1>2, <1>4, <1>6, ContextMoves
<1>8. QED
  BY <1>2, <1>3, <1>4, <1>7

LEMMA StartMoves ==
  ASSUME TypeOK, NEW o \in Operators, Start(o)
  PROVE  /\ run' \in [Operators -> Run]
         /\ run'[o].at = "commit" /\ run'[o].pushed = {} /\ DOMAIN run'[o].context = {}
         /\ \A p \in Operators \ {o} : run'[p] = run[p]
<1>1. PICK m \in Modes : run' = [run EXCEPT ![o] = [at |-> "commit", mode |-> m, pushed |-> {},
                                                  context |-> NoContext]]
  BY DEF Start
<1>2. [at |-> "commit", mode |-> m, pushed |-> {}, context |-> NoContext] \in Run
  BY NoContextIs DEF Run, Steps, Commit
<1>3. run \in [Operators -> Run]
  BY DEF TypeOK, Run, Contexts
<1>4. QED
  BY <1>1, <1>2, <1>3, NoContextIs

\* The steps of the script that only move on.
LEMMA ActionMoves ==
  ASSUME TypeOK, NEW o \in Operators
  PROVE  /\ CommitAll(o) => Moves(o, AfterCommit(o), run[o].pushed, run[o].context)
         /\ RemoteReset(o) => Moves(o, AfterReset(o), run[o].pushed, run[o].context)
         /\ Truncate(o) => Moves(o, "fill", run[o].pushed, run[o].context)
         /\ SyncEnv(o) => Moves(o, "check", run[o].pushed, run[o].context)
         /\ CheckEnv(o) => Moves(o, IF run[o].mode.rebuild THEN "stop" ELSE "health",
                                 run[o].pushed, run[o].context)
         /\ Stop(o) => Moves(o, "build", run[o].pushed, run[o].context)
         /\ TagImages(o) => Moves(o, "up", run[o].pushed, NoContext)
         /\ Up(o) => Moves(o, IF run[o].mode.prune THEN "prune" ELSE "health",
                           run[o].pushed, run[o].context)
         /\ Prune(o) => Moves(o, "health", run[o].pushed, run[o].context)
         /\ Health(o) => Moves(o, "done", run[o].pushed, run[o].context)
         /\ Fail(o) => Moves(o, "failed", run[o].pushed, NoContext)
<1>1. /\ AfterCommit(o) \in Steps \cup Ended /\ AfterReset(o) \in Steps \cup Ended
      /\ {"fill", "check", "stop", "build", "up", "prune", "health", "done", "failed"}
           \subseteq Steps \cup Ended
  BY DEF AfterCommit, AfterReset, Steps, Ended
<1>2. CommitAll(o) => Moves(o, AfterCommit(o), run[o].pushed, run[o].context)
  BY <1>1, GotoMoves DEF CommitAll
<1>3. RemoteReset(o) => Moves(o, AfterReset(o), run[o].pushed, run[o].context)
  BY <1>1, GotoMoves DEF RemoteReset
<1>4. Truncate(o) => Moves(o, "fill", run[o].pushed, run[o].context)
  BY <1>1, GotoMoves DEF Truncate
<1>5. SyncEnv(o) => Moves(o, "check", run[o].pushed, run[o].context)
  BY <1>1, GotoMoves DEF SyncEnv
<1>6. CheckEnv(o) => Moves(o, IF run[o].mode.rebuild THEN "stop" ELSE "health",
                           run[o].pushed, run[o].context)
  BY <1>1, GotoMoves DEF CheckEnv
<1>7. Stop(o) => Moves(o, "build", run[o].pushed, run[o].context)
  BY <1>1, GotoMoves DEF Stop
<1>8. TagImages(o) => Moves(o, "up", run[o].pushed, NoContext)
  BY <1>1, NoContextIs, ContextMoves DEF TagImages
<1>9. Up(o) => Moves(o, IF run[o].mode.prune THEN "prune" ELSE "health",
                     run[o].pushed, run[o].context)
  BY <1>1, GotoMoves DEF Up
<1>10. Prune(o) => Moves(o, "health", run[o].pushed, run[o].context)
  BY <1>1, GotoMoves DEF Prune
<1>11. Health(o) => Moves(o, "done", run[o].pushed, run[o].context)
  BY <1>1, GotoMoves DEF Health
<1>12. Fail(o) => Moves(o, "failed", run[o].pushed, NoContext)
  BY <1>1, NoContextIs, ContextMoves DEF Fail
<1>13. QED
  BY <1>2, <1>3, <1>4, <1>5, <1>6, <1>7, <1>8, <1>9, <1>10, <1>11, <1>12

-----------------------------------------------------------------------------
(* Typing *)

LEMMA DeployTypeStep == TypeOK /\ ContextsKept /\ [Next]_vars => TypeOK'
<1> SUFFICES ASSUME TypeOK, ContextsKept, [Next]_vars PROVE TypeOK'
  OBVIOUS
<1>t. TypeOK' <=>
        /\ head' \in [Operators -> Commit] /\ dirty' \in [Operators -> Commit]
        /\ origin' \in Commit /\ checkout' \in Commit
        /\ serverEnv' \in EnvFile
        /\ image' \in [Services -> Commit \cup {Missing}]
        /\ container' \in [Services -> Container \cup {Down}]
        /\ runs' \in 0..MaxRuns /\ run' \in [Operators -> Run]
        /\ stranded' \in [Operators -> Commit]
        /\ overlapped' \in [Operators -> BOOLEAN] /\ rewritten' \in [Operators -> BOOLEAN]
  BY DEF TypeOK, Run, Contexts
<1>f. \A o \in Operators : run[o] \in Run
  BY RunFields
<1> USE DEF clones, server, history
<1>1. ASSUME NEW o \in Operators, Edit(o) PROVE TypeOK'
  BY <1>1 DEF Edit, TypeOK, Commit
<1>2. ASSUME NEW o \in Operators, Pull(o) PROVE TypeOK'
  BY <1>2 DEF Pull, TypeOK, Commit
<1>3. ASSUME NEW o \in Operators, Start(o) PROVE TypeOK'
  <2>1. PICK patch \in Patched(o) : dirty' = [dirty EXCEPT ![o] = @ \cup patch]
    BY <1>3 DEF Start
  <2>2. patch \subseteq Changes
    BY DEF Patched
  <2>3. dirty' \in [Operators -> Commit]
    BY <2>1, <2>2 DEF TypeOK, Commit
  <2>4. runs' \in 0..MaxRuns
    BY <1>3, BoundsAssumption DEF Start, TypeOK
  <2>5. /\ overlapped' \in [Operators -> BOOLEAN] /\ rewritten' \in [Operators -> BOOLEAN]
    BY <1>3 DEF Start, TypeOK
  <2>6. QED
    BY <1>3, <1>t, <2>3, <2>4, <2>5, StartMoves DEF Start, TypeOK
<1>4. ASSUME NEW o \in Operators, CommitAll(o) PROVE TypeOK'
  <2>1. head' \in [Operators -> Commit] /\ dirty' \in [Operators -> Commit]
    BY <1>4 DEF CommitAll, TypeOK, Commit
  <2>2. QED
    BY <1>4, <1>t, <2>1, ActionMoves DEF CommitAll, Moves, TypeOK
<1>5. ASSUME NEW o \in Operators, Push(o) PROVE TypeOK'
  <2>1. origin' \in Commit /\ stranded' \in [Operators -> Commit]
    BY <1>5 DEF Push, TypeOK, Commit
  <2>2. QED
    BY <1>5, <1>t, <2>1, PushMoves DEF Push, Moves, TypeOK
<1>6. ASSUME NEW o \in Operators, RemoteReset(o) PROVE TypeOK'
  <2>1. overlapped' \in [Operators -> BOOLEAN]
    <3>1. overlapped \in [Operators -> BOOLEAN]
      BY DEF TypeOK
    <3>2. QED
      BY <1>6, <3>1 DEF RemoteReset
  <2>2. QED
    BY <1>6, <1>t, <2>1, ActionMoves DEF RemoteReset, Moves, TypeOK
<1>7. ASSUME NEW o \in Operators, Truncate(o) PROVE TypeOK'
  BY <1>7, <1>t, ActionMoves DEF Truncate, EnvWritten, EnvFile, Moves, TypeOK
<1>8. ASSUME NEW o \in Operators, SyncEnv(o) PROVE TypeOK'
  <2>1. serverEnv' \in {o, Partial} /\ rewritten' \in [Operators -> BOOLEAN]
    BY <1>8 DEF SyncEnv, EnvWritten
  <2>2. QED
    BY <1>8, <1>t, <2>1, ActionMoves DEF SyncEnv, EnvFile, Moves, TypeOK
<1>9. ASSUME NEW o \in Operators, CheckEnv(o) PROVE TypeOK'
  BY <1>9, <1>t, ActionMoves DEF CheckEnv, Moves, TypeOK
<1>10. ASSUME NEW o \in Operators, Stop(o) PROVE TypeOK'
  BY <1>10, <1>t, ActionMoves DEF Stop, Moves, TypeOK
<1>11. ASSUME NEW o \in Operators, BuildContext(o) PROVE TypeOK'
  BY <1>11, <1>t, BuildMoves DEF BuildContext, Moves, TypeOK
<1>12. ASSUME NEW o \in Operators, TagImages(o) PROVE TypeOK'
  <2>1. \A s \in Selected(o) : run[o].context[s] \in Commit
    <3>1. DOMAIN run[o].context = Selected(o)
      BY <1>12 DEF TagImages, ContextsKept
    <3>2. run[o].context \in [DOMAIN run[o].context -> Commit]
      BY RunFields, ContextsMember
    <3>3. QED
      BY <3>1, <3>2
  <2>2. image' \in [Services -> Commit \cup {Missing}]
    BY <1>12, <2>1 DEF TagImages, TypeOK
  <2>3. QED
    BY <1>12, <1>t, <2>2, ActionMoves DEF TagImages, Moves, TypeOK
<1>13. ASSUME NEW o \in Operators, Up(o) PROVE TypeOK'
  <2>1. /\ image \in [Services -> Commit \cup {Missing}] /\ checkout \in Commit /\ serverEnv \in EnvFile
        /\ container \in [Services -> Container \cup {Down}]
    BY DEF TypeOK
  <2>2. /\ image' \in [Services -> Commit \cup {Missing}]
        /\ \A s \in Selected(o) : s \in Services => image'[s] \in Commit
    BY <1>13, <2>1 DEF Up
  <2>3. container' \in [Services -> Container \cup {Down}]
    BY <1>13, <2>1, <2>2 DEF Up, Container
  <2>4. QED
    BY <1>13, <1>t, <2>2, <2>3, ActionMoves DEF Up, Moves, TypeOK
<1>14. ASSUME NEW o \in Operators, Prune(o) PROVE TypeOK'
  BY <1>14, <1>t, ActionMoves DEF Prune, Moves, TypeOK
<1>15. ASSUME NEW o \in Operators, Health(o) PROVE TypeOK'
  BY <1>15, <1>t, ActionMoves DEF Health, Moves, TypeOK
<1>16. ASSUME NEW o \in Operators, Fail(o) PROVE TypeOK'
  <2>1. stranded' \in [Operators -> Commit]
    BY <1>16 DEF Fail, TypeOK
  <2>2. QED
    BY <1>16, <1>t, <2>1, ActionMoves DEF Fail, Moves, TypeOK
<1>17. CASE UNCHANGED vars
  BY <1>17 DEF vars, TypeOK
<1>18. QED
  BY <1>1, <1>2, <1>3, <1>4, <1>5, <1>6, <1>7, <1>8, <1>9, <1>10, <1>11, <1>12, <1>13,
     <1>14, <1>15, <1>16, <1>17 DEF Next, Script

-----------------------------------------------------------------------------
(* Commits flow one way *)

LEMMA NothingLostStep == TypeOK /\ NothingLost /\ [Next]_vars => NothingLost'
<1> SUFFICES ASSUME TypeOK, NothingLost, [Next]_vars PROVE NothingLost'
  OBVIOUS
<1> USE DEF NothingLost, At, clones, server, history
<1>1. ASSUME NEW o \in Operators, Edit(o) PROVE NothingLost'
  BY <1>1 DEF Edit
<1>2. ASSUME NEW o \in Operators, Pull(o) PROVE NothingLost'
  BY <1>2 DEF Pull, Ended, TypeOK
<1>3. ASSUME NEW o \in Operators, Start(o) PROVE NothingLost'
  BY <1>3, StartMoves DEF Start, Ended
<1>4. ASSUME NEW o \in Operators, CommitAll(o) PROVE NothingLost'
  BY <1>4, ActionMoves DEF CommitAll, AfterCommit, Moves, TypeOK
<1>5. ASSUME NEW o \in Operators, Push(o) PROVE NothingLost'
  BY <1>5, PushMoves DEF Push, FastForward, Moves, TypeOK
<1>6. ASSUME NEW o \in Operators, Fail(o) PROVE NothingLost'
  BY <1>6, ActionMoves DEF Fail, Moves, TypeOK
<1>7. ASSUME NEW o \in Operators, run[o].at # "push", run'[o].at # "push",
             \A p \in Operators \ {o} : run'[p] = run[p], UNCHANGED <<head, origin, stranded>>
      PROVE  NothingLost'
  BY <1>7
<1>8. ASSUME NEW o \in Operators,
             RemoteReset(o) \/ Truncate(o) \/ SyncEnv(o) \/ CheckEnv(o) \/ Stop(o)
               \/ TagImages(o) \/ Up(o) \/ Prune(o) \/ Health(o)
      PROVE  NothingLost'
  <2>1. run[o].at # "push" /\ UNCHANGED <<head, origin, stranded>>
    BY <1>8 DEF RemoteReset, Truncate, SyncEnv, CheckEnv, Stop, TagImages, Up, Prune, Health
  <2>2. run'[o].at # "push" /\ \A p \in Operators \ {o} : run'[p] = run[p]
    BY <1>8, ActionMoves DEF Moves, AfterReset
  <2>3. QED
    BY <1>7, <2>1, <2>2
<1>9. ASSUME NEW o \in Operators, BuildContext(o) PROVE NothingLost'
  BY <1>7, <1>9, BuildMoves DEF BuildContext, Moves
<1>10. CASE UNCHANGED vars
  BY <1>10 DEF vars
<1>11. QED
  BY <1>1, <1>2, <1>3, <1>4, <1>5, <1>6, <1>8, <1>9, <1>10 DEF Next, Script

LEMMA PushesStep == TypeOK /\ PushesReachOrigin /\ [Next]_vars => PushesReachOrigin'
<1> SUFFICES ASSUME TypeOK, PushesReachOrigin, [Next]_vars PROVE PushesReachOrigin'
  OBVIOUS
<1> USE DEF PushesReachOrigin, PastReset, OnServer, At, Steps, Ended, clones, server, history
<1>1. ASSUME NEW o \in Operators, Edit(o) \/ Pull(o) PROVE PushesReachOrigin'
  BY <1>1 DEF Edit, Pull
<1>2. ASSUME NEW o \in Operators, Start(o) PROVE PushesReachOrigin'
  BY <1>2, StartMoves DEF Start
<1>3. ASSUME NEW o \in Operators, CommitAll(o) PROVE PushesReachOrigin'
  <2>1. /\ run'[o].pushed = run[o].pushed /\ run'[o].at \in {"push", "reset"}
        /\ \A p \in Operators \ {o} : run'[p] = run[p]
    BY <1>3, ActionMoves DEF AfterCommit, Moves
  <2>2. UNCHANGED <<origin, checkout>>
    BY <1>3 DEF CommitAll
  <2>3. QED
    BY <2>1, <2>2
<1>4. ASSUME NEW o \in Operators, Push(o) PROVE PushesReachOrigin'
  BY <1>4, PushMoves DEF Push, FastForward, Moves
<1>5. ASSUME NEW o \in Operators, RemoteReset(o) PROVE PushesReachOrigin'
  BY <1>5, ActionMoves DEF RemoteReset, Moves
<1>6. ASSUME NEW o \in Operators, PastReset(o), run'[o].pushed = run[o].pushed,
             \A p \in Operators \ {o} : run'[p] = run[p], UNCHANGED <<origin, checkout>>
      PROVE  PushesReachOrigin'
  BY <1>6
<1>7. ASSUME NEW o \in Operators,
             Truncate(o) \/ SyncEnv(o) \/ CheckEnv(o) \/ Stop(o)
               \/ TagImages(o) \/ Up(o) \/ Prune(o) \/ Health(o)
      PROVE  PushesReachOrigin'
  <2>1. PastReset(o) /\ UNCHANGED <<origin, checkout>>
    BY <1>7 DEF Truncate, SyncEnv, CheckEnv, Stop, TagImages, Up, Prune, Health
  <2>2. run'[o].pushed = run[o].pushed /\ \A p \in Operators \ {o} : run'[p] = run[p]
    BY <1>7, ActionMoves DEF Moves
  <2>3. QED
    BY <1>6, <2>1, <2>2
<1>8. ASSUME NEW o \in Operators, BuildContext(o) PROVE PushesReachOrigin'
  BY <1>6, <1>8, BuildMoves DEF BuildContext, Moves
<1>9. ASSUME NEW o \in Operators, Fail(o) PROVE PushesReachOrigin'
  <2>1. /\ run'[o].pushed = run[o].pushed /\ run'[o].at = "failed"
        /\ \A p \in Operators \ {o} : run'[p] = run[p]
    BY <1>9, ActionMoves DEF Moves
  <2>2. UNCHANGED <<origin, checkout>>
    BY <1>9 DEF Fail
  <2>3. QED
    BY <2>1, <2>2
<1>10. CASE UNCHANGED vars
  BY <1>10 DEF vars
<1>11. QED
  BY <1>1, <1>2, <1>3, <1>4, <1>5, <1>7, <1>8, <1>9, <1>10 DEF Next, Script

\* The checkout only grows.
LEMMA CheckoutGrows == TypeOK /\ PushesReachOrigin /\ [Next]_vars => checkout \subseteq checkout'
<1> SUFFICES ASSUME PushesReachOrigin, [Next]_vars PROVE checkout \subseteq checkout'
  OBVIOUS
<1>1. ASSUME NEW o \in Operators, RemoteReset(o) PROVE checkout \subseteq checkout'
  BY <1>1 DEF RemoteReset, PushesReachOrigin
<1>2. ASSUME NEW o \in Operators, ~ RemoteReset(o), Script(o) \/ Edit(o) \/ Pull(o)
      PROVE  UNCHANGED checkout
  BY <1>2 DEF Script, Edit, Pull, Start, CommitAll, Push, Truncate, SyncEnv, CheckEnv, Stop,
             BuildContext, TagImages, Up, Prune, Health, Fail, server
<1>3. QED
  BY <1>1, <1>2 DEF Next, vars

LEMMA ContextsStep == TypeOK /\ ContextsKept /\ [Next]_vars => ContextsKept'
<1> SUFFICES ASSUME TypeOK, ContextsKept, [Next]_vars PROVE ContextsKept'
  OBVIOUS
<1> USE DEF ContextsKept, At, Selected
<1>1. ASSUME NEW o \in Operators, Edit(o) \/ Pull(o) PROVE ContextsKept'
  BY <1>1 DEF Edit, Pull
<1>2. ASSUME NEW o \in Operators, Start(o) PROVE ContextsKept'
  BY <1>2, StartMoves
<1>3. ASSUME NEW o \in Operators, NEW at, NEW pushed, NEW context, Moves(o, at, pushed, context),
             at # "tag", at = "build" \/ DOMAIN context = {}
      PROVE  ContextsKept'
  BY <1>3 DEF Moves
<1>4. ASSUME NEW o \in Operators, Push(o) PROVE ContextsKept'
  BY <1>3, <1>4, PushMoves DEF Push
<1>5. ASSUME NEW o \in Operators,
             CommitAll(o) \/ RemoteReset(o) \/ Truncate(o) \/ SyncEnv(o) \/ CheckEnv(o)
               \/ Stop(o) \/ Up(o) \/ Prune(o) \/ Health(o)
      PROVE  ContextsKept'
  <2>1. DOMAIN run[o].context = {}
    BY <1>5 DEF CommitAll, RemoteReset, Truncate, SyncEnv, CheckEnv, Stop, Up, Prune, Health
  <2>2. PICK at : Moves(o, at, run[o].pushed, run[o].context) /\ at # "tag"
    BY <1>5, ActionMoves DEF AfterCommit, AfterReset
  <2>3. QED
    BY <1>3, <2>1, <2>2
<1>6. ASSUME NEW o \in Operators, TagImages(o) \/ Fail(o) PROVE ContextsKept'
  BY <1>3, <1>6, ActionMoves, NoContextIs
<1>7. ASSUME NEW o \in Operators, BuildContext(o) PROVE ContextsKept'
  BY <1>7, BuildMoves DEF Moves
<1>8. CASE UNCHANGED vars
  BY <1>8 DEF vars
<1>9. QED
  BY <1>1, <1>2, <1>4, <1>5, <1>6, <1>7, <1>8 DEF Next, Script

LEMMA BuiltStep ==
  TypeOK /\ PushesReachOrigin /\ BuiltFromCheckout /\ ContextsKept /\ [Next]_vars => BuiltFromCheckout'
<1> SUFFICES ASSUME TypeOK, PushesReachOrigin, BuiltFromCheckout, ContextsKept, [Next]_vars
             PROVE  BuiltFromCheckout'
  OBVIOUS
<1>g. checkout \subseteq checkout'
  BY CheckoutGrows
<1>1. ASSUME NEW o \in Operators, NEW at, NEW pushed, NEW context, Moves(o, at, pushed, context),
             \A s \in DOMAIN context : context[s] \subseteq checkout', UNCHANGED image
      PROVE  BuiltFromCheckout'
  BY <1>1, <1>g DEF Moves, BuiltFromCheckout
<1>2. ASSUME NEW o \in Operators, Edit(o) \/ Pull(o) PROVE BuiltFromCheckout'
  BY <1>2, <1>g DEF Edit, Pull, BuiltFromCheckout, server
<1>3. ASSUME NEW o \in Operators, Start(o) PROVE BuiltFromCheckout'
  BY <1>3, <1>g, StartMoves DEF Start, BuiltFromCheckout, server
<1>4. ASSUME NEW o \in Operators, Push(o) PROVE BuiltFromCheckout'
  <2>1. \A s \in DOMAIN run[o].context : run[o].context[s] \subseteq checkout'
    BY <1>g DEF BuiltFromCheckout
  <2>2. QED
    BY <1>1, <1>4, <2>1, PushMoves DEF Push, server
<1>5. ASSUME NEW o \in Operators,
             CommitAll(o) \/ RemoteReset(o) \/ Truncate(o) \/ SyncEnv(o) \/ CheckEnv(o)
               \/ Stop(o) \/ Health(o)
      PROVE  BuiltFromCheckout'
  <2>1. \A s \in DOMAIN run[o].context : run[o].context[s] \subseteq checkout'
    BY <1>g DEF BuiltFromCheckout
  <2>2. PICK at : Moves(o, at, run[o].pushed, run[o].context)
    BY <1>5, ActionMoves
  <2>3. UNCHANGED image
    BY <1>5 DEF CommitAll, RemoteReset, Truncate, SyncEnv, CheckEnv, Stop, Health, server
  <2>4. QED
    BY <1>1, <2>1, <2>2, <2>3
<1>6. ASSUME NEW o \in Operators, Fail(o) PROVE BuiltFromCheckout'
  BY <1>1, <1>6, ActionMoves, NoContextIs DEF Fail, server
<1>7. ASSUME NEW o \in Operators, BuildContext(o) PROVE BuiltFromCheckout'
  <2>1. PICK context \in Contexts, at \in {"build", "tag"} :
          /\ Moves(o, at, run[o].pushed, context)
          /\ \A s \in DOMAIN context :
               context[s] = checkout \/ (s \in DOMAIN run[o].context /\ context[s] = run[o].context[s])
    BY <1>7, BuildMoves
  <2>2. \A s \in DOMAIN context : context[s] \subseteq checkout'
    BY <1>g, <2>1 DEF BuiltFromCheckout
  <2>3. QED
    BY <1>1, <1>7, <2>1, <2>2 DEF BuildContext, server
<1>8. ASSUME NEW o \in Operators, TagImages(o) PROVE BuiltFromCheckout'
  <2>1. Moves(o, "up", run[o].pushed, NoContext) /\ DOMAIN run[o].context = Selected(o)
    BY <1>8, ActionMoves DEF TagImages, ContextsKept
  <2>2. \A s \in Services : image'[s] # Missing => image'[s] \subseteq checkout'
    BY <1>8, <1>g, <2>1 DEF TagImages, BuiltFromCheckout
  <2>3. QED
    BY <1>8, <1>g, <2>1, <2>2, NoContextIs DEF TagImages, Moves, BuiltFromCheckout
<1>9. ASSUME NEW o \in Operators, Up(o) PROVE BuiltFromCheckout'
  <2>1. PICK at : Moves(o, at, run[o].pushed, run[o].context)
    BY <1>9, ActionMoves
  <2>2. \A s \in Services : image'[s] # Missing => image'[s] \subseteq checkout'
    BY <1>9, <1>g DEF Up, BuiltFromCheckout
  <2>3. QED
    BY <1>g, <2>1, <2>2 DEF Moves, BuiltFromCheckout
<1>10. ASSUME NEW o \in Operators, Prune(o) PROVE BuiltFromCheckout'
  <2>1. PICK at : Moves(o, at, run[o].pushed, run[o].context)
    BY <1>10, ActionMoves
  <2>2. \A s \in Services : image'[s] # Missing => image'[s] \subseteq checkout'
    BY <1>10, <1>g DEF Prune, BuiltFromCheckout
  <2>3. QED
    BY <1>g, <2>1, <2>2 DEF Moves, BuiltFromCheckout
<1>11. CASE UNCHANGED vars
  BY <1>11 DEF vars, BuiltFromCheckout
<1>12. QED
  BY <1>2, <1>3, <1>4, <1>5, <1>6, <1>7, <1>8, <1>9, <1>10, <1>11 DEF Next, Script

-----------------------------------------------------------------------------
(* Runs that meet on the server *)

LEMMA MeetingsStep == TypeOK /\ MeetingsNoted /\ [Next]_vars => MeetingsNoted'
<1> SUFFICES ASSUME TypeOK, MeetingsNoted, [Next]_vars PROVE MeetingsNoted'
  OBVIOUS
<1> USE DEF MeetingsNoted
<1>1. ASSUME NEW o \in Operators, Edit(o) \/ Pull(o) PROVE MeetingsNoted'
  BY <1>1 DEF Edit, Pull, history, PastReset, OnServer, At
<1>2. ASSUME NEW o \in Operators, PastReset(o)' => PastReset(o),
             \A p \in Operators \ {o} : run'[p] = run[p] /\ overlapped'[p] = overlapped[p],
             PastReset(o) /\ PastReset(o)' => overlapped'[o] = overlapped[o]
      PROVE  MeetingsNoted'
  <2>1. \A p \in Operators : PastReset(p)' => PastReset(p)
    BY <1>2 DEF PastReset, OnServer, At
  <2>2. \A p \in Operators : PastReset(p)' => overlapped'[p] = overlapped[p]
    BY <1>2, <2>1
  <2>3. QED
    BY <2>1, <2>2
<1>3. ASSUME NEW o \in Operators, Start(o) PROVE MeetingsNoted'
  <2>1. /\ ~ PastReset(o)' /\ \A p \in Operators \ {o} : run'[p] = run[p]
    BY <1>3, StartMoves DEF PastReset, OnServer, At, Steps
  <2>2. \A p \in Operators \ {o} : overlapped'[p] = overlapped[p]
    BY <1>3 DEF Start, TypeOK
  <2>3. QED
    BY <1>2, <2>1, <2>2
<1>4. ASSUME NEW o \in Operators, CommitAll(o) \/ Push(o) \/ Fail(o) PROVE MeetingsNoted'
  <2>1. /\ ~ PastReset(o)' /\ \A p \in Operators \ {o} : run'[p] = run[p]
    BY <1>4, ActionMoves, PushMoves DEF Moves, AfterCommit, PastReset, OnServer, At, Steps
  <2>2. UNCHANGED overlapped
    BY <1>4 DEF CommitAll, Push, Fail, history
  <2>3. QED
    BY <1>2, <2>1, <2>2
<1>5. ASSUME NEW o \in Operators,
             Truncate(o) \/ SyncEnv(o) \/ CheckEnv(o) \/ Stop(o) \/ BuildContext(o)
               \/ TagImages(o) \/ Up(o) \/ Prune(o) \/ Health(o)
      PROVE  MeetingsNoted'
  <2>1. PastReset(o) /\ UNCHANGED overlapped
    BY <1>5 DEF Truncate, SyncEnv, CheckEnv, Stop, BuildContext, TagImages, Up, Prune, Health,
                history, PastReset, OnServer, At, Steps
  <2>2. \A p \in Operators \ {o} : run'[p] = run[p]
    BY <1>5, ActionMoves, BuildMoves DEF Moves
  <2>3. QED
    BY <1>2, <2>1, <2>2
<1>6. ASSUME NEW o \in Operators, RemoteReset(o) PROVE MeetingsNoted'
  <2> DEFINE others == {p \in Operators \ {o} : OnServer(p) /\ ~ At(p, "reset")}
  <2>1. others = {p \in Operators \ {o} : PastReset(p)}
    BY DEF PastReset
  <2>2. \A p \in Operators : overlapped'[p] <=>
          overlapped[p] \/ p \in others \/ (p = o /\ others # {})
    BY <1>6 DEF RemoteReset
  <2>3. \A p \in Operators \ {o} : run'[p] = run[p]
    BY <1>6, ActionMoves DEF Moves
  <2>4. \A p \in Operators \ {o} : PastReset(p)' => p \in others
    BY <2>1, <2>3 DEF PastReset, OnServer, At
  <2> HIDE DEF others
  <2>5. QED
    BY <2>2, <2>4
<1>7. CASE UNCHANGED vars
  BY <1>7 DEF vars, PastReset, OnServer, At
<1>8. QED
  BY <1>1, <1>3, <1>4, <1>5, <1>6, <1>7 DEF Next, Script

\* A run is nobody else's to move, and what is noted of it is not forgotten.
LEMMA OthersLeaveIt ==
  ASSUME TypeOK, NEW o \in Operators, NEW p \in Operators \ {o}, Script(p) \/ Edit(p) \/ Pull(p)
  PROVE  run'[o] = run[o] /\ (overlapped[o] => overlapped'[o])
<1>1. CASE Edit(p) \/ Pull(p)
  BY <1>1 DEF Edit, Pull, history
<1>2. CASE Start(p)
  BY <1>2, StartMoves DEF Start, TypeOK
<1>3. CASE RemoteReset(p)
  BY <1>3, ActionMoves DEF RemoteReset, Moves
<1>4. CASE CommitAll(p) \/ Push(p) \/ Fail(p) \/ Truncate(p) \/ SyncEnv(p) \/ CheckEnv(p)
             \/ Stop(p) \/ BuildContext(p) \/ TagImages(p) \/ Up(p) \/ Prune(p) \/ Health(p)
  <2>1. UNCHANGED overlapped
    BY <1>4 DEF CommitAll, Push, Fail, Truncate, SyncEnv, CheckEnv, Stop, BuildContext,
                TagImages, Up, Prune, Health, history
  <2>2. run'[o] = run[o]
    BY <1>4, ActionMoves, PushMoves, BuildMoves DEF Moves
  <2>3. QED
    BY <2>1, <2>2
<1>5. QED
  BY <1>1, <1>2, <1>3, <1>4 DEF Script

\* While a run that met no other is past its reset, no other run touches what it
\* builds from, its images and its containers.
LEMMA AloneOnServer ==
  ASSUME TypeOK, MeetingsNoted, NEW o \in Operators, NEW p \in Operators \ {o},
         Script(p) \/ Edit(p) \/ Pull(p), PastReset(o), ~ overlapped[o]
  PROVE  \/ overlapped'[o]
         \/ UNCHANGED <<checkout, image, container>> /\ run'[o] = run[o]
<1>1. ~ PastReset(p)
  BY DEF MeetingsNoted
<1>2. CASE RemoteReset(p)
  BY <1>2 DEF RemoteReset, PastReset
<1>3. CASE Edit(p) \/ Pull(p)
  BY <1>3 DEF Edit, Pull, server
<1>4. CASE Start(p)
  BY <1>4, StartMoves DEF Start, server
<1>5. CASE CommitAll(p) \/ Push(p) \/ Fail(p)
  BY <1>5, ActionMoves, PushMoves DEF CommitAll, Push, Fail, Moves, server
<1>6. CASE Truncate(p) \/ SyncEnv(p) \/ CheckEnv(p) \/ Stop(p) \/ BuildContext(p)
             \/ TagImages(p) \/ Up(p) \/ Prune(p) \/ Health(p)
  BY <1>1, <1>6 DEF Truncate, SyncEnv, CheckEnv, Stop, BuildContext, TagImages, Up, Prune, Health,
                    PastReset, OnServer, At, Steps
<1>7. QED
  BY <1>2, <1>3, <1>4, <1>5, <1>6 DEF Script

-----------------------------------------------------------------------------
(* What a run alone on the server has made *)

\* RebuildsCheckout and KeepsCheckedEnv, of one run.
Rebuilt(o) ==
  ~ overlapped[o] =>
    /\ \A s \in DOMAIN run[o].context : run[o].context[s] = checkout
    /\ At(o, "up") => \A s \in Selected(o) : image[s] = checkout
    /\ At(o, "prune") \/ (At(o, "health") /\ run[o].mode.rebuild) =>
         \A s \in Selected(o) : container[s] # Down /\ container[s].code = checkout

LEMMA RebuiltByOthers ==
  ASSUME TypeOK, MeetingsNoted, ContextsKept, RebuildsCheckout, NEW o \in Operators,
         NEW p \in Operators \ {o}, Script(p) \/ Edit(p) \/ Pull(p)
  PROVE  Rebuilt(o)'
<1>1. run'[o] = run[o]
  BY OthersLeaveIt
<1>2. CASE PastReset(o) /\ ~ overlapped[o]
  BY <1>1, <1>2, AloneOnServer DEF RebuildsCheckout, Rebuilt, At, Selected
<1>3. CASE overlapped[o]
  BY <1>3, OthersLeaveIt DEF Rebuilt
<1>4. CASE ~ PastReset(o)
  <2>1. DOMAIN run[o].context = {}
    BY <1>4 DEF ContextsKept, PastReset, OnServer, At, Steps
  <2>2. ~ At(o, "up") /\ ~ At(o, "prune") /\ ~ At(o, "health")
    BY <1>4 DEF PastReset, OnServer, At, Steps
  <2>3. QED
    BY <1>1, <2>1, <2>2 DEF Rebuilt, At
<1>5. QED
  BY <1>2, <1>3, <1>4

LEMMA RebuiltByItself ==
  ASSUME TypeOK, ContextsKept, RebuildsCheckout, NEW o \in Operators,
         Script(o) \/ Edit(o) \/ Pull(o)
  PROVE  Rebuilt(o)'
<1> USE DEF At, Selected
<1>1. Rebuilt(o)
  BY DEF RebuildsCheckout, Rebuilt
<1>2. CASE Edit(o) \/ Pull(o)
  BY <1>1, <1>2 DEF Edit, Pull, server, history, Rebuilt
<1>3. CASE Start(o)
  BY <1>3, StartMoves DEF Rebuilt
<1>4. ASSUME NEW at, NEW pushed, NEW context, Moves(o, at, pushed, context), DOMAIN context = {},
             at \notin {"up", "prune"}, at = "health" => ~ run[o].mode.rebuild
      PROVE  Rebuilt(o)'
  BY <1>4 DEF Moves, Rebuilt
<1>5. CASE Push(o)
  <2>1. Moves(o, "reset", head[o], run[o].context)
    BY <1>5, PushMoves
  <2>2. DOMAIN run[o].context = {}
    BY <1>5 DEF Push, ContextsKept
  <2>3. "reset" \notin {"up", "prune"} /\ "reset" # "health"
    OBVIOUS
  <2>4. QED
    BY <1>4, <2>1, <2>2, <2>3
<1>6. CASE CommitAll(o) \/ RemoteReset(o) \/ Truncate(o) \/ SyncEnv(o) \/ CheckEnv(o)
             \/ Stop(o) \/ Health(o)
  <2>1. DOMAIN run[o].context = {}
    BY <1>6 DEF CommitAll, RemoteReset, Truncate, SyncEnv, CheckEnv, Stop, Health, ContextsKept
  <2>2. PICK at : /\ Moves(o, at, run[o].pushed, run[o].context)
                  /\ at \notin {"up", "prune"} /\ (at = "health" => ~ run[o].mode.rebuild)
    BY <1>6, ActionMoves DEF AfterCommit, AfterReset
  <2>3. QED
    BY <1>4, <2>1, <2>2
<1>7. CASE Fail(o)
  BY <1>4, <1>7, ActionMoves, NoContextIs
<1>8. CASE BuildContext(o)
  <2>1. PICK context \in Contexts, at \in {"build", "tag"} :
          /\ Moves(o, at, run[o].pushed, context)
          /\ \A s \in DOMAIN context :
               context[s] = checkout \/ (s \in DOMAIN run[o].context /\ context[s] = run[o].context[s])
    BY <1>8, BuildMoves
  <2>2. UNCHANGED <<checkout, overlapped>>
    BY <1>8 DEF BuildContext, server, history
  <2>3. ~ overlapped[o] => \A s \in DOMAIN context : context[s] = checkout
    BY <1>1, <2>1 DEF Rebuilt
  <2>4. QED
    BY <2>1, <2>2, <2>3 DEF Moves, Rebuilt
<1>9. CASE TagImages(o)
  <2>1. Moves(o, "up", run[o].pushed, NoContext) /\ DOMAIN run[o].context = Selected(o)
        /\ Selected(o) \subseteq Services
    BY <1>9, ActionMoves, RunFields DEF TagImages, ContextsKept
  <2>2. ~ overlapped[o] => \A s \in Selected(o) : image'[s] = checkout
    BY <1>1, <1>9, <2>1 DEF TagImages, Rebuilt
  <2>3. UNCHANGED <<checkout, overlapped>>
    BY <1>9 DEF TagImages, history
  <2>4. QED
    BY <2>1, <2>2, <2>3, NoContextIs DEF Moves, Rebuilt
<1>10. CASE Up(o)
  <2>1. /\ Moves(o, IF run[o].mode.prune THEN "prune" ELSE "health", run[o].pushed, run[o].context)
        /\ DOMAIN run[o].context = {} /\ Selected(o) \subseteq Services
    BY <1>10, ActionMoves, RunFields DEF Up, ContextsKept
  <2>2. ~ overlapped[o] => \A s \in Selected(o) : image'[s] = checkout
    BY <1>1, <1>10, <2>1 DEF Up, Rebuilt
  <2>3. \A s \in Selected(o) : container'[s] = [code |-> image'[s], env |-> serverEnv]
    BY <1>10, <2>1 DEF Up
  <2>4. checkout \in Commit /\ serverEnv \in EnvFile
    BY DEF TypeOK
  <2>5. ~ overlapped[o] =>
          \A s \in Selected(o) : container'[s] # Down /\ container'[s].code = checkout
    <3>1. [code |-> checkout, env |-> serverEnv] # Down
      BY <2>4, DownAssumption DEF Container
    <3>2. ASSUME ~ overlapped[o], NEW s \in Selected(o)
          PROVE  container'[s] # Down /\ container'[s].code = checkout
      <4>1. container'[s] = [code |-> checkout, env |-> serverEnv]
        BY <2>2, <2>3, <3>2
      <4>2. QED
        BY <3>1, <4>1
    <3>3. QED
      BY <3>2
  <2>6. UNCHANGED <<checkout, overlapped>>
    BY <1>10 DEF Up, history
  <2>7. QED
    BY <2>1, <2>5, <2>6 DEF Moves, Rebuilt
<1>11. CASE Prune(o)
  <2>1. /\ Moves(o, "health", run[o].pushed, run[o].context) /\ DOMAIN run[o].context = {}
    BY <1>11, ActionMoves DEF Prune, ContextsKept
  <2>2. UNCHANGED <<checkout, container, overlapped>> /\ run[o].at = "prune"
    BY <1>11 DEF Prune, history
  <2>3. QED
    BY <1>1, <2>1, <2>2 DEF Moves, Rebuilt
<1>12. QED
  BY <1>2, <1>3, <1>5, <1>6, <1>7, <1>8, <1>9, <1>10, <1>11 DEF Script

LEMMA RebuildsStep ==
  TypeOK /\ MeetingsNoted /\ ContextsKept /\ RebuildsCheckout /\ [Next]_vars => RebuildsCheckout'
<1> SUFFICES ASSUME TypeOK, MeetingsNoted, ContextsKept, RebuildsCheckout, [Next]_vars,
                    NEW o \in Operators
             PROVE  Rebuilt(o)'
  BY DEF RebuildsCheckout, Rebuilt
<1>1. CASE UNCHANGED vars
  BY <1>1 DEF vars, RebuildsCheckout, Rebuilt, At, Selected
<1>2. ASSUME NEW p \in Operators, Script(p) \/ Edit(p) \/ Pull(p) PROVE Rebuilt(o)'
  BY <1>2, RebuiltByOthers, RebuiltByItself
<1>3. QED
  BY <1>1, <1>2 DEF Next

-----------------------------------------------------------------------------
(* The env file *)

KeepsEnv(o) ==
  Synced(o) /\ ~ rewritten[o] =>
    /\ run[o].at \in {"stop", "build", "tag", "up", "prune", "health"} => serverEnv = o
    /\ run[o].at \in {"prune", "health"} =>
         \A s \in Selected(o) : container[s] # Down => container[s].env = o

LEMMA EnvKeptByOthers ==
  ASSUME TypeOK, KeepsCheckedEnv, NEW o \in Operators,
         NEW p \in Operators \ {o}, Script(p) \/ Edit(p) \/ Pull(p)
  PROVE  KeepsEnv(o)'
<1> USE DEF Synced, Selected
<1>1. run'[o] = run[o]
  BY OthersLeaveIt
<1>2. KeepsEnv(o)
  BY DEF KeepsCheckedEnv, KeepsEnv
<1>3. ASSUME rewritten'[o] = rewritten[o], UNCHANGED <<serverEnv, container>> PROVE KeepsEnv(o)'
  BY <1>1, <1>2, <1>3 DEF KeepsEnv
<1>4. CASE Truncate(p) \/ SyncEnv(p)
  BY <1>4 DEF Truncate, SyncEnv, EnvWritten, KeepsEnv
<1>5. CASE Stop(p)
  <2>1. UNCHANGED <<serverEnv, rewritten>>
    BY <1>5 DEF Stop, history
  <2>2. \A s \in Services : container'[s] = container[s] \/ container'[s] = Down
    BY <1>5 DEF Stop
  <2>3. Selected(o) \subseteq Services
    BY RunFields
  <2>4. QED
    BY <1>1, <1>2, <2>1, <2>2, <2>3 DEF KeepsEnv
<1>6. CASE Up(p)
  <2>1. UNCHANGED <<serverEnv, rewritten>>
    BY <1>6 DEF Up, history
  <2>2. \A s \in Services : container'[s] = container[s] \/ container'[s].env = serverEnv
    BY <1>6 DEF Up
  <2>3. Selected(o) \subseteq Services
    BY RunFields DEF Selected
  <2>4. QED
    BY <1>1, <1>2, <2>1, <2>2, <2>3 DEF KeepsEnv
<1>7. CASE Start(p) \/ CheckEnv(p)
  BY <1>3, <1>7 DEF Start, CheckEnv, server, TypeOK
<1>8. CASE Edit(p) \/ Pull(p) \/ CommitAll(p) \/ Push(p) \/ RemoteReset(p) \/ BuildContext(p)
             \/ TagImages(p) \/ Prune(p) \/ Health(p) \/ Fail(p)
  BY <1>3, <1>8 DEF Edit, Pull, CommitAll, Push, RemoteReset, BuildContext, TagImages, Prune,
                    Health, Fail, server, history
<1>9. QED
  BY <1>4, <1>5, <1>6, <1>7, <1>8 DEF Script

LEMMA EnvKeptByItself ==
  ASSUME TypeOK, KeepsCheckedEnv, NEW o \in Operators, Script(o) \/ Edit(o) \/ Pull(o)
  PROVE  KeepsEnv(o)'
<1> USE DEF Synced, Selected, At
<1>1. KeepsEnv(o)
  BY DEF KeepsCheckedEnv, KeepsEnv
<1>2. CASE Edit(o) \/ Pull(o)
  BY <1>1, <1>2 DEF Edit, Pull, server, history, KeepsEnv
<1>3. CASE Start(o)
  BY <1>3, StartMoves DEF KeepsEnv
<1>4. ASSUME NEW at, NEW pushed, NEW context, Moves(o, at, pushed, context),
             Synced(o) => at \notin {"stop", "build", "tag", "up", "prune", "health"}
      PROVE  KeepsEnv(o)'
  BY <1>4 DEF Moves, KeepsEnv
<1>5. CASE Push(o)
  <2>1. Moves(o, "reset", head[o], run[o].context)
    BY <1>5, PushMoves
  <2>2. QED
    BY <1>4, <2>1
<1>6. CASE CommitAll(o) \/ RemoteReset(o) \/ Truncate(o) \/ SyncEnv(o) \/ Health(o)
  <2>1. PICK at : /\ Moves(o, at, run[o].pushed, run[o].context)
                  /\ Synced(o) => at \notin {"stop", "build", "tag", "up", "prune", "health"}
    BY <1>6, ActionMoves DEF AfterCommit, AfterReset
  <2>2. QED
    BY <1>4, <2>1
<1>7. CASE Fail(o)
  <2>1. Moves(o, "failed", run[o].pushed, NoContext)
    BY <1>7, ActionMoves
  <2>2. QED
    BY <1>4, <2>1
<1>8. CASE CheckEnv(o)
  BY <1>8, ActionMoves DEF CheckEnv, HashesMatch, Moves, server, KeepsEnv
<1>9. CASE Stop(o) \/ BuildContext(o) \/ TagImages(o)
  <2>1. /\ run'[o].mode = run[o].mode /\ run'[o].at \in {"build", "tag", "up"}
        /\ run[o].at \in {"stop", "build", "tag"}
    BY <1>9, ActionMoves, BuildMoves DEF Stop, BuildContext, TagImages, Moves
  <2>2. UNCHANGED <<serverEnv, rewritten>>
    BY <1>9 DEF Stop, BuildContext, TagImages, server, history
  <2>3. QED
    BY <1>1, <2>1, <2>2 DEF KeepsEnv
<1>10. CASE Up(o)
  <2>1. run'[o].mode = run[o].mode /\ run'[o].at \in {"prune", "health"} /\ run[o].at = "up"
    BY <1>10, ActionMoves DEF Up, Moves
  <2>2. UNCHANGED <<serverEnv, rewritten>>
    BY <1>10 DEF Up, history
  <2>3. Selected(o) \subseteq Services
    BY RunFields
  <2>4. \A s \in Selected(o) : container'[s].env = serverEnv
    BY <1>10, <2>3 DEF Up
  <2>5. QED
    BY <1>1, <2>1, <2>2, <2>4 DEF KeepsEnv
<1>11. CASE Prune(o)
  <2>1. run'[o].mode = run[o].mode /\ run'[o].at = "health" /\ run[o].at = "prune"
    BY <1>11, ActionMoves DEF Prune, Moves
  <2>2. UNCHANGED <<serverEnv, container, rewritten>>
    BY <1>11 DEF Prune, history
  <2>3. QED
    BY <1>1, <2>1, <2>2 DEF KeepsEnv
<1>12. QED
  BY <1>2, <1>3, <1>5, <1>6, <1>7, <1>8, <1>9, <1>10, <1>11 DEF Script

LEMMA EnvStep == TypeOK /\ KeepsCheckedEnv /\ [Next]_vars => KeepsCheckedEnv'
<1> SUFFICES ASSUME TypeOK, KeepsCheckedEnv, [Next]_vars, NEW o \in Operators
             PROVE  KeepsEnv(o)'
  BY DEF KeepsCheckedEnv, KeepsEnv
<1>1. CASE UNCHANGED vars
  BY <1>1 DEF vars, KeepsCheckedEnv, KeepsEnv, Synced, Selected
<1>2. ASSUME NEW p \in Operators, Script(p) \/ Edit(p) \/ Pull(p) PROVE KeepsEnv(o)'
  BY <1>2, EnvKeptByOthers, EnvKeptByItself
<1>3. QED
  BY <1>1, <1>2 DEF Next

-----------------------------------------------------------------------------
(* The theorems *)

LEMMA DeployInit == Init => DeployInv
<1> SUFFICES ASSUME Init PROVE DeployInv
  OBVIOUS
<1>1. /\ (CHOOSE m \in Modes : TRUE) \in Modes /\ 0 \in 0..MaxRuns /\ {} \in Commit
      /\ "new" \in Steps \cup Ended
  BY ModesAssumption, BoundsAssumption DEF Commit, Ended
<1>2. /\ run \in [Operators -> Run]
      /\ \A o \in Operators : run[o].at = "new" /\ run[o].pushed = {} /\ DOMAIN run[o].context = {}
  BY <1>1, NoContextIs DEF Init, Run
<1>3. container \in [Services -> Container \cup {Down}] /\ serverEnv \in EnvFile
  BY <1>1 DEF Init, Container, EnvFile
<1>4. TypeOK
  BY <1>1, <1>2, <1>3 DEF Init, TypeOK, Run, Contexts
<1>5. NothingLost /\ PushesReachOrigin /\ BuiltFromCheckout
  BY <1>2 DEF Init, NothingLost, PushesReachOrigin, BuiltFromCheckout
<1>6. \A o \in Operators : ~ PastReset(o)
  BY <1>2 DEF PastReset, OnServer, Steps
<1>7. MeetingsNoted /\ ContextsKept /\ RebuildsCheckout /\ KeepsCheckedEnv
  BY <1>2, <1>6 DEF MeetingsNoted, ContextsKept, RebuildsCheckout, KeepsCheckedEnv, At
<1>8. QED
  BY <1>4, <1>5, <1>7 DEF DeployInv

LEMMA DeployStep == DeployInv /\ [Next]_vars => DeployInv'
  BY DeployTypeStep, NothingLostStep, PushesStep, BuiltStep, MeetingsStep, ContextsStep,
     RebuildsStep, EnvStep DEF DeployInv

(* Every run of the script, whoever else runs it and wherever it fails,    *)
(* keeps commits, images and containers in the forms that the steps use;   *)
(* the images that are tagged are all that were asked for.                 *)
THEOREM DeployTypeCorrect == Spec => []TypeOK
<1>1. DeployInv => TypeOK
  BY DEF DeployInv
<1>2. QED
  BY DeployInit, DeployStep, <1>1, PTL DEF Spec

(* For any operators: what a run pushed is checked out from its reset on,  *)
(* and a run that met no other leaves the services it rebuilt running from *)
(* the checkout (deploy.sh:323-338).                                       *)
THEOREM DeployPushedIsDeployed == Spec => []PushedIsDeployed
<1>1. DeployInv => PushedIsDeployed
  BY DEF DeployInv, PushesReachOrigin, RebuildsCheckout, PushedIsDeployed
<1>2. QED
  BY DeployInit, DeployStep, <1>1, PTL DEF Spec

(* For any operators: equal hashes mean that the services start with the   *)
(* operator's own env file, unless another run writes it after the check   *)
(* (deploy.sh:183-190, 206-214).                                           *)
THEOREM DeployServicesHaveCheckedEnv == Spec => []ServicesHaveCheckedEnv
<1>1. DeployInv => ServicesHaveCheckedEnv
  BY DEF DeployInv, KeepsCheckedEnv, Synced, ServicesHaveCheckedEnv, At
<1>2. QED
  BY DeployInit, DeployStep, <1>1, PTL DEF Spec

(* For any operators and any failures: a run that comes to Done leaves no  *)
(* commit unpushed but those of a push that failed (deploy.sh:8, 318-328). *)
THEOREM DeploySkipsOnlyFailedPushes == Spec => []OnlyFailedPushesAreSkipped
<1>1. DeployInv => OnlyFailedPushesAreSkipped
  BY DEF DeployInv, NothingLost, OnlyFailedPushesAreSkipped, At
<1>2. QED
  BY DeployInit, DeployStep, <1>1, PTL DEF Spec

\* The images are tagged from the checkout, which is newer than all of them.
LEMMA TaggingMovesOn ==
  ASSUME DeployInv, DeployInv', [Next]_vars, NEW o \in Operators,
         At(o, "tag"), run'[o].at = "up", ~ overlapped[o], NEW s \in Services, image[s] # Missing
  PROVE  image[s] \subseteq image'[s]
<1> USE DEF DeployInv
<1>1. run'[o] # run[o]
  BY DEF At
<1>2. TagImages(o)
  <2>1. PICK p \in Operators : Script(p) \/ Edit(p) \/ Pull(p)
    BY <1>1 DEF Next, vars
  <2>2. p = o
    BY <1>1, <2>1, OthersLeaveIt
  <2>3. ~ Edit(o) /\ ~ Pull(o) /\ ~ Start(o)
    BY DEF Edit, Pull, Start, At, Ended
  <2>4. ~ Fail(o)
    BY ActionMoves DEF Moves
  <2>5. QED
    BY <2>1, <2>2, <2>3, <2>4 DEF Script, At, CommitAll, Push, RemoteReset, Truncate, SyncEnv,
       CheckEnv, Stop, BuildContext, Up, Prune, Health
<1>3. /\ DOMAIN run[o].context = Selected(o)
      /\ \A t \in Selected(o) : run[o].context[t] = checkout
  BY DEF ContextsKept, RebuildsCheckout
<1>4. image[s] \subseteq checkout
  BY DEF BuiltFromCheckout
<1>5. QED
  BY <1>2, <1>3, <1>4 DEF TagImages

(* For any operators: the checkout never goes back to an older commit, and *)
(* a run that met no other never tags an older image (deploy.sh:197, 207). *)
THEOREM DeployNothingRollsBack == Spec => NothingRollsBack
<1>1. DeployInv /\ DeployInv' /\ [Next]_vars =>
        [/\ checkout \subseteq checkout'
         /\ \A o \in Operators : At(o, "tag") /\ run'[o].at = "up" /\ ~ overlapped[o] =>
              \A s \in Services : image[s] # Missing => image[s] \subseteq image'[s]]_vars
  BY CheckoutGrows, TaggingMovesOn DEF DeployInv
<1>2. QED
  BY DeployInit, DeployStep, <1>1, PTL DEF Spec, NothingRollsBack
=============================================================================
