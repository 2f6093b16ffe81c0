----------------------------- MODULE NavSession -----------------------------
(***************************************************************************)
(* scripts/nav_session.py: foreground sessions that each own one process   *)
(* group, the records they leave in the runtime directory, and the tool    *)
(* that asks their owners to stop; with the critical-exit handler that the *)
(* launch files run inside the group of a navigation session.              *)
(*                                                                         *)
(* A session is named by the identity process_info() reads (pid, start,    *)
(* boot): a dead session's pid may come back, its identity does not.       *)
(***************************************************************************)
EXTENDS Integers, FiniteSets

CONSTANTS
  NavSessions, PerceptionSessions,  \* identities, one per start of the program
  None,
  Nodes,       \* processes of the launch in CRITICAL
  Followed,    \* navigation sessions into whose launches the model looks: what
               \* fails in another one is no more than its return code
  MaxCrashes   \* supervisors killed without a chance to clean up

ASSUME SessionAssumption ==
  /\ NavSessions \cap PerceptionSessions = {}
  /\ None \notin NavSessions \cup PerceptionSessions
  /\ None \notin Nodes
  /\ Followed \subseteq NavSessions
  /\ MaxCrashes \in Nat

Sessions == NavSessions \cup PerceptionSessions
Role(s) == IF s \in NavSessions THEN "nav" ELSE "perception"
Roles == {"nav", "perception"}
\* Mutant of Stages: one more.
OneStageMore(s) == IF s \in NavSessions THEN 2 ELSE 3
\* The commands: a launch, for perception after the gate.
Stages(s) == IF s \in NavSessions THEN 1 ELSE 2

VARIABLES
  pc,      \* where each session is; one in "new" has not been started
  own,     \* a session's local variables, which die with it
  target,  \* the owner a navigation session has read in stop_role(), or None
  record,  \* the file nav.json or perception.json
  group,   \* the process group of a session's child: is the launch "up", did
           \* it leave "orphans", or only such as stack_role() does not know
           \* ("hidden"); its command and, for perception, the navigation it
           \* was started under
  launch,  \* inside the group of a navigation session: has the launch been
           \* asked to shut down, and failure.json
  crashed  \* supervisors that were killed

vars == <<pc, own, target, record, group, launch, crashed>>

Locals == [stage |-> 1, stop |-> FALSE, parent |-> None, code |-> 0,
           child |-> FALSE, final |-> FALSE, error |-> FALSE]
NoGroup == [state |-> "none", killed |-> FALSE, stage |-> 1, nav |-> None]
NoRecord == [owner |-> None, status |-> "none"]

Init ==
  /\ pc = [s \in Sessions |-> "new"]
  /\ own = [s \in Sessions |-> Locals]
  /\ target = [n \in NavSessions |-> None]
  /\ record = [r \in Roles |-> NoRecord]
  /\ group = [s \in Sessions |-> NoGroup]
  /\ launch = [s \in NavSessions |-> [down |-> FALSE, failure |-> None]]
  /\ crashed = {}

-----------------------------------------------------------------------------
(* Processes *)

Running(s) == pc[s] \notin {"new", "dead"}

\* Mutant of SameProcess: the pid alone is compared, and somebody has it.
SamePid(s) == s # None
\* same_process(identity)
SameProcess(s) == s # None /\ Running(s)

\* Mutant of GroupAlive: only the launch process itself is looked at.
LeaderAlive(s) == group[s].state = "up"
\* group_alive(group): the launch, or children it left behind.
GroupAlive(s) == group[s].state # "none"

\* The processes of the last command: a launch, not the pose gate.
Present(s) == GroupAlive(s) /\ group[s].stage = Stages(s)
\* Those that stack_role() recognises.  Of the children its list leaves out
\* the velocity bridge, the lifecycle managers and more.
Stack(s) == Present(s) /\ group[s].state # "hidden"

\* Mutant of Conflicts: other sessions only, not what they left behind.
LiveConflicts(s) ==
  {t \in Sessions \ {s} : Running(t) /\ Role(s) \in {Role(t), "nav"}}
\* stack_processes(), by the session they belong to.
Conflicts(s) ==
  {t \in Sessions : /\ (t # s /\ Running(t)) \/ Stack(t)
                    /\ Role(s) \in {Role(t), "nav"}}

Step(a, from, to) == pc[a] = from /\ pc' = [pc EXCEPT ![a] = to]
Die(s) ==
  /\ pc' = [pc EXCEPT ![s] = "dead"]
  /\ own' = [own EXCEPT ![s] = Locals]

Save(s, status) ==
  record' = [record EXCEPT ![Role(s)] =
               [owner |-> s, status |-> status]]

-----------------------------------------------------------------------------
(* start() *)

Exec(s) ==
  /\ Step(s, "new", "lock")
  /\ UNCHANGED <<own, target, record, group, launch, crashed>>

\* The lock lives as long as the process; children do not inherit it.
Held(s) == pc[s] \notin {"new", "lock", "dead"}
Locked(s) == \E t \in Sessions \ {s} : Role(t) = Role(s) /\ Held(t)

Enter(s) ==
  /\ pc[s] = "lock"
  /\ IF Locked(s) \/ Conflicts(s) # {} THEN Die(s)
     ELSE /\ Step(s, "lock", IF s \in NavSessions THEN "save" ELSE "adopt")
          /\ UNCHANGED own
  /\ UNCHANGED <<target, record, group, launch, crashed>>

\* Perception depends on the very navigation session of the record.
Adopt(s) ==
  /\ pc[s] = "adopt"
  /\ LET parent == record["nav"].owner
     IN  IF SameProcess(parent)
         THEN /\ Step(s, "adopt", "save")
              /\ own' = [own EXCEPT ![s].parent = parent]
         ELSE Die(s)
  /\ UNCHANGED <<target, record, group, launch, crashed>>

-----------------------------------------------------------------------------
(* supervise(): any save may fail, which raises into the finally clause *)

EndOfTry(s) ==
  IF s \in NavSessions THEN "quiet" ELSE IF own[s].child THEN "stop" ELSE "close"
Finally(s, code) ==
  [own[s] EXCEPT !.final = TRUE, !.code = code, !.stop = FALSE,
                 !.parent = None]

Raise(s) ==
  /\ own' = [own EXCEPT ![s] = Finally(s, 1)]
  /\ pc' = [pc EXCEPT ![s] = EndOfTry(s)]

\* The signal handlers are installed, then the first record is written; what
\* fails up to the try leaves it or not, and no child.
SaveStarting(s) ==
  /\ pc[s] = "save"
  /\ \/ Step(s, "save", "begin") /\ Save(s, "running") /\ UNCHANGED own
     \/ Die(s) /\ (Save(s, "running") \/ UNCHANGED record)
  /\ UNCHANGED <<target, group, launch, crashed>>

MustEnd(s) ==
  \/ own[s].stop
  \/ s \in PerceptionSessions /\ ~SameProcess(own[s].parent)

Begin(s) ==
  /\ pc[s] = "begin"
  /\ \/ /\ MustEnd(s)
        /\ own' = [own EXCEPT ![s] = Finally(s, 1)]
        /\ pc' = [pc EXCEPT ![s] = EndOfTry(s)]
        /\ UNCHANGED record
     \/ ~MustEnd(s) /\ Step(s, "begin", "popen") /\ Save(s, "running")
        /\ UNCHANGED own
     \/ ~MustEnd(s) /\ Raise(s) /\ UNCHANGED record
  /\ UNCHANGED <<target, group, launch, crashed>>

\* The child leads a group of its own; a second record tells of it.
Popen(s) ==
  /\ pc[s] = "popen"
  /\ \/ /\ group' = [group EXCEPT ![s] = [state |-> "up", killed |-> FALSE,
                                    stage |-> own[s].stage, nav |-> own[s].parent]]
        /\ \/ /\ Step(s, "popen", "watch")
              /\ own' = [own EXCEPT ![s].child = TRUE]
           \/ /\ own' = [own EXCEPT ![s] = [Finally(s, 1) EXCEPT !.child = TRUE]]
              /\ pc' = [pc EXCEPT ![s] = IF s \in NavSessions THEN "quiet" ELSE "stop"]
     \/ Raise(s) /\ UNCHANGED group
  /\ UNCHANGED <<target, record, launch, crashed>>

Watch(s) ==
  /\ Step(s, "watch", IF s \in NavSessions THEN "quiet" ELSE "stop")
  /\ \/ group[s].state # "up" /\ UNCHANGED own
     \/ /\ group[s].state = "up" /\ MustEnd(s)
        /\ own' = [own EXCEPT ![s].code = 1]
  /\ UNCHANGED <<target, record, group, launch, crashed>>

-----------------------------------------------------------------------------
(* stop_role("perception") of a navigation session                           *)

AfterQuiet(n) == IF own[n].child THEN "stop" ELSE "close"
StopReturns(n) == pc' = [pc EXCEPT ![n] = AfterQuiet(n)] /\ UNCHANGED own
\* In the finally clause an error is kept for later.
StopRaises(n) ==
  IF own[n].final
  THEN /\ own' = [own EXCEPT ![n].error = TRUE]
       /\ pc' = [pc EXCEPT ![n] = AfterQuiet(n)]
  ELSE Raise(n)

ReadOwner(n) ==
  LET owner == record["perception"].owner
  IN  /\ pc[n] = "quiet"
      /\ IF SameProcess(owner)
         THEN /\ Step(n, "quiet", "signal")
              /\ target' = [target EXCEPT ![n] = owner]
              /\ UNCHANGED own
         ELSE StopReturns(n) /\ UNCHANGED target
      /\ UNCHANGED <<record, group, launch, crashed>>

\* A signal stops what still looks at STOP_REQUESTED.
Asked(s) == own' = [own EXCEPT ![s].stop = ~own[s].final]

\* os.kill(): an owner that ended since raises ProcessLookupError.
SignalOwner(n) ==
  /\ pc[n] = "signal"
  /\ \/ /\ Running(target[n])
        /\ Asked(target[n])
        /\ Step(n, "signal", "await")
        /\ UNCHANGED target
     \/ /\ ~Running(target[n])
        /\ StopRaises(n)
        /\ target' = [target EXCEPT ![n] = None]
  /\ UNCHANGED <<record, group, launch, crashed>>

AwaitOwner(n) ==
  /\ pc[n] = "await"
  /\ target' = [target EXCEPT ![n] = None]
  /\ \/ ~SameProcess(target[n]) /\ StopReturns(n)
     \/ SameProcess(target[n]) /\ StopRaises(n)  \* 35 s later
  /\ UNCHANGED <<record, group, launch, crashed>>

\* nav_session.py stop asks the owners in the records and waits for them.
StopTool(role) ==
  /\ SameProcess(record[role].owner)
  /\ Asked(record[role].owner)
  /\ UNCHANGED <<pc, target, record, group, launch, crashed>>

-----------------------------------------------------------------------------
(* stop_child(child): SIGINT and 12 s later SIGTERM ask, 3 s later SIGKILL   *)
(* does not; a launch that is asked may end or not, like one that is not.    *)

\* Mutant of Outcome: the launch's own code decides, not its failure.json.
OwnOutcome(s, returncode) == IF own[s].code # 0 THEN own[s].code ELSE returncode
Outcome(s, returncode) ==
  IF own[s].code # 0 THEN own[s].code
  ELSE IF s \in NavSessions /\ launch[s].failure # None THEN 1 ELSE returncode

\* The code of a stage; a later one follows a clean one.
Collect(s) ==
  \E code \in {Outcome(s, 0), Outcome(s, 1)} :
    IF code = 0 /\ own[s].stage < Stages(s)
    THEN /\ own' = [own EXCEPT ![s].stage = @ + 1, ![s].child = FALSE]
         /\ pc' = [pc EXCEPT ![s] = "begin"]
    ELSE /\ own' = [own EXCEPT ![s] = [Finally(s, code) EXCEPT !.child = FALSE]]
         /\ pc' = [pc EXCEPT ![s] = IF s \in NavSessions THEN "quiet" ELSE "close"]

ChildStopped(s) ==
  /\ pc[s] = "stop" /\ ~GroupAlive(s)
  /\ IF own[s].final THEN Step(s, "stop", "close") /\ UNCHANGED own ELSE Collect(s)
  /\ UNCHANGED <<target, record, group, launch, crashed>>

KillChild(s) ==
  /\ pc[s] = "stop" /\ GroupAlive(s)
  /\ group' = [group EXCEPT ![s].killed = TRUE]
  /\ UNCHANGED <<pc, own, target, record, launch, crashed>>

\* Five seconds later something of the group is still there.
ChildSurvives(s) ==
  /\ pc[s] = "stop" /\ GroupAlive(s) /\ group[s].killed
  /\ IF own[s].final THEN /\ own' = [own EXCEPT ![s].error = TRUE]
                          /\ pc' = [pc EXCEPT ![s] = "close"]
                     ELSE Raise(s)
  /\ UNCHANGED <<target, record, group, launch, crashed>>

Close(s) ==
  /\ pc[s] = "close"
  /\ Die(s)
  /\ \/ Save(s, IF own[s].error THEN "cleanup_failed" ELSE "stopped")
     \/ UNCHANGED record
  /\ UNCHANGED <<target, group, launch, crashed>>

-----------------------------------------------------------------------------
(* _critical_exit(event, context) of the launch *)

\* Mutant of Kept: a later failure replaces the file.
Replaced(old, node) == node
\* failure.json is opened with "x".
Kept(old, node) == IF old = None THEN node ELSE old

\* Writing the file may fail; the launch is asked to shut down all the same.
CriticalExit(s, node) ==
  /\ s \in Followed /\ group[s].state = "up" /\ ~launch[s].down
  /\ \E failure \in {Kept(launch[s].failure, node), launch[s].failure} :
       launch' = [launch EXCEPT ![s].failure = failure]
  /\ UNCHANGED <<pc, own, target, record, group, crashed>>

\* The Shutdown event, from the handler or a signal or else, sets is_shutdown.
ShutsDown(s) ==
  /\ s \in Followed /\ group[s].state = "up"
  /\ launch' = [launch EXCEPT ![s].down = TRUE]
  /\ UNCHANGED <<pc, own, target, record, group, crashed>>

\* What is left of a group when some of its processes have ended.
Remains(g, state) == IF state = "none" THEN NoGroup ELSE [g EXCEPT !.state = state]

\* The launch ends by itself or as it was asked, with its children or not; of
\* the pose gate no process is known to stack_role().
LaunchEnds(s) ==
  /\ group[s].state = "up"
  /\ \E state \in {"none", "hidden"}
                 \cup (IF group[s].stage = Stages(s) THEN {"orphans"} ELSE {}) :
       group' = [group EXCEPT ![s] = Remains(group[s], state)]
  /\ launch' = [n \in NavSessions |-> IF n = s THEN [launch[n] EXCEPT !.down = TRUE]
                                      ELSE launch[n]]
  /\ UNCHANGED <<pc, own, target, record, crashed>>

OrphansEnd(s) ==
  /\ group[s].state \in {"orphans", "hidden"}
  /\ \E state \in {"none", "hidden"} :
       group' = [group EXCEPT ![s] = Remains(group[s], state)]
  /\ UNCHANGED <<pc, own, target, record, launch, crashed>>

Killed(s) == group[s].killed /\ (LaunchEnds(s) \/ OrphansEnd(s))

-----------------------------------------------------------------------------
(* The world *)

\* Before the handlers are installed any signal is the end.
Early == {"lock", "adopt"}

\* Ctrl-C, a lost terminal.
Signal(s) ==
  /\ Running(s)
  /\ \/ pc[s] \in Early /\ Die(s)
     \/ pc[s] \in {"begin", "watch"} /\ Asked(s) /\ UNCHANGED pc
  /\ UNCHANGED <<target, record, group, launch, crashed>>

Crash(s) ==
  /\ Running(s) /\ pc[s] \notin Early /\ Cardinality(crashed) < MaxCrashes
  /\ Die(s)
  /\ target' = [n \in NavSessions |-> IF n = s THEN None ELSE target[n]]
  /\ crashed' = crashed \cup {s}
  /\ UNCHANGED <<record, group, launch>>

Supervise(s) ==
  \/ Enter(s) \/ Adopt(s) \/ SaveStarting(s) \/ Begin(s)
  \/ Popen(s) \/ Watch(s) \/ ChildStopped(s) \/ KillChild(s) \/ ChildSurvives(s)
  \/ Close(s)
StopRole(n) == ReadOwner(n) \/ SignalOwner(n) \/ AwaitOwner(n)

Next ==
  \/ \E s \in Sessions : \/ Exec(s) \/ Supervise(s) \/ Signal(s) \/ Crash(s)
                         \/ LaunchEnds(s) \/ OrphansEnd(s)
  \/ \E n \in NavSessions : StopRole(n) \/ ShutsDown(n)
  \/ \E n \in NavSessions, node \in Nodes : CriticalExit(n, node)
  \/ \E role \in Roles : StopTool(role)

Spec == Init /\ [][Next]_vars

(* Fairness: a perception supervisor that is alive goes on, and its group     *)
(* dies of SIGKILL.  Nobody has to start, signal or stop anything.           *)
FairSpec ==
  /\ Spec
  /\ \A p \in PerceptionSessions : WF_vars(Supervise(p)) /\ WF_vars(Killed(p))

-----------------------------------------------------------------------------
(* Properties *)

\* Every variable stays in its type.
TypeOK ==
  /\ pc \in [Sessions -> {"new", "lock", "adopt", "save", "begin",
                        "popen", "watch", "quiet", "signal", "await", "stop",
                        "close", "dead"}]
  /\ own \in [Sessions -> [stage : 1 .. 2, stop : BOOLEAN,
                parent : NavSessions \cup {None}, code : {0, 1},
                child : BOOLEAN, final : BOOLEAN, error : BOOLEAN]]
  /\ target \in [NavSessions -> PerceptionSessions \cup {None}]
  /\ record \in [Roles -> [owner : Sessions \cup {None},
                status : {"none", "running", "stopped", "cleanup_failed"}]]
  /\ group \in [Sessions -> [state : {"none", "up", "orphans", "hidden"},
                stage : 1 .. 2, killed : BOOLEAN, nav : NavSessions \cup {None}]]
  /\ launch \in [NavSessions -> [down : BOOLEAN,
                                 failure : Nodes \cup {None}]]
  /\ crashed \subseteq Sessions

\* What no other session can see: no supervisor, nothing stack_role() knows.
Unseen(s) == group[s].state = "hidden" /\ ~Running(s)

\* Through crashes and simultaneous starts there is one stack: no two groups
\* of a role, and no perception beside a navigation it was not started for.
\* The one exception is the rest of a session that is gone of which only
\* processes are left that stack_role() does not list: a stack starts beside it.
OneStack ==
  \A s, t \in Sessions :
    s # t /\ Present(s) /\ ~Unseen(s) /\ Present(t) /\ ~Unseen(t)
      => /\ Role(s) # Role(t)
         /\ s \in PerceptionSessions => group[s].nav = t

\* A record that says stopped tells the truth: nothing of the group is left.
StoppedIsTrue ==
  \A r \in Roles : record[r].status = "stopped" => group[record[r].owner] = NoGroup

\* The log of a session that closes has no failure.json that its code hides.
FailureIsReported ==
  \A n \in NavSessions :
    pc[n] = "close" /\ launch[n].failure # None => own[n].code # 0

\* Who fails later does not replace the file.
FirstFailureKept ==
  [][\A n \in NavSessions : launch[n].failure # None
       => launch'[n].failure = launch[n].failure]_vars
\* The first failure counts: once failure.json names a process, it names this
\* one for good, and a session that closes with the file has it in its exit code.
FirstFailureCounts == []FailureIsReported /\ FirstFailureKept

\* When a navigation session has ended in whatever way, its perception does:
\* the group dies, unless the perception supervisor itself was killed.
PerceptionEndsWithNav ==
  \A p \in PerceptionSessions :
    <>[](GroupAlive(p) /\ ~Running(group[p].nav) => p \in crashed)

(* Where a session is for the others: the child of the last command is its    *)
(* stack, the finally clause its end.                                         *)
Ownership(s) ==
  IF pc[s] \in {"new", "lock"} THEN "waits"
  ELSE IF pc[s] = "dead" THEN "gone"
  ELSE IF own[s].final THEN "ends"
  ELSE IF own[s].child /\ own[s].stage = Stages(s) THEN "runs" ELSE "owns"
Dependency(s) ==
  IF own[s].parent # None THEN own[s].parent
  ELSE IF Present(s) THEN group[s].nav ELSE None
Visible(s) == IF Stack(s) THEN "seen" ELSE IF Present(s) THEN "rest" ELSE "none"

Owners == INSTANCE StackOwners
  WITH Navs <- NavSessions, Perceptions <- PerceptionSessions, Nobody <- None,
       owner <- [s \in Sessions |-> Ownership(s)],
       under <- [s \in Sessions |-> Dependency(s)],
       stack <- [s \in Sessions |-> Visible(s)]

\* Locks, conflicts, records and the dependency on the recorded navigation give
\* every session its role in turn: no stack is started without the role, twice,
\* or for a navigation that was not the owner, through crashes and orphans; but
\* the role passes on although a rest nobody can recognise still runs.
ImplementsOwners == Owners!Spec
=============================================================================
