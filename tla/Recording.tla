----------------------------- MODULE Recording ------------------------------
(***************************************************************************)
(* scripts/record_navigation_validation.py: evidence is captured by child  *)
(* processes, each a process group of its own, and a verdict says whether  *)
(* it is complete.  The operator may cancel at any moment, more than once. *)
(***************************************************************************)
EXTENDS Naturals

CONSTANTS
  Navigation,    \* --navigation: a bag is recorded during the audit
  MaxInterrupts  \* bound on the operator's Ctrl-C

ASSUME RecordingAssumption == Navigation \in BOOLEAN /\ MaxInterrupts \in Nat

VARIABLES
  at,       \* the place in collect() and main(): a capture, or what follows
  phase,    \* inside it: "go" before, "wait", then "late" or "cancel" with its
            \* child asked to end, and "late_kill" or "cancel_kill"
  children, \* what lives, what was signalled, what Ctrl-C made the program let go
            \* of unsignalled, and the exit codes
  status,   \* recording.status: state, steps, metadata_errors, and the files
            \* audit.json and the bag
  raised,   \* the exception under way
  cancels   \* history: how often Ctrl-C was pressed

RecordingVars == <<at, phase, children, status, raised, cancels>>

\* preflight is not a step of the record; dumps stands for every list of nodes
\* and versions and for every dump of parameters.
Captures == {"preflight", "dumps", "processes", "audit"}
Children == Captures \cup {"bag"}

RecordingInit ==
  /\ at = "preflight" /\ phase = "go"
  /\ children = [alive |-> {}, told |-> {}, left |-> {}, code |-> [c \in Children |-> "none"]]
  /\ status = [state |-> "recording", errors |-> FALSE, audit |-> "missing",
               whole |-> FALSE, steps |-> [c \in Children |-> "none"]]
  /\ raised = "none" /\ cancels = 0

\* What follows each place when nothing is raised.
After(place) ==
  CASE place = "preflight" -> "dumps"
    [] place = "dumps"     -> "processes"
    [] place = "processes" -> IF Navigation THEN "bag_start" ELSE "audit"
    [] place = "bag_start" -> "audit"
    [] place = "audit"     -> IF Navigation THEN "bag_stop" ELSE "close"
    [] place = "bag_stop"  -> "close"
    [] place = "close"     -> "summary"

\* Mutant of Unwound: a cancellation leaves collect() at once.
LeavesAtOnce(place) == "finish"
\* Where an exception goes: the finally of collect(), where it began, or main().
Unwound(place) ==
  IF place \in {"processes", "bag_start", "audit"}
  THEN IF Navigation THEN "bag_stop" ELSE "close"
  ELSE "finish"

Goes(place) == at' = place /\ phase' = "go"
Returns == Goes(After(at)) /\ UNCHANGED raised
Raises(what) == Goes(Unwound(at)) /\ raised' = what
StepIs(c, state) ==
  status' = IF c = "preflight" THEN status ELSE [status EXCEPT !.steps[c] = state]
Alive(c) == c \in children.alive
\* signal_group(pid, sig); one already gone is not there to be signalled.
Signalled(c) ==
  children' = [children EXCEPT !.told = IF Alive(c) THEN @ \cup {c} ELSE @]

-----------------------------------------------------------------------------
(* capture() and Recording.run(); at is the capture, and its child's name. *)

Capturing == at \in Captures

StartsCapture ==
  /\ Capturing /\ phase = "go"
  /\ \/ /\ children' = [children EXCEPT !.alive = @ \cup {at}]
        /\ phase' = "wait" /\ StepIs(at, "running")
        /\ UNCHANGED <<at, raised>>
     \/ \* Popen fails.
        Raises("error") /\ StepIs(at, "error") /\ UNCHANGED children
  /\ UNCHANGED cancels

\* communicate() returns once the child has ended.
CaptureEnds ==
  /\ Capturing /\ ~Alive(at)
  /\ CASE phase = "wait" ->
            /\ StepIs(at, IF children.code[at] = "0" THEN "captured" ELSE "failed")
            /\ Returns
       [] phase \in {"late", "late_kill"} -> StepIs(at, "failed") /\ Returns
       [] phase \in {"cancel", "cancel_kill"} ->
            StepIs(at, "interrupted") /\ Raises("interrupt")
       [] OTHER -> FALSE
  /\ UNCHANGED <<children, cancels>>

\* It does not within its timeout, the 3 s after SIGINT or those after SIGKILL:
\* the last timeout escapes, in the place of a cancellation too.
CaptureTimesOut ==
  /\ Capturing /\ Alive(at)
  /\ CASE phase = "wait"   -> phase' = "late" /\ UNCHANGED <<at, raised, status>>
       [] phase = "late"   -> phase' = "late_kill" /\ UNCHANGED <<at, raised, status>>
       [] phase = "cancel" -> phase' = "cancel_kill" /\ UNCHANGED <<at, raised, status>>
       [] phase \in {"late_kill", "cancel_kill"} ->
            Raises("error") /\ StepIs(at, "error")
       [] OTHER -> FALSE
  /\ IF phase \in {"late_kill", "cancel_kill"} THEN UNCHANGED children ELSE Signalled(at)
  /\ UNCHANGED cancels

-----------------------------------------------------------------------------
(* NavigationBag *)

\* start(): the recorder is launched, or that fails; then its storage appears,
\* it exits, or 20 s pass.
BagStarts ==
  /\ at = "bag_start"
  /\ CASE phase = "go" ->
            /\ StepIs("bag", "running")
            /\ \/ /\ children' = [children EXCEPT !.alive = @ \cup {"bag"}]
                  /\ phase' = "wait" /\ UNCHANGED <<at, raised>>
               \/ Raises("error") /\ UNCHANGED children
       [] phase = "wait" ->
            /\ (Alive("bag") /\ Returns) \/ Raises("error")
            /\ UNCHANGED <<children, status>>
  /\ UNCHANGED cancels

\* self.process, which a Ctrl-C during the launch leaves unset.
BagLaunched ==
  "bag" \notin children.left /\ (Alive("bag") \/ children.code["bag"] # "none")

\* stop(): SIGINT and 15 s, SIGKILL and 5 s.  The evidence counts only of a
\* recorder that ended well and when inspect_navigation_bag finds it whole.
BagStops ==
  /\ at = "bag_stop" /\ phase = "go" /\ UNCHANGED <<raised, cancels>>
  /\ IF BagLaunched
     THEN Signalled("bag") /\ phase' = "wait" /\ UNCHANGED <<at, status>>
     ELSE StepIs("bag", "failed") /\ Goes("close") /\ UNCHANGED children

BagEnds ==
  /\ at = "bag_stop" /\ phase # "go" /\ ~Alive("bag")
  /\ StepIs("bag", IF children.code["bag"] = "0" /\ status.whole THEN "captured"
                   ELSE "failed")
  /\ Goes("close")
  /\ UNCHANGED <<children, raised, cancels>>

\* The last timeout is not among the errors stop() catches: it leaves collect().
BagTimesOut ==
  /\ at = "bag_stop" /\ phase # "go" /\ Alive("bag")
  /\ IF phase = "wait" THEN phase' = "late_kill" /\ UNCHANGED <<at, raised>>
                       ELSE Raises("error")
  /\ UNCHANGED <<children, status, cancels>>

-----------------------------------------------------------------------------
(* The rest of collect() and main() *)

\* A package or a file that is missing is noted, and the resource recorder's
\* error when it is closed.
MetadataError ==
  /\ at \in {"dumps", "close"} /\ phase = "go" /\ ~status.errors
  /\ status' = [status EXCEPT !.errors = TRUE]
  /\ UNCHANGED <<at, phase, children, raised, cancels>>

Closes ==
  /\ at = "close"
  /\ Goes(IF raised = "none" THEN "summary" ELSE "finish")
  /\ UNCHANGED <<children, status, raised, cancels>>

\* Mutant of Lacking: the steps recorded are not looked at.
LackingMetadata == status.errors
\* What summarize_audit() finds incomplete besides the audit.
Lacking ==
  \/ status.errors
  \/ \E c \in Children \ {"preflight", "audit"} :
       status.steps[c] \notin {"captured", "none"}

\* summarize_audit(); of an audit told to end capture() returned 124.
Verdict ==
  IF \/ status.audit \in {"missing", "short"} \/ Lacking
     \/ children.code["audit"] \notin {"0", "1"}
     \/ "audit" \in children.told
  THEN "incomplete"
  ELSE IF status.audit = "issues" \/ children.code["audit"] = "1"
  THEN "recorded_with_findings" ELSE "recorded"

Summarizes ==
  /\ at = "summary"
  /\ status' = [status EXCEPT !.state = Verdict]
  /\ Goes("finish")
  /\ UNCHANGED <<children, raised, cancels>>

Finishes ==
  /\ at = "finish" /\ Goes("done")
  /\ status' = [status EXCEPT !.state = CASE raised = "interrupt" -> "interrupted"
                                          [] raised = "error"     -> "incomplete"
                                          [] OTHER                -> @]
  /\ UNCHANGED <<children, raised, cancels>>

\* Where a Ctrl-C can come between a child and its signal: launched in Popen, but
\* not in the try of capture() nor in self.process of start() yet; or about to be
\* told, at the timeout of a capture, at a Ctrl-C before, or in stop().
Child == IF Capturing THEN at ELSE "bag"
Launching == phase = "go" /\ (Capturing \/ at = "bag_start")
Telling ==
  /\ Alive(Child) /\ Child \notin children.left
  /\ (Capturing /\ phase = "wait") \/ (at = "bag_stop" /\ phase = "go")

LetsGo(c) ==
  /\ children' = [children EXCEPT !.alive = @ \cup {c}, !.left = @ \cup {c}]
  /\ StepIs(c, IF Capturing THEN "interrupted" ELSE "running")
  /\ Raises("interrupt")

\* Ctrl-C, which reaches this program alone.  While a capture waits its child is
\* told to end; while one is cleaned up the exception just leaves.  In main()'s
\* last lines nothing catches it.
Interrupt ==
  /\ at # "done" /\ cancels < MaxInterrupts /\ cancels' = cancels + 1
  /\ \/ (Launching \/ Telling) /\ LetsGo(Child)
     \/ /\ Capturing /\ phase = "wait"
        /\ Signalled(at) /\ phase' = "cancel" /\ UNCHANGED <<at, status, raised>>
     \/ /\ Capturing /\ phase \notin {"go", "wait"}
        /\ Raises("interrupt") /\ StepIs(at, "interrupted") /\ UNCHANGED children
     \/ /\ at = "finish"
        /\ Goes("done") /\ status' = [status EXCEPT !.state = "recording"]
        /\ UNCHANGED <<children, raised>>
     \/ /\ Launching \/ at \in {"bag_start", "close", "summary"}
           \/ (at = "bag_stop" /\ ~Telling)
        /\ Raises("interrupt") /\ UNCHANGED <<children, status>>

\* External: a child ends, leaving its files.  Who looks at its code tells the
\* codes apart; nobody does at that of preflight.
Codes(c) == CASE c = "preflight" -> {"0"}
              [] c = "audit"     -> {"0", "1", "other"}
              [] OTHER           -> {"0", "1"}
ChildEnds(c) ==
  /\ Alive(c)
  /\ \E code \in Codes(c) :
       children' = [children EXCEPT !.alive = @ \ {c}, !.code[c] = code]
  /\ \/ /\ c = "audit"
        /\ \E report \in {"missing", "short", "clean", "issues"} :
             status' = [status EXCEPT !.audit = report]
     \/ c = "bag" /\ \E whole \in BOOLEAN : status' = [status EXCEPT !.whole = whole]
     \/ c \in {"preflight", "dumps", "processes"} /\ UNCHANGED status
  /\ UNCHANGED <<at, phase, raised, cancels>>

RecordingNext ==
  \/ StartsCapture \/ CaptureEnds \/ CaptureTimesOut
  \/ BagStarts \/ BagStops \/ BagEnds \/ BagTimesOut
  \/ MetadataError \/ Closes \/ Summarizes \/ Finishes
  \/ Interrupt
  \/ \E c \in Children : ChildEnds(c)

RecordingTypeOK ==
  /\ phase \in {"go", "wait", "late", "late_kill", "cancel", "cancel_kill"}
  /\ children.alive \cup children.told \cup children.left \subseteq Children
  /\ raised \in {"none", "interrupt", "error"} /\ cancels \in 0 .. MaxInterrupts

Recorded == status.state \in {"recorded", "recorded_with_findings"}

\* What the verdict calls recorded was never cancelled, every recorded command but
\* the audit ended well and unasked (nobody looks at the result of preflight), the
\* audit ran its full time, the bag is whole, and without findings there are none:
\* whatever failed on the way and whoever was late, killed or interrupted.
RecordedIsComplete ==
  at = "done" /\ Recorded =>
    /\ cancels = 0 /\ ~status.errors /\ children.alive = {}
    /\ \A c \in {"dumps", "processes"} :
         children.code[c] = "0" /\ c \notin children.told
    /\ "audit" \notin children.told /\ status.audit \in {"clean", "issues"}
    /\ status.state = "recorded" => status.audit = "clean" /\ children.code["audit"] = "0"
    /\ Navigation => status.whole /\ children.code["bag"] = "0"

\* No child outlives the program unasked: what still runs when it ends has been
\* told to stop, whatever failed, was late or was cancelled on the way, unless a
\* Ctrl-C came right between that child's launch, or the moment to tell it, and
\* the signal.  A child so left costs the verdict, and no other child is forgotten
\* for it.
EveryChildIsTold ==
  at = "done" =>
    /\ children.alive \subseteq children.told \cup children.left
    /\ children.left # {} => ~Recorded
=============================================================================
