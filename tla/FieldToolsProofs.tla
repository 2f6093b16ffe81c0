-------------------------- MODULE FieldToolsProofs --------------------------
(***************************************************************************)
(* Proofs about the six parts inside FieldTools: odometry adapter, point   *)
(* cloud relay, recording, readiness check, map patch and localization     *)
(* audit, for every limit, grid, pose, node, scan and length of a run.     *)
(***************************************************************************)
EXTENDS FieldTools, SequenceTheorems, FiniteSetTheorems, TLAPS

\* The stamp last published is that of the baseline, which a clock step clears
\* together with the filter.
Sample == [stamp : Nat, place : Int]
Adapter == [last : Nat, previous : Sample, filter : SUBSET {0, 1}]
TwistInv ==
  /\ odom \in Adapter
  /\ twists \in [stretch : {0, 1}, stamp : Nat]
  /\ twists.stamp = odom.previous.stamp
  /\ odom.filter \subseteq {twists.stretch}

Cloud == [stamp : Nat, ros : Nat \ {0}, header : BOOLEAN]

Health == [count : {0, 1}, stamp : Nat, receipt : Nat, last : Nat,
           valid : BOOLEAN, stampBack : BOOLEAN, clockBack : BOOLEAN]

\* What the relay keeps of the last cloud and of the one before.
Keeps(h, new, old, n) ==
  /\ h.stamp = new.stamp /\ h.last = new.ros
  /\ h.valid <=> Usable(new)
  /\ h.clockBack <=> new.ros < old.ros
  /\ h.stampBack <=> n = 2 /\ new.header /\ Usable(old) /\ new.stamp < old.stamp

RelayInv ==
  /\ health \in Health
  /\ clouds \in Seq(Cloud) /\ Len(clouds) <= 2
  /\ health.count = 0 <=> Len(clouds) = 0
  /\ health.count = 0 => health.last = 0
  /\ Len(clouds) > 0 => Keeps(health, clouds[Len(clouds)], clouds[1], Len(clouds))

LEMMA FieldConstants ==
  /\ MaxRos \in Nat \ {0} /\ OdomPlaces \subseteq Int
  /\ OdomJump \in Nat /\ OdomMaxDt \in Nat
  /\ RelaySilence \in Nat /\ RelayFuture \in Nat
BY ClockAssumption, OdomAssumption, RelayAssumption
DEF ClockAssumption, OdomAssumption, RelayAssumption

-----------------------------------------------------------------------------
(* The odometry adapter *)

LEMMA CallbackEffect ==
  ASSUME ros \in Nat \ {0}, TwistInv, NEW packet \in Sample,
         NEW usable \in BOOLEAN, OdomCallback(packet, usable)
  PROVE  /\ TwistInv'
         /\ twists'.stamp # twists.stamp /\ ~Stepped => twists'.stamp > twists.stamp
<1> DEFINE now == [Baseline EXCEPT !.last = ros]
           stretch == IF NewStretch(packet) THEN 1 - twists.stretch
                      ELSE twists.stretch
<1>1. /\ odom' = IF Current(packet) /\ usable THEN Update(now, packet, stretch) ELSE now
      /\ twists' = IF usable /\ Accepts(packet)
                   THEN [stretch |-> stretch, stamp |-> packet.stamp]
                   ELSE [twists EXCEPT !.stamp = IF Stepped THEN 0 ELSE twists.stamp]
  BY DEF OdomCallback
<1>2. /\ now \in Adapter
      /\ now.previous = Baseline.previous
      /\ now.filter \subseteq {twists.stretch}
      /\ now.previous.stamp = IF Stepped THEN 0 ELSE twists.stamp
  <2>1. /\ Baseline \in Adapter /\ Baseline.filter \subseteq {twists.stretch}
        /\ Baseline.previous.stamp = IF Stepped THEN 0 ELSE twists.stamp
    <3>1. CASE Stepped
      <4>1. /\ Baseline = [odom EXCEPT !.previous = NoSample, !.filter = {}]
            /\ NoSample \in Sample /\ NoSample.stamp = 0
        BY <3>1 DEF Baseline, NoSample, Sample
      <4> HIDE DEF NoSample
      <4>2. QED
        BY <3>1, <4>1 DEF TwistInv, Adapter
    <3>2. CASE ~Stepped
      BY <3>2 DEF Baseline, TwistInv
    <3>3. QED
      BY <3>1, <3>2
  <2>2. ros \in Nat
    OBVIOUS
  <2>3. /\ now \in Adapter /\ now.previous = Baseline.previous
        /\ now.filter = Baseline.filter
    BY <2>1, <2>2 DEF Adapter
  <2>4. QED
    BY <2>1, <2>3
<1>3. stretch \in {0, 1} /\ (~NewStretch(packet) => stretch = twists.stretch)
  BY DEF TwistInv
<1> HIDE DEF now, stretch
<1>4. CASE Current(packet) /\ usable /\ Accepts(packet)
  <2>1. packet.stamp > now.previous.stamp
    BY <1>2, <1>4 DEF Accepts, Current, NoSample
  <2>2. \/ Update(now, packet, stretch) = [now EXCEPT !.previous = packet, !.filter = {}]
        \/ /\ stretch = twists.stretch
           /\ Update(now, packet, stretch) =
                [now EXCEPT !.previous = packet, !.filter = now.filter \cup {stretch}]
    <3>1. ~(now.previous # NoSample /\ packet.stamp <= now.previous.stamp)
      <4>1. packet.stamp \in Nat /\ now.previous.stamp \in Nat
        BY <1>2 DEF Adapter, Sample
      <4>2. ~(packet.stamp <= now.previous.stamp)
        BY <2>1, <4>1
      <4>3. QED
        BY <4>2
    <3>2. CASE now.previous = NoSample \/ Apart(now.previous, packet)
      BY <3>1, <3>2 DEF Update, Broken
    <3>3. CASE ~(now.previous = NoSample \/ Apart(now.previous, packet))
      <4>1. ~NewStretch(packet)
        BY <1>2, <3>3 DEF NewStretch
      <4>2. QED
        BY <1>3, <3>1, <3>3, <4>1 DEF Update
    <3>4. QED
      BY <3>2, <3>3
  <2>3. /\ odom' \in Adapter /\ odom'.previous = packet /\ odom'.filter \subseteq {stretch}
    <3>1. odom' = Update(now, packet, stretch)
      BY <1>1, <1>4
    <3>2. CASE Update(now, packet, stretch)
                 = [now EXCEPT !.previous = packet, !.filter = {}]
      <4>1. odom' = [now EXCEPT !.previous = packet, !.filter = {}]
        BY <3>1, <3>2
      <4>2. QED
        BY <1>2, <4>1 DEF Adapter
    <3>3. CASE /\ stretch = twists.stretch
               /\ Update(now, packet, stretch) =
                    [now EXCEPT !.previous = packet, !.filter = now.filter \cup {stretch}]
      <4>1. /\ odom' = [now EXCEPT !.previous = packet,
                                   !.filter = now.filter \cup {stretch}]
            /\ now.filter \cup {stretch} \in SUBSET {0, 1}
            /\ now.filter \cup {stretch} \subseteq {stretch}
        BY <1>2, <1>3, <3>1, <3>3 DEF Adapter
      <4>2. QED
        BY <1>2, <4>1 DEF Adapter
    <3>4. QED
      BY <2>2, <3>2, <3>3
  <2>4. twists' = [stretch |-> stretch, stamp |-> packet.stamp]
    BY <1>1, <1>4
  <2>5. TwistInv'
    <3>1. /\ twists'.stretch = stretch /\ twists'.stamp = packet.stamp
          /\ twists' \in [stretch : {0, 1}, stamp : Nat]
      BY <1>3, <2>4 DEF Sample
    <3>2. QED
      BY <2>3, <3>1 DEF TwistInv
  <2>6. QED
    BY <1>2, <2>1, <2>4, <2>5
<1>5. CASE ~(usable /\ Accepts(packet))
  <2>1. odom' = now
    <3>1. CASE Current(packet) /\ usable
      <4>1. now.previous # NoSample /\ ~(packet.stamp > now.previous.stamp)
        BY <1>2, <1>5, <3>1 DEF Accepts
      <4>2. packet.stamp \in Nat /\ now.previous.stamp \in Nat
        BY <1>2 DEF Adapter, Sample
      <4>3. now.previous # NoSample /\ packet.stamp <= now.previous.stamp
        BY <4>1, <4>2
      <4>4. Update(now, packet, stretch) = now
        BY <4>3 DEF Update, Rejected
      <4>5. QED
        BY <1>1, <3>1, <4>4
    <3>2. CASE ~(Current(packet) /\ usable)
      BY <1>1, <3>2
    <3>3. QED
      BY <3>1, <3>2
  <2>2. twists' = [twists EXCEPT !.stamp = IF Stepped THEN 0 ELSE twists.stamp]
    BY <1>1, <1>5
  <2>3. /\ twists' \in [stretch : {0, 1}, stamp : Nat]
        /\ twists'.stretch = twists.stretch
        /\ twists'.stamp = IF Stepped THEN 0 ELSE twists.stamp
    BY <2>2 DEF TwistInv
  <2>4. QED
    BY <1>2, <2>1, <2>3 DEF TwistInv
<1>6. QED
  BY <1>4, <1>5 DEF Accepts

-----------------------------------------------------------------------------
(* The point cloud relay *)

LEMMA ObserveEffect ==
  ASSUME ros \in Nat \ {0}, RelayInv, NEW stamp \in Nat, NEW header \in BOOLEAN,
         RelayCallback(stamp, header)
  PROVE  RelayInv'
<1> DEFINE cloud == [stamp |-> stamp, ros |-> ros, header |-> header]
           before == IF Len(clouds) = 2 THEN Tail(clouds) ELSE clouds
<1>1. /\ cloud \in Cloud /\ cloud.stamp = stamp /\ cloud.ros = ros
      /\ cloud.header = header
  BY DEF Cloud
<1>2. /\ clouds \in Seq(Cloud) /\ Len(clouds) \in {0, 1, 2}
  <2>1. clouds \in Seq(Cloud) /\ Len(clouds) <= 2
    BY DEF RelayInv
  <2>2. Len(clouds) \in Nat
    BY <2>1
  <2>3. \A n \in Nat : n <= 2 => n \in {0, 1, 2}
    OBVIOUS
  <2>4. QED
    BY <2>1, <2>2, <2>3, Zenon
<1>3. clouds' = Append(before, cloud)
  BY DEF RelayCallback
<1>4. /\ before \in Seq(Cloud) /\ Len(before) = IF Len(clouds) = 0 THEN 0 ELSE 1
      /\ Len(clouds) > 0 => before[1] = clouds[Len(clouds)]
  <2>1. CASE Len(clouds) = 2
    <3>1. /\ clouds \in Seq(Cloud) /\ clouds # <<>>
      <4>1. Len(<<>>) = 0
        OBVIOUS
      <4>2. clouds = <<>> => Len(clouds) = 0
        BY <4>1, Zenon
      <4>3. QED
        BY <1>2, <2>1, <4>2
    <3>2. /\ Tail(clouds) \in Seq(Cloud) /\ Len(Tail(clouds)) = Len(clouds) - 1
          /\ \A k \in 1 .. Len(Tail(clouds)) : Tail(clouds)[k] = clouds[k + 1]
      BY <3>1, HeadTailProperties
    <3>3. Len(Tail(clouds)) = 1 /\ Tail(clouds)[1] = clouds[2]
      BY <2>1, <3>2
    <3>4. before = Tail(clouds)
      BY <2>1
    <3> HIDE DEF before
    <3>5. QED
      BY <2>1, <3>2, <3>3, <3>4
  <2>2. CASE Len(clouds) # 2
    BY <1>2, <2>2
  <2>3. QED
    BY <2>1, <2>2
<1> HIDE DEF cloud, before
<1>5. /\ clouds' \in Seq(Cloud) /\ Len(clouds') = Len(before) + 1
      /\ clouds'[Len(clouds')] = cloud
      /\ Len(before) = 1 => clouds'[1] = before[1]
  BY <1>1, <1>3, <1>4
<1>6. /\ health'.count = 1 /\ health'.stamp = stamp /\ health'.last = ros
      /\ health'.valid <=> header /\ stamp > 0
      /\ health'.clockBack <=> ClockWentBack
      /\ health'.stampBack <=> /\ health.count > 0 /\ header /\ health.valid
                               /\ stamp < health.stamp
      /\ health' \in Health
  <2> DEFINE valid == header /\ stamp > 0
             clock == ClockWentBack
             back  == health.count > 0 /\ header /\ health.valid /\ stamp < health.stamp
  <2>1. health' = [count |-> 1, stamp |-> stamp, receipt |-> 0, last |-> ros,
                   valid |-> valid, clockBack |-> clock, stampBack |-> back]
    BY DEF RelayCallback, Observe
  <2>2. valid \in BOOLEAN /\ clock \in BOOLEAN /\ back \in BOOLEAN
    BY Zenon DEF ClockWentBack
  <2> HIDE DEF valid, clock, back
  <2>3. /\ health'.count = 1 /\ health'.stamp = stamp /\ health'.last = ros
        /\ health'.valid = valid /\ health'.clockBack = clock
        /\ health'.stampBack = back /\ health' \in Health
    BY <2>1, <2>2 DEF Health
  <2>4. QED
    BY <2>3 DEF valid, clock, back
<1>7. CASE Len(clouds) = 0
  <2>1. health.count = 0 /\ health.last = 0
    BY <1>7 DEF RelayInv
  <2>2. Len(clouds') = 1 /\ clouds'[1] = cloud /\ clouds'[Len(clouds')] = cloud
    BY <1>4, <1>5, <1>7
  <2>3. ~health'.clockBack /\ ~health'.stampBack
    BY <1>6, <2>1 DEF ClockWentBack
  <2>4. health'.valid <=> Usable(cloud)
    BY <1>1, <1>6 DEF Usable
  <2>5. ~(cloud.ros < cloud.ros)
    BY <1>1
  <2>6. Keeps(health', cloud, cloud, 1)
    BY <1>1, <1>6, <2>3, <2>4, <2>5 DEF Keeps
  <2>7. Keeps(health', clouds'[Len(clouds')], clouds'[1], Len(clouds'))
    BY <2>2, <2>6
  <2>8. /\ health'.count # 0 /\ Len(clouds') # 0 /\ Len(clouds') <= 2
        /\ health' \in Health /\ clouds' \in Seq(Cloud)
    <3>1. Len(clouds') # 0 /\ Len(clouds') <= 2
      BY <2>2
    <3>2. health'.count # 0
      BY <1>6
    <3>3. QED
      BY <1>5, <1>6, <3>1, <3>2, Zenon
  <2>9. QED
    BY <2>7, <2>8, Zenon DEF RelayInv
<1>8. CASE Len(clouds) > 0
  <2> DEFINE prior == clouds[Len(clouds)]
  <2>1. prior \in Cloud
    BY <1>2, <1>8
  <2>2. /\ health.count = 1 /\ health.last = prior.ros /\ health.stamp = prior.stamp
        /\ health.valid <=> Usable(prior)
    <3>1. health.count \in {0, 1} /\ (health.count = 0 <=> Len(clouds) = 0)
      BY DEF RelayInv, Health
    <3>2. Keeps(health, prior, clouds[1], Len(clouds))
      BY <1>8 DEF RelayInv
    <3> HIDE DEF prior
    <3>3. QED
      BY <1>8, <3>1, <3>2 DEF Keeps
  <2>3. /\ Len(clouds') = 2 /\ clouds'[1] = prior
        /\ clouds'[Len(clouds')] = cloud
    BY <1>4, <1>5, <1>8
  <2> HIDE DEF prior
  <2>4. /\ health'.clockBack <=> cloud.ros < prior.ros
        /\ health'.stampBack <=> /\ cloud.header /\ Usable(prior)
                                 /\ cloud.stamp < prior.stamp
        /\ health'.valid <=> Usable(cloud)
    BY <1>1, <1>6, <2>1, <2>2 DEF ClockWentBack, Cloud, Usable
  <2>5. Keeps(health', cloud, prior, 2)
    BY <1>1, <1>6, <2>4 DEF Keeps
  <2>6. Keeps(health', clouds'[Len(clouds')], clouds'[1], Len(clouds'))
    BY <2>3, <2>5
  <2>7. /\ health'.count # 0 /\ Len(clouds') # 0 /\ Len(clouds') <= 2
        /\ health' \in Health /\ clouds' \in Seq(Cloud)
    <3>1. Len(clouds') # 0 /\ Len(clouds') <= 2
      BY <2>3
    <3>2. health'.count # 0
      BY <1>6
    <3>3. QED
      BY <1>5, <1>6, <3>1, <3>2, Zenon
  <2>8. QED
    BY <2>6, <2>7, Zenon DEF RelayInv
<1>9. QED
  BY <1>2, <1>7, <1>8

-----------------------------------------------------------------------------
(* The recording *)

Places == Captures \cup {"bag_start", "bag_stop", "close", "summary", "finish", "done"}
Steps == {"none", "running", "captured", "failed", "error", "interrupted"}

RecordTypes ==
  /\ at \in Places
  /\ phase \in {"go", "wait", "late", "late_kill", "cancel", "cancel_kill"}
  /\ children \in [alive : SUBSET Children, told : SUBSET Children,
                   left : SUBSET Children,
                   code : [Children -> {"none", "0", "1", "other"}]]
  /\ status \in [state : {"recording", "recorded", "recorded_with_findings",
                          "interrupted", "incomplete"},
                 errors : BOOLEAN, audit : {"missing", "short", "clean", "issues"},
                 whole : BOOLEAN, steps : [Children -> Steps]]
  /\ raised \in {"none", "interrupt", "error"} /\ cancels \in Nat
  /\ at \in {"bag_start", "bag_stop"} => Navigation
  /\ at = "bag_start" => phase \in {"go", "wait"}

\* What the collection has not come to yet is untouched.
Ahead(place) ==
  CASE place = "preflight" -> Children
    [] place = "dumps"     -> Children \ {"preflight"}
    [] place = "processes" -> {"processes", "audit", "bag"}
    [] place = "bag_start" -> {"audit", "bag"}
    [] place = "audit"     -> {"audit"}
    [] OTHER               -> {}
Untouched(c) ==
  /\ c \notin children.alive /\ c \notin children.told
  /\ children.code[c] = "none" /\ status.steps[c] = "none"
BagRuns == Navigation /\ (at \in {"bag_start", "audit"} \/ at = "bag_stop")

\* Who may live without having been told to end; whoever was let go was so by an
\* exception that is still under way.
ToldInv ==
  /\ children.left # {} => raised # "none"
  /\ \A c \in children.alive \ (children.told \cup children.left) :
       \/ c = at /\ Capturing /\ phase = "wait"
       \/ c = "bag" /\ BagRuns /\ (at = "bag_stop" => phase = "go")
  /\ Capturing /\ phase = "wait" => at \notin children.told

CourseInv ==
  /\ \A c \in Ahead(at) :
       \/ phase # "go" /\ (c = at \/ (c = "bag" /\ at = "bag_start"))
       \/ Untouched(c)
  /\ ~Navigation => Untouched("bag")
  /\ Capturing \/ at \in {"bag_start", "summary"} => raised = "none"
  /\ raised = "none" /\ at \notin {"finish", "done"} =>
       /\ \A c \in children.alive :
            (c = at /\ Capturing /\ phase # "go") \/ (c = "bag" /\ BagRuns)
       /\ at \notin {"preflight", "dumps"} => status.steps["dumps"] # "none"
       /\ at \notin {"preflight", "dumps", "processes"} => status.steps["processes"] # "none"
       /\ Navigation /\ at \in {"close", "summary"} => status.steps["bag"] # "none"
  /\ cancels > 0 /\ raised = "none" =>
       \/ Capturing /\ phase \in {"cancel", "cancel_kill"}
       \/ at = "done" /\ status.state = "recording"

\* What a step that was captured says of its child.
CapturedInv ==
  \A c \in {"dumps", "processes", "bag"} : status.steps[c] = "captured" =>
    /\ children.code[c] = "0" /\ c \notin children.alive
    /\ c # "bag" => c \notin children.told
    /\ c = "bag" => status.whole

Complete ==
  /\ ~status.errors /\ children.alive = {}
  /\ \A c \in {"dumps", "processes"} :
       children.code[c] = "0" /\ c \notin children.told
  /\ "audit" \notin children.told /\ status.audit \in {"clean", "issues"}
  /\ status.state = "recorded" => status.audit = "clean" /\ children.code["audit"] = "0"
  /\ Navigation => status.whole /\ children.code["bag"] = "0"

VerdictInv ==
  /\ at \notin {"finish", "done"} => status.state = "recording"
  /\ Recorded => Complete
  /\ at = "done" /\ raised # "none" => ~Recorded

RecordInv == RecordTypes /\ ToldInv /\ CourseInv /\ CapturedInv /\ VerdictInv

LEMMA StartsCaptureKeeps ==
  ASSUME RecordInv, StartsCapture
  PROVE  RecordInv'
<1> USE DEF RecordInv, StartsCapture, Goes, Raises, StepIs, Capturing, Unwound,
            RecordTypes, Places, Captures, Children, Steps
<1>1. RecordTypes'
  OBVIOUS
<1>2. ToldInv'
  BY DEF ToldInv, BagRuns, CourseInv, Ahead, Untouched
<1>3. CourseInv'
  BY DEF ToldInv, CourseInv, BagRuns, Ahead, Untouched
<1>4. CapturedInv'
  BY DEF CourseInv, CapturedInv, Ahead, Untouched, ToldInv, BagRuns
<1>5. VerdictInv'
  BY DEF VerdictInv, CourseInv, CapturedInv, ToldInv, Recorded, Complete, BagRuns
<1>6. QED
  BY <1>1, <1>2, <1>3, <1>4, <1>5

LEMMA CaptureEndsKeeps ==
  ASSUME RecordInv, CaptureEnds
  PROVE  RecordInv'
<1> USE DEF RecordInv, CaptureEnds, Goes, Returns, Raises, StepIs, Alive, Capturing,
            After, Unwound, RecordTypes, Places, Captures, Children, Steps
<1>1. RecordTypes'
  OBVIOUS
<1>2. ToldInv'
  BY DEF ToldInv, BagRuns
<1>3. CourseInv'
  BY DEF ToldInv, CourseInv, BagRuns, Ahead, Untouched
<1>4. CapturedInv'
  BY DEF CourseInv, CapturedInv, Ahead, Untouched, ToldInv, BagRuns
<1>5. VerdictInv'
  BY DEF VerdictInv, CourseInv, CapturedInv, ToldInv, Recorded, Complete, BagRuns
<1>6. QED
  BY <1>1, <1>2, <1>3, <1>4, <1>5

LEMMA CaptureTimesOutKeeps ==
  ASSUME RecordInv, CaptureTimesOut
  PROVE  RecordInv'
<1> USE DEF RecordInv, CaptureTimesOut, Goes, Raises, StepIs, Alive, Signalled,
            Capturing, Unwound, RecordTypes, Places, Captures, Children, Steps
<1>1. RecordTypes'
  OBVIOUS
<1>2. ToldInv'
  BY DEF ToldInv, BagRuns
<1>3. CourseInv'
  BY DEF ToldInv, CourseInv, BagRuns, Ahead, Untouched
<1>4. CapturedInv'
  BY DEF CourseInv, CapturedInv, Ahead, Untouched, ToldInv, BagRuns
<1>5. VerdictInv'
  BY DEF VerdictInv, CourseInv, CapturedInv, ToldInv, Recorded, Complete, BagRuns
<1>6. QED
  BY <1>1, <1>2, <1>3, <1>4, <1>5

LEMMA BagStartsKeeps ==
  ASSUME RecordInv, BagStarts
  PROVE  RecordInv'
<1> USE DEF RecordInv, Goes, Returns, Raises, StepIs, Alive, After, Unwound,
            RecordTypes, Places, Captures, Children, Steps
<1>0. /\ at = "bag_start" /\ cancels' = cancels
      /\ \/ /\ phase = "go" /\ phase' = "wait" /\ at' = at /\ raised' = raised
            /\ StepIs("bag", "running")
            /\ children' = [children EXCEPT !.alive = @ \cup {"bag"}]
         \/ /\ phase = "go" /\ Raises("error") /\ children' = children
            /\ StepIs("bag", "running")
         \/ /\ phase = "wait" /\ children' = children /\ status' = status
            /\ (Alive("bag") /\ Returns) \/ Raises("error")
  BY DEF BagStarts, RecordTypes
<1>1. RecordTypes'
  BY <1>0
<1>2. ToldInv'
  BY <1>0 DEF Capturing, ToldInv, BagRuns, CourseInv, Ahead, Untouched
<1>3. CourseInv'
  BY <1>0 DEF Capturing, ToldInv, CourseInv, BagRuns, Ahead, Untouched
<1>4. CapturedInv'
  BY <1>0 DEF Capturing, CourseInv, CapturedInv, Ahead, Untouched, ToldInv, BagRuns
<1>5. VerdictInv'
  BY <1>0 DEF Capturing, VerdictInv, CourseInv, CapturedInv, ToldInv, Recorded,
         Complete, BagRuns
<1>6. QED
  BY <1>1, <1>2, <1>3, <1>4, <1>5

LEMMA BagStopsKeeps ==
  ASSUME RecordInv, BagStops
  PROVE  RecordInv'
<1> USE DEF RecordInv, BagStops, Goes, StepIs, Alive, Signalled, RecordTypes, Places,
            Captures, Children, Steps, BagLaunched
<1>1. RecordTypes'
  OBVIOUS
<1>2. ToldInv'
  BY DEF Capturing, ToldInv, BagRuns
<1>3. CourseInv'
  BY DEF Capturing, ToldInv, CourseInv, BagRuns, Ahead, Untouched
<1>4. CapturedInv'
  BY DEF Capturing, CourseInv, CapturedInv, Ahead, Untouched, ToldInv, BagRuns
<1>5. VerdictInv'
  BY DEF Capturing, VerdictInv, CourseInv, CapturedInv, ToldInv, Recorded, Complete,
         BagRuns
<1>6. QED
  BY <1>1, <1>2, <1>3, <1>4, <1>5

LEMMA BagEndsKeeps ==
  ASSUME RecordInv, BagEnds
  PROVE  RecordInv'
<1> USE DEF RecordInv, BagEnds, Goes, StepIs, Alive, RecordTypes, Places, Captures,
            Children, Steps
<1>1. RecordTypes'
  OBVIOUS
<1>2. ToldInv'
  BY DEF Capturing, ToldInv, BagRuns
<1>3. CourseInv'
  BY DEF Capturing, ToldInv, CourseInv, BagRuns, Ahead, Untouched
<1>4. CapturedInv'
  BY DEF Capturing, CourseInv, CapturedInv, Ahead, Untouched, ToldInv, BagRuns
<1>5. VerdictInv'
  BY DEF Capturing, VerdictInv, CourseInv, CapturedInv, ToldInv, Recorded, Complete,
         BagRuns
<1>6. QED
  BY <1>1, <1>2, <1>3, <1>4, <1>5

LEMMA BagTimesOutKeeps ==
  ASSUME RecordInv, BagTimesOut
  PROVE  RecordInv'
<1> USE DEF RecordInv, BagTimesOut, Goes, Raises, Alive, Unwound, RecordTypes, Places,
            Captures, Children, Steps
<1>1. RecordTypes'
  OBVIOUS
<1>2. ToldInv'
  BY DEF Capturing, ToldInv, BagRuns
<1>3. CourseInv'
  BY DEF Capturing, ToldInv, CourseInv, BagRuns, Ahead, Untouched
<1>4. CapturedInv'
  BY DEF Capturing, CourseInv, CapturedInv, Ahead, Untouched, ToldInv, BagRuns
<1>5. VerdictInv'
  BY DEF Capturing, VerdictInv, CourseInv, CapturedInv, ToldInv, Recorded, Complete,
         BagRuns
<1>6. QED
  BY <1>1, <1>2, <1>3, <1>4, <1>5

LEMMA MetadataErrorKeeps ==
  ASSUME RecordInv, MetadataError
  PROVE  RecordInv'
<1> USE DEF RecordInv, MetadataError, RecordTypes, Places, Captures, Children, Steps
<1>1. RecordTypes'
  OBVIOUS
<1>2. ToldInv'
  BY DEF Capturing, ToldInv, BagRuns
<1>3. CourseInv'
  BY DEF Capturing, ToldInv, CourseInv, BagRuns, Ahead, Untouched
<1>4. CapturedInv'
  BY DEF Capturing, CourseInv, CapturedInv, Ahead, Untouched, ToldInv, BagRuns
<1>5. VerdictInv'
  BY DEF Capturing, VerdictInv, CourseInv, CapturedInv, ToldInv, Recorded, Complete,
         BagRuns
<1>6. QED
  BY <1>1, <1>2, <1>3, <1>4, <1>5

LEMMA ClosesKeeps ==
  ASSUME RecordInv, Closes
  PROVE  RecordInv'
<1> USE DEF RecordInv, Closes, Goes, RecordTypes, Places, Captures, Children, Steps
<1>1. RecordTypes'
  OBVIOUS
<1>2. ToldInv'
  BY DEF Capturing, ToldInv, BagRuns
<1>3. CourseInv'
  BY DEF Capturing, ToldInv, CourseInv, BagRuns, Ahead, Untouched
<1>4. CapturedInv'
  BY DEF Capturing, CourseInv, CapturedInv, Ahead, Untouched, ToldInv, BagRuns
<1>5. VerdictInv'
  BY DEF Capturing, VerdictInv, CourseInv, CapturedInv, ToldInv, Recorded, Complete,
         BagRuns
<1>6. QED
  BY <1>1, <1>2, <1>3, <1>4, <1>5

LEMMA SummarizesKeeps ==
  ASSUME RecordInv, Summarizes
  PROVE  RecordInv'
<1> USE DEF RecordInv, Summarizes, Goes, RecordTypes, Places, Captures, Children,
            Steps, Verdict, Lacking
<1>1. RecordTypes'
  OBVIOUS
<1>2. ToldInv'
  BY DEF Capturing, ToldInv, BagRuns
<1>3. CourseInv'
  BY DEF Capturing, ToldInv, CourseInv, BagRuns, Ahead, Untouched
<1>4. CapturedInv'
  BY DEF Capturing, CourseInv, CapturedInv, Ahead, Untouched, ToldInv, BagRuns
<1>5. VerdictInv'
  BY DEF Capturing, VerdictInv, CourseInv, CapturedInv, ToldInv, Recorded, Complete,
         BagRuns
<1>6. QED
  BY <1>1, <1>2, <1>3, <1>4, <1>5

LEMMA FinishesKeeps ==
  ASSUME RecordInv, Finishes
  PROVE  RecordInv'
<1> USE DEF RecordInv, Finishes, Goes, RecordTypes, Places, Captures, Children, Steps
<1>1. RecordTypes'
  OBVIOUS
<1>2. ToldInv'
  BY DEF Capturing, ToldInv, BagRuns
<1>3. CourseInv'
  BY DEF Capturing, ToldInv, CourseInv, BagRuns, Ahead, Untouched
<1>4. CapturedInv'
  BY DEF Capturing, CourseInv, CapturedInv, Ahead, Untouched, ToldInv, BagRuns
<1>5. VerdictInv'
  BY DEF Capturing, VerdictInv, CourseInv, CapturedInv, ToldInv, Recorded, Complete,
         BagRuns
<1>6. QED
  BY <1>1, <1>2, <1>3, <1>4, <1>5

LEMMA LetsGoKeeps ==
  ASSUME RecordInv, Launching \/ Telling, LetsGo(Child), cancels' = cancels + 1
  PROVE  RecordInv'
<1> USE DEF RecordInv, LetsGo, Goes, Raises, StepIs, Alive, Unwound, RecordTypes,
            Places, Captures, Children, Steps
<1>1. /\ Child \in Children /\ raised' = "interrupt" /\ phase' = "go"
      /\ children'.alive = children.alive \cup {Child}
      /\ children'.left = children.left \cup {Child}
      /\ children'.told = children.told /\ children'.code = children.code
      /\ at \in Captures \cup {"bag_start", "bag_stop"} /\ at' = Unwound(at)
  BY DEF Child, Capturing, Launching, Telling
<1>2. /\ status' = [status EXCEPT !.steps = status'.steps]
      /\ status'.steps \in [Children -> Steps]
      /\ \A c \in Children \ {Child} : status'.steps[c] = status.steps[c]
      /\ Child # "preflight" => status'.steps[Child] \in {"interrupted", "running"}
  BY <1>1 DEF Child, Capturing
<1>3. /\ at' \in {"bag_stop", "close", "finish"} /\ (at' = "bag_stop" => Navigation)
      /\ (Child = "bag" => Navigation) /\ Ahead(at') = {}
  BY <1>1 DEF Child, Capturing, Ahead
<1>4. status'.state = status.state /\ status.state = "recording"
  BY <1>1, <1>2 DEF VerdictInv
<1>5. RecordTypes'
  <2>1. children' \in [alive : SUBSET Children, told : SUBSET Children,
                       left : SUBSET Children,
                       code : [Children -> {"none", "0", "1", "other"}]]
    BY <1>1
  <2>2. status' \in [state : {"recording", "recorded", "recorded_with_findings",
                              "interrupted", "incomplete"},
                     errors : BOOLEAN, audit : {"missing", "short", "clean", "issues"},
                     whole : BOOLEAN, steps : [Children -> Steps]]
    BY <1>2
  <2>3. QED
    BY <1>1, <1>3, <2>1, <2>2
<1>6. ToldInv'
  <2>1. ASSUME NEW c \in children'.alive \ (children'.told \cup children'.left)
        PROVE  c = "bag" /\ BagRuns'
    <3>1. /\ c \in children.alive \ (children.told \cup children.left) /\ c # Child
          /\ Capturing => c # at
      BY <1>1, <2>1 DEF Child
    <3>2. c = "bag" /\ BagRuns
      BY <3>1 DEF ToldInv
    <3>3. at \in {"processes", "audit"}
      BY <1>1, <3>1, <3>2 DEF BagRuns, Child, Capturing
    <3>4. QED
      BY <1>1, <3>2, <3>3 DEF BagRuns
  <2>2. QED
    BY <1>1, <1>3, <2>1 DEF ToldInv, Capturing
<1>7. CourseInv'
  <2>1. ~Navigation => Untouched("bag")'
    BY <1>1, <1>2, <1>3 DEF CourseInv, Untouched
  <2>2. QED
    BY <1>1, <1>3, <2>1 DEF CourseInv, Capturing
<1>8. CapturedInv'
  <2>1. status'.whole = status.whole
    BY <1>2
  <2>2. QED
    BY <1>1, <1>2, <2>1 DEF CapturedInv
<1>9. VerdictInv'
  BY <1>3, <1>4 DEF VerdictInv, Recorded
<1>10. QED
  BY <1>5, <1>6, <1>7, <1>8, <1>9

LEMMA InterruptKeeps ==
  ASSUME RecordInv, Interrupt
  PROVE  RecordInv'
<1>1. CASE (Launching \/ Telling) /\ LetsGo(Child)
  BY <1>1, LetsGoKeeps DEF Interrupt
<1>2. CASE ~((Launching \/ Telling) /\ LetsGo(Child))
  <2> USE DEF RecordInv, Goes, Raises, StepIs, Alive, Signalled, Capturing, Unwound,
              RecordTypes, Places, Captures, Children, Steps
  <2>1. /\ cancels' = cancels + 1
        /\ \/ /\ Capturing /\ phase = "wait" /\ Signalled(at) /\ phase' = "cancel"
              /\ at' = at /\ status' = status /\ raised' = raised
           \/ /\ Capturing /\ phase \notin {"go", "wait"}
              /\ Raises("interrupt") /\ StepIs(at, "interrupted") /\ children' = children
           \/ /\ at = "finish" /\ Goes("done")
              /\ status' = [status EXCEPT !.state = "recording"]
              /\ children' = children /\ raised' = raised
           \/ /\ \/ at \in {"bag_start", "close", "summary"}
                 \/ Capturing /\ phase = "go"
                 \/ at = "bag_stop" /\ ~Telling
              /\ Raises("interrupt") /\ children' = children /\ status' = status
    BY <1>2 DEF Interrupt, Launching
  <2>2. at = "bag_stop" /\ ~Telling =>
          phase # "go" \/ "bag" \notin children.alive \ children.left
    BY DEF Telling, Child
  <2>3. RecordTypes'
    BY <2>1
  <2>4. ToldInv'
    BY <2>1, <2>2 DEF ToldInv, BagRuns, CourseInv, Ahead, Untouched
  <2>5. CourseInv'
    BY <2>1 DEF ToldInv, CourseInv, BagRuns, Ahead, Untouched
  <2>6. CapturedInv'
    BY <2>1 DEF CourseInv, CapturedInv, Ahead, Untouched, ToldInv, BagRuns
  <2>7. VerdictInv'
    BY <2>1 DEF VerdictInv, CourseInv, CapturedInv, ToldInv, Recorded, Complete, BagRuns
  <2>8. QED
    BY <2>3, <2>4, <2>5, <2>6, <2>7
<1>3. QED
  BY <1>1, <1>2

LEMMA ChildEndsKeeps ==
  ASSUME RecordInv, NEW d \in Children, ChildEnds(d)
  PROVE  RecordInv'
<1> USE DEF RecordInv, ChildEnds, Alive, Capturing, RecordTypes, Places, Captures,
            Children, Steps, ToldInv, BagRuns, Codes
<1>0. Codes(d) \subseteq {"none", "0", "1", "other"}
  BY DEF Codes
<1>1. RecordTypes'
  <2>1. PICK code \in {"none", "0", "1", "other"} :
          children' = [children EXCEPT !.alive = @ \ {d}, !.code[d] = code]
    BY <1>0 DEF ChildEnds
  <2>2. children' \in [alive : SUBSET Children, told : SUBSET Children,
                       left : SUBSET Children,
                       code : [Children -> {"none", "0", "1", "other"}]]
    BY <2>1 DEF RecordTypes
  <2>3. /\ status'.state = status.state /\ status'.errors = status.errors
        /\ status'.steps = status.steps
        /\ status' \in [state : {"recording", "recorded", "recorded_with_findings",
                                 "interrupted", "incomplete"},
                        errors : BOOLEAN,
                        audit : {"missing", "short", "clean", "issues"},
                        whole : BOOLEAN, steps : [Children -> Steps]]
    BY DEF ChildEnds, RecordTypes
  <2>4. QED
    BY <2>2, <2>3 DEF ChildEnds, RecordTypes
<1>2. ToldInv'
  OBVIOUS
<1>3. CourseInv'
  BY DEF CourseInv, Ahead, Untouched
<1>4. CapturedInv'
  BY DEF CourseInv, CapturedInv, Ahead, Untouched
<1>5. VerdictInv'
  BY DEF VerdictInv, CourseInv, CapturedInv, Recorded, Complete
<1>6. QED
  BY <1>1, <1>2, <1>3, <1>4, <1>5

LEMMA RecordInitInv == RecordingInit => RecordInv
<1> SUFFICES ASSUME RecordingInit PROVE RecordInv
  OBVIOUS
<1> USE DEF RecordingInit
<1>1. RecordTypes
  BY DEF RecordTypes, Places, Captures, Children, Steps
<1>2. \A c \in Children : Untouched(c)
  BY DEF Untouched
<1>3. CourseInv
  BY <1>2 DEF CourseInv, Ahead, Children, Captures
<1>4. CapturedInv /\ VerdictInv /\ ToldInv
  BY DEF CapturedInv, VerdictInv, ToldInv, Recorded, Children, Captures
<1>5. QED
  BY <1>1, <1>3, <1>4 DEF RecordInv

LEMMA RecordUnchanged == RecordInv /\ UNCHANGED RecordingVars => RecordInv'
<1> SUFFICES ASSUME RecordInv, UNCHANGED RecordingVars PROVE RecordInv'
  OBVIOUS
<1> USE DEF RecordingVars, RecordInv
<1>1. RecordTypes'
  BY DEF RecordTypes
<1>2. ToldInv' /\ CapturedInv'
  BY DEF ToldInv, CapturedInv, Capturing, BagRuns
<1>3. CourseInv'
  BY DEF CourseInv, Capturing, BagRuns, Untouched, Ahead
<1>4. VerdictInv'
  BY DEF VerdictInv, Recorded, Complete
<1>5. QED
  BY <1>1, <1>2, <1>3, <1>4

LEMMA RecordStep == RecordInv /\ RecordingNext => RecordInv'
<1> SUFFICES ASSUME RecordInv, RecordingNext PROVE RecordInv'
  OBVIOUS
<1>1. CASE \E c \in Children : ChildEnds(c)
  BY <1>1, ChildEndsKeeps
<1>2. QED
  BY <1>1, StartsCaptureKeeps, CaptureEndsKeeps, CaptureTimesOutKeeps, BagStartsKeeps,
     BagStopsKeeps, BagEndsKeeps, BagTimesOutKeeps, MetadataErrorKeeps, ClosesKeeps,
     SummarizesKeeps, FinishesKeeps, InterruptKeeps DEF RecordingNext

-----------------------------------------------------------------------------
(* The readiness check *)

Query == [future : {"none", "pending", "up", "down", "active", "inactive", "failed"},
          sent : Nat, received : Nat, value : BOOLEAN]

\* A call is not older than a turn of the timer allows, and what it found then is
\* not forgotten; a value kept was found not longer before than a call may take.
QueryInv(q, idle, active) ==
  /\ active => idle = 0
  /\ q.future # "none" /\ polled => q.sent <= QueryLimit
  /\ q.future # "none" => q.sent <= QueryLimit + 1
  /\ q.future \in {"up", "active"} => idle <= q.sent
  /\ q.value /\ q.received <= ValueAge => idle <= q.received + QueryLimit + 1
  /\ q.value => \/ q.received <= check.elapsed
                \/ Never > ValueAge /\ q.received = Never

CheckTypes ==
  /\ queries \in [Asked -> Query] /\ polled \in BOOLEAN
  /\ check = [last |-> check.last, since |-> check.since, code |-> check.code,
              elapsed |-> check.elapsed]
  /\ check.since \in Nat /\ check.elapsed \in 0 .. CheckTimeout
  /\ nodes = [active |-> nodes.active, idle |-> nodes.idle, unready |-> nodes.unready]
  /\ nodes.active \in [Asked -> BOOLEAN] /\ nodes.idle \in [Asked -> Nat]
  /\ nodes.unready \in Nat

CheckInv ==
  /\ CheckTypes
  /\ \A n \in Asked : QueryInv(queries[n], nodes.idle[n], nodes.active[n])
  /\ \/ check.since = Never
     \/ check.since <= nodes.unready
     \/ nodes.unready >= SettleTime
  /\ CheckIsEarned

LEMMA CheckConstants ==
  /\ QueryRetry \in Nat \ {0} /\ QueryLimit \in Nat /\ ValueAge \in Nat
  /\ SettleTime \in Nat /\ CheckTimeout \in Nat /\ SettleTime < CheckTimeout
  /\ Never \in Nat /\ Never > CheckTimeout /\ Never > ValueAge
  /\ MostIdle = ValueAge + QueryLimit + 1
BY CheckAssumption DEF CheckAssumption, Never, MostIdle

LEMMA CheckInitInv == CheckInit => CheckInv
<1> SUFFICES ASSUME CheckInit PROVE CheckInv
  OBVIOUS
<1>1. CheckTypes
  BY CheckConstants DEF CheckInit, CheckTypes, Query, NoQuery
<1>2. \A n \in Asked : QueryInv(queries[n], nodes.idle[n], nodes.active[n])
  BY DEF CheckInit, QueryInv, NoQuery
<1>3. QED
  BY <1>1, <1>2 DEF CheckInv, CheckInit, CheckIsEarned

LEMMA CheckUnchanged == CheckInv /\ UNCHANGED CheckVars => CheckInv'
  BY DEF CheckVars, CheckInv, CheckTypes, QueryInv, CheckIsEarned

\* One query in a turn of the timer.
LEMMA PollEffect ==
  ASSUME NEW q \in Query, NEW idle \in Nat, NEW active \in BOOLEAN,
         NEW ready \in BOOLEAN, CheckInv, QueryInv(q, idle, active)
  PROVE  /\ Sent(Settled(q), ready) \in Query
         /\ Sent(Settled(q), ready).future # "none" =>
              Sent(Settled(q), ready).sent <= QueryLimit
         /\ QueryInv(Sent(Settled(q), ready), idle, active)
<1> DEFINE r == Settled(q)
<1>0. check.elapsed \in Nat /\ QueryLimit \in Nat /\ ValueAge \in Nat
  BY CheckConstants DEF CheckInv, CheckTypes
<1>1. /\ r \in Query /\ QueryInv(r, idle, active)
      /\ r.future # "none" => r.future \in {"pending", "up", "down"} /\ r.sent <= QueryLimit
  <2>1. CASE q.future \in {"active", "inactive"}
    <3> DEFINE found == (q.future = "active")
    <3>1. r = [q EXCEPT !.future = "none", !.value = found, !.received = 0]
      BY <2>1 DEF Settled, Overdue
    <3>2. found \in BOOLEAN /\ (found => q.future = "active")
      OBVIOUS
    <3> HIDE DEF r, found
    <3>3. r \in Query /\ r.future = "none" /\ r.value = found /\ r.received = 0
      BY <3>1, <3>2 DEF Query
    <3>4. found => idle <= QueryLimit + 1
      BY <1>0, <3>2 DEF Query, QueryInv
    <3>5. QED
      BY <1>0, <3>3, <3>4 DEF QueryInv
  <2>3. CASE q.future = "failed" \/ Overdue(q)
    <3>1. r = [q EXCEPT !.future = "none", !.value = FALSE]
      BY <2>3 DEF Settled, Overdue
    <3>2. QED
      BY <1>0, <3>1 DEF Query, QueryInv
  <2>4. CASE q.future \in {"none", "pending", "up", "down"} /\ ~Overdue(q)
    <3>1. r = q
      BY <2>4 DEF Settled
    <3>2. QED
      BY <1>0, <2>4, <3>1 DEF Query, QueryInv, Overdue
  <2>5. QED
    BY <2>1, <2>3, <2>4 DEF Query
<1> HIDE DEF r
<1>2. Sent(r, ready) \in {r, [r EXCEPT !.future = "pending", !.sent = 0]}
  BY DEF Sent
<1>3. CASE Sent(r, ready) = r
  BY <1>1, <1>3 DEF r
<1>4. CASE Sent(r, ready) = [r EXCEPT !.future = "pending", !.sent = 0]
  <2>1. /\ [r EXCEPT !.future = "pending", !.sent = 0] \in Query
        /\ [r EXCEPT !.future = "pending", !.sent = 0].future = "pending"
        /\ [r EXCEPT !.future = "pending", !.sent = 0].sent = 0
        /\ [r EXCEPT !.future = "pending", !.sent = 0].value = r.value
        /\ [r EXCEPT !.future = "pending", !.sent = 0].received = r.received
    BY <1>1 DEF Query
  <2>2. QED
    BY <1>0, <1>1, <1>4, <2>1 DEF QueryInv, r
<1>5. QED
  BY <1>2, <1>3, <1>4 DEF r

LEMMA PollKeeps == CheckInv /\ PollQueries => CheckInv'
<1> SUFFICES ASSUME CheckInv, PollQueries PROVE CheckInv'
  OBVIOUS
<1>1. PICK ready \in SUBSET Asked :
        queries' = [n \in Asked |-> Sent(Settled(queries[n]), n \in ready)]
  BY DEF PollQueries
<1>2. check' = check /\ nodes' = nodes /\ polled' = TRUE
  BY DEF PollQueries
<1>3. ASSUME NEW n \in Asked
      PROVE  /\ queries'[n] \in Query
             /\ QueryInv(queries[n], nodes.idle[n], nodes.active[n])
             /\ queries'[n].future # "none" => queries'[n].sent <= QueryLimit
             /\ QueryInv(queries'[n], nodes.idle[n], nodes.active[n])
  <2>1. /\ queries[n] \in Query /\ nodes.idle[n] \in Nat /\ nodes.active[n] \in BOOLEAN
        /\ QueryInv(queries[n], nodes.idle[n], nodes.active[n])
    BY DEF CheckInv, CheckTypes
  <2>2. (n \in ready) \in BOOLEAN
    OBVIOUS
  <2>3. queries'[n] = Sent(Settled(queries[n]), n \in ready)
    BY <1>1
  <2>4. QED
    BY <2>1, <2>2, <2>3, PollEffect
<1>4. CheckTypes'
  BY <1>1, <1>2, <1>3 DEF CheckInv, CheckTypes
<1>5. \A n \in Asked : QueryInv(queries[n], nodes.idle[n], nodes.active[n])'
  BY <1>2, <1>3 DEF QueryInv
<1>6. CheckIsEarned'
  BY <1>2 DEF CheckInv, CheckIsEarned
<1>7. QED
  BY <1>2, <1>4, <1>5, <1>6 DEF CheckInv

LEMMA AnswerKeeps ==
  ASSUME CheckInv, NEW n \in Asked, Answer(n)
  PROVE  CheckInv'
<1>1. PICK next \in {"up", "down", "active", "inactive", "failed"} :
        /\ queries' = [queries EXCEPT ![n].future = next]
        /\ queries[n].future \in {"pending", "up", "down"}
        /\ next = "up" => nodes.active[n]
        /\ next = "active" => queries[n].future = "up"
  BY DEF Answer, CheckInv, CheckTypes
<1>2. check' = check /\ nodes' = nodes /\ polled' = polled
  BY DEF Answer
<1>3. CheckTypes'
  BY <1>1, <1>2 DEF CheckInv, CheckTypes, Query
<1>4. ASSUME NEW m \in Asked PROVE QueryInv(queries[m], nodes.idle[m], nodes.active[m])'
  <2>1. /\ QueryInv(queries[m], nodes.idle[m], nodes.active[m]) /\ queries[m] \in Query
        /\ nodes.idle[m] \in Nat
    BY DEF CheckInv, CheckTypes
  <2>2. CASE m # n
    BY <1>1, <1>2, <2>1, <2>2 DEF QueryInv, CheckInv, CheckTypes
  <2>3. CASE m = n
    <3>1. queries'[m] = [queries[m] EXCEPT !.future = next]
      BY <1>1, <2>3 DEF CheckInv, CheckTypes
    <3>2. /\ queries'[m].future = next /\ queries'[m].sent = queries[m].sent
          /\ queries'[m].received = queries[m].received
          /\ queries'[m].value = queries[m].value
      BY <2>1, <3>1 DEF Query
    <3>3. queries[m].sent \in Nat /\ queries[m].sent <= QueryLimit + 1
      BY <1>1, <2>1, <2>3, CheckConstants DEF Query, QueryInv
    <3>4. QED
      BY <1>1, <1>2, <2>1, <2>3, <3>2, <3>3 DEF QueryInv, Query
  <2>4. QED
    BY <2>2, <2>3
<1>5. CheckIsEarned'
  BY <1>2 DEF CheckInv, CheckIsEarned
<1>6. QED
  BY <1>2, <1>3, <1>4, <1>5 DEF CheckInv

LEMMA ReportKeeps ==
  ASSUME CheckInv, NEW others, Report(others)
  PROVE  CheckInv'
<1> DEFINE measured == IF check.last > 0 /\ ros < check.last THEN NoMeasurement ELSE sample
           ready == /\ Fresh(measured) /\ others
                    /\ \A n \in Asked : ValueActive(n)
           since == CASE ~ready -> Cleared(check.since)
                      [] ready /\ check.since = Never -> 0
                      [] OTHER -> check.since
<1>1. /\ check' = [check EXCEPT !.last = ros, !.since = since,
                     !.code = IF ready /\ since >= SettleTime THEN "ready" ELSE @]
      /\ nodes' = [nodes EXCEPT !.unready = IF ready THEN @ ELSE 0]
      /\ queries' = queries /\ polled' = polled /\ check.code = "running"
  BY DEF Report, Running
<1>2. ready => \A n \in Asked : ValueActive(n)
  OBVIOUS
<1>3. /\ ~ready => since = Never
      /\ ready => since = IF check.since = Never THEN 0 ELSE check.since
  BY DEF Cleared
<1> HIDE DEF ready, since
<1>4. since \in Nat
  BY <1>3, CheckConstants DEF CheckInv, CheckTypes
<1>5. /\ check'.since = since /\ check'.elapsed = check.elapsed
      /\ check'.code = IF ready /\ since >= SettleTime THEN "ready" ELSE "running"
      /\ check' = [last |-> check'.last, since |-> check'.since, code |-> check'.code,
                   elapsed |-> check'.elapsed]
      /\ nodes'.active = nodes.active /\ nodes'.idle = nodes.idle
      /\ nodes'.unready = IF ready THEN nodes.unready ELSE 0
      /\ nodes' = [active |-> nodes'.active, idle |-> nodes'.idle,
                   unready |-> nodes'.unready]
  <2>1. /\ check = [last |-> check.last, since |-> check.since, code |-> check.code,
                    elapsed |-> check.elapsed]
        /\ nodes = [active |-> nodes.active, idle |-> nodes.idle,
                    unready |-> nodes.unready]
    BY DEF CheckInv, CheckTypes
  <2>2. /\ check' = [last |-> ros, since |-> since,
                     code |-> IF ready /\ since >= SettleTime THEN "ready" ELSE "running",
                     elapsed |-> check.elapsed]
        /\ nodes' = [active |-> nodes.active, idle |-> nodes.idle,
                     unready |-> IF ready THEN nodes.unready ELSE 0]
    BY <1>1, <2>1
  <2>3. QED
    BY <2>2
<1>6. CheckTypes'
  BY <1>1, <1>4, <1>5 DEF CheckInv, CheckTypes
<1>7. \A n \in Asked : QueryInv(queries[n], nodes.idle[n], nodes.active[n])'
  BY <1>1, <1>5 DEF CheckInv, QueryInv
<1>8. \/ since = Never \/ since <= nodes'.unready \/ nodes'.unready >= SettleTime
  BY <1>3, <1>5 DEF CheckInv, CheckTypes
<1>9. CheckIsEarned'
  <2>1. SUFFICES ASSUME ready, since >= SettleTime
                 PROVE  /\ nodes.unready >= SettleTime
                        /\ \A n \in Asked : nodes.idle[n] <= MostIdle
    BY <1>5, <2>1 DEF CheckIsEarned
  <2>2. since # Never
    BY <1>3, <2>1, CheckConstants
  <2>3. nodes.unready >= SettleTime
    BY <1>4, <1>5, <1>8, <2>1, <2>2, CheckConstants DEF CheckInv, CheckTypes
  <2>4. ASSUME NEW n \in Asked PROVE nodes.idle[n] <= MostIdle
    <3>1. /\ ValueActive(n) /\ queries[n] \in Query /\ nodes.idle[n] \in Nat
          /\ QueryInv(queries[n], nodes.idle[n], nodes.active[n])
      BY <1>2, <2>1 DEF CheckInv, CheckTypes
    <3>2. QED
      BY <3>1, CheckConstants DEF ValueActive, QueryInv, Query
  <2>5. QED
    BY <2>3, <2>4
<1>10. QED
  BY <1>5, <1>6, <1>7, <1>8, <1>9 DEF CheckInv

LEMMA NodeTurnsKeeps ==
  ASSUME CheckInv, NEW n \in Asked, Running, NodeTurns(n)
  PROVE  CheckInv'
<1>1. /\ queries' = queries /\ check' = check /\ polled' = polled
      /\ check.code = "running"
      /\ nodes'.idle = [nodes.idle EXCEPT ![n] = 0]
      /\ nodes'.active \in [Asked -> BOOLEAN]
      /\ \A m \in Asked : m # n => nodes'.active[m] = nodes.active[m]
      /\ nodes'.unready = nodes.unready
      /\ nodes' = [active |-> nodes'.active, idle |-> nodes'.idle,
                   unready |-> nodes'.unready]
  BY DEF NodeTurns, Running, CheckInv, CheckTypes
<1>2. CheckTypes'
  BY <1>1 DEF CheckInv, CheckTypes
<1>3. ASSUME NEW m \in Asked PROVE QueryInv(queries[m], nodes.idle[m], nodes.active[m])'
  <2>1. /\ QueryInv(queries[m], nodes.idle[m], nodes.active[m]) /\ queries[m] \in Query
        /\ nodes.idle[m] \in Nat
    BY DEF CheckInv, CheckTypes
  <2>2. CASE m # n
    BY <1>1, <2>1, <2>2 DEF QueryInv, CheckInv, CheckTypes
  <2>3. CASE m = n
    <3>1. nodes'.idle[m] = 0
      BY <1>1, <2>3 DEF CheckInv, CheckTypes
    <3>2. QED
      BY <1>1, <2>1, <3>1, CheckConstants DEF QueryInv, Query
  <2>4. QED
    BY <2>2, <2>3
<1>4. CheckIsEarned'
  BY <1>1 DEF CheckIsEarned
<1>5. QED
  BY <1>1, <1>2, <1>3, <1>4 DEF CheckInv

LEMMA CheckClockKeeps == CheckInv /\ CheckClock => CheckInv'
<1> SUFFICES ASSUME CheckInv, CheckClock PROVE CheckInv'
  OBVIOUS
<1>1. /\ polled /\ polled' = FALSE /\ check.code = "running"
      /\ check.elapsed < CheckTimeout
      /\ check'.since = Aged(check.since, CheckTimeout)
      /\ check'.elapsed = check.elapsed + 1 /\ check'.code = check.code
      /\ check' = [last |-> check'.last, since |-> check'.since, code |-> check'.code,
                   elapsed |-> check'.elapsed]
      /\ nodes'.active = nodes.active
      /\ nodes'.idle = [n \in Asked |-> IF nodes.active[n] THEN 0
                                        ELSE Aged(nodes.idle[n], MostIdle)]
      /\ nodes'.unready = Aged(nodes.unready, SettleTime)
      /\ nodes' = [active |-> nodes'.active, idle |-> nodes'.idle,
                   unready |-> nodes'.unready]
  <2>1. /\ check = [last |-> check.last, since |-> check.since, code |-> check.code,
                    elapsed |-> check.elapsed]
        /\ nodes = [active |-> nodes.active, idle |-> nodes.idle,
                    unready |-> nodes.unready]
    BY DEF CheckInv, CheckTypes
  <2>2. /\ polled /\ polled' = FALSE /\ check.code = "running"
        /\ check.elapsed < CheckTimeout
        /\ check' = [check EXCEPT !.since = Aged(@, CheckTimeout), !.elapsed = @ + 1]
        /\ nodes' = [nodes EXCEPT
                       !.idle = [n \in Asked |-> IF nodes.active[n] THEN 0
                                                 ELSE Aged(@[n], MostIdle)],
                       !.unready = Aged(@, SettleTime)]
    BY DEF CheckClock, Running
  <2>3. QED
    BY <2>1, <2>2
<1>2. \A age, limit \in Nat : /\ Aged(age, limit) \in Nat
                              /\ Aged(age, limit) \in {age + 1, Never}
                              /\ age < limit => Aged(age, limit) = age + 1
                              /\ age >= limit => Aged(age, limit) = Never
  BY CheckConstants DEF Aged
<1>3. ASSUME NEW n \in Asked
      PROVE  /\ queries'[n] \in Query
             /\ QueryInv(queries[n], nodes.idle[n], nodes.active[n])'
  <2> DEFINE q == queries[n]
             r == queries'[n]
             idle == nodes.idle[n]
  <2>1. /\ q \in Query /\ idle \in Nat /\ nodes.active[n] \in BOOLEAN
        /\ check.elapsed \in Nat
        /\ QueryInv(q, idle, nodes.active[n])
    BY DEF CheckInv, CheckTypes
  <2>2. r = [q EXCEPT !.sent = Aged(@, QueryLimit + QueryRetry),
                      !.received = Aged(@, ValueAge)]
    BY DEF CheckClock
  <2>3. nodes'.idle[n] = IF nodes.active[n] THEN 0 ELSE Aged(idle, MostIdle)
    BY <1>1
  <2> HIDE DEF q, r, idle
  <2>4. /\ QueryLimit + QueryRetry \in Nat /\ MostIdle \in Nat
        /\ QueryLimit \in Nat /\ ValueAge \in Nat
    BY CheckConstants
  <2>5. /\ r \in Query /\ r.future = q.future /\ r.value = q.value
        /\ r.sent = Aged(q.sent, QueryLimit + QueryRetry)
        /\ r.received = Aged(q.received, ValueAge)
    <3>1. /\ Aged(q.sent, QueryLimit + QueryRetry) \in Nat
          /\ Aged(q.received, ValueAge) \in Nat
      BY <1>2, <2>1, <2>4 DEF Query
    <3>2. QED
      BY <2>1, <2>2, <3>1 DEF Query
  <2>6. q.sent \in Nat /\ q.received \in Nat /\ nodes'.idle[n] \in Nat
    BY <1>2, <2>1, <2>3, <2>4 DEF Query
  <2>7. idle < MostIdle => nodes'.idle[n] <= idle + 1
    <3>1. idle < MostIdle => Aged(idle, MostIdle) = idle + 1
      BY <1>2, <2>1, <2>4
    <3>2. nodes'.idle[n] \in {0, Aged(idle, MostIdle)}
      BY <2>3
    <3>3. QED
      BY <2>1, <3>1, <3>2
  <2>8. q.future # "none" => q.sent <= QueryLimit /\ r.sent = q.sent + 1
    <3>1. SUFFICES ASSUME q.future # "none"
                   PROVE  q.sent <= QueryLimit /\ r.sent = q.sent + 1
      OBVIOUS
    <3>2. q.sent <= QueryLimit
      BY <1>1, <2>1, <3>1 DEF QueryInv
    <3>3. q.sent < QueryLimit + QueryRetry
      BY <2>4, <2>6, <3>2, CheckConstants
    <3>4. Aged(q.sent, QueryLimit + QueryRetry) = q.sent + 1
      BY <1>2, <2>4, <2>6, <3>3
    <3>5. QED
      BY <2>5, <3>2, <3>4
  <2>12. r.future \in {"up", "active"} => nodes'.idle[n] <= r.sent
    <3>1. SUFFICES ASSUME q.future \in {"up", "active"} PROVE nodes'.idle[n] <= r.sent
      BY <2>5
    <3>2. idle <= q.sent
      BY <2>1, <3>1 DEF QueryInv
    <3>3. QED
      BY <2>1, <2>4, <2>6, <2>7, <2>8, <3>1, <3>2, CheckConstants
  <2>9. r.value => \/ r.received <= check'.elapsed
                   \/ Never > ValueAge /\ r.received = Never
    BY <1>1, <1>2, <2>1, <2>4, <2>5, <2>6, CheckConstants DEF QueryInv
  <2>10. r.value /\ r.received <= ValueAge =>
           nodes'.idle[n] <= r.received + QueryLimit + 1
    <3>1. SUFFICES ASSUME q.value, r.received <= ValueAge
                   PROVE  nodes'.idle[n] <= r.received + QueryLimit + 1
      BY <2>5
    <3>2. q.received < ValueAge /\ r.received = q.received + 1
      BY <1>1, <1>2, <2>1, <2>4, <2>5, <2>6, <3>1, CheckConstants DEF QueryInv
    <3>3. idle <= q.received + QueryLimit + 1
      BY <2>1, <2>4, <2>6, <3>1, <3>2 DEF QueryInv
    <3>4. QED
      BY <2>1, <2>4, <2>6, <2>7, <3>2, <3>3, CheckConstants
  <2>11. nodes'.active[n] => nodes'.idle[n] = 0
    BY <1>1, <2>3
  <2>13. QED
    BY <1>1, <2>4, <2>5, <2>6, <2>8, <2>12, <2>9, <2>10, <2>11 DEF QueryInv, r
<1>4. CheckTypes'
  <2>1. queries' \in [Asked -> Query]
    BY <1>3 DEF CheckClock
  <2>2. check'.since \in Nat /\ nodes'.unready \in Nat
    BY <1>1, <1>2, CheckConstants DEF CheckInv, CheckTypes
  <2>3. nodes'.idle \in [Asked -> Nat]
    BY <1>1, <1>2, CheckConstants DEF CheckInv, CheckTypes
  <2>4. check'.elapsed \in 0 .. CheckTimeout
    BY <1>1, CheckConstants DEF CheckInv, CheckTypes
  <2>5. nodes'.active \in [Asked -> BOOLEAN]
    BY <1>1 DEF CheckInv, CheckTypes
  <2>6. QED
    BY <1>1, <2>1, <2>2, <2>3, <2>4, <2>5 DEF CheckTypes
<1>5. \/ check'.since = Never \/ check'.since <= nodes'.unready
      \/ nodes'.unready >= SettleTime
  BY <1>1, <1>2, CheckConstants DEF CheckInv, CheckTypes
<1>6. CheckIsEarned'
  BY <1>1 DEF CheckIsEarned
<1>7. QED
  BY <1>3, <1>4, <1>5, <1>6 DEF CheckInv

LEMMA CheckStep == CheckInv /\ CheckNext => CheckInv'
<1> SUFFICES ASSUME CheckInv, CheckNext PROVE CheckInv'
  OBVIOUS
<1>1. CASE PollQueries
  BY <1>1, PollKeeps
<1>2. CASE \E n \in Asked : Answer(n)
  BY <1>2, AnswerKeeps
<1>3. CASE \E n \in Asked : Running /\ NodeTurns(n)
  BY <1>3, NodeTurnsKeeps
<1>4. ASSUME NEW stamp, OnSample(stamp) PROVE CheckInv'
  BY <1>4 DEF OnSample, CheckInv, CheckTypes, QueryInv, CheckIsEarned
<1>5. CASE \E others \in OtherChecks : Report(others)
  BY <1>5, ReportKeeps
<1>6. CASE TimedOut
  <2>1. /\ check' = [check EXCEPT !.code = "timed_out"]
        /\ queries' = queries /\ polled' = polled /\ nodes' = nodes
        /\ check = [last |-> check.last, since |-> check.since, code |-> check.code,
                    elapsed |-> check.elapsed]
    BY <1>6 DEF TimedOut, CheckInv, CheckTypes
  <2>2. /\ check'.code = "timed_out" /\ check'.since = check.since
        /\ check'.elapsed = check.elapsed
        /\ check' = [last |-> check'.last, since |-> check'.since,
                     code |-> check'.code, elapsed |-> check'.elapsed]
    BY <2>1
  <2>3. QED
    BY <2>1, <2>2 DEF CheckInv, CheckTypes, QueryInv, CheckIsEarned
<1>7. CASE CheckClock
  BY <1>7, CheckClockKeeps
<1>8. QED
  BY <1>1, <1>2, <1>3, <1>4, <1>5, <1>6, <1>7 DEF CheckNext

-----------------------------------------------------------------------------
(* The invariant *)

\* The parts that are not of this behaviour stay as they start.
FieldInv ==
  /\ part \in Parts
  /\ part \in {"odometry", "relay"} => ros \in Nat \ {0}
  /\ part # "relay" => health.count = 0
  /\ TwistInv /\ RelayInv /\ RecordInv /\ CheckInv

LEMMA FieldInit == Init => FieldInv
<1> SUFFICES ASSUME Init PROVE FieldInv
  OBVIOUS
<1>1. /\ part \in Parts /\ ros = 1
      /\ odom = [last |-> 0, previous |-> NoSample, filter |-> {}]
      /\ twists = [stretch |-> 0, stamp |-> 0]
      /\ health = [count |-> 0, stamp |-> 0, receipt |-> 0, last |-> 0,
                   valid |-> FALSE, stampBack |-> FALSE, clockBack |-> FALSE]
      /\ clouds = <<>>
  BY DEF Init, OdomInit, RelayInit, RosInit
<1>2. TwistInv
  <2>1. NoSample \in Sample /\ NoSample.stamp = 0
    BY DEF NoSample, Sample
  <2> HIDE DEF NoSample
  <2>2. odom \in Adapter /\ odom.previous = NoSample /\ odom.filter = {}
    BY <1>1, <2>1 DEF Adapter
  <2>3. QED
    BY <1>1, <2>1, <2>2 DEF TwistInv
<1>3. RelayInv
  <2>1. health \in Health /\ health.count = 0 /\ health.last = 0
    BY <1>1 DEF Health
  <2>2. clouds \in Seq(Cloud) /\ Len(clouds) = 0
    BY <1>1
  <2>3. QED
    BY <2>1, <2>2 DEF RelayInv
<1>4. RecordInv /\ CheckInv
  BY RecordInitInv, CheckInitInv DEF Init
<1>5. QED
  BY <1>1, <1>2, <1>3, <1>4 DEF FieldInv

\* A step of another part leaves both adapters alone.
LEMMA OthersKeep ==
  ASSUME FieldInv, UNCHANGED part, UNCHANGED OdomVars, UNCHANGED RelayVars,
         RecordInv', CheckInv',
         part \in {"odometry", "relay"} => ros' \in Nat \ {0}
  PROVE  FieldInv'
<1>1. TwistInv'
  BY DEF FieldInv, TwistInv, OdomVars
<1>2. RelayInv'
  BY DEF FieldInv, RelayInv, RelayVars, Keeps
<1>3. QED
  BY <1>1, <1>2 DEF FieldInv, RelayVars

LEMMA ClockMoves == RosMoves => ros' \in Nat \ {0}
BY FieldConstants DEF RosMoves

LEMMA OdometryKeeps ==
  ASSUME FieldInv, part = "odometry", UNCHANGED part, OdomNext, UNCHANGED RelayVars,
         RecordInv', CheckInv'
  PROVE  FieldInv'
<1>1. ros \in Nat \ {0} /\ TwistInv /\ RelayInv
  BY DEF FieldInv
<1>2. CASE OdomClock
  BY <1>2, ClockMoves, OthersKeep DEF OdomClock, OdomVars
<1>3. ASSUME NEW stamp \in 0 .. MaxRos + 1, NEW place \in OdomPlaces,
             NEW usable \in BOOLEAN,
             OdomCallback([stamp |-> stamp, place |-> place], usable)
      PROVE  FieldInv'
  <2>1. [stamp |-> stamp, place |-> place] \in Sample
    BY FieldConstants DEF Sample
  <2>2. TwistInv'
    BY <1>1, <1>3, <2>1, CallbackEffect
  <2>3. RelayInv' /\ health' = health
    BY <1>1 DEF RelayInv, RelayVars, Keeps
  <2>4. ros' = ros
    BY <1>3 DEF OdomCallback
  <2>5. QED
    BY <1>1, <2>2, <2>3, <2>4 DEF FieldInv
<1>4. QED
  BY <1>2, <1>3 DEF OdomNext

LEMMA RelayKeeps ==
  ASSUME FieldInv, part = "relay", UNCHANGED part, RelayNext, UNCHANGED OdomVars,
         RecordInv', CheckInv'
  PROVE  FieldInv'
<1>1. ros \in Nat \ {0} /\ TwistInv /\ RelayInv
  BY DEF FieldInv
<1>2. TwistInv'
  BY <1>1 DEF TwistInv, OdomVars
<1>3. ASSUME NEW stamp \in 0 .. MaxRos + 1, NEW header \in BOOLEAN,
             RelayCallback(stamp, header)
      PROVE  FieldInv'
  <2>1. stamp \in Nat
    BY FieldConstants
  <2>2. RelayInv' /\ ros' = ros
    BY <1>1, <1>3, <2>1, ObserveEffect DEF RelayCallback
  <2>3. QED
    BY <1>1, <1>2, <2>2 DEF FieldInv, Parts
<1>4. CASE RelayTimer
  <2>1. RelayInv' /\ ros' = ros
    BY <1>1, <1>4 DEF RelayTimer, RelayInv, Keeps
  <2>2. QED
    BY <1>1, <1>2, <2>1 DEF FieldInv, Parts
<1>5. CASE RelayClock
  <2> DEFINE receipt == IF health.count > 0 /\ health.receipt <= RelaySilence
                        THEN health.receipt + 1 ELSE health.receipt
  <2>1. /\ health' = [health EXCEPT !.receipt = receipt]
        /\ clouds' = clouds /\ health \in Health
    BY <1>1, <1>5 DEF RelayClock, RelayInv
  <2>2. receipt \in Nat
    BY <2>1 DEF Health
  <2> HIDE DEF receipt
  <2>3. /\ health' \in Health /\ health'.count = health.count
        /\ health'.stamp = health.stamp /\ health'.last = health.last
        /\ health'.valid = health.valid /\ health'.stampBack = health.stampBack
        /\ health'.clockBack = health.clockBack
    BY <2>1, <2>2 DEF Health
  <2>4. RelayInv'
    BY <1>1, <2>1, <2>3 DEF RelayInv, Keeps
  <2>5. QED
    BY <1>2, <1>5, <2>4, ClockMoves DEF RelayClock, FieldInv, Parts
<1>6. QED
  BY <1>3, <1>4, <1>5 DEF RelayNext

LEMMA FieldStep == FieldInv /\ [Next]_vars => FieldInv'
<1> SUFFICES ASSUME FieldInv, [Next]_vars PROVE FieldInv'
  OBVIOUS
<1>1. CASE UNCHANGED vars
  <2>1. /\ UNCHANGED part /\ UNCHANGED OdomVars /\ UNCHANGED RelayVars /\ ros' = ros
        /\ UNCHANGED RecordingVars /\ UNCHANGED CheckVars
    BY <1>1 DEF vars
  <2>2. QED
    BY <2>1, OthersKeep, RecordUnchanged, CheckUnchanged DEF FieldInv
<1>2. ASSUME Next PROVE FieldInv'
  <2>1. UNCHANGED part
    BY <1>2 DEF Next
  <2>2. \/ part = "odometry" /\ OdomNext /\ UNCHANGED RelayVars
        \/ part = "relay" /\ RelayNext /\ UNCHANGED OdomVars
        \/ /\ part \in {"patch", "readiness", "recording", "audit"}
           /\ UNCHANGED OdomVars /\ UNCHANGED RelayVars
    BY <1>2 DEF Next
  <2>3. RecordInv'
    <3>1. RecordingNext \/ UNCHANGED RecordingVars
      BY <1>2 DEF Next
    <3>2. QED
      BY <3>1, RecordStep, RecordUnchanged DEF FieldInv
  <2>4. CheckInv'
    <3>1. CheckNext \/ UNCHANGED CheckVars
      BY <1>2 DEF Next
    <3>2. QED
      BY <3>1, CheckStep, CheckUnchanged DEF FieldInv
  <2>5. QED
    BY <2>1, <2>2, <2>3, <2>4, OdometryKeeps, RelayKeeps, OthersKeep
<1>3. QED
  BY <1>1, <1>2

LEMMA FieldInvariant == Spec => []FieldInv
<1>1. FieldInv /\ [Next]_vars => FieldInv'
  BY FieldStep
<1>2. QED
  BY FieldInit, <1>1, PTL DEF Spec

-----------------------------------------------------------------------------
(* The map patch *)

LEMMA Division ==
  ASSUME NEW a \in Int, NEW b \in Nat \ {0}
  PROVE  /\ a \div b \in Int /\ a % b \in 0 .. b - 1
         /\ a = b * (a \div b) + (a % b)
OBVIOUS

LEMMA Quotient ==
  ASSUME NEW a \in Int, NEW b \in Nat \ {0}, NEW k \in Int,
         k * b <= a, a < k * b + b
  PROVE  a \div b = k
<1>1. a \div b \in Int /\ (a \div b) * b <= a /\ a < (a \div b) * b + b
  BY Division
<1>2. \A m, n \in Int : m < n => m * b + b <= n * b
  <2>1. TAKE m, n \in Int
  <2>2. HAVE m < n
  <2>3. n - m - 1 \in Nat /\ b \in Nat
    BY <2>2
  <2>4. (n - m - 1) * b \in Nat
    BY <2>3
  <2>5. (n - m - 1) * b = n * b - m * b - b
    OBVIOUS
  <2>6. m * b \in Int /\ n * b \in Int
    OBVIOUS
  <2>7. QED
    BY <2>4, <2>5, <2>6
<1>3. ~(a \div b < k) /\ ~(k < a \div b)
  <2>1. k * b \in Int /\ (a \div b) * b \in Int
    BY <1>1
  <2>2. QED
    BY <1>1, <1>2, <2>1
<1>4. QED
  BY <1>1, <1>3

\* A cell has a column and a row, and these have one cell.
LEMMA CellPlace ==
  ASSUME NEW grid \in Grids, NEW j \in Cells(grid)
  PROVE  /\ Col(grid, j) \in 0 .. grid.width - 1
         /\ Row(grid, j) \in 0 .. grid.height - 1
         /\ j = Row(grid, j) * grid.width + Col(grid, j)
<1> DEFINE w == grid.width
           h == grid.height
           r == j \div w
<1>1. w \in Nat \ {0} /\ h \in Nat \ {0} /\ j \in 0 .. w * h - 1 /\ j \in Int
  BY DEF Grids, Cells
<1>2. r \in Int /\ j % w \in 0 .. w - 1 /\ j = w * r + (j % w)
  BY <1>1, Division
<1> HIDE DEF w, h
<1>3. w * r <= j /\ j < w * r + w /\ w * r \in Int /\ w * h \in Int /\ j < w * h /\ 0 <= j
  BY <1>1, <1>2
<1>4. r >= 0
  <2>1. SUFFICES ASSUME r < 0 PROVE FALSE
    BY <1>2
  <2>2. w * (-1 - r) \in Nat /\ w * (-1 - r) = -w - w * r
    BY <1>1, <1>2, <2>1
  <2>3. QED
    BY <1>1, <1>3, <2>2
<1>5. r < h
  <2>1. SUFFICES ASSUME r >= h PROVE FALSE
    BY <1>1, <1>2
  <2>2. w * (r - h) \in Nat /\ w * (r - h) = w * r - w * h
    BY <1>1, <1>2, <2>1
  <2>3. QED
    BY <1>1, <1>3, <2>2
<1>6. r * w = w * r
  BY <1>1, <1>2
<1>7. QED
  BY <1>1, <1>2, <1>4, <1>5, <1>6 DEF Col, Row, w, h

LEMMA PlaceCell ==
  ASSUME NEW grid \in Grids, NEW col, NEW row, Inside(grid, col, row)
  PROVE  LET j == row * grid.width + col
         IN  j \in Cells(grid) /\ Col(grid, j) = col /\ Row(grid, j) = row
<1> DEFINE w == grid.width
           h == grid.height
           j == row * w + col
<1>1. /\ w \in Nat \ {0} /\ h \in Nat \ {0}
      /\ col \in 0 .. w - 1 /\ row \in 0 .. h - 1
  BY DEF Grids, Inside
<1> HIDE DEF w, h
<1>2. row * w \in Nat /\ row * w <= w * h - w /\ w * h \in Int
  <2>1. (h - 1 - row) * w \in Nat /\ (h - 1 - row) * w = w * h - w - row * w
    BY <1>1
  <2>2. row * w \in Nat /\ w * h \in Int
    BY <1>1
  <2>3. QED
    BY <1>1, <2>1, <2>2
<1>3. j \in 0 .. w * h - 1 /\ j \in Int
  BY <1>1, <1>2
<1>4. j \div w = row
  BY <1>1, <1>2, <1>3, Quotient
<1>5. j % w = col
  <2>1. j = w * (j \div w) + (j % w) /\ j % w \in Int
    BY <1>1, <1>3, Division
  <2>2. w * row = row * w
    BY <1>1
  <2>3. QED
    BY <1>1, <1>2, <1>4, <2>1, <2>2
<1>6. QED
  BY <1>3, <1>4, <1>5 DEF Cells, Col, Row, w, h

\* A turn is undone, and distances along the axes stay what they are.
Point == [x : Int, y : Int]

LEMMA TurnBack ==
  ASSUME NEW frame, frame.x \in Int, frame.y \in Int, frame.q \in 0 .. 3,
         NEW p \in Point
  PROVE  /\ FromMap(frame, p) \in Point /\ ToMap(frame, p) \in Point
         /\ ToMap(frame, FromMap(frame, p)) = p
<1>1. frame.q \in {0, 1, 2, 3}
  OBVIOUS
<1>2. \/ Cos(frame.q) = 1 /\ Sin(frame.q) = 0
      \/ Cos(frame.q) = 0 /\ Sin(frame.q) = 1
      \/ Cos(frame.q) = -1 /\ Sin(frame.q) = 0
      \/ Cos(frame.q) = 0 /\ Sin(frame.q) = -1
  BY <1>1 DEF Cos, Sin
<1>3. QED
  BY <1>2 DEF FromMap, ToMap, Point

LEMMA TurnNear ==
  ASSUME NEW frame, frame.x \in Int, frame.y \in Int, frame.q \in 0 .. 3,
         NEW p \in Point, NEW c \in Point, NEW reach \in Nat
  PROVE  Near(ToMap(frame, p), ToMap(frame, c), reach) <=> Near(p, c, reach)
<1>1. frame.q \in {0, 1, 2, 3}
  OBVIOUS
<1>2. \/ Cos(frame.q) = 1 /\ Sin(frame.q) = 0
      \/ Cos(frame.q) = 0 /\ Sin(frame.q) = 1
      \/ Cos(frame.q) = -1 /\ Sin(frame.q) = 0
      \/ Cos(frame.q) = 0 /\ Sin(frame.q) = -1
  BY <1>1 DEF Cos, Sin
<1>3. QED
  BY <1>2 DEF Near, ToMap, Point

\* The sample of a place is what the plane holds at the cell it lies in.
Drawn(grid) == [grid |-> grid, data |-> Drawing(grid)]

LEMMA SampleShows ==
  ASSUME NEW grid \in Sources, NEW pose \in Poses, NEW i \in Cells(Output)
  PROVE  LET place == ToMap(pose, CellCentre([Output EXCEPT !.q = 0], i))
             value == Sampled(Drawn(grid), pose)[i]
             shows(j) == value = Plane(CellCentre(grid, j))
             within(j, reach) == Near(place, CellCentre(grid, j), reach)
         IN  /\ \A j \in Cells(grid) : within(j, (grid.unit - 1) \div 2) => shows(j)
             /\ \/ value = -1
                \/ \E j \in Cells(grid) : within(j, grid.unit \div 2) /\ shows(j)
<1> DEFINE local == [x |-> Output.x + Col(Output, i) * Output.unit + (Output.unit \div 2),
                     y |-> Output.y + Row(Output, i) * Output.unit + (Output.unit \div 2)]
           place == ToMap(pose, CellCentre([Output EXCEPT !.q = 0], i))
           value == Sampled(Drawn(grid), pose)[i]
           source == FromMap(grid, ToMap(pose, local))
           u == grid.unit
           half == u \div 2
           col == source.x \div u
           row == source.y \div u
           centre(j) == [x |-> Col(grid, j) * u + half, y |-> Row(grid, j) * u + half]
<1>1. /\ grid \in Grids /\ Output \in Grids /\ u \in Nat \ {0}
      /\ pose.x \in Int /\ pose.y \in Int /\ pose.q \in 0 .. 3
      /\ grid.x \in Int /\ grid.y \in Int /\ grid.q \in 0 .. 3
  BY PatchAssumption DEF PatchAssumption, Grids
<1>2. half \in Nat /\ 2 * half <= u /\ u <= 2 * half + 1 /\ (u - 1) \div 2 \in Nat
      /\ 2 * ((u - 1) \div 2) <= u - 1
  BY <1>1
<1>3. local \in Point /\ place = ToMap(pose, local)
  <2> DEFINE flat == [Output EXCEPT !.q = 0]
             dx == Col(Output, i) * Output.unit + (Output.unit \div 2)
             dy == Row(Output, i) * Output.unit + (Output.unit \div 2)
  <2>1. /\ Col(Output, i) \in Int /\ Row(Output, i) \in Int
        /\ Output.unit \in Nat \ {0} /\ Output.x \in Int /\ Output.y \in Int
    BY <1>1, CellPlace DEF Grids
  <2>2. dx \in Int /\ dy \in Int
    BY <2>1
  <2>3. /\ Col(flat, i) = Col(Output, i) /\ Row(flat, i) = Row(Output, i)
        /\ flat.unit = Output.unit /\ flat.x = Output.x /\ flat.y = Output.y
        /\ flat.q = 0
    BY <1>1 DEF Col, Row, Grids
  <2>4. CellCentre(flat, i) = ToMap(flat, [x |-> dx, y |-> dy])
    BY <2>3 DEF CellCentre
  <2>5. Cos(0) = 1 /\ Sin(0) = 0
    BY DEF Cos, Sin
  <2>6. ToMap(flat, [x |-> dx, y |-> dy]) = [x |-> flat.x + dx, y |-> flat.y + dy]
    <3> HIDE DEF dx, dy, flat
    <3>1. QED
      BY <2>1, <2>2, <2>3, <2>5 DEF ToMap
  <2>7. local = [x |-> Output.x + dx, y |-> Output.y + dy] /\ local \in Point
    BY <2>1, <2>2 DEF Point
  <2>8. QED
    BY <2>3, <2>4, <2>6, <2>7
<1>4. source \in Point /\ ToMap(grid, source) = place /\ place \in Point
  BY <1>1, <1>3, TurnBack
<1>5. ASSUME NEW j \in Cells(grid)
      PROVE  /\ centre(j) \in Point /\ CellCentre(grid, j) = ToMap(grid, centre(j))
             /\ \A reach \in Nat :
                  Near(place, CellCentre(grid, j), reach) <=> Near(source, centre(j), reach)
  <2>1. Col(grid, j) \in Int /\ Row(grid, j) \in Int
    BY <1>1, CellPlace
  <2>2. centre(j) \in Point
    BY <1>1, <1>2, <2>1 DEF Point
  <2>3. CellCentre(grid, j) = ToMap(grid, centre(j))
    BY DEF CellCentre
  <2> HIDE DEF centre, source, place
  <2>4. QED
    BY <1>1, <1>4, <2>2, <2>3, TurnNear
<1>6. value = IF Inside(grid, col, row) THEN Drawing(grid)[row * grid.width + col] ELSE -1
  BY DEF Sampled, Drawn
<1>7. \A j \in Cells(grid) : Drawing(grid)[j] = Plane(CellCentre(grid, j))
  BY DEF Drawing
<1> HIDE DEF local, place, value, source, half
<1>8. ASSUME NEW j \in Cells(grid), Near(place, CellCentre(grid, j), (u - 1) \div 2)
      PROVE  value = Plane(CellCentre(grid, j))
  <2>1. Near(source, centre(j), (u - 1) \div 2)
    BY <1>2, <1>5, <1>8
  <2>2. /\ Col(grid, j) \in 0 .. grid.width - 1 /\ Row(grid, j) \in 0 .. grid.height - 1
        /\ j = Row(grid, j) * grid.width + Col(grid, j)
    BY <1>1, CellPlace
  <2>3. /\ Col(grid, j) * u <= source.x /\ source.x < Col(grid, j) * u + u
        /\ Row(grid, j) * u <= source.y /\ source.y < Row(grid, j) * u + u
    <3>1. /\ source.x \in Int /\ source.y \in Int /\ u \in Nat
          /\ Col(grid, j) * u \in Int /\ Row(grid, j) * u \in Int
      BY <1>1, <1>4, <2>2 DEF Point, Grids
    <3>2. /\ source.x - (Col(grid, j) * u + half) \in -((u - 1) \div 2) .. (u - 1) \div 2
          /\ source.y - (Row(grid, j) * u + half) \in -((u - 1) \div 2) .. (u - 1) \div 2
      BY <2>1 DEF Near
    <3>3. QED
      BY <1>2, <3>1, <3>2
  <2>4. col = Col(grid, j) /\ row = Row(grid, j)
    <3>1. /\ Col(grid, j) \in Int /\ Row(grid, j) \in Int
          /\ source.x \in Int /\ source.y \in Int
      BY <1>1, <1>4, <2>2 DEF Point
    <3>2. QED
      BY <1>1, <2>3, <3>1, Quotient
  <2>5. Inside(grid, col, row) /\ row * grid.width + col = j
    BY <2>2, <2>4 DEF Inside
  <2>6. QED
    BY <1>6, <1>7, <2>5
<1>9. ASSUME value # -1
      PROVE  \E j \in Cells(grid) : /\ Near(place, CellCentre(grid, j), half)
                                    /\ value = Plane(CellCentre(grid, j))
  <2> DEFINE j == row * grid.width + col
  <2>1. Inside(grid, col, row)
    BY <1>6, <1>9
  <2>2. j \in Cells(grid) /\ Col(grid, j) = col /\ Row(grid, j) = row
    BY <1>1, <2>1, PlaceCell
  <2>3. value = Plane(CellCentre(grid, j))
    BY <1>6, <1>7, <2>1, <2>2
  <2>4. Near(source, centre(j), half)
    <3>1. source.x \in Int /\ source.y \in Int
      BY <1>4 DEF Point
    <3>2. /\ col \in Int /\ source.x % u \in 0 .. u - 1
          /\ source.x = u * col + (source.x % u)
          /\ row \in Int /\ source.y % u \in 0 .. u - 1
          /\ source.y = u * row + (source.y % u)
      BY <1>1, <3>1, Division
    <3> HIDE DEF col, row
    <3>3. u * col = col * u /\ u * row = row * u /\ u * col \in Int /\ u * row \in Int
      BY <1>1, <3>2
    <3>4. centre(j) = [x |-> col * u + half, y |-> row * u + half]
      BY <2>2
    <3>5. /\ source.x - (col * u + half) \in -half .. half
          /\ source.y - (row * u + half) \in -half .. half
      BY <1>1, <1>2, <3>1, <3>2, <3>3
    <3>6. QED
      BY <3>4, <3>5 DEF Near
  <2>5. Near(place, CellCentre(grid, j), half)
    BY <1>2, <1>5, <2>2, <2>4
  <2>6. QED
    BY <2>2, <2>3, <2>5
<1>10. QED
  BY <1>8, <1>9 DEF place, value, half

\* The costmap kept is whole or has no data, and the patch is of its time.
PatchInv ==
  /\ costmap # NoCostmap =>
       \E grid \in Sources : costmap \in {Drawn(grid), [grid |-> grid, data |-> <<>>]}
  /\ patch # NoPatch =>
       /\ patch.pose \in Poses /\ patch.grid \in Sources
       /\ patch.data = Sampled(Drawn(patch.grid), patch.pose)
  /\ fine \in BOOLEAN

LEMMA WholeIsDrawn ==
  ASSUME NEW grid \in Sources, NEW map,
         map \in {Drawn(grid), [grid |-> grid, data |-> <<>>]}, Whole(map)
  PROVE  map = Drawn(grid)
<1>1. SUFFICES map # [grid |-> grid, data |-> <<>>]
  OBVIOUS
<1>2. DOMAIN <<>> = {}
  OBVIOUS
<1>3. 0 \in Cells(grid)
  <2>1. grid.width \in Nat \ {0} /\ grid.height \in Nat \ {0}
    BY PatchAssumption DEF PatchAssumption, Grids
  <2>2. grid.width * grid.height \in Nat /\ grid.width * grid.height # 0
    BY <2>1
  <2>3. QED
    BY <2>2 DEF Cells
<1>4. QED
  BY <1>2, <1>3 DEF Whole

LEMMA PatchStep == PatchInv /\ (PatchNext \/ UNCHANGED PatchVars) => PatchInv'
<1> SUFFICES ASSUME PatchInv, PatchNext \/ UNCHANGED PatchVars PROVE PatchInv'
  OBVIOUS
<1>1. CASE UNCHANGED <<costmap, patch, fine>>
  BY <1>1 DEF PatchInv
<1>2. ASSUME NEW grid \in Sources, NEW whole \in BOOLEAN, NEW mapFrame \in BOOLEAN,
             CostmapCallback(grid, whole, mapFrame)
      PROVE  PatchInv'
  <2>1. /\ costmap' \in {costmap, Drawn(grid), [grid |-> grid, data |-> <<>>]}
        /\ patch' = patch /\ fine' = fine
    BY <1>2 DEF CostmapCallback, Drawn
  <2> HIDE DEF NoCostmap
  <2>2. costmap' # NoCostmap =>
          \E g \in Sources : costmap' \in {Drawn(g), [grid |-> g, data |-> <<>>]}
    BY <2>1 DEF PatchInv
  <2>3. QED
    BY <2>1, <2>2 DEF PatchInv
<1>3. ASSUME NEW known \in BOOLEAN, NEW pose \in Poses, NEW stamp,
             Publish(known, pose, stamp)
      PROVE  PatchInv'
  <2> DEFINE ok == known /\ PoseStampUsable(stamp) /\ Whole(costmap)
             new == [data |-> Sampled(costmap, pose), pose |-> pose, grid |-> costmap.grid]
  <2>1. /\ costmap # NoCostmap /\ costmap' = costmap /\ fine' = ok
        /\ patch' = IF ok THEN new ELSE patch
    BY <1>3 DEF Publish
  <2>2. ok \in BOOLEAN
    BY DEF PoseStampUsable, Whole
  <2>3. ASSUME ok
        PROVE  /\ new.pose \in Poses /\ new.grid \in Sources
               /\ new.data = Sampled(Drawn(new.grid), new.pose)
    <3>1. PICK grid \in Sources : costmap \in {Drawn(grid), [grid |-> grid, data |-> <<>>]}
      BY <2>1 DEF PatchInv
    <3>2. costmap = Drawn(grid)
      BY <2>3, <3>1, WholeIsDrawn
    <3>3. costmap.grid = grid
      BY <3>2 DEF Drawn
    <3>4. QED
      BY <3>2, <3>3
  <2> HIDE DEF ok, new
  <2>4. QED
    BY <2>1, <2>2, <2>3 DEF PatchInv
<1>4. QED
  BY <1>1, <1>2, <1>3 DEF PatchNext, PatchVars, PatchClock

LEMMA PatchInvariant == Spec => []PatchInv
<1>1. Init => PatchInv
  BY DEF Init, PatchInit, PatchInv
<1>2. [Next]_vars => PatchNext \/ UNCHANGED PatchVars
  BY DEF Next, vars
<1>3. QED
  BY <1>1, <1>2, PatchStep, PTL DEF Spec

-----------------------------------------------------------------------------
(* The localization audit *)

Received(p) == {s \in DOMAIN taken : taken[s] = p}
Placed(t) == {s \in DOMAIN taken : [scan |-> s, target |-> t] \in buffer}

\* A scan is pending at most once, and pending or counted for each target.
PendingInv ==
  /\ IsFiniteSet(DOMAIN taken)
  /\ \A s \in DOMAIN taken : taken[s] \in Phases
  /\ \A e \in pending :
       /\ e = [scan |-> e.scan, at |-> e.at, phase |-> e.phase, targets |-> e.targets]
       /\ e.scan \in DOMAIN taken /\ e.phase = taken[e.scan] /\ e.targets \subseteq Targets
  /\ \A e, f \in pending : e.scan = f.scan => e = f
CountInv ==
  /\ counts \in [Phases -> [Targets -> [checked : Nat, good : Nat]]]
  /\ \A p \in Phases, t \in Targets :
       /\ counts[p][t].checked = Cardinality(Judged(p, t))
       /\ counts[p][t].good <= Cardinality(Judged(p, t) \cap Placed(t))
IssueInv ==
  /\ audit = [elapsed |-> audit.elapsed, until |-> audit.until, last |-> audit.last,
              accept |-> audit.accept, ok |-> audit.ok, odom |-> audit.odom]
  /\ issue # "none" => ~audit.accept /\ (audit.ok => pending = {})
  /\ issue = "clean" =>
       \A t \in Targets : /\ counts["steady"][t].checked # 0
                          /\ ~(counts["steady"][t].good < counts["steady"][t].checked)
AuditInv == PendingInv /\ CountInv /\ IssueInv

LEMMA AuditInitInv == AuditInit => AuditInv
<1> SUFFICES ASSUME AuditInit PROVE AuditInv
  OBVIOUS
<1>1. DOMAIN taken = {} /\ pending = {} /\ issue = "none"
  BY DEF AuditInit
<1>2. PendingInv
  BY <1>1, FS_EmptySet DEF PendingInv
<1>3. CountInv
  <2>1. counts = [p \in Phases |-> [t \in Targets |-> [checked |-> 0, good |-> 0]]]
    BY DEF AuditInit
  <2>2. counts \in [Phases -> [Targets -> [checked : Nat, good : Nat]]]
    BY <2>1
  <2>3. ASSUME NEW p \in Phases, NEW t \in Targets
        PROVE  /\ counts[p][t].checked = Cardinality(Judged(p, t))
               /\ counts[p][t].good <= Cardinality(Judged(p, t) \cap Placed(t))
    <3>1. Judged(p, t) = {} /\ Judged(p, t) \cap Placed(t) = {}
      BY <1>1 DEF Judged, Received
    <3>2. counts[p][t] = [checked |-> 0, good |-> 0]
      BY <2>1
    <3>3. QED
      BY <3>1, <3>2, FS_EmptySet
  <2>4. QED
    BY <2>2, <2>3 DEF CountInv
<1>4. IssueInv
  BY <1>1 DEF AuditInit, IssueInv
<1>5. QED
  BY <1>2, <1>3, <1>4 DEF AuditInv

\* The sets that are counted are finite.
LEMMA JudgedFinite ==
  ASSUME PendingInv, NEW p, NEW t
  PROVE  /\ IsFiniteSet(Received(p)) /\ IsFiniteSet(Judged(p, t))
         /\ IsFiniteSet(Judged(p, t) \cap Placed(t))
         /\ Cardinality(Judged(p, t)) \in Nat
         /\ Cardinality(Judged(p, t) \cap Placed(t)) \in Nat
<1>1. /\ Received(p) \in SUBSET DOMAIN taken
      /\ Judged(p, t) \in SUBSET DOMAIN taken
      /\ Judged(p, t) \cap Placed(t) \in SUBSET DOMAIN taken
  BY DEF Received, Judged
<1>2. IsFiniteSet(DOMAIN taken)
  BY DEF PendingInv
<1>3. QED
  BY <1>1, <1>2, FS_Subset, FS_CardinalityType

\* Entries are as many as their scans.
LEMMA ScansOfEntries ==
  ASSUME PendingInv, NEW E \in SUBSET pending
  PROVE  LET S == {e.scan : e \in E}
         IN  /\ IsFiniteSet(E) /\ IsFiniteSet(S)
             /\ Cardinality(E) = Cardinality(S) /\ Cardinality(S) \in Nat
<1> DEFINE S == {e.scan : e \in E}
           f == [s \in S |-> CHOOSE e \in E : e.scan = s]
<1>1. S \in SUBSET DOMAIN taken /\ IsFiniteSet(DOMAIN taken)
  BY DEF PendingInv
<1>2. IsFiniteSet(S) /\ Cardinality(S) \in Nat
  BY <1>1, FS_Subset, FS_CardinalityType
<1>3. \A s \in S : f[s] \in E /\ f[s].scan = s
  OBVIOUS
<1>4. \A e \in E : e.scan \in S /\ f[e.scan] = e
  <2>1. TAKE e \in E
  <2>2. f[e.scan] \in E /\ f[e.scan].scan = e.scan
    BY <1>3
  <2>3. QED
    BY <2>2 DEF PendingInv
<1>5. f \in [S -> E]
  BY <1>3
<1> HIDE DEF f, S
<1>6. f \in Bijection(S, E)
  <2>1. f \in Injection(S, E)
    BY <1>3, <1>5 DEF Injection, IsInjective
  <2>2. f \in Surjection(S, E)
    BY <1>4, <1>5 DEF Surjection
  <2>3. QED
    BY <2>1, <2>2 DEF Bijection
<1>7. ExistsBijection(S, E)
  BY <1>6 DEF ExistsBijection
<1>8. QED
  BY <1>2, <1>7, FS_Bijection DEF S

LEMMA Disjoint ==
  ASSUME NEW S, NEW T, IsFiniteSet(S), IsFiniteSet(T), S \cap T = {}
  PROVE  /\ Cardinality(S \cup T) = Cardinality(S) + Cardinality(T)
         /\ Cardinality(S) \in Nat /\ Cardinality(T) \in Nat
<1>1. Cardinality({}) = 0
  BY FS_EmptySet
<1>2. Cardinality(S) \in Nat /\ Cardinality(T) \in Nat
  BY FS_CardinalityType
<1>3. Cardinality(S \cup T) = Cardinality(S) + Cardinality(T) - Cardinality(S \cap T)
  BY FS_Union
<1>4. Cardinality(S \cap T) = 0
  BY <1>1
<1>5. QED
  BY <1>2, <1>3, <1>4

LEMMA PhaseIs == \A until : Phase(until) \in Phases
<1> TAKE until
<1>1. CASE audit.elapsed < Warmup
  BY <1>1, Zenon DEF Phase, Phases
<1>2. CASE ~(audit.elapsed < Warmup) /\ audit.elapsed >= Warmup /\ audit.elapsed < until
  BY <1>2, Zenon DEF Phase, Phases
<1>3. CASE /\ ~(audit.elapsed < Warmup)
           /\ ~(audit.elapsed >= Warmup /\ audit.elapsed < until)
  BY <1>3, Zenon DEF Phase, Phases
<1>4. QED
  BY <1>1, <1>2, <1>3, Zenon

LEMMA ScanKeeps ==
  ASSUME AuditInv, NEW s, OnScan(s)
  PROVE  AuditInv'
<1> DEFINE entry == [scan |-> s, at |-> audit.elapsed, phase |-> Phase(Until(FALSE, 0)),
                     targets |-> Targets]
<1>1. /\ s \notin DOMAIN taken /\ audit.accept /\ pending' = pending \cup {entry}
      /\ taken' = [r \in DOMAIN taken \cup {s} |-> IF r = s THEN entry.phase ELSE taken[r]]
      /\ counts' = counts /\ buffer' = buffer /\ issue' = issue
      /\ audit' = [audit EXCEPT !.until = Until(FALSE, 0), !.last = ros]
  BY DEF OnScan
<1>2. entry.phase \in Phases /\ entry.scan = s /\ entry.targets = Targets
      /\ entry = [scan |-> entry.scan, at |-> entry.at, phase |-> entry.phase,
                  targets |-> entry.targets]
  BY PhaseIs
<1> HIDE DEF entry
<1>3. /\ DOMAIN taken' = DOMAIN taken \cup {s} /\ taken'[s] = entry.phase
      /\ \A r \in DOMAIN taken : taken'[r] = taken[r]
  BY <1>1
<1>4. PendingInv'
  <2>1. IsFiniteSet(DOMAIN taken')
    BY <1>3, FS_AddElement DEF AuditInv, PendingInv
  <2>2. \A r \in DOMAIN taken' : taken'[r] \in Phases
    BY <1>2, <1>3 DEF AuditInv, PendingInv
  <2>3. ASSUME NEW e \in pending'
        PROVE  /\ e = [scan |-> e.scan, at |-> e.at, phase |-> e.phase,
                       targets |-> e.targets]
               /\ e.scan \in DOMAIN taken' /\ e.phase = taken'[e.scan]
               /\ e.targets \subseteq Targets
    BY <1>1, <1>2, <1>3 DEF AuditInv, PendingInv
  <2>4. \A e, f \in pending' : e.scan = f.scan => e = f
    BY <1>1, <1>2 DEF AuditInv, PendingInv
  <2>5. QED
    BY <2>1, <2>2, <2>3, <2>4 DEF PendingInv
<1>5. ASSUME NEW p \in Phases, NEW t \in Targets
      PROVE  /\ Judged(p, t)' = Judged(p, t)
             /\ (Judged(p, t) \cap Placed(t))' = Judged(p, t) \cap Placed(t)
  <2>1. \A r : Waits(r, t)' <=> Waits(r, t) \/ r = s
    BY <1>1, <1>2 DEF Waits
  <2>2. Judged(p, t)' = Judged(p, t)
    BY <1>1, <1>3, <2>1 DEF Judged, Received
  <2>3. \A r \in Judged(p, t) : r \in Placed(t)' <=> r \in Placed(t)
    BY <1>1, <1>3 DEF Judged, Received, Placed
  <2>4. QED
    BY <2>2, <2>3
<1>6. CountInv'
  BY <1>1, <1>5 DEF AuditInv, CountInv
<1>7. IssueInv'
  BY <1>1 DEF AuditInv, IssueInv
<1>8. QED
  BY <1>4, <1>6, <1>7 DEF AuditInv

LEMMA ProcessKeeps ==
  ASSUME AuditInv, Process
  PROVE  AuditInv'
<1> DEFINE left(e) == {t \in e.targets : ~Settles(e, t)}
           now(p, t) == {e \in pending : e.phase = p /\ Settles(e, t)}
           seen(p, t) == {e \in now(p, t) : Available(e, t)}
           scans(E) == {e.scan : e \in E}
<1>1. /\ issue = "none" /\ issue' = issue /\ audit' = audit /\ buffer' = buffer
      /\ taken' = taken
      /\ pending' = {e \in {[d EXCEPT !.targets = left(d)] : d \in pending} :
                       Remains(e.targets)}
      /\ counts' = [p \in Phases |-> [t \in Targets |->
                      [checked |-> counts[p][t].checked + Cardinality(now(p, t)),
                       good |-> counts[p][t].good + Cardinality(seen(p, t))]]]
  BY DEF Process
<1>2. \A d \in pending :
        LET e == [d EXCEPT !.targets = left(d)]
        IN  /\ e = [scan |-> e.scan, at |-> e.at, phase |-> e.phase, targets |-> e.targets]
            /\ e.scan = d.scan /\ e.phase = d.phase /\ e.targets = left(d)
            /\ left(d) \subseteq d.targets
  BY DEF AuditInv, PendingInv
<1>3. \A e \in pending' : \E d \in pending :
        /\ e = [d EXCEPT !.targets = left(d)] /\ e.scan = d.scan /\ e.phase = d.phase
        /\ e = [scan |-> e.scan, at |-> e.at, phase |-> e.phase, targets |-> e.targets]
        /\ e.targets = left(d) /\ e.targets \subseteq d.targets
  <2>1. TAKE e \in pending'
  <2>2. PICK d \in pending : e = [d EXCEPT !.targets = left(d)]
    <3> HIDE DEF left
    <3>1. QED
      BY <1>1
  <2>3. WITNESS d \in pending
  <2> HIDE DEF left
  <2>4. QED
    BY <1>2, <2>2
<1>4. PendingInv'
  <2>1. ASSUME NEW e \in pending'
        PROVE  /\ e = [scan |-> e.scan, at |-> e.at, phase |-> e.phase,
                       targets |-> e.targets]
               /\ e.scan \in DOMAIN taken /\ e.phase = taken[e.scan]
               /\ e.targets \subseteq Targets
    <3> HIDE DEF left
    <3>1. QED
      BY <1>3 DEF AuditInv, PendingInv
  <2>2. \A e, f \in pending' : e.scan = f.scan => e = f
    <3> HIDE DEF left
    <3>1. QED
      BY <1>3 DEF AuditInv, PendingInv
  <2>3. QED
    BY <1>1, <2>1, <2>2 DEF AuditInv, PendingInv
<1>5. ASSUME NEW s, NEW t
      PROVE  Waits(s, t)' <=> Waits(s, t) /\ \A e \in pending : e.scan = s => ~Settles(e, t)
  <2>1. ASSUME Waits(s, t)'
        PROVE  Waits(s, t) /\ \A e \in pending : e.scan = s => ~Settles(e, t)
    <3>1. PICK e \in pending' : e.scan = s /\ t \in e.targets
      BY <2>1 DEF Waits
    <3>2. PICK d \in pending : d.scan = s /\ e.targets = left(d)
      BY <1>3, <3>1
    <3>3. t \in d.targets /\ ~Settles(d, t)
      BY <3>1, <3>2
    <3>4. \A f \in pending : f.scan = s => f = d
      BY <3>2 DEF AuditInv, PendingInv
    <3>5. QED
      BY <3>2, <3>3, <3>4 DEF Waits
  <2>2. ASSUME Waits(s, t), \A e \in pending : e.scan = s => ~Settles(e, t)
        PROVE  Waits(s, t)'
    <3>1. PICK d \in pending : d.scan = s /\ t \in d.targets
      BY <2>2 DEF Waits
    <3>2. t \in left(d)
      BY <2>2, <3>1
    <3> DEFINE e == [d EXCEPT !.targets = left(d)]
    <3>3. e.targets = left(d) /\ e.scan = s
      BY <1>2, <3>1
    <3> HIDE DEF left
    <3>4. e \in pending'
      BY <1>1, <3>2, <3>3 DEF Remains
    <3>5. QED
      BY <3>2, <3>3, <3>4 DEF Waits
  <2>3. QED
    BY <2>1, <2>2
<1>6. ASSUME NEW p \in Phases, NEW t \in Targets
      PROVE  /\ counts[p][t].checked + Cardinality(now(p, t)) \in Nat
             /\ counts[p][t].good + Cardinality(seen(p, t)) \in Nat
             /\ counts[p][t].checked + Cardinality(now(p, t)) = Cardinality(Judged(p, t)')
             /\ counts[p][t].good + Cardinality(seen(p, t))
                  <= Cardinality((Judged(p, t) \cap Placed(t))')
  <2>1. /\ now(p, t) \in SUBSET pending /\ seen(p, t) \in SUBSET pending
    OBVIOUS
  <2>2. /\ Cardinality(now(p, t)) = Cardinality(scans(now(p, t)))
        /\ Cardinality(seen(p, t)) = Cardinality(scans(seen(p, t)))
        /\ IsFiniteSet(scans(now(p, t))) /\ IsFiniteSet(scans(seen(p, t)))
        /\ Cardinality(now(p, t)) \in Nat /\ Cardinality(seen(p, t)) \in Nat
    <3> HIDE DEF now, seen
    <3>1. QED
      BY <2>1, ScansOfEntries DEF AuditInv
  <2>3. \A s : s \in scans(now(p, t)) <=>
                 /\ s \in Received(p)
                 /\ \E e \in pending : e.scan = s /\ Settles(e, t)
    <3>1. \A e \in pending : e.phase = p <=> e.scan \in Received(p)
      BY DEF AuditInv, PendingInv, Received
    <3>2. QED
      BY <3>1
  <2>4. Judged(p, t)' = Judged(p, t) \cup scans(now(p, t))
    <3>1. Received(p)' = Received(p)
      BY <1>1 DEF Received
    <3> HIDE DEF now, scans
    <3>2. \A s : s \in Judged(p, t)' <=> s \in Received(p) /\ ~Waits(s, t)'
      BY <3>1 DEF Judged, Received
    <3>3. \A s : s \in Judged(p, t)' <=>
                   /\ s \in Received(p)
                   /\ ~Waits(s, t) \/ \E e \in pending : e.scan = s /\ Settles(e, t)
      BY <1>5, <3>2
    <3>4. \A s : s \in Judged(p, t) <=> s \in Received(p) /\ ~Waits(s, t)
      BY DEF Judged, Received
    <3>5. QED
      BY <2>3, <3>3, <3>4
  <2>5. Judged(p, t) \cap scans(now(p, t)) = {}
    BY DEF Judged, Waits, Settles
  <2>6. (Judged(p, t) \cap Placed(t))'
          = (Judged(p, t) \cap Placed(t)) \cup scans(seen(p, t))
    <3>1. Placed(t)' = Placed(t)
      BY <1>1 DEF Placed
    <3>2. scans(now(p, t)) \cap Placed(t) = scans(seen(p, t))
      BY DEF Placed, Available, AuditInv, PendingInv
    <3> HIDE DEF now, seen, scans
    <3>3. QED
      BY <2>4, <3>1, <3>2
  <2>7. (Judged(p, t) \cap Placed(t)) \cap scans(seen(p, t)) = {}
    BY DEF Judged, Waits, Settles
  <2>8. /\ IsFiniteSet(Judged(p, t)) /\ IsFiniteSet(Judged(p, t) \cap Placed(t))
    BY JudgedFinite DEF AuditInv
  <2> HIDE DEF now, seen, scans
  <2>9. /\ Cardinality(Judged(p, t)')
             = Cardinality(Judged(p, t)) + Cardinality(now(p, t))
        /\ Cardinality((Judged(p, t) \cap Placed(t))')
             = Cardinality(Judged(p, t) \cap Placed(t)) + Cardinality(seen(p, t))
    BY <2>2, <2>4, <2>5, <2>6, <2>7, <2>8, Disjoint
  <2>10. /\ Cardinality(Judged(p, t)) \in Nat
         /\ Cardinality(Judged(p, t) \cap Placed(t)) \in Nat
    BY <2>8, FS_CardinalityType
  <2>11. /\ counts[p][t].checked \in Nat /\ counts[p][t].good \in Nat
         /\ counts[p][t].checked = Cardinality(Judged(p, t))
         /\ counts[p][t].good <= Cardinality(Judged(p, t) \cap Placed(t))
    BY DEF AuditInv, CountInv
  <2>12. QED
    BY <2>2, <2>9, <2>10, <2>11
<1>7. CountInv'
  <2> HIDE DEF now, seen
  <2>1. counts' \in [Phases -> [Targets -> [checked : Nat, good : Nat]]]
    BY <1>1, <1>6
  <2>2. \A p \in Phases, t \in Targets :
          /\ counts'[p][t].checked = counts[p][t].checked + Cardinality(now(p, t))
          /\ counts'[p][t].good = counts[p][t].good + Cardinality(seen(p, t))
    BY <1>1
  <2>3. QED
    BY <1>6, <2>1, <2>2 DEF CountInv
<1>8. IssueInv'
  BY <1>1 DEF AuditInv, IssueInv
<1>9. QED
  BY <1>4, <1>7, <1>8 DEF AuditInv

LEMMA TfKeeps ==
  ASSUME AuditInv, NEW s, NEW t \in Targets, TfArrives(s, t)
  PROVE  AuditInv'
<1>1. /\ buffer \subseteq buffer' /\ issue = "none" /\ audit' = audit
      /\ pending' = pending /\ counts' = counts /\ taken' = taken /\ issue' = issue
  BY DEF TfArrives
<1>2. PendingInv' /\ IssueInv'
  BY <1>1 DEF AuditInv, PendingInv, IssueInv
<1>3. ASSUME NEW p \in Phases, NEW u \in Targets
      PROVE  /\ Judged(p, u)' = Judged(p, u)
             /\ Cardinality(Judged(p, u) \cap Placed(u))
                  <= Cardinality((Judged(p, u) \cap Placed(u))')
             /\ Cardinality(Judged(p, u) \cap Placed(u)) \in Nat
             /\ Cardinality((Judged(p, u) \cap Placed(u))') \in Nat
  <2>1. Judged(p, u)' = Judged(p, u)
    BY <1>1 DEF Judged, Received, Waits
  <2>2. Judged(p, u) \cap Placed(u) \in SUBSET ((Judged(p, u) \cap Placed(u))')
    BY <1>1, <2>1 DEF Placed
  <2>3. IsFiniteSet(Judged(p, u)) /\ IsFiniteSet(Judged(p, u) \cap Placed(u))
    BY JudgedFinite DEF AuditInv
  <2>4. IsFiniteSet((Judged(p, u) \cap Placed(u))')
    <3>1. (Judged(p, u) \cap Placed(u))' \in SUBSET Judged(p, u)
      BY <2>1
    <3>2. QED
      BY <2>3, <3>1, FS_Subset
  <2>5. QED
    BY <2>1, <2>2, <2>3, <2>4, FS_Subset, FS_CardinalityType
<1>4. CountInv'
  <2>1. counts' \in [Phases -> [Targets -> [checked : Nat, good : Nat]]]
    BY <1>1 DEF AuditInv, CountInv
  <2>2. ASSUME NEW p \in Phases, NEW u \in Targets
        PROVE  /\ counts'[p][u].checked = Cardinality(Judged(p, u)')
               /\ counts'[p][u].good <= Cardinality((Judged(p, u) \cap Placed(u))')
    <3>1. /\ counts[p][u].good \in Nat
          /\ counts[p][u].checked = Cardinality(Judged(p, u))
          /\ counts[p][u].good <= Cardinality(Judged(p, u) \cap Placed(u))
      BY DEF AuditInv, CountInv
    <3> DEFINE new == Cardinality((Judged(p, u) \cap Placed(u))')
               old == Cardinality(Judged(p, u) \cap Placed(u))
    <3>2. old \in Nat /\ new \in Nat /\ old <= new /\ Judged(p, u)' = Judged(p, u)
      BY <1>3
    <3>3. counts' = counts
      BY <1>1
    <3>4. counts[p][u].good <= old
      BY <3>1
    <3> HIDE DEF old, new
    <3>5. counts[p][u].good <= new
      BY <3>1, <3>2, <3>4
    <3>6. QED
      BY <3>1, <3>2, <3>3, <3>5 DEF new
  <2>3. QED
    BY <2>1, <2>2 DEF CountInv
<1>5. QED
  BY <1>2, <1>4 DEF AuditInv

\* A step that leaves scans, counts and transforms alone.
LEMMA CountsKeep ==
  ASSUME AuditInv, UNCHANGED <<pending, counts, buffer, taken>>
  PROVE  PendingInv' /\ CountInv'
<1>1. PendingInv'
  BY DEF AuditInv, PendingInv
<1>2. \A p \in Phases, t \in Targets :
        Judged(p, t)' = Judged(p, t) /\ Placed(t)' = Placed(t)
  BY DEF Judged, Received, Waits, Placed
<1>3. QED
  BY <1>1, <1>2 DEF AuditInv, CountInv

LEMMA AuditStep == AuditInv /\ (AuditNext \/ UNCHANGED AuditVars) => AuditInv'
<1> SUFFICES ASSUME AuditInv, AuditNext \/ UNCHANGED AuditVars PROVE AuditInv'
  OBVIOUS
<1>1. CASE UNCHANGED AuditVars
  BY <1>1, CountsKeep DEF AuditVars, AuditInv, IssueInv
<1>2. ASSUME NEW stamp, OnOdometry(stamp) PROVE AuditInv'
  BY <1>2, CountsKeep DEF OnOdometry, AuditInv, IssueInv
<1>3. CASE Process
  BY <1>3, ProcessKeeps
<1>4. CASE WindowEnds
  BY <1>4, CountsKeep DEF WindowEnds, AuditInv, IssueInv
<1>5. CASE Reports
  <2>1. IssueInv'
    BY <1>5 DEF Reports, AuditInv, IssueInv
  <2>2. QED
    BY <1>5, <2>1, CountsKeep DEF Reports, AuditInv
<1>6. CASE AuditClock
  BY <1>6, CountsKeep DEF AuditClock, AuditInv, IssueInv
<1>7. ASSUME NEW s, OnScan(s) PROVE AuditInv'
  BY <1>7, ScanKeeps
<1>8. ASSUME NEW s, NEW t \in Targets, TfArrives(s, t) PROVE AuditInv'
  BY <1>8, TfKeeps
<1>9. CASE ShutDown
  BY <1>9, CountsKeep DEF ShutDown, AuditInv, IssueInv
<1>10. QED
  BY <1>1, <1>2, <1>3, <1>4, <1>5, <1>6, <1>7, <1>8, <1>9 DEF AuditNext

LEMMA AuditInvariant == Spec => []AuditInv
<1>1. Init => AuditInv
  BY AuditInitInv DEF Init
<1>2. [Next]_vars => AuditNext \/ UNCHANGED AuditVars
  BY DEF Next, vars
<1>3. QED
  BY <1>1, <1>2, AuditStep, PTL DEF Spec

-----------------------------------------------------------------------------
(* Types *)

LEMMA OdomTypesInit == OdomInit => OdomTypeOK
<1> SUFFICES ASSUME OdomInit PROVE OdomTypeOK
  OBVIOUS
<1>1. odom = [last |-> 0, previous |-> [stamp |-> 0, place |-> 0], filter |-> {}]
  BY DEF OdomInit, NoSample
<1>2. QED
  BY <1>1, FieldConstants DEF OdomTypeOK

LEMMA OdomTypesKeep ==
  ASSUME ros \in 1 .. MaxRos, TwistInv, OdomTypeOK, OdomNext \/ UNCHANGED OdomVars
  PROVE  OdomTypeOK'
<1>1. CASE UNCHANGED <<odom, twists>>
  BY <1>1 DEF OdomTypeOK
<1>2. ASSUME NEW stamp \in 0 .. MaxRos + 1, NEW place \in OdomPlaces,
             NEW usable \in BOOLEAN,
             OdomCallback([stamp |-> stamp, place |-> place], usable)
      PROVE  OdomTypeOK'
  <2> DEFINE packet == [stamp |-> stamp, place |-> place]
             now == [Baseline EXCEPT !.last = ros]
             stretch == IF NewStretch(packet) THEN 1 - twists.stretch ELSE twists.stretch
             typed(s) == /\ s.last \in 0 .. MaxRos /\ s.filter \subseteq {0, 1}
                         /\ s.previous.stamp \in 0 .. MaxRos + 1
                         /\ s.previous.place \in OdomPlaces \cup {0}
             known(s) == s = [last |-> s.last, previous |-> s.previous, filter |-> s.filter]
  <2>1. typed(odom) /\ known(odom)
    BY DEF OdomTypeOK, TwistInv, Adapter
  <2>2. /\ packet.stamp \in 0 .. MaxRos + 1 /\ packet.place \in OdomPlaces \cup {0}
    OBVIOUS
  <2>3. NoSample.stamp \in 0 .. MaxRos + 1 /\ NoSample.place \in OdomPlaces \cup {0}
    BY FieldConstants DEF NoSample
  <2>4. typed(Baseline) /\ known(Baseline)
    <3> HIDE DEF NoSample
    <3>1. QED
      BY <2>1, <2>3 DEF Baseline
  <2>5. ros \in 0 .. MaxRos
    BY FieldConstants
  <2>6. typed(now) /\ known(now)
    BY <2>4, <2>5
  <2>7. stretch \in {0, 1}
    BY DEF TwistInv
  <2> HIDE DEF now, stretch, packet
  <2>8. typed(Update(now, packet, stretch))
    <3>1. Update(now, packet, stretch) \in
            {now, [now EXCEPT !.previous = packet, !.filter = {}],
             [now EXCEPT !.previous = packet, !.filter = now.filter \cup {stretch}]}
      BY DEF Update, Rejected, Broken
    <3>2. typed([now EXCEPT !.previous = packet, !.filter = {}])
      BY <2>2, <2>6
    <3>3. typed([now EXCEPT !.previous = packet, !.filter = now.filter \cup {stretch}])
      <4>1. now.filter \cup {stretch} \subseteq {0, 1}
        BY <2>6, <2>7
      <4>2. QED
        BY <2>2, <2>6, <4>1
    <3> HIDE DEF typed
    <3>4. QED
      BY <2>6, <3>1, <3>2, <3>3
  <2>9. odom' \in {now, Update(now, packet, stretch)}
    BY <1>2 DEF OdomCallback, now, stretch, packet
  <2>10. typed(odom')
    BY <2>6, <2>8, <2>9
  <2>11. QED
    BY <2>10 DEF OdomTypeOK
<1>3. QED
  BY <1>1, <1>2 DEF OdomNext, OdomClock, OdomVars

LEMMA RelayTypesInit == RelayInit => RelayTypeOK
BY FieldConstants DEF RelayInit, RelayTypeOK

LEMMA RelayTypesKeep ==
  ASSUME ros \in 1 .. MaxRos, RelayTypeOK, RelayNext \/ UNCHANGED RelayVars
  PROVE  RelayTypeOK'
<1> DEFINE Typed == [count : {0, 1}, stamp : 0 .. MaxRos + 1,
                     receipt : 0 .. RelaySilence + 1, last : 0 .. MaxRos,
                     valid : BOOLEAN, stampBack : BOOLEAN, clockBack : BOOLEAN]
<1>1. /\ health \in Typed /\ verdict \in Reasons \cup {"none"}
      /\ MaxRos \in Nat /\ RelaySilence \in Nat /\ ros \in 0 .. MaxRos
  BY FieldConstants DEF RelayTypeOK
<1>2. CASE UNCHANGED RelayVars
  BY <1>2 DEF RelayVars, RelayTypeOK
<1>3. ASSUME NEW stamp \in 0 .. MaxRos + 1, NEW header \in BOOLEAN,
             RelayCallback(stamp, header)
      PROVE  RelayTypeOK'
  <2> DEFINE clock == ClockWentBack
             back == health.count > 0 /\ header /\ health.valid /\ stamp < health.stamp
             valid == header /\ stamp > 0
  <2>1. health' = [count |-> 1, stamp |-> stamp, receipt |-> 0, last |-> ros,
                   valid |-> valid, clockBack |-> clock, stampBack |-> back]
    BY <1>3 DEF RelayCallback, Observe
  <2>2. clock \in BOOLEAN /\ back \in BOOLEAN /\ valid \in BOOLEAN
    BY DEF ClockWentBack
  <2> HIDE DEF clock, back, valid
  <2>3. health' \in Typed
    BY <1>1, <2>1, <2>2
  <2>4. verdict' = verdict
    BY <1>3 DEF RelayCallback
  <2>5. QED
    BY <1>1, <2>3, <2>4 DEF RelayTypeOK
<1>4. CASE RelayTimer
  <2>1. Reason \in Reasons
    BY DEF Reason, Reasons
  <2>2. QED
    BY <1>1, <1>4, <2>1 DEF RelayTimer, RelayTypeOK
<1>5. CASE RelayClock
  <2> DEFINE receipt == IF health.count > 0 /\ health.receipt <= RelaySilence
                        THEN health.receipt + 1 ELSE health.receipt
  <2>1. health' = [health EXCEPT !.receipt = receipt] /\ verdict' = verdict
    BY <1>5 DEF RelayClock
  <2>2. receipt \in 0 .. RelaySilence + 1
    BY <1>1
  <2> HIDE DEF receipt
  <2>3. health' \in Typed
    BY <1>1, <2>1, <2>2
  <2>4. QED
    BY <1>1, <2>1, <2>3 DEF RelayTypeOK
<1>6. QED
  BY <1>2, <1>3, <1>4, <1>5 DEF RelayNext

LEMMA CheckTypesInit == CheckInit => CheckTypeOK
<1>1. Never \in Nat /\ CheckTimeout \in Nat /\ CheckMaxRos \in Nat
  BY CheckConstants, CheckAssumption DEF CheckAssumption
<1>2. QED
  BY <1>1 DEF CheckInit, CheckTypeOK, NoQuery, NoMeasurement

\* Ages stay below Never, as every limit does.
LEMMA AgesAreBounded ==
  /\ \A age \in 0 .. Never :
       /\ Aged(age, QueryLimit + QueryRetry) \in 0 .. Never
       /\ Aged(age, ValueAge) \in 0 .. Never
       /\ Aged(age, MostIdle) \in 0 .. Never
       /\ age < SampleAge => age + 1 \in 0 .. Never
BY CheckAssumption DEF CheckAssumption, Aged, Never, MostIdle

LEMMA CheckTypesKeep ==
  ASSUME CheckInv, CheckTypeOK, sample = [stamp |-> sample.stamp, receipt |-> sample.receipt],
         CheckNext \/ UNCHANGED CheckVars
  PROVE  CheckTypeOK' /\ sample' = [stamp |-> sample'.stamp, receipt |-> sample'.receipt]
<1> DEFINE Futures == {"none", "pending", "up", "down", "active", "inactive", "failed"}
           Typed == [future : Futures, sent : 0 .. Never, received : 0 .. Never,
                     value : BOOLEAN]
           Samples == [stamp : 0 .. CheckMaxRos, receipt : 0 .. Never]
<1>1. /\ queries \in [Asked -> Typed] /\ nodes.idle \in [Asked -> 0 .. Never]
      /\ nodes.active \in [Asked -> BOOLEAN]
      /\ nodes = [active |-> nodes.active, idle |-> nodes.idle, unready |-> nodes.unready]
      /\ sample \in Samples
      /\ check.code \in {"running", "ready", "timed_out"}
      /\ check.elapsed \in 0 .. CheckTimeout
      /\ check = [last |-> check.last, since |-> check.since, code |-> check.code,
                  elapsed |-> check.elapsed]
  BY DEF CheckInv, CheckTypes, CheckTypeOK, Query
<1>2. /\ Never \in Nat /\ CheckTimeout \in Nat /\ CheckMaxRos \in Nat /\ QueryLimit \in Nat
  BY CheckConstants, CheckAssumption DEF CheckAssumption
<1>3. \A n \in Asked : queries'[n].future # "none" => queries'[n].sent <= QueryLimit + 1
  <2>1. CheckInv'
    BY CheckStep, CheckUnchanged
  <2>2. QED
    BY <2>1 DEF CheckInv, QueryInv
<1>4. SUFFICES /\ queries' \in [Asked -> Typed] /\ nodes'.idle \in [Asked -> 0 .. Never]
               /\ sample' \in Samples
               /\ check'.code \in {"running", "ready", "timed_out"}
               /\ check'.elapsed \in 0 .. CheckTimeout
  BY <1>3 DEF CheckTypeOK
<1>5. CASE UNCHANGED CheckVars
  BY <1>1, <1>5 DEF CheckVars
<1>6. CASE PollQueries
  <2>1. PICK ready \in SUBSET Asked :
          queries' = [n \in Asked |-> Sent(Settled(queries[n]), n \in ready)]
    BY <1>6 DEF PollQueries
  <2>2. \A q \in Typed : Settled(q) \in Typed
    <3>1. TAKE q \in Typed
    <3>2. CASE q.future \in {"active", "inactive"}
      <4> DEFINE found == (q.future = "active")
      <4>1. Settled(q) = [q EXCEPT !.future = "none", !.value = found, !.received = 0]
        BY <3>2 DEF Settled, Overdue
      <4>2. found \in BOOLEAN
        OBVIOUS
      <4> HIDE DEF found
      <4>3. 0 \in 0 .. Never
        BY <1>2
      <4>4. [q EXCEPT !.future = "none", !.value = found, !.received = 0] \in Typed
        BY <4>2, <4>3
      <4>5. QED
        BY <4>1, <4>4
    <3>3. CASE q.future = "failed" \/ Overdue(q)
      <4>1. Settled(q) = [q EXCEPT !.future = "none", !.value = FALSE]
        BY <3>3 DEF Settled, Overdue
      <4>2. QED
        BY <4>1
    <3>4. CASE q.future \in {"none", "pending", "up", "down"} /\ ~Overdue(q)
      <4>1. Settled(q) = q
        BY <3>4 DEF Settled
      <4>2. QED
        BY <4>1
    <3>5. QED
      BY <3>2, <3>3, <3>4
  <2>3. \A q \in Typed : \A yes : Sent(q, yes) \in Typed
    <3>1. TAKE q \in Typed
    <3>2. TAKE yes
    <3>3. Sent(q, yes) \in {q, [q EXCEPT !.future = "pending", !.sent = 0]}
      BY DEF Sent
    <3>4. 0 \in 0 .. Never
      BY <1>2
    <3>5. [q EXCEPT !.future = "pending", !.sent = 0] \in Typed
      BY <3>4
    <3>6. QED
      BY <3>3, <3>5
  <2> HIDE DEF Typed
  <2>4. queries' \in [Asked -> Typed]
    BY <1>1, <2>1, <2>2, <2>3
  <2>5. QED
    BY <1>1, <1>6, <2>4 DEF PollQueries
<1>7. ASSUME NEW n \in Asked, Answer(n)
      PROVE  /\ queries' \in [Asked -> Typed] /\ nodes' = nodes /\ sample' = sample
             /\ check' = check
  <2>1. PICK next \in Futures : queries' = [queries EXCEPT ![n].future = next]
    BY <1>1, <1>7 DEF Answer
  <2>2. [queries[n] EXCEPT !.future = next] \in Typed
    BY <1>1
  <2>3. queries' = [queries EXCEPT ![n] = [queries[n] EXCEPT !.future = next]]
    BY <2>1
  <2> HIDE DEF Typed
  <2>4. queries' \in [Asked -> Typed]
    BY <1>1, <2>2, <2>3
  <2>5. QED
    BY <1>7, <2>4 DEF Answer
<1>8. ASSUME NEW n \in Asked, NodeTurns(n)
      PROVE  /\ nodes'.idle \in [Asked -> 0 .. Never] /\ queries' = queries
             /\ sample' = sample /\ check' = check
  <2>1. nodes'.idle = [nodes.idle EXCEPT ![n] = 0]
    BY <1>1, <1>8 DEF NodeTurns
  <2>2. QED
    BY <1>1, <1>2, <1>8, <2>1 DEF NodeTurns
<1>9. ASSUME NEW stamp \in 0 .. CheckMaxRos, OnSample(stamp)
      PROVE  sample' \in Samples /\ queries' = queries /\ nodes' = nodes /\ check' = check
  BY <1>2, <1>9 DEF OnSample
<1>10. NoMeasurement \in Samples
  BY <1>2 DEF NoMeasurement
<1>11. ASSUME NEW others, Report(others)
       PROVE  /\ sample' \in Samples /\ queries' = queries /\ nodes'.idle = nodes.idle
              /\ check'.code \in {check.code, "ready"} /\ check'.elapsed = check.elapsed
  <2>1. sample' \in {sample, NoMeasurement} /\ queries' = queries
    BY <1>11 DEF Report
  <2> DEFINE measured == IF check.last > 0 /\ ros < check.last THEN NoMeasurement
                         ELSE sample
             ready == /\ Fresh(measured) /\ others
                      /\ \A n \in Asked : ValueActive(n)
             since == CASE ~ready -> Cleared(check.since)
                        [] ready /\ check.since = Never -> 0
                        [] OTHER -> check.since
  <2>2. /\ check' = [check EXCEPT !.last = ros, !.since = since,
                       !.code = IF ready /\ since >= SettleTime THEN "ready" ELSE @]
        /\ nodes' = [nodes EXCEPT !.unready = IF ready THEN @ ELSE 0]
    BY <1>11 DEF Report
  <2> HIDE DEF ready, since
  <2>3. QED
    BY <1>1, <1>10, <2>1, <2>2
<1>12. CASE TimedOut
  <2>1. /\ check' = [check EXCEPT !.code = "timed_out"]
        /\ queries' = queries /\ sample' = sample /\ nodes' = nodes
    BY <1>12 DEF TimedOut
  <2>2. check'.code = "timed_out" /\ check'.elapsed = check.elapsed
    BY <1>1, <2>1
  <2>3. QED
    BY <1>1, <2>1, <2>2
<1>13. CASE CheckClock
  <2> DEFINE sent == Aged(0, 0)
  <2>1. /\ check.elapsed < CheckTimeout
        /\ queries' = [n \in Asked |-> [queries[n] EXCEPT
                         !.sent = Aged(queries[n].sent, QueryLimit + QueryRetry),
                         !.received = Aged(queries[n].received, ValueAge)]]
        /\ sample' = IF sample.receipt < SampleAge
                     THEN [sample EXCEPT !.receipt = sample.receipt + 1]
                     ELSE NoMeasurement
        /\ check' = [check EXCEPT !.since = Aged(check.since, CheckTimeout),
                                  !.elapsed = check.elapsed + 1]
        /\ nodes' = [nodes EXCEPT
             !.idle = [n \in Asked |-> IF nodes.active[n] THEN 0
                                       ELSE Aged(nodes.idle[n], MostIdle)],
             !.unready = Aged(nodes.unready, SettleTime)]
    BY <1>13 DEF CheckClock
  <2>2. queries' \in [Asked -> Typed]
    <3>1. ASSUME NEW q \in Typed, NEW s \in 0 .. Never, NEW r \in 0 .. Never
          PROVE  [q EXCEPT !.sent = s, !.received = r] \in Typed
      OBVIOUS
    <3>2. \A q \in Typed : /\ Aged(q.sent, QueryLimit + QueryRetry) \in 0 .. Never
                           /\ Aged(q.received, ValueAge) \in 0 .. Never
      BY AgesAreBounded
    <3> HIDE DEF Typed
    <3>3. QED
      BY <1>1, <2>1, <3>1, <3>2
  <2>3. sample' \in Samples
    <3>1. CASE sample.receipt < SampleAge
      <4>1. sample.receipt + 1 \in 0 .. Never
        BY <1>1, <3>1, AgesAreBounded
      <4>2. QED
        BY <1>1, <2>1, <3>1, <4>1
    <3>2. QED
      BY <1>10, <2>1, <3>1
  <2>4. check'.code = check.code /\ check'.elapsed \in 0 .. CheckTimeout
    <3>1. check'.code = check.code /\ check'.elapsed = check.elapsed + 1
      BY <1>1, <2>1
    <3>2. check.elapsed \in 0 .. CheckTimeout /\ check.elapsed < CheckTimeout
      BY <1>1, <2>1
    <3>3. check.elapsed + 1 \in 0 .. CheckTimeout
      BY <1>2, <3>2
    <3>4. QED
      BY <3>1, <3>3
  <2>5. nodes'.idle \in [Asked -> 0 .. Never]
    <3>1. nodes'.idle = [n \in Asked |-> IF nodes.active[n] THEN 0
                                         ELSE Aged(nodes.idle[n], MostIdle)]
      BY <1>1, <2>1
    <3>2. \A n \in Asked : Aged(nodes.idle[n], MostIdle) \in 0 .. Never
      BY <1>1, AgesAreBounded
    <3>3. QED
      BY <1>2, <3>1, <3>2
  <2>6. QED
    BY <1>1, <2>2, <2>3, <2>4, <2>5
<1>14. QED
  BY <1>1, <1>5, <1>6, <1>7, <1>8, <1>9, <1>11, <1>12, <1>13 DEF CheckNext

LEMMA RecordTypesKeep ==
  ASSUME RecordInv, RecordInv', RecordingTypeOK, RecordingNext \/ UNCHANGED RecordingVars
  PROVE  RecordingTypeOK'
<1>1. cancels' = cancels \/ (cancels < MaxInterrupts /\ cancels' = cancels + 1)
  <2>1. CASE StartsCapture
    BY <2>1 DEF StartsCapture
  <2>2. CASE CaptureEnds
    BY <2>2 DEF CaptureEnds
  <2>3. CASE CaptureTimesOut
    BY <2>3 DEF CaptureTimesOut
  <2>4. CASE BagStarts
    BY <2>4 DEF BagStarts
  <2>5. CASE BagStops
    BY <2>5 DEF BagStops
  <2>6. CASE BagEnds
    BY <2>6 DEF BagEnds
  <2>7. CASE BagTimesOut
    BY <2>7 DEF BagTimesOut
  <2>8. CASE MetadataError
    BY <2>8 DEF MetadataError
  <2>9. CASE Closes
    BY <2>9 DEF Closes
  <2>10. CASE Summarizes
    BY <2>10 DEF Summarizes
  <2>11. CASE Finishes
    BY <2>11 DEF Finishes
  <2>12. CASE Interrupt
    BY <2>12 DEF Interrupt
  <2>13. CASE \E c \in Children : ChildEnds(c)
    BY <2>13 DEF ChildEnds
  <2>14. CASE UNCHANGED RecordingVars
    BY <2>14 DEF RecordingVars
  <2>15. QED
    BY <2>1, <2>2, <2>3, <2>4, <2>5, <2>6, <2>7, <2>8, <2>9, <2>10, <2>11, <2>12,
       <2>13, <2>14 DEF RecordingNext
<1>2. cancels' \in 0 .. MaxInterrupts
  BY <1>1, RecordingAssumption DEF RecordingAssumption, RecordingTypeOK
<1>3. QED
  BY <1>2 DEF RecordInv, RecordTypes, RecordingTypeOK

\* The audit's clock stays within its own bound.
FieldTypes ==
  /\ TypeOK
  /\ part = "audit" => ros <= AuditMaxRos
  /\ sample = [stamp |-> sample.stamp, receipt |-> sample.receipt]

LEMMA FieldTypesInit == Init => FieldTypes
<1> SUFFICES ASSUME Init PROVE FieldTypes
  OBVIOUS
<1>1. ros = 1 /\ ros \in 1 .. MaxRos /\ ros <= AuditMaxRos
  BY FieldConstants, AuditAssumption DEF Init, OdomInit, RosInit, AuditAssumption
<1>2. OdomTypeOK /\ RelayTypeOK /\ CheckTypeOK
  BY OdomTypesInit, RelayTypesInit, CheckTypesInit DEF Init
<1>3. PatchTypeOK
  BY DEF Init, PatchInit, PatchTypeOK
<1>4. RecordingTypeOK
  BY RecordingAssumption DEF Init, RecordingInit, RecordingTypeOK, RecordingAssumption
<1>5. AuditTypeOK
  <2>1. /\ audit.elapsed = 0 /\ audit.last = 0 /\ pending = {} /\ issue = "none"
    BY DEF Init, AuditInit
  <2>2. QED
    BY <2>1, AuditAssumption DEF AuditTypeOK, AuditAssumption
<1>6. sample = [stamp |-> sample.stamp, receipt |-> sample.receipt]
  BY DEF Init, CheckInit, NoMeasurement
<1>7. QED
  BY <1>1, <1>2, <1>3, <1>4, <1>5, <1>6 DEF FieldTypes, TypeOK

LEMMA AuditTypesKeep ==
  ASSUME ros \in 1 .. AuditMaxRos, AuditInv', AuditInv, AuditTypeOK,
         AuditNext \/ UNCHANGED AuditVars
  PROVE  AuditTypeOK'
<1>1. /\ Duration \in Nat /\ TfGrace \in Nat /\ AuditMaxRos \in Nat
      /\ audit = [elapsed |-> audit.elapsed, until |-> audit.until, last |-> audit.last,
                  accept |-> audit.accept, ok |-> audit.ok, odom |-> audit.odom]
      /\ audit.elapsed \in 0 .. Duration + TfGrace /\ audit.last \in 0 .. AuditMaxRos
      /\ issue \in {"none", "clean", "issue"}
  BY AuditAssumption DEF AuditAssumption, AuditInv, IssueInv, AuditTypeOK
<1>2. \A e \in pending' : e.scan \in DOMAIN taken' /\ e.targets \subseteq Targets
  BY DEF AuditInv, PendingInv
<1>3. SUFFICES /\ audit'.elapsed \in 0 .. Duration + TfGrace
               /\ audit'.last \in 0 .. AuditMaxRos
               /\ issue' \in {"none", "clean", "issue"}
  BY <1>2 DEF AuditTypeOK
<1>4. ASSUME NEW until, NEW odometry,
             \/ audit' = [audit EXCEPT !.until = until, !.last = ros, !.odom = odometry]
             \/ audit' = [audit EXCEPT !.until = until, !.last = ros]
      PROVE  audit'.elapsed = audit.elapsed /\ audit'.last = ros
  BY <1>1, <1>4
<1>5. ASSUME NEW stamp, OnOdometry(stamp)
      PROVE  audit'.elapsed = audit.elapsed /\ audit'.last = ros /\ issue' = issue
  BY <1>4, <1>5 DEF OnOdometry
<1>6. ASSUME NEW s, OnScan(s)
      PROVE  audit'.elapsed = audit.elapsed /\ audit'.last = ros /\ issue' = issue
  BY <1>4, <1>6 DEF OnScan
<1>7. CASE UNCHANGED <<audit, issue>>
  BY <1>1, <1>7
<1>8. CASE WindowEnds
  <2>1. audit' = [audit EXCEPT !.accept = FALSE] /\ issue' = issue
    BY <1>8 DEF WindowEnds
  <2>2. audit'.elapsed = audit.elapsed /\ audit'.last = audit.last
    BY <1>1, <2>1
  <2>3. QED
    BY <1>1, <2>1, <2>2
<1>9. CASE Reports
  BY <1>1, <1>9 DEF Reports
<1>10. CASE AuditClock
  <2>1. /\ audit' = [audit EXCEPT !.elapsed = audit.elapsed + 1] /\ issue' = issue
        /\ audit.elapsed < Duration + TfGrace
    BY <1>10 DEF AuditClock
  <2>2. audit'.elapsed = audit.elapsed + 1 /\ audit'.last = audit.last
    BY <1>1, <2>1
  <2>3. QED
    BY <1>1, <2>1, <2>2
<1>11. CASE ShutDown
  <2>1. audit' = [audit EXCEPT !.ok = FALSE] /\ issue' = issue
    BY <1>11 DEF ShutDown
  <2>2. audit'.elapsed = audit.elapsed /\ audit'.last = audit.last
    BY <1>1, <2>1
  <2>3. QED
    BY <1>1, <2>1, <2>2
<1>12. CASE Process \/ \E s \in Scans, t \in Targets : TfArrives(s, t)
  BY <1>7, <1>12 DEF Process, TfArrives
<1>13. ros \in 0 .. AuditMaxRos
  BY <1>1
<1>14. CASE \E stamp \in 1 .. AuditMaxRos : OnOdometry(stamp)
  BY <1>1, <1>5, <1>13, <1>14
<1>15. CASE \E s \in Scans : OnScan(s)
  BY <1>1, <1>6, <1>13, <1>15
<1>16. CASE UNCHANGED AuditVars
  BY <1>7, <1>16 DEF AuditVars
<1>17. QED
  BY <1>8, <1>9, <1>10, <1>11, <1>12, <1>14, <1>15, <1>16 DEF AuditNext

LEMMA RosTypesKeep ==
  ASSUME ros \in 1 .. MaxRos, part = "audit" => ros <= AuditMaxRos, [Next]_vars
  PROVE  ros' \in 1 .. MaxRos /\ (part' = "audit" => ros' <= AuditMaxRos)
<1>1. CASE ros' = ros
  BY <1>1 DEF Next, vars
<1>2. CASE ros' # ros
  <2>1. part' = part /\ Next
    BY <1>2 DEF Next, vars
  <2>2. RosMoves => ros' \in 1 .. MaxRos
    BY DEF RosMoves
  <2>3. part = "odometry" /\ OdomNext => RosMoves
    BY <1>2 DEF OdomNext, OdomCallback, OdomClock
  <2>4. part = "relay" /\ RelayNext => RosMoves
    BY <1>2 DEF RelayNext, RelayCallback, RelayTimer, RelayClock
  <2>5. part = "patch" /\ PatchNext => RosMoves
    BY <1>2 DEF PatchNext, CostmapCallback, Publish, PatchClock
  <2>6. part = "readiness" /\ CheckNext => RosMoves
    BY <1>2 DEF CheckNext, PollQueries, Answer, NodeTurns, OnSample, Report, TimedOut,
                CheckClock
  <2>7. part = "audit" /\ AuditNext => RosMoves /\ ros' <= AuditMaxRos
    BY <1>2 DEF AuditNext, OnOdometry, OnScan, TfArrives, Process, WindowEnds, Reports,
                ShutDown, AuditClock
  <2>8. RosMoves /\ (part = "audit" => ros' <= AuditMaxRos)
    <3>1. CASE part = "audit"
      BY <2>1, <2>7, <3>1 DEF Next
    <3>2. CASE part # "audit"
      BY <1>2, <2>1, <2>3, <2>4, <2>5, <2>6, <3>2 DEF Next
    <3>3. QED
      BY <3>1, <3>2
  <2>9. QED
    BY <2>1, <2>2, <2>8
<1>3. QED
  BY <1>1, <1>2

LEMMA FieldTypesKeep ==
  FieldInv /\ FieldInv' /\ AuditInv /\ AuditInv' /\ PatchInv' /\ FieldTypes /\ [Next]_vars
    => FieldTypes'
<1> SUFFICES ASSUME FieldInv, FieldInv', AuditInv, AuditInv', PatchInv', FieldTypes,
                    [Next]_vars
             PROVE  FieldTypes'
  OBVIOUS
<1>1. /\ OdomNext \/ UNCHANGED OdomVars
      /\ RelayNext \/ UNCHANGED RelayVars
      /\ CheckNext \/ UNCHANGED CheckVars
      /\ RecordingNext \/ UNCHANGED RecordingVars
      /\ (part = "audit" /\ AuditNext) \/ UNCHANGED AuditVars
  BY DEF Next, vars
<1>2. /\ ros \in 1 .. MaxRos /\ (part = "audit" => ros <= AuditMaxRos)
      /\ OdomTypeOK /\ RelayTypeOK /\ CheckTypeOK /\ RecordingTypeOK /\ AuditTypeOK
      /\ sample = [stamp |-> sample.stamp, receipt |-> sample.receipt]
  BY DEF FieldTypes, TypeOK
<1>3. TwistInv /\ CheckInv /\ RecordInv /\ RecordInv'
  BY DEF FieldInv
<1>4. OdomTypeOK' /\ RelayTypeOK'
  BY <1>1, <1>2, <1>3, OdomTypesKeep, RelayTypesKeep
<1>5. CheckTypeOK' /\ sample' = [stamp |-> sample'.stamp, receipt |-> sample'.receipt]
  BY <1>1, <1>2, <1>3, CheckTypesKeep
<1>6. RecordingTypeOK'
  BY <1>1, <1>2, <1>3, RecordTypesKeep
<1>7. PatchTypeOK'
  <2>1. \A grid : Drawn(grid).grid = grid /\ [grid |-> grid, data |-> <<>>].grid = grid
    BY DEF Drawn
  <2>2. (costmap = NoCostmap \/ costmap.grid \in Sources)'
    BY <2>1 DEF PatchInv
  <2>3. QED
    BY <2>2 DEF PatchInv, PatchTypeOK
<1>8. AuditTypeOK'
  <2>1. CASE UNCHANGED AuditVars
    BY <1>2, <2>1 DEF AuditVars, AuditTypeOK
  <2>2. CASE part = "audit" /\ AuditNext
    <3>1. ros \in 1 .. AuditMaxRos
      BY <1>2, <2>2, FieldConstants, AuditAssumption DEF AuditAssumption
    <3>2. QED
      BY <1>2, <2>2, <3>1, AuditTypesKeep
  <2>3. QED
    BY <1>1, <2>1, <2>2
<1>9. ros' \in 1 .. MaxRos /\ (part' = "audit" => ros' <= AuditMaxRos)
  BY <1>2, RosTypesKeep
<1>10. QED
  BY <1>4, <1>5, <1>6, <1>7, <1>8, <1>9 DEF FieldTypes, TypeOK

-----------------------------------------------------------------------------
(* What it gives *)

\* No twist the odometry adapter publishes mixes two stretches of motion.
THEOREM TwistsAreUnmixed == Spec => []TwistIsOneStretch
<1>1. FieldInv => TwistIsOneStretch
  BY DEF FieldInv, TwistInv, TwistIsOneStretch
<1>2. QED
  BY <1>1, FieldInvariant, PTL

\* The stamps of the odometry it publishes increase between clock steps.
THEOREM StampsGoForward == Spec => StampsIncrease
<1>1. FieldInv /\ [Next]_vars
        => [twists'.stamp # twists.stamp /\ ~Stepped
              => twists'.stamp > twists.stamp]_OdomVars
  <2> SUFFICES ASSUME FieldInv, [Next]_vars, ~UNCHANGED OdomVars,
                      twists'.stamp # twists.stamp, ~Stepped
               PROVE  twists'.stamp > twists.stamp
    OBVIOUS
  <2>1. part = "odometry" /\ OdomNext
    BY DEF Next, vars
  <2>2. ros \in Nat \ {0} /\ TwistInv
    BY <2>1 DEF FieldInv
  <2>3. CASE OdomClock
    BY <2>3 DEF OdomClock, OdomVars
  <2>4. ASSUME NEW stamp \in 0 .. MaxRos + 1, NEW place \in OdomPlaces,
               NEW usable \in BOOLEAN,
               OdomCallback([stamp |-> stamp, place |-> place], usable)
        PROVE  twists'.stamp > twists.stamp
    <3>1. [stamp |-> stamp, place |-> place] \in Sample
      BY FieldConstants DEF Sample
    <3>2. QED
      BY <2>2, <2>4, <3>1, CallbackEffect
  <2>5. QED
    BY <2>1, <2>3, <2>4 DEF OdomNext
<1>2. QED
  BY <1>1, FieldInvariant, PTL DEF Spec, StampsIncrease

\* The relay's verdict is about the last two clouds themselves, though it
\* keeps neither (relay_health.hpp).
THEOREM FreshClouds == Spec => []FreshIsEarned
<1>1. FieldInv => FreshIsEarned
  <2> SUFFICES ASSUME FieldInv PROVE Reason = "fresh" <=> CloudsInOrder
    BY DEF FreshIsEarned
  <2> DEFINE n == Len(clouds)
             new == clouds[n]
             old == clouds[1]
  <2>1. /\ RelayInv /\ health \in Health /\ clouds \in Seq(Cloud) /\ n \in Nat
        /\ health.count = 0 <=> n = 0
        /\ RelaySilence \in Nat /\ RelayFuture \in Nat
    BY FieldConstants DEF FieldInv, RelayInv
  <2>2. CASE n = 0
    <3>1. clouds = <<>>
      BY <2>1, <2>2
    <3>2. QED
      BY <2>1, <2>2, <3>1 DEF Reason, CloudsInOrder
  <2>3. CASE n # 0
    <3>1. /\ n \in {1, 2} /\ health.count # 0
          /\ Keeps(health, new, old, n)
      <4>1. n <= 2 /\ \A k \in Nat : k # 0 /\ k <= 2 => k \in {1, 2}
        BY <2>1 DEF RelayInv
      <4>2. n \in {1, 2}
        BY <2>1, <2>3, <4>1, Zenon
      <4>3. n > 0
        BY <4>2
      <4>4. Keeps(health, new, old, n)
        BY <2>1, <4>3 DEF RelayInv
      <4>5. QED
        BY <2>1, <2>3, <4>2, <4>4, Zenon
    <3>2. new \in Cloud /\ old \in Cloud /\ (n = 1 => new = old) /\ clouds # <<>>
      BY <2>1, <2>3, <3>1
    <3>3. ros \in Nat
      BY <2>1, <3>1 DEF FieldInv
    <3> HIDE DEF new, old, n
    <3>4. Reason = "fresh" <=>
            /\ ~health.clockBack /\ ~(ros < health.last) /\ health.valid
            /\ ~(health.receipt > RelaySilence)
            /\ ~(ros - health.stamp > RelaySilence)
            /\ ~(health.stamp - ros > RelayFuture)
            /\ ~health.stampBack
      BY <3>1, Zenon DEF Reason
    <3>5. CloudsInOrder <=>
            /\ health.receipt <= RelaySilence
            /\ Usable(new) /\ Timely(new.stamp, RelayFuture, RelaySilence)
            /\ old.ros <= new.ros /\ new.ros <= ros
            /\ Usable(old) => old.stamp <= new.stamp
      BY <3>2, Zenon DEF CloudsInOrder, new, old, n
    <3>6. /\ old.ros \in Nat /\ new.ros \in Nat /\ old.stamp \in Nat
          /\ new.stamp \in Nat /\ health.receipt \in Nat
      BY <2>1, <3>2 DEF Cloud, Health
    <3>7. Timely(new.stamp, RelayFuture, RelaySilence) <=>
            ~(ros - new.stamp > RelaySilence) /\ ~(new.stamp - ros > RelayFuture)
      BY <2>1, <3>3, <3>6 DEF Timely
    <3>8. Usable(new) => new.header
      BY DEF Usable
    <3>9. /\ health.stamp = new.stamp /\ health.last = new.ros
          /\ health.valid <=> Usable(new)
          /\ health.clockBack <=> new.ros < old.ros
          /\ health.stampBack <=> n = 2 /\ new.header /\ Usable(old)
                                            /\ new.stamp < old.stamp
      BY <3>1 DEF Keeps
    <3>10. ~health.clockBack /\ ~(ros < health.last)
             <=> old.ros <= new.ros /\ new.ros <= ros
      BY <3>3, <3>6, <3>9
    <3>11. ~(health.receipt > RelaySilence) <=> health.receipt <= RelaySilence
      BY <2>1, <3>6
    <3>12. new.stamp < old.stamp <=> ~(old.stamp <= new.stamp)
      BY <3>6
    <3>13. n = 1 => new.stamp = old.stamp /\ ~(new.stamp < old.stamp)
      BY <3>2, <3>6
    <3>14. n = 1 \/ n = 2
      BY <3>1
    <3>15. Usable(new) =>
             (~health.stampBack <=> (Usable(old) => old.stamp <= new.stamp))
      BY <3>8, <3>9, <3>12, <3>13, <3>14, Zenon
    <3>16. /\ ~(ros - health.stamp > RelaySilence) <=> ~(ros - new.stamp > RelaySilence)
           /\ ~(health.stamp - ros > RelayFuture) <=> ~(new.stamp - ros > RelayFuture)
      BY <3>9
    <3>17. QED
      BY <3>4, <3>5, <3>7, <3>9, <3>10, <3>11, <3>15, <3>16, Zenon
  <2>4. QED
    BY <2>2, <2>3
<1>2. QED
  BY <1>1, FieldInvariant, PTL

\* What the recording calls complete is, whatever failed, was late, was killed or
\* was cancelled, and however often.
THEOREM VerdictsAreTrue == Spec => []RecordedIsComplete
<1>1. FieldInv => RecordedIsComplete
  <2> SUFFICES ASSUME FieldInv, at = "done", Recorded
               PROVE  cancels = 0 /\ Complete
    BY DEF RecordedIsComplete, Complete
  <2>1. Complete /\ raised = "none" /\ status.state # "recording"
    BY DEF FieldInv, RecordInv, VerdictInv, Recorded, RecordTypes
  <2>2. cancels = 0
    BY <2>1 DEF FieldInv, RecordInv, CourseInv, RecordTypes, Capturing, Captures
  <2>3. QED
    BY <2>1, <2>2
<1>2. QED
  BY <1>1, FieldInvariant, PTL

\* When the recording is done every child it started has ended, was told to, or was
\* let go of by a Ctrl-C right before its signal, and then nothing is recorded.
THEOREM NobodyIsForgotten == Spec => []EveryChildIsTold
<1>1. FieldInv => EveryChildIsTold
  BY DEF FieldInv, RecordInv, RecordTypes, ToldInv, VerdictInv, EveryChildIsTold, BagRuns,
         Capturing, Captures
<1>2. QED
  BY <1>1, FieldInvariant, PTL

\* The readiness check says ready only after a settle window without a report
\* that was not, and over nodes active as lately as an answer counts and a call
\* may take.
THEOREM ChecksAreEarned == Spec => []CheckIsEarned
<1>1. FieldInv => CheckIsEarned
  BY DEF FieldInv, CheckInv
<1>2. QED
  BY <1>1, FieldInvariant, PTL

\* Every patch shows the plane around the robot.
THEOREM PatchesAreTrue == Spec => []PatchShowsPlane
<1>1. PatchInv => PatchShowsPlane
  <2> SUFFICES ASSUME PatchInv, patch # NoPatch, NEW i \in Cells(Output)
               PROVE  LET place == ToMap(patch.pose, CellCentre([Output EXCEPT !.q = 0], i))
                          shows(j) == patch.data[i] = Plane(CellCentre(patch.grid, j))
                          within(j, reach) == Near(place, CellCentre(patch.grid, j), reach)
                      IN  /\ \A j \in Cells(patch.grid) :
                               within(j, (patch.grid.unit - 1) \div 2) => shows(j)
                          /\ \/ patch.data[i] = -1
                             \/ \E j \in Cells(patch.grid) :
                                  within(j, patch.grid.unit \div 2) /\ shows(j)
    BY DEF PatchShowsPlane
  <2>1. /\ patch.pose \in Poses /\ patch.grid \in Sources
        /\ patch.data = Sampled(Drawn(patch.grid), patch.pose)
    BY DEF PatchInv
  <2>2. patch.data[i] = Sampled(Drawn(patch.grid), patch.pose)[i]
    BY <2>1
  <2>3. QED
    BY <2>1, <2>2, SampleShows
<1>2. QED
  BY <1>1, PatchInvariant, PTL

\* Every scan the audit received is in its report, but for those still waiting when
\* a signal ends it.
THEOREM EveryScanCounts == Spec => []EveryScanIsJudged
<1>1. AuditInv => EveryScanIsJudged
  <2> SUFFICES ASSUME AuditInv, issue # "none" PROVE EveryScanIsJudged
    BY DEF EveryScanIsJudged
  <2>1. /\ audit.ok => pending = {}
        /\ \A p \in Phases, t \in Targets :
             counts[p][t].checked = Cardinality(Judged(p, t))
    BY DEF AuditInv, IssueInv, CountInv
  <2>2. ASSUME issue = "clean", NEW t \in Targets
        PROVE  Judged("steady", t) # {} /\ Judged("steady", t) \subseteq Placed(t)
    <3> DEFINE steady == Judged("steady", t)
    <3>1. "steady" \in Phases
      BY DEF Phases
    <3>2. /\ IsFiniteSet(steady) /\ IsFiniteSet(steady \cap Placed(t))
          /\ Cardinality(steady) \in Nat /\ Cardinality(steady \cap Placed(t)) \in Nat
      BY <3>1, JudgedFinite DEF AuditInv
    <3>3. /\ counts["steady"][t].checked = Cardinality(steady)
          /\ counts["steady"][t].good <= Cardinality(steady \cap Placed(t))
          /\ counts["steady"][t].good \in Nat
      BY <2>1, <3>1 DEF AuditInv, CountInv
    <3>4. Cardinality(steady) # 0 /\ Cardinality(steady) <= Cardinality(steady \cap Placed(t))
      BY <2>2, <3>2, <3>3 DEF AuditInv, IssueInv
    <3>5. steady # {}
      BY <3>4, FS_EmptySet
    <3>6. steady \cap Placed(t) \in SUBSET steady
      OBVIOUS
    <3> HIDE DEF steady
    <3>7. Cardinality(steady \cap Placed(t)) <= Cardinality(steady)
      BY <3>2, <3>6, FS_Subset
    <3>8. steady \cap Placed(t) = steady
      BY <3>2, <3>4, <3>6, <3>7, FS_Subset
    <3>9. QED
      BY <3>5, <3>8 DEF steady
  <2>3. QED
    BY <2>1, <2>2 DEF EveryScanIsJudged, Placed
<1>2. QED
  BY <1>1, AuditInvariant, PTL

\* Every part keeps to its types, and no age runs past its bound.
THEOREM TypeCorrect == Spec => []TypeOK
<1>1. FieldTypes => TypeOK
  BY DEF FieldTypes
<1>2. QED
  BY <1>1, FieldTypesInit, FieldTypesKeep, FieldInvariant, AuditInvariant, PatchInvariant,
     PTL DEF Spec
=============================================================================
