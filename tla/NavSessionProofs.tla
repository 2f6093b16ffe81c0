-------------------------- MODULE NavSessionProofs --------------------------
(***************************************************************************)
(* Proofs about NavSession for any number of sessions, crashes and nodes.  *)
(*                                                                         *)
(* OneStack rests on claims: a session past the lock of its role holds the *)
(* role against every other session and every stack left behind that is    *)
(* recognised, and a perception that has adopted a navigation, or a stack  *)
(* that was started under one and is recognised or still supervised        *)
(* (Ours), holds it against every other navigation.  StoppedIsTrue         *)
(* rests on what a supervisor that is closing knows of its group, and      *)
(* FailureIsReported on what it tells of the failure file from the finally *)
(* clause on.  ImplementsOwners adds to the claims what a supervisor has,  *)
(* at each place, of a child and of whom it depends on (Lives).            *)
(***************************************************************************)
EXTENDS NavSession, TLAPS

Places == {"new", "lock", "adopt", "save", "begin", "popen", "watch", "quiet",
           "signal", "await", "stop", "close", "dead"}
Local == [stage : 1 .. 2, stop : BOOLEAN, parent : NavSessions \cup {None},
          code : {0, 1}, child : BOOLEAN, final : BOOLEAN, error : BOOLEAN]
Group == [state : {"none", "up", "orphans", "hidden"}, stage : 1 .. 2,
          killed : BOOLEAN, nav : NavSessions \cup {None}]
Statuses == {"none", "running", "stopped", "cleanup_failed"}
Record == [owner : Sessions \cup {None}, status : Statuses]

Working == {"save", "begin", "popen", "watch"}

Exclusive ==
  \A s, t \in Sessions :
    s # t /\ Role(s) = Role(t) /\ Held(s) => ~Held(t) /\ ~Stack(t)
Alone ==
  \A s, t \in Sessions : s # t /\ Role(s) = Role(t) /\ Stack(s) => ~Stack(t)
\* A stack that its supervisor, or else stack_role(), still knows of.
Ours(s) == Stack(s) \/ (Present(s) /\ Held(s))
Under ==
  \A p \in PerceptionSessions, n \in NavSessions :
    \/ Held(p) /\ own[p].parent \notin {None, n}
    \/ Ours(p) /\ group[p].nav # n
    => ~Held(n) /\ ~Stack(n)
Claims == Exclusive /\ Alone /\ Under

\* What a session at place q, with the locals o and the group g, knows of them.
Knows(s, q, o, g) ==
  /\ s \in PerceptionSessions /\ (q \in Working \/ (q = "stop" /\ ~o.final))
       => o.parent # None
  /\ q \in {"new", "lock", "adopt"} => o.parent = None /\ ~o.child
  /\ q # "dead" /\ ~o.child => g.state = "none"
  /\ q = "close" /\ ~o.error => g.state = "none"
  /\ g.state = "none" => g = NoGroup
AllKnow == \A s \in Sessions : Knows(s, pc[s], own[s], group[s])

Records ==
  \A r \in Roles :
    /\ record[r].owner # None => /\ Role(record[r].owner) = r
                                 /\ pc[record[r].owner] \notin {"new", "lock"}
    /\ record[r].status = "stopped" =>
         /\ record[r].owner # None /\ pc[record[r].owner] = "dead"
         /\ group[record[r].owner].state = "none"

Inv == TypeOK /\ Claims /\ AllKnow /\ Records

-----------------------------------------------------------------------------
(* Facts *)

LEMMA Types ==
  TypeOK <=> /\ pc \in [Sessions -> Places]
             /\ own \in [Sessions -> Local]
             /\ target \in [NavSessions -> PerceptionSessions \cup {None}]
             /\ record \in [Roles -> Record]
             /\ group \in [Sessions -> Group]
             /\ launch \in [NavSessions -> [down : BOOLEAN,
                                            failure : Nodes \cup {None}]]
             /\ crashed \subseteq Sessions
BY DEF TypeOK, Places, Local, Record, Statuses, Group

LEMMA SessionFacts ==
  /\ None \notin Sessions
  /\ \A s \in Sessions : Role(s) \in Roles
  /\ \A s \in Sessions : Role(s) = "nav" <=> s \in NavSessions
  /\ \A s \in Sessions : Role(s) = "perception" <=> s \in PerceptionSessions
  /\ NavSessions \subseteq Sessions /\ PerceptionSessions \subseteq Sessions
  /\ \A s \in Sessions : Stages(s) \in 1 .. 2
BY SessionAssumption DEF SessionAssumption, Sessions, Role, Roles, Stages

LEMMA NoGroupFacts ==
  NoGroup \in Group /\ NoGroup.state = "none"
BY DEF NoGroup, Group

LEMMA LocalsFacts ==
  Locals \in Local /\ Locals.parent = None
BY DEF Locals, Local

LEMMA FinallyFacts ==
  ASSUME TypeOK, NEW s \in Sessions, NEW code \in {0, 1}
  PROVE  /\ Finally(s, code) \in Local
         /\ Finally(s, code).parent = None /\ Finally(s, code).final
         /\ Finally(s, code).child = own[s].child
         /\ Finally(s, code).error = own[s].error
<1>1. own[s] \in Local
  BY Types
<1>2. QED
  BY <1>1 DEF Finally, Local

\* A step that claims nothing new keeps the claims.
LEMMA ClaimsFade ==
  ASSUME Claims, TypeOK, TypeOK',
         \A s \in Sessions : Held(s)' => Held(s),
         \A s \in Sessions : Stack(s)' => Stack(s),
         \A s \in Sessions : Present(s)' => Present(s) /\ group'[s].nav = group[s].nav,
         \A s \in Sessions : own'[s].parent \in {own[s].parent, None}
  PROVE  Claims'
<1>1. Exclusive'
  BY DEF Claims, Exclusive
<1>2. Alone'
  BY DEF Claims, Alone
<1>3. Under'
  <2> SUFFICES ASSUME NEW p \in PerceptionSessions, NEW n \in NavSessions,
                      \/ Held(p)' /\ own'[p].parent \notin {None, n}
                      \/ Ours(p)' /\ group'[p].nav # n
               PROVE  ~Held(n)' /\ ~Stack(n)'
    BY DEF Under
  <2>1. p \in Sessions /\ n \in Sessions
    BY SessionFacts
  <2>2. \/ Held(p) /\ own[p].parent \notin {None, n}
        \/ Ours(p) /\ group[p].nav # n
    BY <2>1 DEF Ours, Stack
  <2>3. QED
    BY <2>1, <2>2 DEF Claims, Under
<1>4. QED
  BY <1>1, <1>2, <1>3 DEF Claims

\* A step of one session, s, which may also ask others to stop and write its
\* record.
Turn(s, q, o, g) ==
  /\ pc' = [pc EXCEPT ![s] = q]
  /\ own' \in [Sessions -> Local] /\ own'[s] = o
  /\ \A t \in Sessions : t # s => /\ own'[t].parent = own[t].parent
                                  /\ own'[t].child = own[t].child
                                  /\ own'[t].final = own[t].final
                                  /\ own'[t].error = own[t].error
  /\ group' = [group EXCEPT ![s] = g]
  /\ \/ record' = record
     \/ \E status \in Statuses :
          /\ record' = [record EXCEPT ![Role(s)] = [owner |-> s, status |-> status]]
          /\ q \notin {"new", "lock"}
          /\ status = "stopped" => q = "dead" /\ g.state = "none"

LEMMA TurnKeeps ==
  ASSUME Inv, NEW s \in Sessions, NEW q \in Places, NEW o \in Local,
         NEW g \in Group, Turn(s, q, o, g), Knows(s, q, o, g),
         pc[s] = "dead" => q = "dead",
         q \in {"new", "lock"} => pc[s] \in {"new", "lock"},
         pc[s] = "dead" /\ group[s].state = "none" => g.state = "none"
  PROVE  /\ pc' \in [Sessions -> Places] /\ own' \in [Sessions -> Local]
         /\ group' \in [Sessions -> Group] /\ record' \in [Roles -> Record]
         /\ AllKnow' /\ Records'
<1>1. /\ pc \in [Sessions -> Places] /\ own \in [Sessions -> Local]
      /\ group \in [Sessions -> Group] /\ record \in [Roles -> Record]
      /\ AllKnow /\ Records
  BY Types DEF Inv
<1>2. /\ pc' \in [Sessions -> Places] /\ own' \in [Sessions -> Local]
      /\ group' \in [Sessions -> Group]
      /\ pc'[s] = q /\ own'[s] = o /\ group'[s] = g
      /\ \A t \in Sessions : t # s => /\ pc'[t] = pc[t] /\ group'[t] = group[t]
                                      /\ own'[t].parent = own[t].parent
                                      /\ own'[t].child = own[t].child
                                      /\ own'[t].final = own[t].final
                                      /\ own'[t].error = own[t].error
  BY <1>1 DEF Turn
<1>3. AllKnow'
  <2> SUFFICES ASSUME NEW t \in Sessions
               PROVE  Knows(t, pc'[t], own'[t], group'[t])
    BY DEF AllKnow
  <2>1. CASE t = s
    BY <1>2, <2>1
  <2>2. CASE t # s
    <3>1. Knows(t, pc[t], own[t], group[t])
      BY <1>1 DEF AllKnow
    <3>2. QED
      BY <1>2, <2>2, <3>1 DEF Knows
  <2>3. QED
    BY <2>1, <2>2
<1>4. CASE record' = record
  <2>1. ASSUME NEW r \in Roles, record[r].owner # None
        PROVE  /\ record[r].owner \in Sessions
               /\ pc'[record[r].owner] \notin {"new", "lock"}
               /\ pc[record[r].owner] = "dead" => pc'[record[r].owner] = "dead"
               /\ pc[record[r].owner] = "dead"
                    /\ group[record[r].owner].state = "none"
                    => group'[record[r].owner].state = "none"
    <3>1. record[r].owner \in Sessions /\ pc[record[r].owner] \notin {"new", "lock"}
      BY <1>1, <2>1 DEF Record, Records
    <3>2. QED
      BY <1>2, <3>1
  <2>2. Records'
    BY <1>1, <1>4, <2>1 DEF Records
  <2>3. QED
    BY <1>1, <1>2, <1>3, <1>4, <2>2
<1>5. ASSUME NEW status \in Statuses,
             record' = [record EXCEPT ![Role(s)] = [owner |-> s, status |-> status]],
             q \notin {"new", "lock"},
             status = "stopped" => q = "dead" /\ g.state = "none"
      PROVE  record' \in [Roles -> Record] /\ Records'
  <2>1. Role(s) \in Roles /\ s # None
    BY SessionFacts
  <2>2. /\ record' \in [Roles -> Record]
        /\ record'[Role(s)].owner = s /\ record'[Role(s)].status = status
        /\ \A r \in Roles : r # Role(s) => record'[r] = record[r]
    BY <1>1, <1>5, <2>1 DEF Record
  <2>3. ASSUME NEW r \in Roles, r # Role(s), record[r].owner # None
        PROVE  /\ record[r].owner \in Sessions /\ record[r].owner # s
    BY <1>1, <2>3 DEF Record, Records
  <2>4. Records'
    BY <1>1, <1>2, <1>5, <2>1, <2>2, <2>3 DEF Records
  <2>5. QED
    BY <2>2, <2>4
<1>6. QED
  BY <1>2, <1>3, <1>4, <1>5 DEF Turn

\* What the other variables have to be.
Rest == /\ target \in [NavSessions -> PerceptionSessions \cup {None}]
        /\ launch \in [NavSessions -> [down : BOOLEAN, failure : Nodes \cup {None}]]
        /\ crashed \subseteq Sessions

\* The group g has nothing of the stack of s that was not there before.
Less(s, g) ==
  g.state # "none" /\ g.stage = Stages(s)
    => /\ Present(s) /\ g.nav = group[s].nav
       /\ g.state # "hidden" => Stack(s)

LEMMA LessSame ==
  ASSUME NEW s \in Sessions
  PROVE  Less(s, group[s])
BY DEF Less, Stack, Present, GroupAlive

\* A turn that claims nothing new.
LEMMA TurnFades ==
  ASSUME Inv, NEW s \in Sessions, NEW q \in Places, NEW o \in Local,
         NEW g \in Group, Turn(s, q, o, g), Knows(s, q, o, g), Rest',
         pc[s] = "dead" => q = "dead",
         q \in {"new", "lock"} => pc[s] \in {"new", "lock"},
         q \notin {"new", "lock", "dead"} => Held(s),
         pc[s] = "dead" /\ group[s].state = "none" => g.state = "none",
         o.parent \in {own[s].parent, None},
         Less(s, g)
  PROVE  Inv'
<1>1. /\ pc' \in [Sessions -> Places] /\ own' \in [Sessions -> Local]
      /\ group' \in [Sessions -> Group] /\ record' \in [Roles -> Record]
      /\ AllKnow' /\ Records'
  BY TurnKeeps
<1>2. TypeOK'
  BY <1>1 DEF Rest, TypeOK, Places, Local, Record, Statuses, Group
<1>3. /\ pc \in [Sessions -> Places] /\ own \in [Sessions -> Local]
      /\ group \in [Sessions -> Group] /\ Claims /\ TypeOK
  BY Types DEF Inv
<1>4. /\ pc'[s] = q /\ own'[s] = o /\ group'[s] = g
      /\ \A t \in Sessions : t # s => /\ pc'[t] = pc[t] /\ group'[t] = group[t]
                                      /\ own'[t].parent = own[t].parent
  BY <1>3 DEF Turn
<1>5. \A t \in Sessions : Held(t)' => Held(t)
  BY <1>4 DEF Held
<1>6. \A t \in Sessions : /\ Stack(t)' => Stack(t)
                          /\ Present(t)' => Present(t) /\ group'[t].nav = group[t].nav
  BY <1>4 DEF Less, Stack, Present, GroupAlive
<1>7. \A t \in Sessions : own'[t].parent \in {own[t].parent, None}
  BY <1>4
<1>8. Claims'
  <2>1. \A t \in Sessions : Stack(t)' => Stack(t)
    BY <1>6
  <2>2. \A t \in Sessions : Present(t)' => Present(t) /\ group'[t].nav = group[t].nav
    BY <1>6
  <2>3. QED
    BY <1>2, <1>3, <1>5, <1>7, <2>1, <2>2, ClaimsFade
<1>9. QED
  BY <1>1, <1>2, <1>8 DEF Inv

\* The usual turn: the groups are left alone.
LEMMA Moves ==
  ASSUME Inv, NEW s \in Sessions, NEW q \in Places \ {"new", "lock"},
         NEW o \in Local, pc[s] \notin {"new", "dead"},
         pc[s] = "lock" => q = "dead",
         pc' = [pc EXCEPT ![s] = q], own' = [own EXCEPT ![s] = o],
         group' = group, Knows(s, q, o, group[s]), Rest',
         o.parent \in {own[s].parent, None},
         \/ record' = record
         \/ \E status \in Statuses :
              /\ record' = [record EXCEPT ![Role(s)] = [owner |-> s, status |-> status]]
              /\ status = "stopped" => q = "dead" /\ group[s].state = "none"
  PROVE  Inv'
<1>1. /\ pc \in [Sessions -> Places] /\ own \in [Sessions -> Local]
      /\ group \in [Sessions -> Group] /\ group[s] \in Group /\ q \in Places
  BY Types DEF Inv
<1>2. Turn(s, q, o, group[s])
  BY <1>1 DEF Turn
<1>3. Less(s, group[s])
  BY LessSame
<1>4. q \notin {"new", "lock", "dead"} => Held(s)
  BY DEF Held
<1>5. QED
  BY <1>1, <1>2, <1>3, <1>4, TurnFades

\* What holds of a session before its turn.
LEMMA Before ==
  ASSUME Inv, NEW s \in Sessions
  PROVE  /\ pc \in [Sessions -> Places] /\ own \in [Sessions -> Local]
         /\ group \in [Sessions -> Group] /\ record \in [Roles -> Record]
         /\ pc[s] \in Places /\ own[s] \in Local /\ group[s] \in Group
         /\ Knows(s, pc[s], own[s], group[s]) /\ Rest
BY Types DEF Inv, AllKnow, Rest

\* The end of a supervisor leaves nothing to know.
LEMMA DeadKnows ==
  ASSUME NEW s \in Sessions, NEW g \in Group, g.state = "none" => g = NoGroup
  PROVE  Knows(s, "dead", Locals, g)
BY LocalsFacts DEF Knows, Working

-----------------------------------------------------------------------------
(* The actions *)

LEMMA DieStep ==
  ASSUME Inv, NEW s \in Sessions, Die(s), group' = group, Rest',
         pc[s] \notin {"new", "dead"},
         \/ record' = record
         \/ \E status \in Statuses :
              /\ record' = [record EXCEPT ![Role(s)] = [owner |-> s, status |-> status]]
              /\ status = "stopped" => group[s].state = "none"
  PROVE  Inv'
<1>1. group[s] \in Group /\ (group[s].state = "none" => group[s] = NoGroup)
  BY Before DEF Knows
<1>2. Knows(s, "dead", Locals, group[s])
  BY <1>1, DeadKnows
<1>3. "dead" \in Places \ {"new", "lock"} /\ Locals \in Local /\ Locals.parent = None
  BY LocalsFacts DEF Places
<1>4. pc' = [pc EXCEPT ![s] = "dead"] /\ own' = [own EXCEPT ![s] = Locals]
  BY DEF Die
<1>5. QED
  BY <1>2, <1>3, <1>4, Moves

LEMMA ExecStep ==
  ASSUME Inv, NEW s \in Sessions, Exec(s)
  PROVE  Inv'
<1>1. /\ pc[s] = "new" /\ pc' = [pc EXCEPT ![s] = "lock"]
      /\ own' = own /\ group' = group /\ record' = record
      /\ target' = target /\ launch' = launch /\ crashed' = crashed
  BY DEF Exec, Step
<1>2. /\ own \in [Sessions -> Local] /\ own[s] \in Local
      /\ group \in [Sessions -> Group] /\ group[s] \in Group
      /\ Knows(s, "new", own[s], group[s]) /\ Rest
  BY <1>1, Before
<1>3. Knows(s, "lock", own[s], group[s])
  BY <1>2 DEF Knows, Working
<1>4. Turn(s, "lock", own[s], group[s])
  BY <1>1, <1>2 DEF Turn
<1>5. Rest'
  BY <1>1, <1>2 DEF Rest
<1>6. Less(s, group[s])
  BY LessSame
<1>7. "lock" \in Places
  BY DEF Places
<1>8. QED
  BY <1>1, <1>2, <1>3, <1>4, <1>5, <1>6, <1>7, TurnFades

\* Whoever is asked to stop, nothing else of it changes.
LEMMA AskKeeps ==
  ASSUME own \in [Sessions -> Local], NEW x, Asked(x)
  PROVE  /\ own' \in [Sessions -> Local]
         /\ \A t \in Sessions : /\ own'[t].parent = own[t].parent
                                /\ own'[t].child = own[t].child
                                /\ own'[t].final = own[t].final
                                /\ own'[t].error = own[t].error
                                /\ own'[t].code = own[t].code
                                /\ own'[t].stage = own[t].stage
<1> DEFINE o == [own[x] EXCEPT !.stop = ~own[x].final]
<1>1. own' = [own EXCEPT ![x] = o]
  BY DEF Asked
<1>2. CASE x \in Sessions
  <2>1. own[x] \in Local
    BY <1>2
  <2>2. /\ o \in Local
        /\ o.parent = own[x].parent /\ o.child = own[x].child
        /\ o.final = own[x].final /\ o.error = own[x].error
        /\ o.code = own[x].code /\ o.stage = own[x].stage
    BY <2>1 DEF Local
  <2> HIDE DEF o
  <2>3. QED
    BY <1>1, <1>2, <2>2
<1>3. CASE x \notin Sessions
  <2> HIDE DEF o
  <2>1. own' = own
    BY <1>1, <1>3
  <2>2. QED
    BY <2>1
<1>4. QED
  BY <1>2, <1>3

\* An error raised in the body of supervise().
LEMMA RaiseStep ==
  ASSUME Inv, NEW s \in Sessions, pc[s] \notin {"new", "lock", "dead"},
         own' = [own EXCEPT ![s] = Finally(s, 1)],
         pc' = [pc EXCEPT ![s] = EndOfTry(s)],
         group' = group, record' = record, Rest'
  PROVE  Inv'
<1> DEFINE o == Finally(s, 1)
<1>1. /\ Knows(s, pc[s], own[s], group[s]) /\ own[s] \in Local
      /\ group[s] \in Group
  BY Before
<1>2. /\ o \in Local /\ o.parent = None /\ o.final
      /\ o.child = own[s].child /\ o.error = own[s].error
  BY FinallyFacts DEF Inv
<1> HIDE DEF o
<1>3. own' = [own EXCEPT ![s] = o]
  BY DEF o
<1>4. /\ EndOfTry(s) \in {"quiet", "stop", "close"}
      /\ EndOfTry(s) = "close" => ~own[s].child
      /\ EndOfTry(s) = "stop" => own[s].child
  BY DEF EndOfTry
<1>5. Knows(s, EndOfTry(s), o, group[s])
  BY <1>1, <1>2, <1>4 DEF Knows, Working
<1>6. EndOfTry(s) \in Places \ {"new", "lock"}
  BY <1>4 DEF Places
<1>7. QED
  BY <1>2, <1>3, <1>5, <1>6, Moves

LEMMA SaveStep ==
  ASSUME Inv, NEW s \in Sessions, SaveStarting(s)
  PROVE  Inv'
<1>1. /\ pc[s] = "save" /\ group' = group
      /\ target' = target /\ launch' = launch /\ crashed' = crashed
  BY DEF SaveStarting, Step
<1>2. /\ own \in [Sessions -> Local] /\ own[s] \in Local
      /\ group[s] \in Group /\ Knows(s, "save", own[s], group[s]) /\ Rest
  BY <1>1, Before
<1>3. Rest'
  BY <1>1, <1>2 DEF Rest
<1>4. Save(s, "running") \/ record' = record =>
      \/ record' = record
      \/ \E status \in Statuses :
           /\ record' = [record EXCEPT ![Role(s)] = [owner |-> s, status |-> status]]
           /\ status # "stopped"
  BY DEF Save, Statuses
<1>5. CASE Step(s, "save", "begin") /\ Save(s, "running") /\ own' = own
  <2>1. Knows(s, "begin", own[s], group[s])
    BY <1>2 DEF Knows, Working
  <2>2. /\ "begin" \in Places \ {"new", "lock"} /\ own' = [own EXCEPT ![s] = own[s]]
        /\ pc' = [pc EXCEPT ![s] = "begin"]
    BY <1>2, <1>5 DEF Places, Step
  <2>3. QED
    BY <1>1, <1>2, <1>3, <1>4, <1>5, <2>1, <2>2, Moves
<1>6. CASE Die(s) /\ (Save(s, "running") \/ record' = record)
  BY <1>1, <1>3, <1>4, <1>6, DieStep
<1>7. QED
  BY <1>5, <1>6 DEF SaveStarting

LEMMA BeginStep ==
  ASSUME Inv, NEW s \in Sessions, Begin(s)
  PROVE  Inv'
<1>1. /\ pc[s] = "begin" /\ group' = group
      /\ target' = target /\ launch' = launch /\ crashed' = crashed
  BY DEF Begin
<1>2. /\ own \in [Sessions -> Local] /\ own[s] \in Local
      /\ group[s] \in Group /\ Knows(s, "begin", own[s], group[s]) /\ Rest
  BY <1>1, Before
<1>3. Rest'
  BY <1>1, <1>2 DEF Rest
<1>4. CASE /\ own' = [own EXCEPT ![s] = Finally(s, 1)]
           /\ pc' = [pc EXCEPT ![s] = EndOfTry(s)] /\ record' = record
  BY <1>1, <1>3, <1>4, RaiseStep
<1>5. CASE Step(s, "begin", "popen") /\ Save(s, "running") /\ own' = own
  <2>1. Knows(s, "popen", own[s], group[s])
    BY <1>2 DEF Knows, Working
  <2>2. /\ "popen" \in Places \ {"new", "lock"} /\ own' = [own EXCEPT ![s] = own[s]]
        /\ pc' = [pc EXCEPT ![s] = "popen"]
    BY <1>2, <1>5 DEF Places, Step
  <2>3. /\ "running" \in Statuses
        /\ record' = [record EXCEPT ![Role(s)] = [owner |-> s, status |-> "running"]]
    BY <1>5 DEF Save, Statuses
  <2>4. QED
    BY <1>1, <1>2, <1>3, <2>1, <2>2, <2>3, Moves
<1>6. QED
  BY <1>4, <1>5 DEF Begin, Raise

LEMMA WatchStep ==
  ASSUME Inv, NEW s \in Sessions, Watch(s)
  PROVE  Inv'
<1> DEFINE q == IF s \in NavSessions THEN "quiet" ELSE "stop"
           o == [own[s] EXCEPT !.code = 1]
<1>1. /\ pc[s] = "watch" /\ pc' = [pc EXCEPT ![s] = q]
      /\ group' = group /\ record' = record
      /\ target' = target /\ launch' = launch /\ crashed' = crashed
      /\ own' = own \/ own' = [own EXCEPT ![s] = o]
  BY DEF Watch, Step
<1>2. /\ own \in [Sessions -> Local] /\ own[s] \in Local
      /\ group[s] \in Group /\ Knows(s, "watch", own[s], group[s]) /\ Rest
  BY <1>1, Before
<1>3. Rest'
  BY <1>1, <1>2 DEF Rest
<1>4. q \in {"quiet", "stop"}
  OBVIOUS
<1>5. /\ o \in Local /\ o.parent = own[s].parent /\ o.child = own[s].child
      /\ o.final = own[s].final /\ o.error = own[s].error
  BY <1>2 DEF Local
<1> HIDE DEF q, o
<1>6. q \in Places \ {"new", "lock"}
  BY <1>4 DEF Places
<1>7. CASE own' = own
  <2>1. Knows(s, q, own[s], group[s])
    BY <1>2, <1>4 DEF Knows, Working
  <2>2. own' = [own EXCEPT ![s] = own[s]]
    BY <1>2, <1>7
  <2>3. QED
    BY <1>1, <1>2, <1>3, <1>6, <2>1, <2>2, Moves
<1>8. CASE own' = [own EXCEPT ![s] = o]
  <2>1. Knows(s, q, o, group[s])
    BY <1>2, <1>4, <1>5 DEF Knows, Working
  <2>2. QED
    BY <1>1, <1>2, <1>3, <1>5, <1>6, <1>8, <2>1, Moves
<1>9. QED
  BY <1>1, <1>7, <1>8


\* stop_role() of a navigation session returns.
LEMMA ReturnStep ==
  ASSUME Inv, NEW n \in NavSessions, pc[n] \notin {"new", "lock", "dead"},
         StopReturns(n), group' = group, record' = record, Rest'
  PROVE  Inv'
<1>1. /\ own \in [Sessions -> Local] /\ own[n] \in Local /\ n \in Sessions
      /\ group[n] \in Group /\ Knows(n, pc[n], own[n], group[n])
      /\ n \notin PerceptionSessions
  BY Before, SessionFacts, SessionAssumption DEF SessionAssumption
<1>2. /\ AfterQuiet(n) \in {"stop", "close"}
      /\ AfterQuiet(n) = "close" => ~own[n].child
      /\ AfterQuiet(n) = "stop" => own[n].child
  BY DEF AfterQuiet
<1>3. Knows(n, AfterQuiet(n), own[n], group[n])
  BY <1>1, <1>2 DEF Knows, Working
<1>4. AfterQuiet(n) \in Places \ {"new", "lock"}
  BY <1>2 DEF Places
<1>5. own' = [own EXCEPT ![n] = own[n]] /\ pc' = [pc EXCEPT ![n] = AfterQuiet(n)]
  BY <1>1 DEF StopReturns
<1>6. QED
  BY <1>1, <1>3, <1>4, <1>5, Moves

LEMMA StopRaisesStep ==
  ASSUME Inv, NEW n \in NavSessions, pc[n] \notin {"new", "lock", "dead"},
         StopRaises(n), group' = group, record' = record, Rest'
  PROVE  Inv'
<1> DEFINE o == [own[n] EXCEPT !.error = TRUE]
<1>1. /\ own \in [Sessions -> Local] /\ own[n] \in Local /\ n \in Sessions
      /\ group[n] \in Group /\ Knows(n, pc[n], own[n], group[n])
      /\ n \notin PerceptionSessions
  BY Before, SessionFacts, SessionAssumption DEF SessionAssumption
<1>2. CASE Raise(n)
  BY <1>1, <1>2, RaiseStep DEF Raise
<1>3. CASE /\ own' = [own EXCEPT ![n].error = TRUE]
           /\ pc' = [pc EXCEPT ![n] = AfterQuiet(n)]
  <2>1. /\ AfterQuiet(n) \in {"stop", "close"}
        /\ AfterQuiet(n) = "close" => ~own[n].child
        /\ AfterQuiet(n) = "stop" => own[n].child
    BY DEF AfterQuiet
  <2>2. /\ o \in Local /\ o.parent = own[n].parent /\ o.child = own[n].child
        /\ o.final = own[n].final
    BY <1>1 DEF Local
  <2>3. own' = [own EXCEPT ![n] = o]
    BY <1>3
  <2> HIDE DEF o
  <2>4. Knows(n, AfterQuiet(n), o, group[n])
    BY <1>1, <2>1, <2>2 DEF Knows, Working
  <2>5. AfterQuiet(n) \in Places \ {"new", "lock"}
    BY <2>1 DEF Places
  <2>6. QED
    BY <1>1, <1>3, <2>2, <2>3, <2>4, <2>5, Moves
<1>4. QED
  BY <1>2, <1>3 DEF StopRaises

LEMMA StopRoleStep ==
  ASSUME Inv, NEW n \in NavSessions, StopRole(n)
  PROVE  Inv'
<1>1. /\ group' = group /\ record' = record
      /\ launch' = launch /\ crashed' = crashed
  BY DEF StopRole, ReadOwner, SignalOwner, AwaitOwner
<1>2. /\ pc \in [Sessions -> Places] /\ own \in [Sessions -> Local]
      /\ record \in [Roles -> Record] /\ own[n] \in Local /\ n \in Sessions
      /\ group \in [Sessions -> Group] /\ group[n] \in Group
      /\ Knows(n, pc[n], own[n], group[n]) /\ Rest
      /\ n \notin PerceptionSessions
  BY Before, SessionFacts, SessionAssumption DEF SessionAssumption
<1>3. ASSUME NEW x \in PerceptionSessions \cup {None},
             target' = [target EXCEPT ![n] = x] \/ target' = target
      PROVE  Rest'
  BY <1>1, <1>2, <1>3 DEF Rest
<1>4. ASSUME ReadOwner(n) PROVE Inv'
  <2> DEFINE owner == record["perception"].owner
  <2>1. pc[n] = "quiet"
    BY <1>4 DEF ReadOwner
  <2>2. CASE /\ SameProcess(owner) /\ Step(n, "quiet", "signal")
             /\ target' = [target EXCEPT ![n] = owner] /\ own' = own
    <3>1. owner \in PerceptionSessions
      <4>1. /\ "perception" \in Roles
            /\ record["perception"].owner \in Sessions \cup {None}
            /\ Records
        BY <1>2 DEF Roles, Record, Inv
      <4>2. owner # None
        BY <2>2 DEF SameProcess
      <4>3. owner \in Sessions /\ Role(owner) = "perception"
        BY <4>1, <4>2 DEF Records
      <4>4. QED
        BY <4>3, SessionFacts
    <3> HIDE DEF owner
    <3>2. Rest'
      BY <1>3, <2>2, <3>1
    <3>3. Knows(n, "signal", own[n], group[n])
      BY <1>2, <2>1 DEF Knows, Working
    <3>4. /\ "signal" \in Places \ {"new", "lock"}
          /\ own' = [own EXCEPT ![n] = own[n]] /\ pc' = [pc EXCEPT ![n] = "signal"]
      BY <1>2, <2>2 DEF Places, Step
    <3>5. QED
      BY <1>1, <1>2, <2>1, <3>2, <3>3, <3>4, Moves
  <2>3. CASE StopReturns(n) /\ target' = target
    <3>1. Rest'
      BY <1>3, <2>3
    <3>2. QED
      BY <1>1, <2>1, <2>3, <3>1, ReturnStep
  <2>4. QED
    BY <1>4, <2>2, <2>3 DEF ReadOwner
<1>5. ASSUME SignalOwner(n) PROVE Inv'
  <2>1. pc[n] = "signal"
    BY <1>5 DEF SignalOwner
  <2>2. CASE Asked(target[n]) /\ Step(n, "signal", "await") /\ target' = target
    <3>1. Rest'
      BY <1>3, <2>2
    <3>2. /\ own' \in [Sessions -> Local]
          /\ \A t \in Sessions : /\ own'[t].parent = own[t].parent
                                 /\ own'[t].child = own[t].child
                                 /\ own'[t].final = own[t].final
                                 /\ own'[t].error = own[t].error
      BY <1>2, <2>2, AskKeeps
    <3> DEFINE o == own'[n]
    <3>3. /\ o \in Local /\ o.parent = own[n].parent /\ o.child = own[n].child
          /\ o.final = own[n].final /\ o.error = own[n].error
      BY <1>2, <3>2
    <3>4. Turn(n, "await", o, group[n])
      BY <1>1, <1>2, <2>2, <3>2 DEF Turn, Step
    <3> HIDE DEF o
    <3>5. Knows(n, "await", o, group[n])
      BY <1>2, <2>1, <3>3 DEF Knows, Working
    <3>6. "await" \in Places /\ Held(n) /\ Less(n, group[n])
      BY <1>2, <2>1, LessSame, SessionFacts DEF Places, Held
    <3>7. QED
      BY <1>2, <2>1, <3>1, <3>3, <3>4, <3>5, <3>6, TurnFades
  <2>3. CASE StopRaises(n) /\ target' = [target EXCEPT ![n] = None]
    <3>1. Rest'
      BY <1>3, <2>3
    <3>2. QED
      BY <1>1, <2>1, <2>3, <3>1, StopRaisesStep
  <2>4. QED
    BY <1>5, <2>2, <2>3 DEF SignalOwner
<1>6. ASSUME AwaitOwner(n) PROVE Inv'
  <2>1. pc[n] = "await" /\ target' = [target EXCEPT ![n] = None]
    BY <1>6 DEF AwaitOwner
  <2>2. Rest'
    BY <1>3, <2>1
  <2>3. QED
    BY <1>1, <1>6, <2>1, <2>2, ReturnStep, StopRaisesStep DEF AwaitOwner
<1>7. QED
  BY <1>4, <1>5, <1>6 DEF StopRole

\* Somebody is asked to stop from outside.
LEMMA AskStep ==
  ASSUME Inv, NEW x \in Sessions, Asked(x), pc' = pc, group' = group,
         record' = record, Rest'
  PROVE  Inv'
<1>1. /\ pc \in [Sessions -> Places] /\ own \in [Sessions -> Local]
      /\ group \in [Sessions -> Group] /\ pc[x] \in Places /\ own[x] \in Local
      /\ group[x] \in Group /\ Knows(x, pc[x], own[x], group[x])
  BY Before
<1>2. /\ own' \in [Sessions -> Local]
      /\ \A t \in Sessions : /\ own'[t].parent = own[t].parent
                             /\ own'[t].child = own[t].child
                             /\ own'[t].final = own[t].final
                             /\ own'[t].error = own[t].error
  BY <1>1, AskKeeps
<1> DEFINE o == own'[x]
<1>3. /\ o \in Local /\ o.parent = own[x].parent /\ o.child = own[x].child
      /\ o.final = own[x].final /\ o.error = own[x].error
  BY <1>2
<1>4. Turn(x, pc[x], o, group[x])
  BY <1>1, <1>2 DEF Turn
<1> HIDE DEF o
<1>5. Knows(x, pc[x], o, group[x])
  BY <1>1, <1>3 DEF Knows
<1>6. Less(x, group[x]) /\ (pc[x] \notin {"new", "lock", "dead"} => Held(x))
  BY LessSame DEF Held
<1>7. QED
  BY <1>1, <1>3, <1>4, <1>5, <1>6, TurnFades

LEMMA StopToolStep ==
  ASSUME Inv, NEW role \in Roles, StopTool(role)
  PROVE  Inv'
<1>1. /\ record \in [Roles -> Record] /\ Rest
  BY Types DEF Inv, Rest
<1>2. record[role].owner \in Sessions
  BY <1>1 DEF StopTool, SameProcess, Record
<1>3. Rest'
  BY <1>1 DEF StopTool, Rest
<1>4. QED
  BY <1>2, <1>3, AskStep DEF StopTool

LEMMA SignalStep ==
  ASSUME Inv, NEW s \in Sessions, Signal(s)
  PROVE  Inv'
<1>1. Rest'
  BY Before DEF Signal, Rest
<1>2. group' = group /\ record' = record /\ pc[s] \notin {"new", "dead"}
  BY DEF Signal, Running
<1>3. CASE Die(s)
  BY <1>1, <1>2, <1>3, DieStep
<1>4. CASE Asked(s) /\ pc' = pc
  BY <1>1, <1>2, <1>4, AskStep
<1>5. QED
  BY <1>3, <1>4 DEF Signal

LEMMA CrashStep ==
  ASSUME Inv, NEW s \in Sessions, Crash(s)
  PROVE  Inv'
<1>1. Rest
  BY Before
<1>2. /\ target' = [n \in NavSessions |-> IF n = s THEN None ELSE target[n]]
      /\ launch' = launch /\ crashed' = crashed \cup {s}
  BY DEF Crash
<1>3. target' \in [NavSessions -> PerceptionSessions \cup {None}]
  BY <1>1, <1>2 DEF Rest
<1>4. Rest'
  BY <1>1, <1>2, <1>3 DEF Rest
<1>5. /\ group' = group /\ record' = record /\ Die(s)
      /\ pc[s] \notin {"new", "dead"}
  BY DEF Crash, Running
<1>6. QED
  BY <1>4, <1>5, DieStep

LEMMA StopChildStep ==
  ASSUME Inv, NEW s \in Sessions, ChildStopped(s) \/ ChildSurvives(s)
  PROVE  Inv'
<1> DEFINE Stuck == [own[s] EXCEPT !.error = TRUE]
           Staged == [own[s] EXCEPT !.stage = @ + 1, !.child = FALSE]
           Ended(code) == [Finally(s, code) EXCEPT !.child = FALSE]
<1>1. /\ pc[s] = "stop" /\ group' = group /\ record' = record
      /\ target' = target /\ launch' = launch /\ crashed' = crashed
  BY DEF ChildStopped, ChildSurvives
<1>2. /\ own \in [Sessions -> Local] /\ own[s] \in Local
      /\ group[s] \in Group /\ Knows(s, "stop", own[s], group[s]) /\ Rest
  BY <1>1, Before
<1>3. Rest'
  BY <1>1, <1>2 DEF Rest
<1>4. ASSUME ChildStopped(s) PROVE Inv'
  <2>1. group[s].state = "none"
    BY <1>2, <1>4 DEF ChildStopped, GroupAlive, Group
  <2>2. CASE Step(s, "stop", "close") /\ own' = own
    <3>1. Knows(s, "close", own[s], group[s])
      BY <1>2, <2>1 DEF Knows, Working
    <3>2. /\ "close" \in Places \ {"new", "lock"} /\ own' = [own EXCEPT ![s] = own[s]]
          /\ pc' = [pc EXCEPT ![s] = "close"]
      BY <1>2, <2>2 DEF Places, Step
    <3>3. QED
      BY <1>1, <1>2, <1>3, <3>1, <3>2, Moves
  <2>3. ASSUME ~own[s].final, own[s].stage < Stages(s),
               own' = [own EXCEPT ![s] = Staged], pc' = [pc EXCEPT ![s] = "begin"]
        PROVE  Inv'
    <3>1. own[s].stage \in 1 .. 2 /\ Stages(s) \in 1 .. 2
      BY <1>2, SessionFacts DEF Local
    <3>2. own[s].stage + 1 \in 1 .. 2
      BY <2>3, <3>1
    <3>3. /\ Staged \in Local /\ Staged.parent = own[s].parent
          /\ Staged.final = own[s].final
      BY <1>2, <3>2 DEF Local
    <3> HIDE DEF Staged
    <3>4. Knows(s, "begin", Staged, group[s])
      BY <1>2, <2>1, <2>3, <3>3 DEF Knows, Working
    <3>5. "begin" \in Places \ {"new", "lock"}
      BY DEF Places
    <3>6. QED
      BY <1>1, <1>3, <2>3, <3>3, <3>4, <3>5, Moves
  <2>4. ASSUME NEW code \in {0, 1}, NEW q \in {"quiet", "close"},
               own' = [own EXCEPT ![s] = Ended(code)], pc' = [pc EXCEPT ![s] = q]
        PROVE  Inv'
    <3>1. /\ Finally(s, code) \in Local /\ Finally(s, code).parent = None
      BY FinallyFacts DEF Inv
    <3>2. Ended(code) \in Local /\ Ended(code).parent = None
      BY <3>1 DEF Local
    <3> HIDE DEF Ended
    <3>3. Knows(s, q, Ended(code), group[s])
      BY <1>2, <2>1, <2>4 DEF Knows, Working
    <3>4. q \in Places \ {"new", "lock"}
      BY <2>4 DEF Places
    <3>5. QED
      BY <1>1, <1>3, <2>4, <3>2, <3>3, <3>4, Moves
  <2>5. CASE ~own[s].final /\ Collect(s)
    <3>1. own[s].code \in {0, 1}
      BY <1>2 DEF Local
    <3>2. Outcome(s, 0) \in {0, 1} /\ Outcome(s, 1) \in {0, 1}
      BY <3>1 DEF Outcome
    <3>3. PICK code \in {0, 1} :
            IF code = 0 /\ own[s].stage < Stages(s)
            THEN own' = [own EXCEPT ![s] = Staged] /\ pc' = [pc EXCEPT ![s] = "begin"]
            ELSE /\ own' = [own EXCEPT ![s] = Ended(code)]
                 /\ pc' = [pc EXCEPT ![s] = IF s \in NavSessions THEN "quiet"
                                            ELSE "close"]
      BY <2>5, <3>2 DEF Collect
    <3> HIDE DEF Staged, Ended
    <3>4. QED
      BY <2>3, <2>4, <2>5, <3>3
  <2>6. QED
    BY <1>4, <2>2, <2>5 DEF ChildStopped
<1>5. ASSUME ChildSurvives(s) PROVE Inv'
  <2>1. CASE own' = [own EXCEPT ![s].error = TRUE] /\ pc' = [pc EXCEPT ![s] = "close"]
    <3>1. /\ Stuck \in Local /\ Stuck.parent = own[s].parent
          /\ Stuck.child = own[s].child /\ Stuck.error
      BY <1>2 DEF Local
    <3>2. own' = [own EXCEPT ![s] = Stuck]
      BY <2>1
    <3> HIDE DEF Stuck
    <3>3. Knows(s, "close", Stuck, group[s])
      BY <1>2, <3>1 DEF Knows, Working
    <3>4. "close" \in Places \ {"new", "lock"}
      BY DEF Places
    <3>5. QED
      BY <1>1, <1>3, <2>1, <3>1, <3>2, <3>3, <3>4, Moves
  <2>2. CASE Raise(s)
    BY <1>1, <1>3, <2>2, RaiseStep DEF Raise
  <2>3. QED
    BY <1>5, <2>1, <2>2 DEF ChildSurvives
<1>6. QED
  BY <1>4, <1>5

LEMMA CloseStep ==
  ASSUME Inv, NEW s \in Sessions, Close(s)
  PROVE  Inv'
<1> DEFINE status == IF own[s].error THEN "cleanup_failed" ELSE "stopped"
<1>1. /\ pc[s] = "close" /\ Die(s) /\ group' = group
      /\ \/ record' = [record EXCEPT ![Role(s)] = [owner |-> s, status |-> status]]
         \/ record' = record
  BY DEF Close, Save
<1>2. Knows(s, "close", own[s], group[s]) /\ Rest
  BY <1>1, Before
<1>3. Rest'
  BY <1>2 DEF Close, Rest
<1>4. status \in Statuses /\ (status = "stopped" => group[s].state = "none")
  BY <1>2 DEF Knows, Statuses
<1> HIDE DEF status
<1>5. QED
  BY <1>1, <1>3, <1>4, DieStep

\* A group whose supervisor makes no step: it ends, or is marked as killed.
LEMMA GroupStep ==
  ASSUME Inv, NEW s \in Sessions, NEW g \in Group, GroupAlive(s),
         pc' = pc, own' = own, record' = record, Rest',
         group' = [group EXCEPT ![s] = g],
         \/ g = NoGroup
         \/ /\ g.state = group[s].state \/ g.state = "hidden"
               \/ (g.state = "orphans" /\ group[s].state = "up")
            /\ g.stage = group[s].stage /\ g.nav = group[s].nav
  PROVE  Inv'
<1>1. /\ pc \in [Sessions -> Places] /\ own \in [Sessions -> Local]
      /\ pc[s] \in Places /\ own[s] \in Local
      /\ Knows(s, pc[s], own[s], group[s])
  BY Before
<1>2. group[s].state # "none"
  BY DEF GroupAlive
<1>3. g.state = "none" <=> g = NoGroup
  BY <1>2, NoGroupFacts
<1>4. Knows(s, pc[s], own[s], g)
  BY <1>1, <1>2, <1>3 DEF Knows
<1>5. Turn(s, pc[s], own[s], g)
  BY <1>1 DEF Turn
<1>6. Less(s, g)
  BY <1>2, <1>3, NoGroupFacts DEF Less, Stack, Present, GroupAlive
<1>7. pc[s] \notin {"new", "lock", "dead"} => Held(s)
  BY DEF Held
<1>8. QED
  BY <1>1, <1>2, <1>4, <1>5, <1>6, <1>7, TurnFades

LEMMA LaunchStep ==
  ASSUME Inv, NEW s \in Sessions, LaunchEnds(s) \/ OrphansEnd(s) \/ KillChild(s)
  PROVE  Inv'
<1> DEFINE Left(state) == [group[s] EXCEPT !.state = state]
           Marked == [group[s] EXCEPT !.killed = TRUE]
<1>1. /\ pc' = pc /\ own' = own /\ record' = record /\ target' = target
      /\ crashed' = crashed /\ GroupAlive(s)
  BY DEF LaunchEnds, OrphansEnd, KillChild, GroupAlive
<1>2. group[s] \in Group /\ Rest
  BY Before
<1>3. Rest'
  <2>1. CASE launch' = launch
    BY <1>1, <1>2, <2>1 DEF Rest
  <2>2. CASE launch' = [n \in NavSessions |->
                          IF n = s THEN [launch[n] EXCEPT !.down = TRUE] ELSE launch[n]]
    <3>1. ASSUME NEW n \in NavSessions
          PROVE  [launch[n] EXCEPT !.down = TRUE]
                   \in [down : BOOLEAN, failure : Nodes \cup {None}]
      BY <1>2 DEF Rest
    <3>2. launch' \in [NavSessions -> [down : BOOLEAN, failure : Nodes \cup {None}]]
      BY <1>2, <2>2, <3>1 DEF Rest
    <3>3. QED
      BY <1>1, <1>2, <3>2 DEF Rest
  <2>3. QED
    BY <2>1, <2>2 DEF LaunchEnds, OrphansEnd, KillChild
<1>4. ASSUME NEW state \in {"orphans", "hidden"}
      PROVE  /\ Left(state) \in Group /\ Left(state).state = state
             /\ Left(state).stage = group[s].stage /\ Left(state).nav = group[s].nav
  BY <1>2 DEF Group
<1>5. /\ Marked \in Group /\ Marked.state = group[s].state
      /\ Marked.stage = group[s].stage /\ Marked.nav = group[s].nav
  BY <1>2 DEF Group
<1>6. \/ group' = [group EXCEPT ![s] = NoGroup]
      \/ group' = [group EXCEPT ![s] = Left("hidden")]
      \/ group' = [group EXCEPT ![s] = Left("orphans")] /\ group[s].state = "up"
      \/ group' = [group EXCEPT ![s] = Marked]
  BY DEF LaunchEnds, OrphansEnd, KillChild, Remains
<1> HIDE DEF Left, Marked
<1>7. QED
  BY <1>1, <1>3, <1>4, <1>5, <1>6, NoGroupFacts, GroupStep

\* The launch of a navigation session notes a failure or shuts down.
LEMMA CriticalStep ==
  ASSUME Inv, NEW n \in NavSessions,
         ShutsDown(n) \/ \E node \in Nodes : CriticalExit(n, node)
  PROVE  Inv'
<1>1. /\ pc' = pc /\ own' = own /\ record' = record /\ target' = target
      /\ crashed' = crashed /\ group' = group
  BY DEF ShutsDown, CriticalExit
<1>2. /\ Rest /\ n \in Sessions
      /\ launch[n] \in [down : BOOLEAN, failure : Nodes \cup {None}]
  BY Before, SessionFacts DEF Rest
<1>3. Rest'
  <2>1. CASE ShutsDown(n)
    <3>1. [launch[n] EXCEPT !.down = TRUE]
            \in [down : BOOLEAN, failure : Nodes \cup {None}]
      BY <1>2
    <3>2. launch' = [launch EXCEPT ![n] = [launch[n] EXCEPT !.down = TRUE]]
      BY <2>1 DEF ShutsDown
    <3>3. QED
      BY <1>1, <1>2, <3>1, <3>2 DEF Rest
  <2>2. ASSUME NEW node \in Nodes, CriticalExit(n, node)
        PROVE  Rest'
    <3>1. PICK failure \in {Kept(launch[n].failure, node), launch[n].failure} :
            launch' = [launch EXCEPT ![n] = [launch[n] EXCEPT !.failure = failure]]
      BY <2>2 DEF CriticalExit
    <3>2. launch[n].failure \in Nodes \cup {None}
      BY <1>2
    <3>3. failure \in Nodes \cup {None}
      BY <3>2 DEF Kept
    <3>4. [launch[n] EXCEPT !.failure = failure]
            \in [down : BOOLEAN, failure : Nodes \cup {None}]
      BY <1>2, <3>3
    <3>5. QED
      BY <1>1, <1>2, <3>1, <3>4 DEF Rest
  <2>3. QED
    BY <2>1, <2>2
<1>4. TypeOK'
  BY <1>1, <1>3, Types DEF Inv, Rest, TypeOK, Places, Local, Record, Statuses, Group
<1>5. QED
  BY <1>1, <1>4 DEF Inv, Claims, Exclusive, Alone, Under, AllKnow, Records, Knows,
                    Held, Ours, Stack, Present, GroupAlive


-----------------------------------------------------------------------------
(* The three actions that make a claim *)

\* Whom the lock and the look at the processes exclude.
LEMMA NobodyThere ==
  ASSUME NEW s \in Sessions, ~Locked(s), Conflicts(s) = {}, NEW t \in Sessions, t # s
  PROVE  /\ Role(t) = Role(s) => ~Held(t) /\ ~Stack(t)
         /\ Role(s) = "nav" => ~Held(t) /\ ~Stack(t)
<1>1. Role(t) = Role(s) => ~Held(t)
  BY DEF Locked, Held
<1>2. t \notin Conflicts(s)
  OBVIOUS
<1>3. Role(s) \in {Role(t), "nav"} => ~Running(t) /\ ~Stack(t)
  BY <1>2 DEF Conflicts
<1>4. ~Running(t) => ~Held(t)
  BY DEF Running, Held
<1>5. QED
  BY <1>1, <1>3, <1>4

\* The owner the navigation record names, if it runs, has the role.
LEMMA RecordedOwner ==
  ASSUME Inv, SameProcess(record["nav"].owner)
  PROVE  LET m == record["nav"].owner
         IN  m \in NavSessions /\ m \in Sessions /\ Held(m)
<1> DEFINE m == record["nav"].owner
<1>1. m # None /\ pc[m] \notin {"new", "dead"}
  BY DEF SameProcess, Running
<1>2. "nav" \in Roles /\ record \in [Roles -> Record]
  BY Types DEF Roles, Inv
<1>3. m \in Sessions /\ Role(m) = "nav" /\ pc[m] \notin {"new", "lock"}
  BY <1>1, <1>2 DEF Record, Inv, Records
<1>4. QED
  BY <1>1, <1>3, SessionFacts DEF Held

LEMMA EnterStep ==
  ASSUME Inv, NEW s \in Sessions, Enter(s)
  PROVE  Inv'
<1> DEFINE q == IF s \in NavSessions THEN "save" ELSE "adopt"
<1>1. /\ pc[s] = "lock" /\ group' = group /\ record' = record
      /\ target' = target /\ launch' = launch /\ crashed' = crashed
  BY DEF Enter
<1>2. /\ pc \in [Sessions -> Places] /\ own \in [Sessions -> Local]
      /\ group \in [Sessions -> Group] /\ own[s] \in Local /\ group[s] \in Group
      /\ Knows(s, "lock", own[s], group[s]) /\ Rest
  BY <1>1, Before
<1>3. Rest'
  BY <1>1, <1>2 DEF Rest
<1>4. CASE Die(s)
  BY <1>1, <1>3, <1>4, DieStep
<1>5. CASE ~Locked(s) /\ Conflicts(s) = {} /\ Step(s, "lock", q) /\ own' = own
  <2>1. /\ q \in {"save", "adopt"} /\ (q = "save" => s \in NavSessions)
    OBVIOUS
  <2> HIDE DEF q
  <2>2. /\ q \in Places /\ pc' = [pc EXCEPT ![s] = q] /\ own[s].parent = None
        /\ Knows(s, q, own[s], group[s])
    <3>1. s \in NavSessions => s \notin PerceptionSessions
      BY SessionAssumption DEF SessionAssumption
    <3>2. QED
      BY <1>2, <1>5, <2>1, <3>1 DEF Step, Places, Knows, Working
  <2>3. Turn(s, q, own[s], group[s])
    BY <1>1, <1>2, <1>5, <2>2 DEF Turn
  <2>4. /\ pc' \in [Sessions -> Places] /\ own' \in [Sessions -> Local]
        /\ group' \in [Sessions -> Group] /\ record' \in [Roles -> Record]
        /\ AllKnow' /\ Records'
    BY <1>1, <1>2, <2>1, <2>2, <2>3, TurnKeeps
  <2>5. TypeOK'
    BY <1>3, <2>4 DEF Rest, TypeOK, Places, Local, Record, Statuses, Group
  <2>6. \A t \in Sessions : t # s => (Held(t)' <=> Held(t))
    BY <1>2, <2>2 DEF Held
  <2>7. /\ \A t \in Sessions : Stack(t)' <=> Stack(t)
        /\ \A t \in Sessions : Ours(t)' => Ours(t)
    <3>1. ~Present(s)'
      BY <1>1, <1>2 DEF Knows, Present, GroupAlive
    <3>2. QED
      BY <1>1, <2>6, <3>1 DEF Ours, Stack, Present, GroupAlive
  <2>8. ASSUME NEW t \in Sessions, t # s
        PROVE  /\ Role(t) = Role(s) => ~Held(t) /\ ~Stack(t)
               /\ Role(s) = "nav" => ~Held(t) /\ ~Stack(t)
    BY <1>5, <2>8, NobodyThere
  <2>9. Role(s) = "nav" => ~Stack(s)
    BY <1>5 DEF Conflicts
  <2>10. Exclusive'
    <3> SUFFICES ASSUME NEW u \in Sessions, NEW t \in Sessions, u # t,
                        Role(u) = Role(t), Held(u)'
                 PROVE  ~Held(t)' /\ ~Stack(t)'
      BY DEF Exclusive
    <3>1. CASE u = s
      BY <2>6, <2>7, <2>8, <3>1
    <3>2. CASE u # s
      <4>1. Held(u)
        BY <2>6, <3>2
      <4>2. t # s
        BY <2>8, <3>2, <4>1
      <4>3. QED
        BY <2>6, <2>7, <4>1, <4>2 DEF Inv, Claims, Exclusive
    <3>3. QED
      BY <3>1, <3>2
  <2>11. Alone'
    BY <2>7 DEF Inv, Claims, Alone
  <2>12. Under'
    <3> SUFFICES ASSUME NEW p \in PerceptionSessions, NEW n \in NavSessions,
                        \/ Held(p)' /\ own[p].parent \notin {None, n}
                        \/ Ours(p)' /\ group[p].nav # n
                 PROVE  ~Held(n)' /\ ~Stack(n)'
      BY <1>1, <1>5 DEF Under
    <3>1. /\ p \in Sessions /\ n \in Sessions /\ p # n /\ Role(n) = "nav"
      BY SessionFacts, SessionAssumption DEF SessionAssumption
    <3>2. \/ Held(p) /\ own[p].parent \notin {None, n}
          \/ Ours(p) /\ group[p].nav # n
      BY <2>2, <2>6, <2>7, <3>1
    <3>3. n # s
      BY <2>8, <3>1, <3>2 DEF Ours
    <3>4. ~Held(n) /\ ~Stack(n)
      BY <3>2 DEF Inv, Claims, Under
    <3>5. QED
      BY <2>6, <2>7, <3>1, <3>3, <3>4
  <2>13. QED
    BY <2>4, <2>5, <2>10, <2>11, <2>12 DEF Inv, Claims
<1>6. QED
  BY <1>4, <1>5 DEF Enter

LEMMA AdoptStep ==
  ASSUME Inv, NEW s \in Sessions, Adopt(s)
  PROVE  Inv'
<1> DEFINE m == record["nav"].owner
           o == [own[s] EXCEPT !.parent = m]
<1>1. /\ pc[s] = "adopt" /\ group' = group /\ record' = record
      /\ target' = target /\ launch' = launch /\ crashed' = crashed
  BY DEF Adopt
<1>2. /\ pc \in [Sessions -> Places] /\ own \in [Sessions -> Local]
      /\ group \in [Sessions -> Group] /\ own[s] \in Local /\ group[s] \in Group
      /\ record \in [Roles -> Record] /\ Knows(s, "adopt", own[s], group[s]) /\ Rest
  BY <1>1, Before
<1>3. Rest'
  BY <1>1, <1>2 DEF Rest
<1>4. CASE Die(s)
  BY <1>1, <1>3, <1>4, DieStep
<1>5. CASE SameProcess(m) /\ Step(s, "adopt", "save") /\ own' = [own EXCEPT ![s] = o]
  <2>1. /\ m \in NavSessions /\ m \in Sessions /\ Held(m)
    BY <1>5, RecordedOwner
  <2>2. m # None
    BY <2>1, SessionFacts
  <2> HIDE DEF m
  <2>3. /\ o \in Local /\ o.parent = m /\ o.child = own[s].child
    BY <1>2, <2>1 DEF Local
  <2> HIDE DEF o
  <2>4. Knows(s, "save", o, group[s])
    BY <1>2, <2>2, <2>3 DEF Knows, Working
  <2>5. /\ "save" \in Places /\ pc' = [pc EXCEPT ![s] = "save"]
        /\ Turn(s, "save", o, group[s])
    BY <1>1, <1>2, <1>5, <2>3 DEF Turn, Step, Places
  <2>6. /\ pc' \in [Sessions -> Places] /\ own' \in [Sessions -> Local]
        /\ group' \in [Sessions -> Group] /\ record' \in [Roles -> Record]
        /\ AllKnow' /\ Records'
    BY <1>1, <1>2, <2>3, <2>4, <2>5, TurnKeeps
  <2>7. TypeOK'
    BY <1>3, <2>6 DEF Rest, TypeOK, Places, Local, Record, Statuses, Group
  <2>8. \A t \in Sessions : Held(t)' <=> Held(t)
    BY <1>1, <1>2, <2>5 DEF Held
  <2>9. \A t \in Sessions : (Stack(t)' <=> Stack(t)) /\ (Ours(t)' <=> Ours(t))
    BY <1>1, <2>8 DEF Ours, Stack, Present, GroupAlive
  <2>10. Exclusive' /\ Alone'
    BY <2>8, <2>9 DEF Inv, Claims, Exclusive, Alone
  <2>11. Under'
    <3> SUFFICES ASSUME NEW p \in PerceptionSessions, NEW n \in NavSessions,
                        \/ Held(p)' /\ own'[p].parent \notin {None, n}
                        \/ Ours(p)' /\ group'[p].nav # n
                 PROVE  ~Held(n)' /\ ~Stack(n)'
      BY DEF Under
    <3>1. p \in Sessions /\ n \in Sessions
      BY SessionFacts
    <3>2. CASE Ours(p)' /\ group'[p].nav # n
      <4>1. Ours(p) /\ group[p].nav # n
        BY <1>1, <2>9, <3>1, <3>2
      <4>2. QED
        BY <2>8, <2>9, <3>1, <4>1 DEF Inv, Claims, Under
    <3>3. CASE p # s /\ Held(p)' /\ own'[p].parent \notin {None, n}
      <4>1. Held(p) /\ own[p].parent \notin {None, n}
        BY <1>2, <1>5, <2>8, <3>1, <3>3
      <4>2. QED
        BY <2>8, <2>9, <3>1, <4>1 DEF Inv, Claims, Under
    <3>4. CASE p = s /\ own'[p].parent \notin {None, n}
      <4>1. n # m
        BY <1>2, <1>5, <2>3, <3>4
      <4>2. Role(n) = Role(m)
        BY <2>1 DEF Role
      <4>3. ~Held(n) /\ ~Stack(n)
        BY <2>1, <3>1, <4>1, <4>2 DEF Inv, Claims, Exclusive
      <4>4. QED
        BY <2>8, <2>9, <3>1, <4>3
    <3>5. QED
      BY <3>2, <3>3, <3>4
  <2>12. QED
    BY <2>6, <2>7, <2>10, <2>11 DEF Inv, Claims
<1>6. QED
  BY <1>4, <1>5 DEF Adopt


LEMMA PopenStep ==
  ASSUME Inv, NEW s \in Sessions, Popen(s)
  PROVE  Inv'
<1> DEFINE g == [state |-> "up", killed |-> FALSE,
                 stage |-> own[s].stage, nav |-> own[s].parent]
           Child == [own[s] EXCEPT !.child = TRUE]
           Failed == [Finally(s, 1) EXCEPT !.child = TRUE]
<1>1. /\ pc[s] = "popen" /\ record' = record
      /\ target' = target /\ launch' = launch /\ crashed' = crashed
  BY DEF Popen, Step, Raise
<1>2. /\ pc \in [Sessions -> Places] /\ own \in [Sessions -> Local]
      /\ group \in [Sessions -> Group] /\ own[s] \in Local /\ group[s] \in Group
      /\ Knows(s, "popen", own[s], group[s]) /\ Rest
  BY <1>1, Before
<1>3. Rest'
  BY <1>1, <1>2 DEF Rest
<1>4. ASSUME Raise(s), group' = group PROVE Inv'
  BY <1>1, <1>3, <1>4, RaiseStep DEF Raise
<1>5. ASSUME NEW q \in {"watch", "quiet", "stop"}, NEW o \in {Child, Failed},
             q = "watch" => o = Child, q = "stop" => o = Failed,
             pc' = [pc EXCEPT ![s] = q], own' = [own EXCEPT ![s] = o],
             group' = [group EXCEPT ![s] = g]
      PROVE  Inv'
  <2>1. /\ Child \in Local /\ Child.parent = own[s].parent /\ Child.child
        /\ Child.error = own[s].error
    BY <1>2 DEF Local
  <2>2. /\ Finally(s, 1) \in Local /\ Finally(s, 1).parent = None
        /\ Finally(s, 1).final /\ Finally(s, 1).error = own[s].error
    BY FinallyFacts DEF Inv
  <2>3. /\ Failed \in Local /\ Failed.parent = None /\ Failed.child /\ Failed.final
    BY <2>2 DEF Local
  <2>4. own[s].stage \in 1 .. 2 /\ own[s].parent \in NavSessions \cup {None}
    BY <1>2 DEF Local
  <2>5. g \in Group /\ g.state = "up" /\ g.nav = own[s].parent
    BY <2>4 DEF Group
  <2> HIDE DEF g, Child, Failed
  <2>6. /\ o \in Local /\ o.child /\ o.parent \in {own[s].parent, None}
        /\ q = "watch" => o.parent = own[s].parent
        /\ q = "stop" => o.final
    BY <1>5, <2>1, <2>3
  <2>7. q \in Places
    BY <1>5 DEF Places
  <2>8. g # NoGroup
    BY <2>5, NoGroupFacts
  <2>9. Knows(s, q, o, g)
    BY <1>2, <1>5, <2>5, <2>6 DEF Knows, Working
  <2>10. Turn(s, q, o, g)
    BY <1>1, <1>2, <1>5, <2>6 DEF Turn
  <2>11. /\ pc' \in [Sessions -> Places] /\ own' \in [Sessions -> Local]
         /\ group' \in [Sessions -> Group] /\ record' \in [Roles -> Record]
         /\ AllKnow' /\ Records'
    BY <1>1, <1>5, <2>5, <2>6, <2>7, <2>9, <2>10, TurnKeeps
  <2>12. TypeOK'
    BY <1>3, <2>11 DEF Rest, TypeOK, Places, Local, Record, Statuses, Group
  <2>13. Held(s) /\ (s \in PerceptionSessions => own[s].parent # None)
    BY <1>1, <1>2 DEF Held, Knows, Working
  <2>14. \A t \in Sessions : Held(t)' <=> Held(t)
    BY <1>1, <1>2, <1>5 DEF Held
  <2>15. \A t \in Sessions :
           t # s => /\ Stack(t)' <=> Stack(t)
                    /\ Ours(t)' <=> Ours(t)
                    /\ group'[t] = group[t] /\ own'[t] = own[t]
    BY <1>2, <1>5, <2>14 DEF Ours, Stack, Present, GroupAlive
  <2>16. own'[s] = o /\ group'[s] = g
    BY <1>2, <1>5
  <2>17. ASSUME NEW t \in Sessions, t # s, Role(t) = Role(s)
         PROVE  ~Held(t) /\ ~Stack(t) /\ ~Held(t)' /\ ~Stack(t)'
    <3>1. ~Held(t) /\ ~Stack(t)
      BY <2>13, <2>17 DEF Inv, Claims, Exclusive
    <3>2. QED
      BY <2>14, <2>15, <2>17, <3>1
  <2>18. Exclusive'
    <3> SUFFICES ASSUME NEW u \in Sessions, NEW t \in Sessions, u # t,
                        Role(u) = Role(t), Held(u)'
                 PROVE  ~Held(t)' /\ ~Stack(t)'
      BY DEF Exclusive
    <3>1. CASE u = s
      BY <2>17, <3>1
    <3>2. CASE t = s
      BY <2>17, <3>2
    <3>3. CASE u # s /\ t # s
      BY <2>14, <2>15, <3>3 DEF Inv, Claims, Exclusive
    <3>4. QED
      BY <3>1, <3>2, <3>3
  <2>19. Alone'
    <3> SUFFICES ASSUME NEW u \in Sessions, NEW t \in Sessions, u # t,
                        Role(u) = Role(t), Stack(u)'
                 PROVE  ~Stack(t)'
      BY DEF Alone
    <3>1. CASE u = s
      BY <2>17, <3>1
    <3>2. CASE t = s
      BY <2>17, <3>2
    <3>3. CASE u # s /\ t # s
      BY <2>15, <3>3 DEF Inv, Claims, Alone
    <3>4. QED
      BY <3>1, <3>2, <3>3
  <2>20. Under'
    <3> SUFFICES ASSUME NEW p \in PerceptionSessions, NEW n \in NavSessions,
                        \/ Held(p)' /\ own'[p].parent \notin {None, n}
                        \/ Ours(p)' /\ group'[p].nav # n
                 PROVE  ~Held(n)' /\ ~Stack(n)'
      BY DEF Under
    <3>1. p \in Sessions /\ n \in Sessions /\ p # n
      BY SessionFacts, SessionAssumption DEF SessionAssumption
    <3>2. CASE p = s
      <4>1. own[s].parent \notin {None, n}
        BY <2>5, <2>6, <2>13, <2>16, <3>2
      <4>2. ~Held(n) /\ ~Stack(n)
        BY <2>13, <3>2, <4>1 DEF Inv, Claims, Under
      <4>3. QED
        BY <2>14, <2>15, <3>1, <3>2, <4>2
    <3>3. CASE p # s
      <4>1. \/ Held(p) /\ own[p].parent \notin {None, n}
            \/ Ours(p) /\ group[p].nav # n
        BY <2>14, <2>15, <3>1, <3>3
      <4>2. ~Held(n) /\ ~Stack(n)
        BY <4>1 DEF Inv, Claims, Under
      <4>3. n # s
        BY <2>13, <4>2
      <4>4. QED
        BY <2>14, <2>15, <3>1, <4>2, <4>3
    <3>4. QED
      BY <3>2, <3>3
  <2>21. QED
    BY <2>11, <2>12, <2>18, <2>19, <2>20 DEF Inv, Claims
<1>6. CASE /\ group' = [group EXCEPT ![s] = g] /\ Step(s, "popen", "watch")
           /\ own' = [own EXCEPT ![s].child = TRUE]
  <2>1. own' = [own EXCEPT ![s] = Child] /\ pc' = [pc EXCEPT ![s] = "watch"]
    BY <1>6 DEF Step
  <2> HIDE DEF g, Child, Failed
  <2>2. QED
    BY <1>5, <1>6, <2>1
<1>7. CASE /\ group' = [group EXCEPT ![s] = g] /\ own' = [own EXCEPT ![s] = Failed]
           /\ pc' = [pc EXCEPT ![s] = IF s \in NavSessions THEN "quiet" ELSE "stop"]
  <2> HIDE DEF g, Child, Failed
  <2>1. QED
    BY <1>5, <1>7
<1>8. QED
  BY <1>4, <1>6, <1>7 DEF Popen

-----------------------------------------------------------------------------
(* The invariant *)

LEMMA InvInit == Init => Inv
<1> SUFFICES ASSUME Init PROVE Inv
  OBVIOUS
<1>1. TypeOK
  <2>1. NoRecord \in Record
    BY DEF NoRecord, Record, Statuses
  <2>2. QED
    BY <2>1, Types, NoGroupFacts, LocalsFacts DEF Init, Places
<1>2. \A s \in Sessions : ~Held(s) /\ ~Stack(s) /\ ~Ours(s)
  BY NoGroupFacts DEF Init, Held, Ours, Stack, Present, GroupAlive
<1>3. Claims
  BY <1>2, SessionFacts DEF Claims, Exclusive, Alone, Under
<1>4. AllKnow
  BY NoGroupFacts, LocalsFacts DEF Init, AllKnow, Knows, Working, Locals
<1>5. Records
  BY DEF Init, Records, NoRecord
<1>6. QED
  BY <1>1, <1>3, <1>4, <1>5 DEF Inv

LEMMA InvStep == Inv /\ [Next]_vars => Inv'
<1> SUFFICES ASSUME Inv, [Next]_vars PROVE Inv'
  OBVIOUS
<1>1. ASSUME NEW s \in Sessions, Supervise(s) PROVE Inv'
  BY <1>1, EnterStep, AdoptStep, SaveStep, BeginStep, PopenStep, WatchStep,
     StopChildStep, LaunchStep, CloseStep DEF Supervise
<1>2. ASSUME NEW s \in Sessions,
             \/ Exec(s) \/ Signal(s) \/ Crash(s) \/ LaunchEnds(s) \/ OrphansEnd(s)
      PROVE Inv'
  BY <1>2, ExecStep, SignalStep, CrashStep, LaunchStep
<1>3. ASSUME NEW n \in NavSessions, StopRole(n) \/ ShutsDown(n) PROVE Inv'
  BY <1>3, StopRoleStep, CriticalStep
<1>4. ASSUME NEW n \in NavSessions, NEW node \in Nodes, CriticalExit(n, node)
      PROVE Inv'
  BY <1>4, CriticalStep
<1>5. ASSUME NEW role \in Roles, StopTool(role) PROVE Inv'
  BY <1>5, StopToolStep
<1>6. CASE UNCHANGED vars
  <2>1. TypeOK'
    BY <1>6, Types DEF vars, Inv, TypeOK, Places, Local, Record, Statuses, Group
  <2>2. QED
    BY <1>6, <2>1 DEF vars, Inv, Claims, Exclusive, Alone, Under, AllKnow, Records,
                      Knows, Held, Ours, Stack, Present, GroupAlive
<1>7. QED
  BY <1>1, <1>2, <1>3, <1>4, <1>5, <1>6 DEF Next

\* Every variable stays in its type, for any number of sessions and crashes.
THEOREM TypeCorrect == Spec => []TypeOK
<1>1. Inv => TypeOK
  BY DEF Inv
<1>2. QED
  BY <1>1, InvInit, InvStep, PTL DEF Spec

\* start(): whoever starts, crashes or is orphaned when, there is one stack:
\* no two groups of a role, and no perception beside a foreign navigation; but
\* for the rests of sessions that are gone of which stack_role() knows nothing.
THEOREM OneStackEver == Spec => []OneStack
<1>1. Inv => OneStack
  <2> SUFFICES ASSUME Inv, NEW s \in Sessions, NEW t \in Sessions,
                      s # t, Present(s), ~Unseen(s), Present(t), ~Unseen(t)
               PROVE  /\ Role(s) # Role(t)
                      /\ s \in PerceptionSessions => group[s].nav = t
    BY DEF OneStack
  <2>1. ASSUME NEW u \in Sessions, Present(u), ~Unseen(u)
        PROVE  Ours(u)
    <3>1. CASE group[u].state # "hidden"
      BY <2>1, <3>1 DEF Ours, Stack
    <3>2. CASE Running(u)
      <4>1. Knows(u, pc[u], own[u], group[u]) /\ group[u].state # "none"
        BY <2>1 DEF Inv, AllKnow, Present, GroupAlive
      <4>2. Held(u)
        BY <3>2, <4>1 DEF Knows, Running, Held
      <4>3. QED
        BY <2>1, <4>2 DEF Ours
    <3>3. QED
      BY <2>1, <3>1, <3>2 DEF Unseen
  <2>2. Ours(s) /\ Ours(t)
    BY <2>1
  <2>3. Role(s) # Role(t)
    BY <2>2 DEF Ours, Inv, Claims, Exclusive, Alone
  <2>4. s \in PerceptionSessions => t \in NavSessions
    BY <2>3, SessionFacts DEF Role
  <2>5. ASSUME s \in PerceptionSessions, group[s].nav # t
        PROVE  FALSE
    <3>1. ~Held(t) /\ ~Stack(t)
      BY <2>2, <2>4, <2>5 DEF Inv, Claims, Under
    <3>2. QED
      BY <2>2, <3>1 DEF Ours
  <2>6. QED
    BY <2>3, <2>5
<1>2. QED
  BY <1>1, InvInit, InvStep, PTL DEF Spec

\* supervise(): a record that says stopped is true, and stays true while
\* others start, stop and crash: nothing is left of that session's group.
THEOREM StoppedRecordsAreTrue == Spec => []StoppedIsTrue
<1>1. Inv => StoppedIsTrue
  <2> SUFFICES ASSUME Inv, NEW r \in Roles, record[r].status = "stopped"
               PROVE  group[record[r].owner] = NoGroup
    BY DEF StoppedIsTrue
  <2>1. /\ record[r].owner # None /\ group[record[r].owner].state = "none"
    BY DEF Inv, Records
  <2>2. record[r].owner \in Sessions
    BY <2>1, Types DEF Inv, Record
  <2>3. QED
    BY <2>1, <2>2 DEF Inv, AllKnow, Knows
<1>2. QED
  BY <1>1, InvInit, InvStep, PTL DEF Spec

-----------------------------------------------------------------------------
(* What a supervisor reports *)

\* What a navigation session at place q, with the locals o and the failure f of
\* its launch, makes of the failure: once in the finally clause, its code is not
\* 0 unless the child is gone and has left no failure.
Tells(q, o, f) ==
  /\ q \in {"new", "lock", "adopt", "dead"} \cup Working => ~o.final
  /\ q = "watch" => o.child
  /\ q \in {"quiet", "signal", "await"} => o.final \/ o.child
  /\ q = "close" => o.final
  /\ o.final /\ o.code = 0 => ~o.child /\ f = None
AllTell == \A n \in NavSessions : Tells(pc[n], own[n], launch[n].failure)

\* A turn of one session, in which others are at most asked to stop.
LEMMA TellTurn ==
  ASSUME Inv, AllTell, NEW s \in Sessions, NEW q, launch' = launch,
         pc' = [pc EXCEPT ![s] = q],
         \A t \in Sessions : t # s => /\ own'[t].child = own[t].child
                                      /\ own'[t].final = own[t].final
                                      /\ own'[t].code = own[t].code,
         s \in NavSessions => Tells(q, own'[s], launch[s].failure)
  PROVE  AllTell'
<1> SUFFICES ASSUME NEW n \in NavSessions
             PROVE  Tells(pc'[n], own'[n], launch'[n].failure)
  BY DEF AllTell
<1>1. n \in Sessions /\ pc \in [Sessions -> Places]
  BY SessionFacts, Before
<1>2. CASE n = s
  BY <1>1, <1>2
<1>3. CASE n # s
  BY <1>1, <1>3 DEF AllTell, Tells
<1>4. QED
  BY <1>2, <1>3

\* The same for a session that changes its own locals only.
LEMMA TellMove ==
  ASSUME Inv, AllTell, NEW s \in Sessions, NEW q, NEW o, launch' = launch,
         pc' = [pc EXCEPT ![s] = q], own' = [own EXCEPT ![s] = o],
         s \in NavSessions => Tells(q, o, launch[s].failure)
  PROVE  AllTell'
<1>1. own \in [Sessions -> Local]
  BY Before
<1>2. /\ own'[s] = o /\ \A t \in Sessions : t # s => own'[t] = own[t]
  BY <1>1
<1>3. QED
  BY <1>2, TellTurn

LEMMA FinallyTells ==
  ASSUME Inv, AllTell, NEW s \in Sessions, launch' = launch,
         NEW q \in {"quiet", "stop", "close"},
         pc' = [pc EXCEPT ![s] = q], own' = [own EXCEPT ![s] = Finally(s, 1)]
  PROVE  AllTell'
<1>1. own[s] \in Local
  BY Before
<1>2. Finally(s, 1).final /\ Finally(s, 1).code = 1
  BY <1>1 DEF Finally, Local
<1>3. Tells(q, Finally(s, 1), launch[s].failure)
  BY <1>2 DEF Tells, Working
<1>4. QED
  BY <1>3, TellMove

LEMMA DieTells ==
  ASSUME Inv, AllTell, NEW s \in Sessions, Die(s), launch' = launch
  PROVE  AllTell'
<1>1. Tells("dead", Locals, launch[s].failure)
  BY DEF Tells, Locals, Working
<1>2. QED
  BY <1>1, TellMove DEF Die

\* The locals stay; the place moves on without entering or leaving the try.
LEMMA PlaceTells ==
  ASSUME Inv, AllTell, NEW s \in Sessions, NEW q, launch' = launch, own' = own,
         pc' = [pc EXCEPT ![s] = q],
         s \in NavSessions /\ Tells(pc[s], own[s], launch[s].failure)
           => Tells(q, own[s], launch[s].failure)
  PROVE  AllTell'
<1>1. s \in NavSessions => Tells(q, own[s], launch[s].failure)
  BY DEF AllTell
<1>2. QED
  BY <1>1, TellTurn

LEMMA AskTells ==
  ASSUME Inv, AllTell, NEW x, Asked(x), launch' = launch, pc' = pc
  PROVE  AllTell'
<1>1. own \in [Sessions -> Local]
  BY Types DEF Inv
<1>2. \A t \in Sessions : /\ own'[t].child = own[t].child
                          /\ own'[t].final = own[t].final
                          /\ own'[t].code = own[t].code
  BY <1>1, AskKeeps
<1>3. QED
  BY <1>2, SessionFacts DEF AllTell, Tells


LEMMA TellSupervise ==
  ASSUME Inv, AllTell, NEW s \in Sessions, Supervise(s)
  PROVE  AllTell'
<1> DEFINE Child == [own[s] EXCEPT !.child = TRUE]
           Failed == [Finally(s, 1) EXCEPT !.child = TRUE]
           Coded == [own[s] EXCEPT !.code = 1]
           Adopted == [own[s] EXCEPT !.parent = record["nav"].owner]
           Stuck == [own[s] EXCEPT !.error = TRUE]
           Staged == [own[s] EXCEPT !.stage = @ + 1, !.child = FALSE]
           Ended(code) == [Finally(s, code) EXCEPT !.child = FALSE]
<1>1. /\ own \in [Sessions -> Local] /\ own[s] \in Local /\ launch' = launch
  BY Before DEF Supervise, Enter, Adopt, SaveStarting, Begin, Popen, Watch,
                ChildStopped, KillChild, ChildSurvives, Close
<1>2. s \in NavSessions => Tells(pc[s], own[s], launch[s].failure)
  BY DEF AllTell
<1>3. EndOfTry(s) \in {"quiet", "stop", "close"}
  BY DEF EndOfTry
<1>4. ASSUME Raise(s) PROVE AllTell'
  BY <1>1, <1>3, <1>4, FinallyTells DEF Raise
<1>5. ASSUME Enter(s) \/ SaveStarting(s) PROVE AllTell'
  <2>1. CASE Die(s)
    BY <1>1, <2>1, DieTells
  <2>2. ASSUME NEW q \in {"save", "adopt", "begin"}, pc[s] \in {"lock", "save"},
               pc' = [pc EXCEPT ![s] = q], own' = own
        PROVE  AllTell'
    <3>1. s \in NavSessions => Tells(q, own[s], launch[s].failure)
      BY <1>2, <2>2 DEF Tells, Working
    <3>2. QED
      BY <1>1, <2>2, <3>1, TellTurn
  <2>3. QED
    BY <1>5, <2>1, <2>2 DEF Enter, SaveStarting, Step
<1>6. ASSUME Adopt(s) PROVE AllTell'
  <2>1. CASE Die(s)
    BY <1>1, <2>1, DieTells
  <2>2. CASE Step(s, "adopt", "save") /\ own' = [own EXCEPT ![s] = Adopted]
    <3>1. Adopted.final = own[s].final
      BY <1>1 DEF Local
    <3> HIDE DEF Adopted
    <3>2. s \in NavSessions => Tells("save", Adopted, launch[s].failure)
      BY <1>2, <2>2, <3>1 DEF Tells, Step, Working
    <3>3. QED
      BY <1>1, <2>2, <3>2, TellMove DEF Step
  <2>3. QED
    BY <1>6, <2>1, <2>2 DEF Adopt
<1>7. ASSUME Begin(s) PROVE AllTell'
  <2>1. CASE own' = own /\ Step(s, "begin", "popen")
    <3>1. s \in NavSessions => Tells("popen", own[s], launch[s].failure)
      BY <1>2, <2>1 DEF Tells, Step, Working
    <3>2. QED
      BY <1>1, <2>1, <3>1, TellTurn DEF Step
  <2>2. CASE /\ own' = [own EXCEPT ![s] = Finally(s, 1)]
             /\ pc' = [pc EXCEPT ![s] = EndOfTry(s)]
    BY <1>1, <1>3, <2>2, FinallyTells
  <2>3. QED
    BY <1>7, <2>1, <2>2 DEF Begin, Raise
<1>8. ASSUME Popen(s) PROVE AllTell'
  <2>1. pc[s] = "popen"
    BY <1>8 DEF Popen
  <2>2. CASE Step(s, "popen", "watch") /\ own' = [own EXCEPT ![s] = Child]
    <3>1. Child.final = own[s].final /\ Child.child
      BY <1>1 DEF Local
    <3> HIDE DEF Child
    <3>2. s \in NavSessions => Tells("watch", Child, launch[s].failure)
      BY <1>2, <2>1, <3>1 DEF Tells, Working
    <3>3. QED
      BY <1>1, <2>2, <3>2, TellMove DEF Step
  <2>3. ASSUME NEW q \in {"quiet", "stop"}, pc' = [pc EXCEPT ![s] = q],
               own' = [own EXCEPT ![s] = Failed]
        PROVE  AllTell'
    <3>1. Finally(s, 1) \in Local /\ Finally(s, 1).final /\ Finally(s, 1).code = 1
      BY FinallyFacts, <1>1 DEF Inv, Finally, Local
    <3>2. Failed.final /\ Failed.code = 1
      BY <3>1 DEF Local
    <3> HIDE DEF Failed
    <3>3. Tells(q, Failed, launch[s].failure)
      BY <2>3, <3>2 DEF Tells, Working
    <3>4. QED
      BY <1>1, <2>3, <3>3, TellMove
  <2> HIDE DEF Child, Failed
  <2>4. CASE /\ own' = [own EXCEPT ![s] = Failed]
             /\ pc' = [pc EXCEPT ![s] = IF s \in NavSessions THEN "quiet" ELSE "stop"]
    BY <2>3, <2>4
  <2>5. \/ Step(s, "popen", "watch") /\ own' = [own EXCEPT ![s] = Child]
        \/ /\ own' = [own EXCEPT ![s] = Failed]
           /\ pc' = [pc EXCEPT ![s] = IF s \in NavSessions THEN "quiet" ELSE "stop"]
        \/ Raise(s)
    BY <1>8 DEF Popen, Child, Failed
  <2>6. QED
    BY <1>4, <2>2, <2>4, <2>5
<1>9. ASSUME Watch(s) PROVE AllTell'
  <2> DEFINE q == IF s \in NavSessions THEN "quiet" ELSE "stop"
  <2>1. /\ pc[s] = "watch" /\ pc' = [pc EXCEPT ![s] = q]
        /\ own' = own \/ own' = [own EXCEPT ![s] = Coded]
    BY <1>9 DEF Watch, Step
  <2>2. Coded.child = own[s].child /\ Coded.code = 1
    BY <1>1 DEF Local
  <2>3. q \in {"quiet", "stop"}
    OBVIOUS
  <2> HIDE DEF q, Coded
  <2>4. s \in NavSessions => /\ Tells(q, own[s], launch[s].failure)
                             /\ Tells(q, Coded, launch[s].failure)
    BY <1>2, <2>1, <2>2, <2>3 DEF Tells, Working
  <2>5. QED
    BY <1>1, <2>1, <2>4, TellMove, TellTurn
<1>10. ASSUME ChildStopped(s) PROVE AllTell'
  <2>1. CASE own[s].final /\ Step(s, "stop", "close") /\ own' = own
    <3>1. s \in NavSessions => Tells("close", own[s], launch[s].failure)
      BY <1>2, <2>1 DEF Tells, Working
    <3>2. QED
      BY <1>1, <2>1, <3>1, TellTurn DEF Step
  <2>2. ASSUME ~own[s].final, own' = [own EXCEPT ![s] = Staged],
               pc' = [pc EXCEPT ![s] = "begin"]
        PROVE  AllTell'
    <3>1. Staged.final = own[s].final
      BY <1>1 DEF Local
    <3> HIDE DEF Staged
    <3>2. Tells("begin", Staged, launch[s].failure)
      BY <2>2, <3>1 DEF Tells, Working
    <3>3. QED
      BY <1>1, <2>2, <3>2, TellMove
  <2>3. ASSUME NEW code \in {Outcome(s, 0), Outcome(s, 1)}, NEW q \in {"quiet", "close"},
               own' = [own EXCEPT ![s] = Ended(code)], pc' = [pc EXCEPT ![s] = q]
        PROVE  AllTell'
    <3>1. Ended(code).final /\ Ended(code).code = code /\ ~Ended(code).child
      BY <1>1 DEF Finally, Local
    <3>2. s \in NavSessions /\ code = 0 => launch[s].failure = None
      BY <2>3 DEF Outcome
    <3> HIDE DEF Ended
    <3>3. s \in NavSessions => Tells(q, Ended(code), launch[s].failure)
      BY <2>3, <3>1, <3>2 DEF Tells, Working
    <3>4. QED
      BY <1>1, <2>3, <3>3, TellMove
  <2>4. CASE ~own[s].final /\ Collect(s)
    <3>1. PICK code \in {Outcome(s, 0), Outcome(s, 1)} :
            IF code = 0 /\ own[s].stage < Stages(s)
            THEN own' = [own EXCEPT ![s] = Staged] /\ pc' = [pc EXCEPT ![s] = "begin"]
            ELSE /\ own' = [own EXCEPT ![s] = Ended(code)]
                 /\ pc' = [pc EXCEPT ![s] = IF s \in NavSessions THEN "quiet"
                                            ELSE "close"]
      BY <2>4 DEF Collect
    <3> HIDE DEF Staged, Ended
    <3>2. QED
      BY <2>2, <2>3, <2>4, <3>1
  <2>5. QED
    BY <1>10, <2>1, <2>4 DEF ChildStopped
<1>11. ASSUME ChildSurvives(s) PROVE AllTell'
  <2>1. CASE /\ own[s].final /\ own' = [own EXCEPT ![s] = Stuck]
             /\ pc[s] = "stop" /\ pc' = [pc EXCEPT ![s] = "close"]
    <3>1. /\ Stuck.final = own[s].final /\ Stuck.child = own[s].child
          /\ Stuck.code = own[s].code
      BY <1>1 DEF Local
    <3> HIDE DEF Stuck
    <3>2. s \in NavSessions => Tells("close", Stuck, launch[s].failure)
      BY <1>2, <2>1, <3>1 DEF Tells, Working
    <3>3. QED
      BY <1>1, <2>1, <3>2, TellMove
  <2>2. QED
    BY <1>4, <1>11, <2>1 DEF ChildSurvives
<1>12. ASSUME KillChild(s) PROVE AllTell'
  BY <1>12 DEF KillChild, AllTell
<1>13. ASSUME Close(s) PROVE AllTell'
  BY <1>1, <1>13, DieTells DEF Close
<1>14. QED
  BY <1>5, <1>6, <1>7, <1>8, <1>9, <1>10, <1>11, <1>12, <1>13 DEF Supervise


LEMMA TellStopRole ==
  ASSUME Inv, AllTell, NEW n \in NavSessions, StopRole(n)
  PROVE  AllTell'
<1> DEFINE Stuck == [own[n] EXCEPT !.error = TRUE]
<1>1. /\ own \in [Sessions -> Local] /\ own[n] \in Local /\ launch' = launch
      /\ n \in Sessions
  BY Before, SessionFacts DEF StopRole, ReadOwner, SignalOwner, AwaitOwner
<1>2. Tells(pc[n], own[n], launch[n].failure)
  BY DEF AllTell
<1>3. /\ pc[n] \in {"quiet", "signal", "await"}
      /\ \/ Step(n, "quiet", "signal") /\ own' = own
         \/ StopReturns(n)
         \/ Step(n, "signal", "await") /\ Asked(target[n])
         \/ StopRaises(n)
  BY DEF StopRole, ReadOwner, SignalOwner, AwaitOwner
<1>4. CASE Step(n, "quiet", "signal") /\ own' = own
  <2>1. Tells("signal", own[n], launch[n].failure)
    BY <1>2, <1>3 DEF Tells, Working
  <2>2. QED
    BY <1>1, <1>4, <2>1, TellTurn DEF Step
<1>5. CASE StopReturns(n)
  <2>1. Tells(AfterQuiet(n), own[n], launch[n].failure)
    BY <1>2, <1>3 DEF Tells, Working, AfterQuiet
  <2>2. QED
    BY <1>1, <1>5, <2>1, TellTurn DEF StopReturns
<1>6. CASE Step(n, "signal", "await") /\ Asked(target[n])
  <2>1. \A t \in Sessions : /\ own'[t].child = own[t].child
                            /\ own'[t].final = own[t].final
                            /\ own'[t].code = own[t].code
    BY <1>1, <1>6, AskKeeps
  <2>2. Tells("await", own'[n], launch[n].failure)
    BY <1>1, <1>2, <1>3, <2>1 DEF Tells, Working
  <2>3. QED
    BY <1>1, <1>6, <2>1, <2>2, TellTurn DEF Step
<1>7. CASE StopRaises(n)
  <2>1. CASE Raise(n)
    <3>1. EndOfTry(n) \in {"quiet", "stop", "close"}
      BY DEF EndOfTry
    <3>2. QED
      BY <1>1, <2>1, <3>1, FinallyTells DEF Raise
  <2>2. CASE /\ own[n].final /\ own' = [own EXCEPT ![n] = Stuck]
             /\ pc' = [pc EXCEPT ![n] = AfterQuiet(n)]
    <3>1. /\ Stuck.final = own[n].final /\ Stuck.child = own[n].child
          /\ Stuck.code = own[n].code
      BY <1>1 DEF Local
    <3> HIDE DEF Stuck
    <3>2. Tells(AfterQuiet(n), Stuck, launch[n].failure)
      BY <1>2, <2>2, <3>1 DEF Tells, Working, AfterQuiet
    <3>3. QED
      BY <1>1, <2>2, <3>2, TellMove
  <2>3. QED
    BY <1>7, <2>1, <2>2 DEF StopRaises
<1>8. QED
  BY <1>3, <1>4, <1>5, <1>6, <1>7

\* A failure is noted only while the launch is up, which its session knows.
LEMMA TellLaunch ==
  ASSUME Inv, AllTell, pc' = pc, own' = own,
         \A n \in NavSessions : \/ launch'[n].failure = launch[n].failure
                                \/ group[n].state = "up"
  PROVE  AllTell'
<1> SUFFICES ASSUME NEW n \in NavSessions
             PROVE  Tells(pc[n], own[n], launch'[n].failure)
  BY DEF AllTell
<1>1. /\ Tells(pc[n], own[n], launch[n].failure)
      /\ Knows(n, pc[n], own[n], group[n])
  BY SessionFacts, Before DEF AllTell
<1>2. QED
  BY <1>1 DEF Tells, Knows

\* What a step of a launch may do to the failure files.
LEMMA Failures ==
  ASSUME Inv, NEW s \in Sessions,
         \/ LaunchEnds(s) \/ OrphansEnd(s) \/ (s \in NavSessions /\ ShutsDown(s))
         \/ s \in NavSessions /\ \E node \in Nodes : CriticalExit(s, node)
  PROVE  /\ pc' = pc /\ own' = own
         /\ \A n \in NavSessions :
              \/ launch'[n].failure = launch[n].failure
              \/ launch[n].failure = None /\ group[n].state = "up"
<1>1. launch \in [NavSessions -> [down : BOOLEAN, failure : Nodes \cup {None}]]
  BY Before DEF Rest
<1>2. pc' = pc /\ own' = own
  BY DEF LaunchEnds, OrphansEnd, ShutsDown, CriticalExit
<1>3. ASSUME NEW n \in NavSessions
      PROVE  \/ launch'[n].failure = launch[n].failure
             \/ launch[n].failure = None /\ group[n].state = "up"
  <2>1. launch[n] \in [down : BOOLEAN, failure : Nodes \cup {None}]
    BY <1>1
  <2>2. [launch[n] EXCEPT !.down = TRUE].failure = launch[n].failure
    BY <2>1
  <2>3. CASE LaunchEnds(s)
    BY <2>2, <2>3 DEF LaunchEnds
  <2>4. CASE OrphansEnd(s)
    BY <2>4 DEF OrphansEnd
  <2>5. CASE s \in NavSessions /\ ShutsDown(s)
    <3>1. launch' = [launch EXCEPT ![s] = [launch[s] EXCEPT !.down = TRUE]]
      BY <2>5 DEF ShutsDown
    <3>2. QED
      BY <1>1, <2>2, <2>5, <3>1
  <2>6. ASSUME NEW node \in Nodes, s \in NavSessions, CriticalExit(s, node)
        PROVE  \/ launch'[n].failure = launch[n].failure
               \/ launch[n].failure = None /\ group[n].state = "up"
    <3>1. PICK failure \in {Kept(launch[s].failure, node), launch[s].failure} :
            launch' = [launch EXCEPT ![s] = [launch[s] EXCEPT !.failure = failure]]
      BY <2>6 DEF CriticalExit
    <3>2. [launch[n] EXCEPT !.failure = failure].failure = failure
      BY <2>1
    <3>3. failure = launch[s].failure \/ launch[s].failure = None
      BY <3>1 DEF Kept
    <3>4. group[s].state = "up"
      BY <2>6 DEF CriticalExit
    <3>5. QED
      BY <1>1, <2>6, <3>1, <3>2, <3>3, <3>4
  <2>7. QED
    BY <2>3, <2>4, <2>5, <2>6
<1>4. QED
  BY <1>2, <1>3

LEMMA TellInit == Init => AllTell
BY SessionFacts DEF Init, AllTell, Tells, Locals, Working

LEMMA TellStep == Inv /\ AllTell /\ [Next]_vars => AllTell'
<1> SUFFICES ASSUME Inv, AllTell, [Next]_vars PROVE AllTell'
  OBVIOUS
<1>1. ASSUME NEW s \in Sessions, Exec(s) PROVE AllTell'
  <2>1. Tells("new", own[s], launch[s].failure) => Tells("lock", own[s], launch[s].failure)
    BY DEF Tells, Working
  <2>2. QED
    BY <1>1, <2>1, TellTurn DEF Exec, Step, AllTell
<1>2. ASSUME NEW s \in Sessions, Signal(s) \/ Crash(s) PROVE AllTell'
  BY <1>2, DieTells, AskTells DEF Signal, Crash
<1>3. ASSUME NEW s \in Sessions,
             \/ LaunchEnds(s) \/ OrphansEnd(s) \/ (s \in NavSessions /\ ShutsDown(s))
             \/ s \in NavSessions /\ \E node \in Nodes : CriticalExit(s, node)
      PROVE  AllTell'
  BY <1>3, Failures, TellLaunch
<1>4. ASSUME NEW role \in Roles, StopTool(role) PROVE AllTell'
  BY <1>4, AskTells DEF StopTool
<1>5. CASE UNCHANGED vars
  BY <1>5 DEF vars, AllTell
<1>6. NavSessions \subseteq Sessions
  BY SessionFacts
<1>7. QED
  BY <1>1, <1>2, <1>3, <1>4, <1>5, <1>6, TellSupervise, TellStopRole DEF Next

\* supervise(): the failure file of a session that is closing is in its exit
\* code, however the launch, the stop of perception and the cleanup went.
THEOREM FailuresAreReported == Spec => []FailureIsReported
<1>1. Init => Inv /\ AllTell
  BY InvInit, TellInit
<1>2. Inv /\ AllTell /\ [Next]_vars => (Inv /\ AllTell)'
  BY InvStep, TellStep
<1>3. Inv /\ AllTell => FailureIsReported
  <2> SUFFICES ASSUME Inv, AllTell, NEW n \in NavSessions, pc[n] = "close",
                      launch[n].failure # None
               PROVE  own[n].code # 0
    BY DEF FailureIsReported
  <2>1. Tells("close", own[n], launch[n].failure)
    BY DEF AllTell
  <2>2. QED
    BY <2>1 DEF Tells
<1>4. QED
  BY <1>1, <1>2, <1>3, PTL DEF Spec

\* _critical_exit(): the first failure stays, whatever fails, ends or shuts
\* down later.
THEOREM FirstFailureStays == Spec => FirstFailureKept
<1> DEFINE A == \A n \in NavSessions : launch[n].failure # None
                  => launch'[n].failure = launch[n].failure
<1>1. Inv /\ [Next]_vars => [A]_vars
  <2> SUFFICES ASSUME Inv, Next PROVE A
    OBVIOUS
  <2>1. ASSUME launch' = launch PROVE A
    BY <2>1
  <2>2. ASSUME NEW s \in Sessions,
               \/ LaunchEnds(s) \/ OrphansEnd(s) \/ (s \in NavSessions /\ ShutsDown(s))
               \/ s \in NavSessions /\ \E node \in Nodes : CriticalExit(s, node)
        PROVE  A
    BY <2>2, Failures
  <2>3. ASSUME NEW s \in Sessions, Exec(s) \/ Supervise(s) \/ Signal(s) \/ Crash(s)
        PROVE  launch' = launch
    BY <2>3 DEF Exec, Signal, Crash, Supervise, Enter, Adopt, SaveStarting, Begin,
                Popen, Watch, ChildStopped, KillChild, ChildSurvives, Close
  <2>4. ASSUME NEW n \in NavSessions, StopRole(n)
        PROVE  launch' = launch
    BY <2>4 DEF StopRole, ReadOwner, SignalOwner, AwaitOwner
  <2>5. ASSUME NEW role \in Roles, StopTool(role)
        PROVE  launch' = launch
    BY <2>5 DEF StopTool
  <2>6. NavSessions \subseteq Sessions
    BY SessionFacts
  <2> HIDE DEF A
  <2>7. QED
    BY <2>1, <2>2, <2>3, <2>4, <2>5, <2>6 DEF Next
<1>2. QED
  BY <1>1, InvInit, InvStep, PTL DEF Spec, FirstFailureKept

\* _critical_exit() and supervise(): what happened first is what is told.
THEOREM FirstFailureIsTold == Spec => FirstFailureCounts
BY FailuresAreReported, FirstFailureStays DEF FirstFailureCounts

-----------------------------------------------------------------------------
(* What the sessions are to each other *)

\* Where a session at place q, with the locals o and the group g, is for the
\* others.
AtOwner(s, q, o) ==
  IF q \in {"new", "lock"} THEN "waits"
  ELSE IF q = "dead" THEN "gone"
  ELSE IF o.final THEN "ends"
  ELSE IF o.child /\ o.stage = Stages(s) THEN "runs" ELSE "owns"
AtStack(s, g) ==
  IF g.state = "none" \/ g.stage # Stages(s) THEN "none"
  ELSE IF g.state = "hidden" THEN "rest" ELSE "seen"
AtUnder(s, q, o, g) ==
  IF o.parent # None THEN o.parent
  ELSE IF AtStack(s, g) # "none" THEN g.nav ELSE None

\* What a supervisor at each place has of a child, and of whom it depends.
Lives(s, q, o, g) ==
  /\ q \in {"new", "lock", "adopt"} \cup Working => ~o.final
  /\ q \in {"new", "lock", "adopt", "save", "begin", "popen"} => ~o.child
  /\ q \in {"watch", "quiet", "signal", "await", "stop"} => o.final \/ o.child
  /\ q = "close" => o.final
  /\ o.final \/ q \in {"new", "lock", "dead"} => o.parent = None
  /\ q # "dead" /\ ~o.final /\ g.state # "none" => g.nav = o.parent
  /\ s \in NavSessions => q # "adopt" /\ o.parent = None
AllLive == \A s \in Sessions : Lives(s, pc[s], own[s], group[s])

OwnStep == [Owners!Turn]_(Owners!vars)

\* A turn of one session, s, in which others are at most asked to stop.
Changes(s, q, o, g) ==
  /\ pc' = [pc EXCEPT ![s] = q]
  /\ own'[s] = o
  /\ \A t \in Sessions : t # s => /\ own'[t].stage = own[t].stage
                                  /\ own'[t].parent = own[t].parent
                                  /\ own'[t].child = own[t].child
                                  /\ own'[t].final = own[t].final
  /\ group' = [group EXCEPT ![s] = g]

LEMMA At ==
  ASSUME NEW s \in Sessions
  PROVE  /\ Ownership(s) = AtOwner(s, pc[s], own[s])
         /\ Visible(s) = AtStack(s, group[s])
         /\ Dependency(s) = AtUnder(s, pc[s], own[s], group[s])
<1>1. Ownership(s) = AtOwner(s, pc[s], own[s])
  BY DEF Ownership, AtOwner, Held
<1>2. Visible(s) = AtStack(s, group[s])
  BY DEF Visible, Stack, Present, GroupAlive, AtStack
<1>3. Present(s) <=> AtStack(s, group[s]) # "none"
  BY DEF Present, GroupAlive, AtStack
<1>4. QED
  BY <1>1, <1>2, <1>3, SMT DEF Dependency, AtUnder

LEMMA AtNext ==
  ASSUME NEW s \in Sessions
  PROVE  /\ Ownership(s)' = AtOwner(s, pc'[s], own'[s])
         /\ Visible(s)' = AtStack(s, group'[s])
         /\ Dependency(s)' = AtUnder(s, pc'[s], own'[s], group'[s])
<1>1. Ownership(s)' = AtOwner(s, pc'[s], own'[s])
  BY DEF Ownership, AtOwner, Held
<1>2. Visible(s)' = AtStack(s, group'[s])
  BY DEF Visible, Stack, Present, GroupAlive, AtStack
<1>3. Present(s)' <=> AtStack(s, group'[s]) # "none"
  BY DEF Present, GroupAlive, AtStack
<1>4. QED
  BY <1>1, <1>2, <1>3, SMT DEF Dependency, AtUnder

LEMMA ChangesOne ==
  ASSUME Inv, AllLive, NEW s \in Sessions, NEW q, NEW o, NEW g,
         Changes(s, q, o, g), Lives(s, q, o, g)
  PROVE  /\ AllLive'
         /\ Ownership(s)' = AtOwner(s, q, o)
         /\ Visible(s)' = AtStack(s, g)
         /\ Dependency(s)' = AtUnder(s, q, o, g)
         /\ \A t \in Sessions : t # s => /\ Ownership(t)' = Ownership(t)
                                         /\ Visible(t)' = Visible(t)
                                         /\ Dependency(t)' = Dependency(t)
<1>1. /\ pc'[s] = q /\ own'[s] = o /\ group'[s] = g
      /\ \A t \in Sessions : t # s => /\ pc'[t] = pc[t] /\ group'[t] = group[t]
                                      /\ own'[t].stage = own[t].stage
                                      /\ own'[t].parent = own[t].parent
                                      /\ own'[t].child = own[t].child
                                      /\ own'[t].final = own[t].final
  BY Before DEF Changes
<1>2. ASSUME NEW t \in Sessions, t # s
      PROVE  /\ AtOwner(t, pc'[t], own'[t]) = AtOwner(t, pc[t], own[t])
             /\ AtStack(t, group'[t]) = AtStack(t, group[t])
             /\ AtUnder(t, pc'[t], own'[t], group'[t])
                  = AtUnder(t, pc[t], own[t], group[t])
             /\ Lives(t, pc'[t], own'[t], group'[t])
  <2>1. AtOwner(t, pc'[t], own'[t]) = AtOwner(t, pc[t], own[t])
    BY <1>1, <1>2 DEF AtOwner
  <2>2. AtStack(t, group'[t]) = AtStack(t, group[t])
    BY <1>1, <1>2 DEF AtStack
  <2>3. AtUnder(t, pc'[t], own'[t], group'[t]) = AtUnder(t, pc[t], own[t], group[t])
    BY <1>1, <1>2, <2>1 DEF AtUnder
  <2>4. Lives(t, pc[t], own[t], group[t])
    BY DEF AllLive
  <2>5. Lives(t, pc'[t], own'[t], group'[t])
    BY <1>1, <1>2, <2>4 DEF Lives
  <2>6. QED
    BY <2>1, <2>2, <2>3, <2>5
<1>3. AllLive'
  <2> SUFFICES ASSUME NEW t \in Sessions PROVE Lives(t, pc'[t], own'[t], group'[t])
    BY DEF AllLive
  <2>1. QED
    BY <1>1, <1>2
<1>4. QED
  BY <1>1, <1>2, <1>3, At, AtNext

\* A step of the abstract specification, session by session.
LEMMA TurnsOne ==
  ASSUME NEW s \in Sessions, NEW phase, NEW visible,
         Ownership(s)' = phase, Visible(s)' = visible,
         Dependency(s)' = IF phase \in {"owns", "runs"} \/ visible # "none"
                          THEN Dependency(s) ELSE None,
         \A t \in Sessions : t # s => /\ Ownership(t)' = Ownership(t)
                                      /\ Visible(t)' = Visible(t)
                                      /\ Dependency(t)' = Dependency(t)
  PROVE  Owners!Turns(s, phase, visible)
<1> DEFINE owner == [t \in Sessions |-> Ownership(t)]
           under == [t \in Sessions |-> Dependency(t)]
           stack == [t \in Sessions |-> Visible(t)]
<1>1. owner' = [owner EXCEPT ![s] = phase]
  OBVIOUS
<1>2. stack' = [stack EXCEPT ![s] = visible]
  OBVIOUS
<1>3. Owners!Depends(s)' <=> phase \in {"owns", "runs"} \/ visible # "none"
  BY DEF Owners!Depends
<1>4. under' = [under EXCEPT ![s] = IF Owners!Depends(s)' THEN @ ELSE None]
  BY <1>3
<1>5. QED
  BY <1>1, <1>2, <1>4 DEF Owners!Turns

LEMMA OwnersStay ==
  ASSUME \A t \in Sessions : /\ Ownership(t)' = Ownership(t)
                             /\ Visible(t)' = Visible(t)
                             /\ Dependency(t)' = Dependency(t)
  PROVE  OwnStep
<1>1. [t \in Sessions |-> Visible(t)]' = [t \in Sessions |-> Visible(t)]
  OBVIOUS
<1>2. [t \in Sessions |-> Ownership(t)]' = [t \in Sessions |-> Ownership(t)]
  OBVIOUS
<1>3. [t \in Sessions |-> Dependency(t)]' = [t \in Sessions |-> Dependency(t)]
  OBVIOUS
<1>4. QED
  BY <1>1, <1>2, <1>3 DEF OwnStep, Owners!vars

\* What the turn of a session is to the others: nothing, the end of what it may
\* start, or its own end.
Becomes(s, q, o, g) ==
  \/ /\ AtOwner(s, q, o) = Ownership(s)
     /\ AtStack(s, g) = Visible(s)
     /\ AtUnder(s, q, o, g) = Dependency(s)
  \/ AtOwner(s, q, o) = "ends" /\ Ownership(s) \in {"owns", "runs"} /\ g = group[s]
  \/ q = "dead" /\ pc[s] # "dead" /\ g = group[s]

LEMMA OwnersMove ==
  ASSUME Inv, AllLive, NEW s \in Sessions, NEW q, NEW o, NEW g,
         Changes(s, q, o, g), Lives(s, q, o, g), Becomes(s, q, o, g)
  PROVE  AllLive' /\ OwnStep
<1>1. /\ AllLive'
      /\ Ownership(s)' = AtOwner(s, q, o)
      /\ Visible(s)' = AtStack(s, g)
      /\ Dependency(s)' = AtUnder(s, q, o, g)
      /\ \A t \in Sessions : t # s => /\ Ownership(t)' = Ownership(t)
                                      /\ Visible(t)' = Visible(t)
                                      /\ Dependency(t)' = Dependency(t)
  BY ChangesOne
<1>2. CASE /\ AtOwner(s, q, o) = Ownership(s)
           /\ AtStack(s, g) = Visible(s)
           /\ AtUnder(s, q, o, g) = Dependency(s)
  <2>1. \A t \in Sessions : /\ Ownership(t)' = Ownership(t)
                            /\ Visible(t)' = Visible(t)
                            /\ Dependency(t)' = Dependency(t)
    BY <1>1, <1>2
  <2>2. QED
    BY <1>1, <2>1, OwnersStay
<1>3. CASE /\ g = group[s] /\ pc[s] # "dead" /\ AtOwner(s, q, o) \in {"ends", "gone"}
           /\ Ownership(s) \in {"owns", "runs"} \/ q = "dead"
  <2>1. /\ Ownership(s) = AtOwner(s, pc[s], own[s])
        /\ Visible(s) = AtStack(s, g)
        /\ Dependency(s) = AtUnder(s, pc[s], own[s], g)
    BY <1>3, At
  <2>2. Lives(s, pc[s], own[s], g) /\ Knows(s, pc[s], own[s], g)
    BY <1>3, Before DEF AllLive
  <2>3. o.parent = None
    BY <1>3 DEF AtOwner, Lives
  <2>4. AtStack(s, g) = "none" => AtUnder(s, q, o, g) = None
    BY <2>3 DEF AtUnder
  <2>5. ASSUME AtStack(s, g) # "none" PROVE AtUnder(s, q, o, g) = Dependency(s)
    <3>1. AtUnder(s, q, o, g) = g.nav
      BY <2>3, <2>5 DEF AtUnder
    <3>2. own[s].parent # None => g.nav = own[s].parent
      BY <1>3, <2>2, <2>5 DEF AtStack, Lives
    <3>3. QED
      BY <2>1, <2>5, <3>1, <3>2 DEF AtUnder
  <2>6. Owners!Turns(s, AtOwner(s, q, o), Visible(s))
    <3>1. Ownership(s)' = AtOwner(s, q, o) /\ Visible(s)' = Visible(s)
      BY <1>1, <2>1
    <3>2. Dependency(s)' = IF AtOwner(s, q, o) \in {"owns", "runs"} \/ Visible(s) # "none"
                           THEN Dependency(s) ELSE None
      BY <1>1, <1>3, <2>1, <2>4, <2>5
    <3>3. QED
      BY <1>1, <3>1, <3>2, TurnsOne
  <2>7. CASE q = "dead"
    <3>1. AtOwner(s, q, o) = "gone" /\ Ownership(s) # "gone"
      BY <1>3, <2>1, <2>7 DEF AtOwner
    <3>2. Owners!Leave(s)
      BY <2>6, <3>1 DEF Owners!Leave
    <3>3. QED
      BY <1>1, <3>2 DEF OwnStep, Owners!Turn, Owners!Members, Sessions
  <2>8. CASE q # "dead"
    <3>1. AtOwner(s, q, o) = "ends"
      BY <1>3, <2>8 DEF AtOwner
    <3>2. Owners!Finish(s)
      BY <1>3, <2>6, <2>8, <3>1 DEF Owners!Finish
    <3>3. QED
      BY <1>1, <3>2 DEF OwnStep, Owners!Turn, Owners!Members, Sessions
  <2>9. QED
    BY <2>7, <2>8
<1>4. CASE AtOwner(s, q, o) = "ends" /\ Ownership(s) \in {"owns", "runs"} /\ g = group[s]
  <2>1. pc[s] # "dead"
    BY <1>4, At DEF AtOwner
  <2>2. QED
    BY <1>3, <1>4, <2>1
<1>5. CASE q = "dead" /\ pc[s] # "dead" /\ g = group[s]
  BY <1>3, <1>5 DEF AtOwner
<1>6. QED
  BY <1>2, <1>4, <1>5 DEF Becomes

LEMMA GoStays ==
  ASSUME Inv, AllLive, NEW s \in Sessions, NEW q, NEW o,
         pc' = [pc EXCEPT ![s] = q], own' = [own EXCEPT ![s] = o], group' = group,
         Lives(s, q, o, group[s]), o.parent = own[s].parent,
         AtOwner(s, q, o) = AtOwner(s, pc[s], own[s])
  PROVE  AllLive' /\ OwnStep
<1>1. Changes(s, q, o, group[s])
  BY Before DEF Changes
<1>2. AtUnder(s, q, o, group[s]) = AtUnder(s, pc[s], own[s], group[s])
  BY DEF AtUnder
<1>3. Becomes(s, q, o, group[s])
  BY <1>2, At DEF Becomes
<1>4. QED
  BY <1>1, <1>3, OwnersMove

\* The finally clause is entered, or was before.
LEMMA GoEnds ==
  ASSUME Inv, AllLive, NEW s \in Sessions, NEW q \in {"quiet", "stop", "close"}, NEW o,
         pc' = [pc EXCEPT ![s] = q], own' = [own EXCEPT ![s] = o], group' = group,
         pc[s] \notin {"new", "lock", "dead"}, o.final, o.parent = None
  PROVE  AllLive' /\ OwnStep
<1>1. Lives(s, q, o, group[s])
  BY DEF Lives, Working
<1>2. AtOwner(s, q, o) = "ends"
  BY DEF AtOwner
<1>3. CASE own[s].final
  <2>1. AtOwner(s, pc[s], own[s]) = "ends"
    BY <1>3 DEF AtOwner
  <2>2. own[s].parent = None
    BY <1>3 DEF AllLive, Lives
  <2>3. QED
    BY <1>1, <1>2, <2>1, <2>2, GoStays
<1>4. CASE ~own[s].final
  <2>1. Ownership(s) \in {"owns", "runs"}
    BY <1>4, At DEF AtOwner
  <2>2. Changes(s, q, o, group[s]) /\ Becomes(s, q, o, group[s])
    BY <1>2, <2>1, Before DEF Changes, Becomes
  <2>3. QED
    BY <1>1, <2>2, OwnersMove
<1>5. QED
  BY <1>3, <1>4

LEMMA GoRaises ==
  ASSUME Inv, AllLive, NEW s \in Sessions, Raise(s), group' = group,
         pc[s] \notin {"new", "lock", "dead"}
  PROVE  AllLive' /\ OwnStep
<1> DEFINE o == Finally(s, 1)
<1>1. o.final /\ o.parent = None
  BY FinallyFacts DEF Inv
<1>2. own' = [own EXCEPT ![s] = o]
  BY DEF Raise
<1> HIDE DEF o
<1>3. EndOfTry(s) \in {"quiet", "stop", "close"}
  BY DEF EndOfTry
<1>4. pc' = [pc EXCEPT ![s] = EndOfTry(s)]
  BY DEF Raise
<1>5. QED
  BY <1>1, <1>2, <1>3, <1>4, GoEnds

LEMMA GoDies ==
  ASSUME Inv, AllLive, NEW s \in Sessions, Die(s), group' = group, pc[s] # "dead"
  PROVE  AllLive' /\ OwnStep
<1>1. Lives(s, "dead", Locals, group[s])
  BY DEF Lives, Locals, Working
<1>2. Changes(s, "dead", Locals, group[s])
  BY Before DEF Changes, Die
<1>3. Becomes(s, "dead", Locals, group[s])
  BY DEF Becomes
<1>4. QED
  BY <1>1, <1>2, <1>3, OwnersMove

\* What is owned does not depend on stop requests, records and launches.
LEMMA NothingMoves ==
  ASSUME Inv, AllLive, pc' = pc, group' = group,
         \A t \in Sessions : /\ own'[t].stage = own[t].stage
                             /\ own'[t].parent = own[t].parent
                             /\ own'[t].child = own[t].child
                             /\ own'[t].final = own[t].final
  PROVE  AllLive' /\ OwnStep
<1>1. ASSUME NEW t \in Sessions
      PROVE  /\ AtOwner(t, pc'[t], own'[t]) = AtOwner(t, pc[t], own[t])
             /\ AtStack(t, group'[t]) = AtStack(t, group[t])
             /\ AtUnder(t, pc'[t], own'[t], group'[t])
                  = AtUnder(t, pc[t], own[t], group[t])
             /\ Lives(t, pc'[t], own'[t], group'[t])
  <2>1. AtOwner(t, pc'[t], own'[t]) = AtOwner(t, pc[t], own[t])
    BY DEF AtOwner
  <2>2. AtUnder(t, pc'[t], own'[t], group'[t]) = AtUnder(t, pc[t], own[t], group[t])
    BY <2>1 DEF AtUnder
  <2>3. Lives(t, pc[t], own[t], group[t])
    BY DEF AllLive
  <2>4. Lives(t, pc'[t], own'[t], group'[t])
    BY <2>3 DEF Lives
  <2>5. QED
    BY <2>1, <2>2, <2>4
<1>2. AllLive'
  BY <1>1 DEF AllLive
<1>3. QED
  BY <1>1, <1>2, At, AtNext, OwnersStay

LEMMA GoAsked ==
  ASSUME Inv, AllLive, NEW x, Asked(x), pc' = pc, group' = group
  PROVE  AllLive' /\ OwnStep
<1>1. own \in [Sessions -> Local]
  BY Types DEF Inv
<1>2. QED
  BY <1>1, AskKeeps, NothingMoves

\* A group ends in part or in whole, or is marked as killed.
LEMMA GoGroup ==
  ASSUME Inv, AllLive, NEW s \in Sessions, NEW g \in Group, GroupAlive(s),
         pc' = pc, own' = own, group' = [group EXCEPT ![s] = g],
         \/ g = NoGroup
         \/ /\ g.state = group[s].state \/ g.state = "hidden"
               \/ (g.state = "orphans" /\ group[s].state = "up")
            /\ g.stage = group[s].stage /\ g.nav = group[s].nav
  PROVE  AllLive' /\ OwnStep
<1>1. /\ Lives(s, pc[s], own[s], group[s]) /\ own \in [Sessions -> Local]
      /\ group[s].state # "none"
  BY Before DEF AllLive, GroupAlive
<1>2. Lives(s, pc[s], own[s], g)
  BY <1>1, NoGroupFacts DEF Lives
<1>3. Changes(s, pc[s], own[s], g)
  BY Before DEF Changes
<1>4. CASE AtStack(s, g) = Visible(s)
  <2>1. AtUnder(s, pc[s], own[s], g) = AtUnder(s, pc[s], own[s], group[s])
    <3>1. AtStack(s, g) # "none" => g.nav = group[s].nav
      BY NoGroupFacts DEF AtStack
    <3>2. QED
      BY <1>4, <3>1, At, SMT DEF AtUnder
  <2>2. Becomes(s, pc[s], own[s], g)
    BY <1>4, <2>1, At DEF Becomes
  <2>3. QED
    BY <1>2, <1>3, <2>2, OwnersMove
<1>5. CASE AtStack(s, g) # Visible(s)
  <2>1. /\ Visible(s) # "none" /\ AtStack(s, g) \in {"rest", "none"}
        /\ AtStack(s, g) # "none" => g.nav = group[s].nav
    BY <1>1, <1>5, At, NoGroupFacts DEF AtStack
  <2>2. /\ AllLive'
        /\ Ownership(s)' = Ownership(s)
        /\ Visible(s)' = AtStack(s, g)
        /\ Dependency(s)' = AtUnder(s, pc[s], own[s], g)
        /\ \A t \in Sessions : t # s => /\ Ownership(t)' = Ownership(t)
                                        /\ Visible(t)' = Visible(t)
                                        /\ Dependency(t)' = Dependency(t)
    BY <1>2, <1>3, ChangesOne, At
  <2>3. own[s].parent # None => Ownership(s) \in {"owns", "runs"}
    BY <1>1, At DEF Lives, AtOwner
  <2>4. Ownership(s) \in {"owns", "runs"} => Dependency(s) = own[s].parent
    <3>1. own[s].parent = None /\ Ownership(s) \in {"owns", "runs"} => group[s].nav = None
      BY <1>1, At DEF Lives, AtOwner
    <3>2. QED
      BY <3>1, At, SMT DEF AtUnder
  <2>5. Dependency(s)' = IF Ownership(s) \in {"owns", "runs"} \/ AtStack(s, g) # "none"
                         THEN Dependency(s) ELSE None
    <3>1. Dependency(s) = AtUnder(s, pc[s], own[s], group[s])
          /\ AtStack(s, group[s]) # "none"
      BY <2>1, At
    <3>2. QED
      BY <2>1, <2>2, <2>3, <2>4, <3>1, SMT DEF AtUnder
  <2>6. Owners!Turns(s, Ownership(s), AtStack(s, g))
    BY <2>2, <2>5, TurnsOne
  <2>7. Owners!StackEnds(s)
    BY <2>1, <2>6 DEF Owners!StackEnds
  <2>8. QED
    BY <2>2, <2>7 DEF OwnStep, Owners!Turn, Owners!Members, Sessions
<1>6. QED
  BY <1>4, <1>5

\* The steps of a supervisor that start nothing.
LEMMA OwnersSupervise ==
  ASSUME Inv, AllLive, NEW s \in Sessions,
         \/ SaveStarting(s) \/ Begin(s) \/ Watch(s) \/ ChildStopped(s) \/ KillChild(s)
         \/ ChildSurvives(s) \/ Close(s) \/ Exec(s)
  PROVE  AllLive' /\ OwnStep
<1> DEFINE Coded == [own[s] EXCEPT !.code = 1]
           Stuck == [own[s] EXCEPT !.error = TRUE]
           Staged == [own[s] EXCEPT !.stage = @ + 1, !.child = FALSE]
           Ended(code) == [Finally(s, code) EXCEPT !.child = FALSE]
           Marked == [group[s] EXCEPT !.killed = TRUE]
<1>1. /\ own \in [Sessions -> Local] /\ own[s] \in Local /\ group[s] \in Group
      /\ Lives(s, pc[s], own[s], group[s]) /\ Knows(s, pc[s], own[s], group[s])
      /\ own[s].stage \in 1 .. 2
  BY Before DEF AllLive, Local
<1>2. ASSUME NEW q, pc' = [pc EXCEPT ![s] = q], own' = own, group' = group,
             Lives(s, q, own[s], group[s]),
             AtOwner(s, q, own[s]) = AtOwner(s, pc[s], own[s])
      PROVE  AllLive' /\ OwnStep
  <2>1. own' = [own EXCEPT ![s] = own[s]]
    BY <1>1, <1>2
  <2>2. QED
    BY <1>2, <2>1, GoStays
<1>3. CASE Exec(s)
  <2>1. /\ pc[s] = "new" /\ pc' = [pc EXCEPT ![s] = "lock"]
        /\ own' = own /\ group' = group
    BY <1>3 DEF Exec, Step
  <2>2. /\ Lives(s, "lock", own[s], group[s])
        /\ AtOwner(s, "lock", own[s]) = AtOwner(s, pc[s], own[s])
    BY <1>1, <2>1 DEF Lives, Working, AtOwner
  <2>3. QED
    BY <1>2, <2>1, <2>2
<1>4. CASE SaveStarting(s)
  <2>1. pc[s] = "save" /\ group' = group
    BY <1>4 DEF SaveStarting, Step
  <2>2. CASE pc' = [pc EXCEPT ![s] = "begin"] /\ own' = own
    <3>1. /\ Lives(s, "begin", own[s], group[s])
          /\ AtOwner(s, "begin", own[s]) = AtOwner(s, pc[s], own[s])
      BY <1>1, <2>1 DEF Lives, Working, AtOwner
    <3>2. QED
      BY <1>2, <2>1, <2>2, <3>1
  <2>3. CASE Die(s)
    BY <2>1, <2>3, GoDies
  <2>4. QED
    BY <1>4, <2>2, <2>3 DEF SaveStarting, Step
<1>5. CASE Begin(s)
  <2>1. pc[s] = "begin" /\ group' = group
    BY <1>5 DEF Begin
  <2>2. CASE pc' = [pc EXCEPT ![s] = "popen"] /\ own' = own
    <3>1. /\ Lives(s, "popen", own[s], group[s])
          /\ AtOwner(s, "popen", own[s]) = AtOwner(s, pc[s], own[s])
      BY <1>1, <2>1 DEF Lives, Working, AtOwner
    <3>2. QED
      BY <1>2, <2>1, <2>2, <3>1
  <2>3. CASE Raise(s)
    BY <2>1, <2>3, GoRaises
  <2>4. QED
    BY <1>5, <2>2, <2>3 DEF Begin, Step, Raise
<1>6. CASE Watch(s)
  <2> DEFINE q == IF s \in NavSessions THEN "quiet" ELSE "stop"
  <2>1. /\ pc[s] = "watch" /\ pc' = [pc EXCEPT ![s] = q] /\ group' = group
        /\ own' = own \/ own' = [own EXCEPT ![s] = Coded]
    BY <1>6 DEF Watch, Step
  <2>2. q \in {"quiet", "stop"}
    OBVIOUS
  <2>3. /\ Coded.stage = own[s].stage /\ Coded.parent = own[s].parent
        /\ Coded.child = own[s].child /\ Coded.final = own[s].final
    BY <1>1 DEF Local
  <2> HIDE DEF q, Coded
  <2>4. /\ Lives(s, q, own[s], group[s]) /\ Lives(s, q, Coded, group[s])
        /\ AtOwner(s, q, own[s]) = AtOwner(s, pc[s], own[s])
        /\ AtOwner(s, q, Coded) = AtOwner(s, pc[s], own[s])
    BY <1>1, <2>1, <2>2, <2>3 DEF Lives, Working, AtOwner
  <2>5. QED
    BY <1>2, <2>1, <2>3, <2>4, GoStays
<1>7. CASE ChildStopped(s)
  <2>1. pc[s] = "stop" /\ group' = group
    BY <1>7 DEF ChildStopped
  <2>2. CASE own[s].final /\ Step(s, "stop", "close") /\ own' = own
    <3>1. /\ Lives(s, "close", own[s], group[s])
          /\ AtOwner(s, "close", own[s]) = AtOwner(s, pc[s], own[s])
      BY <1>1, <2>1, <2>2 DEF Lives, Working, AtOwner
    <3>2. QED
      BY <1>2, <2>1, <2>2, <3>1 DEF Step
  <2>3. ASSUME ~own[s].final, own[s].stage < Stages(s),
               own' = [own EXCEPT ![s] = Staged], pc' = [pc EXCEPT ![s] = "begin"]
        PROVE  AllLive' /\ OwnStep
    <3>1. /\ Staged.parent = own[s].parent /\ ~Staged.child
          /\ Staged.final = own[s].final
      BY <1>1 DEF Local
    <3> HIDE DEF Staged
    <3>2. own[s].stage # Stages(s)
      BY <1>1, <2>3, SessionFacts
    <3>3. /\ Lives(s, "begin", Staged, group[s])
          /\ AtOwner(s, "begin", Staged) = AtOwner(s, pc[s], own[s])
      BY <1>1, <2>1, <2>3, <3>1, <3>2 DEF Lives, Working, AtOwner
    <3>4. QED
      BY <2>1, <2>3, <3>1, <3>3, GoStays
  <2>4. ASSUME NEW code \in {0, 1}, NEW q \in {"quiet", "close"},
               own' = [own EXCEPT ![s] = Ended(code)], pc' = [pc EXCEPT ![s] = q]
        PROVE  AllLive' /\ OwnStep
    <3>1. /\ Finally(s, code) \in Local /\ Finally(s, code).parent = None
          /\ Finally(s, code).final
      BY FinallyFacts DEF Inv
    <3>2. Ended(code).final /\ Ended(code).parent = None
      BY <3>1 DEF Local
    <3> HIDE DEF Ended
    <3>3. QED
      BY <2>1, <2>4, <3>2, GoEnds
  <2>5. CASE ~own[s].final /\ Collect(s)
    <3>1. own[s].code \in {0, 1}
      BY <1>1 DEF Local
    <3>2. Outcome(s, 0) \in {0, 1} /\ Outcome(s, 1) \in {0, 1}
      BY <3>1 DEF Outcome
    <3>3. PICK code \in {0, 1} :
            IF code = 0 /\ own[s].stage < Stages(s)
            THEN own' = [own EXCEPT ![s] = Staged] /\ pc' = [pc EXCEPT ![s] = "begin"]
            ELSE /\ own' = [own EXCEPT ![s] = Ended(code)]
                 /\ pc' = [pc EXCEPT ![s] = IF s \in NavSessions THEN "quiet"
                                            ELSE "close"]
      BY <2>5, <3>2 DEF Collect
    <3> HIDE DEF Staged, Ended
    <3>4. QED
      BY <2>3, <2>4, <2>5, <3>3
  <2>6. QED
    BY <1>7, <2>2, <2>5 DEF ChildStopped
<1>8. CASE KillChild(s)
  <2>1. /\ pc' = pc /\ own' = own /\ GroupAlive(s)
        /\ group' = [group EXCEPT ![s] = Marked]
    BY <1>8 DEF KillChild
  <2>2. /\ Marked \in Group /\ Marked.state = group[s].state
        /\ Marked.stage = group[s].stage /\ Marked.nav = group[s].nav
    BY <1>1 DEF Group
  <2> HIDE DEF Marked
  <2>3. QED
    BY <2>1, <2>2, GoGroup DEF GroupAlive
<1>9. CASE ChildSurvives(s)
  <2>1. pc[s] = "stop" /\ group' = group
    BY <1>9 DEF ChildSurvives
  <2>2. CASE /\ own[s].final /\ own' = [own EXCEPT ![s] = Stuck]
             /\ pc' = [pc EXCEPT ![s] = "close"]
    <3>1. /\ Stuck.parent = own[s].parent /\ Stuck.final
      BY <1>1, <2>2 DEF Local
    <3> HIDE DEF Stuck
    <3>2. own[s].parent = None
      BY <1>1, <2>2 DEF Lives
    <3>3. QED
      BY <2>1, <2>2, <3>1, <3>2, GoEnds
  <2>3. CASE Raise(s)
    BY <2>1, <2>3, GoRaises
  <2>4. QED
    BY <1>9, <2>2, <2>3 DEF ChildSurvives
<1>10. CASE Close(s)
  BY <1>10, GoDies DEF Close
<1>11. QED
  BY <1>3, <1>4, <1>5, <1>6, <1>7, <1>8, <1>9, <1>10

LEMMA OwnersStopRole ==
  ASSUME Inv, AllLive, NEW n \in NavSessions, StopRole(n)
  PROVE  AllLive' /\ OwnStep
<1> DEFINE Stuck == [own[n] EXCEPT !.error = TRUE]
<1>1. /\ own \in [Sessions -> Local] /\ own[n] \in Local /\ n \in Sessions
      /\ Lives(n, pc[n], own[n], group[n])
  BY Before, SessionFacts DEF AllLive
<1>2. /\ pc[n] \in {"quiet", "signal", "await"} /\ group' = group
      /\ \/ Step(n, "quiet", "signal") /\ own' = own
         \/ StopReturns(n)
         \/ Step(n, "signal", "await") /\ Asked(target[n])
         \/ StopRaises(n)
  BY DEF StopRole, ReadOwner, SignalOwner, AwaitOwner
<1>3. ASSUME NEW q \in {"signal", "stop", "close"}, q = "close" => ~own[n].child,
             pc' = [pc EXCEPT ![n] = q], own' = own
      PROVE  AllLive' /\ OwnStep
  <2>1. /\ Lives(n, q, own[n], group[n])
        /\ AtOwner(n, q, own[n]) = AtOwner(n, pc[n], own[n])
    BY <1>1, <1>2, <1>3 DEF Lives, Working, AtOwner
  <2>2. own' = [own EXCEPT ![n] = own[n]]
    BY <1>1, <1>3
  <2>3. QED
    BY <1>1, <1>2, <1>3, <2>1, <2>2, GoStays
<1>4. CASE Step(n, "quiet", "signal") /\ own' = own
  BY <1>3, <1>4 DEF Step
<1>5. CASE StopReturns(n)
  BY <1>3, <1>5 DEF StopReturns, AfterQuiet
<1>6. CASE Step(n, "signal", "await") /\ Asked(target[n])
  <2>1. \A t \in Sessions : /\ own'[t].child = own[t].child
                            /\ own'[t].final = own[t].final
                            /\ own'[t].parent = own[t].parent
                            /\ own'[t].stage = own[t].stage
    BY <1>1, <1>6, AskKeeps
  <2> DEFINE o == own'[n]
  <2>2. Changes(n, "await", o, group[n])
    BY <1>1, <1>2, <1>6, <2>1, Before DEF Changes, Step
  <2>3. /\ o.child = own[n].child /\ o.final = own[n].final
        /\ o.parent = own[n].parent /\ o.stage = own[n].stage
    BY <1>1, <2>1
  <2> HIDE DEF o
  <2>4. /\ Lives(n, "await", o, group[n])
        /\ AtOwner(n, "await", o) = AtOwner(n, pc[n], own[n])
    BY <1>1, <1>2, <2>3 DEF Lives, Working, AtOwner
  <2>5. AtUnder(n, "await", o, group[n]) = AtUnder(n, pc[n], own[n], group[n])
    BY <2>3, <2>4 DEF AtUnder
  <2>6. Becomes(n, "await", o, group[n])
    BY <1>1, <2>4, <2>5, At DEF Becomes
  <2>7. QED
    BY <1>1, <2>2, <2>4, <2>6, OwnersMove
<1>7. CASE StopRaises(n)
  <2>1. CASE Raise(n)
    BY <1>1, <1>2, <2>1, GoRaises
  <2>2. CASE /\ own[n].final /\ own' = [own EXCEPT ![n] = Stuck]
             /\ pc' = [pc EXCEPT ![n] = AfterQuiet(n)]
    <3>1. Stuck.parent = own[n].parent /\ Stuck.final
      BY <1>1, <2>2 DEF Local
    <3> HIDE DEF Stuck
    <3>2. own[n].parent = None /\ AfterQuiet(n) \in {"quiet", "stop", "close"}
      BY <1>1, <2>2 DEF Lives, AfterQuiet
    <3>3. QED
      BY <1>1, <1>2, <2>2, <3>1, <3>2, GoEnds
  <2>3. QED
    BY <1>7, <2>1, <2>2 DEF StopRaises
<1>8. QED
  BY <1>2, <1>4, <1>5, <1>6, <1>7

\* The three steps that make a claim are those of the abstract specification.
LEMMA EnterAcquires ==
  ASSUME Inv, AllLive, NEW s \in Sessions, Enter(s)
  PROVE  AllLive' /\ OwnStep
<1> DEFINE q == IF s \in NavSessions THEN "save" ELSE "adopt"
<1>1. pc[s] = "lock" /\ group' = group
  BY DEF Enter
<1>2. /\ own \in [Sessions -> Local]
      /\ Lives(s, "lock", own[s], group[s]) /\ Knows(s, "lock", own[s], group[s])
  BY <1>1, Before DEF AllLive
<1>3. CASE Die(s)
  BY <1>1, <1>3, GoDies
<1>4. CASE ~Locked(s) /\ Conflicts(s) = {} /\ Step(s, "lock", q) /\ own' = own
  <2>1. q \in {"save", "adopt"} /\ (s \in NavSessions => q = "save")
    OBVIOUS
  <2> HIDE DEF q
  <2>2. Lives(s, q, own[s], group[s])
    BY <1>2, <2>1 DEF Lives, Working
  <2>3. Changes(s, q, own[s], group[s])
    BY <1>1, <1>2, <1>4, Before DEF Changes, Step
  <2>4. /\ AllLive'
        /\ Ownership(s)' = AtOwner(s, q, own[s])
        /\ Visible(s)' = AtStack(s, group[s])
        /\ Dependency(s)' = AtUnder(s, q, own[s], group[s])
        /\ \A t \in Sessions : t # s => /\ Ownership(t)' = Ownership(t)
                                        /\ Visible(t)' = Visible(t)
                                        /\ Dependency(t)' = Dependency(t)
    BY <2>2, <2>3, ChangesOne
  <2>5. ~own[s].final /\ ~own[s].child /\ own[s].parent = None
        /\ AtStack(s, group[s]) = "none"
    BY <1>2 DEF Lives, Knows, AtStack
  <2>6. AtOwner(s, q, own[s]) = "owns" /\ AtUnder(s, q, own[s], group[s]) = None
    BY <2>1, <2>5 DEF AtOwner, AtUnder
  <2>7. Ownership(s) = "waits" /\ Dependency(s) = None /\ Visible(s) = "none"
    BY <1>1, <2>5, At, SMT DEF AtOwner, AtUnder
  <2>9. Owners!Turns(s, "owns", Visible(s))
    BY <2>4, <2>5, <2>6, <2>7, TurnsOne
  <2>10. ASSUME NEW t \in Sessions, Owners!InTheWay(s, t)
         PROVE  ~Owners!Owns(t) /\ Visible(t) # "seen"
    <3>1. t # s /\ (Role(t) = Role(s) \/ Role(s) = "nav")
      BY <2>10, SessionFacts DEF Owners!InTheWay, Role
    <3>2. ~Held(t) /\ ~Stack(t)
      BY <1>4, <3>1, NobodyThere
    <3>3. Ownership(t) \in {"waits", "gone"}
      BY <3>2 DEF Ownership, Held
    <3>4. QED
      BY <3>2, <3>3 DEF Owners!Owns, Visible
  <2>11. Owners!Acquire(s)
    BY <2>7, <2>9, <2>10 DEF Owners!Acquire, Owners!Members, Sessions
  <2>12. QED
    BY <2>4, <2>11 DEF OwnStep, Owners!Turn, Owners!Members, Sessions
<1>5. QED
  BY <1>3, <1>4 DEF Enter

LEMMA AdoptDepends ==
  ASSUME Inv, AllLive, NEW s \in Sessions, Adopt(s)
  PROVE  AllLive' /\ OwnStep
<1> DEFINE m == record["nav"].owner
           o == [own[s] EXCEPT !.parent = m]
<1>1. pc[s] = "adopt" /\ group' = group
  BY DEF Adopt
<1>2. /\ own \in [Sessions -> Local] /\ own[s] \in Local
      /\ Lives(s, "adopt", own[s], group[s]) /\ Knows(s, "adopt", own[s], group[s])
  BY <1>1, Before DEF AllLive
<1>3. CASE Die(s)
  BY <1>1, <1>3, GoDies
<1>4. CASE SameProcess(m) /\ Step(s, "adopt", "save") /\ own' = [own EXCEPT ![s] = o]
  <2>1. m \in NavSessions /\ m \in Sessions /\ Held(m)
    BY <1>4, RecordedOwner
  <2>2. s \in PerceptionSessions
    BY <1>2 DEF Lives, Sessions
  <2> HIDE DEF m
  <2>3. /\ o.parent = m /\ o.child = own[s].child /\ o.final = own[s].final
        /\ o.stage = own[s].stage
    BY <1>2 DEF Local
  <2> HIDE DEF o
  <2>4. ~own[s].final /\ ~own[s].child /\ own[s].parent = None /\ group[s].state = "none"
    BY <1>2 DEF Lives, Knows
  <2>5. Lives(s, "save", o, group[s])
    BY <1>2, <2>2, <2>3, <2>4, SessionAssumption DEF Lives, Working, SessionAssumption
  <2>6. Changes(s, "save", o, group[s])
    BY <1>1, <1>2, <1>4, Before DEF Changes, Step
  <2>7. /\ AllLive'
        /\ Ownership(s)' = AtOwner(s, "save", o)
        /\ Visible(s)' = AtStack(s, group[s])
        /\ Dependency(s)' = AtUnder(s, "save", o, group[s])
        /\ \A t \in Sessions : t # s => /\ Ownership(t)' = Ownership(t)
                                        /\ Visible(t)' = Visible(t)
                                        /\ Dependency(t)' = Dependency(t)
    BY <2>5, <2>6, ChangesOne
  <2>8. AtOwner(s, "save", o) = "owns" /\ AtUnder(s, "save", o, group[s]) = m
    BY <2>1, <2>3, <2>4, SessionFacts DEF AtOwner, AtUnder
  <2>9. Ownership(s) = "owns" /\ Dependency(s) = None
    BY <1>1, <2>4, At DEF AtOwner, AtUnder, AtStack
  <2>10. Owners!Owns(m)
    BY <2>1 DEF Owners!Owns, Ownership, Held
  <2>11. [t \in Sessions |-> Dependency(t)]'
           = [[t \in Sessions |-> Dependency(t)] EXCEPT ![s] = m]
    BY <2>7, <2>8
  <2>12. [t \in Sessions |-> Ownership(t)]' = [t \in Sessions |-> Ownership(t)]
    BY <2>7, <2>8, <2>9
  <2>13. [t \in Sessions |-> Visible(t)]' = [t \in Sessions |-> Visible(t)]
    BY <2>7, At
  <2>14. Owners!Depend(s)
    BY <2>1, <2>9, <2>10, <2>11, <2>12, <2>13 DEF Owners!Depend
  <2>15. QED
    BY <2>2, <2>7, <2>14 DEF OwnStep, Owners!Turn
<1>5. QED
  BY <1>3, <1>4 DEF Adopt

LEMMA PopenStarts ==
  ASSUME Inv, AllLive, NEW s \in Sessions, Popen(s)
  PROVE  AllLive' /\ OwnStep
<1> DEFINE g == [state |-> "up", killed |-> FALSE,
                 stage |-> own[s].stage, nav |-> own[s].parent]
           Child == [own[s] EXCEPT !.child = TRUE]
           Failed == [Finally(s, 1) EXCEPT !.child = TRUE]
<1>1. pc[s] = "popen"
  BY DEF Popen
<1>2. /\ own \in [Sessions -> Local] /\ own[s] \in Local
      /\ Lives(s, "popen", own[s], group[s]) /\ Knows(s, "popen", own[s], group[s])
  BY <1>1, Before DEF AllLive
<1>3. CASE Raise(s) /\ group' = group
  BY <1>1, <1>3, GoRaises
<1>4. ASSUME NEW q \in {"watch", "quiet", "stop"}, NEW o,
             \/ q = "watch" /\ o = Child
             \/ q # "watch" /\ o = Failed,
             pc' = [pc EXCEPT ![s] = q], own' = [own EXCEPT ![s] = o],
             group' = [group EXCEPT ![s] = g]
      PROVE  AllLive' /\ OwnStep
  <2>1. /\ Child.parent = own[s].parent /\ Child.child
        /\ Child.final = own[s].final /\ Child.stage = own[s].stage
    BY <1>2 DEF Local
  <2>2. Finally(s, 1) \in Local /\ Finally(s, 1).parent = None /\ Finally(s, 1).final
    BY FinallyFacts DEF Inv
  <2>3. Failed.parent = None /\ Failed.child /\ Failed.final
    BY <2>2 DEF Local
  <2>4. g.state = "up" /\ g.nav = own[s].parent /\ g.stage = own[s].stage
    OBVIOUS
  <2> HIDE DEF g, Child, Failed
  <2>5. /\ ~own[s].final /\ ~own[s].child /\ group[s].state = "none"
        /\ s \in NavSessions => own[s].parent = None
        /\ s \in PerceptionSessions => own[s].parent # None
    BY <1>2 DEF Lives, Knows, Working
  <2>6. Lives(s, q, o, g)
    BY <1>4, <2>1, <2>3, <2>4, <2>5 DEF Lives, Working
  <2>7. Changes(s, q, o, g)
    BY <1>2, <1>4, Before DEF Changes
  <2>8. /\ AllLive'
        /\ Ownership(s)' = AtOwner(s, q, o)
        /\ Visible(s)' = AtStack(s, g)
        /\ Dependency(s)' = AtUnder(s, q, o, g)
        /\ \A t \in Sessions : t # s => /\ Ownership(t)' = Ownership(t)
                                        /\ Visible(t)' = Visible(t)
                                        /\ Dependency(t)' = Dependency(t)
    BY <2>6, <2>7, ChangesOne
  <2>9. /\ Ownership(s) = "owns" /\ Dependency(s) = own[s].parent
        /\ Visible(s) = "none"
    BY <1>1, <2>5, At DEF AtOwner, AtUnder, AtStack
  <2>10. /\ AtStack(s, g) = IF own[s].stage = Stages(s) THEN "seen" ELSE "none"
         /\ AtOwner(s, q, o) = IF o.final THEN "ends"
                               ELSE IF AtStack(s, g) = "seen" THEN "runs" ELSE "owns"
    BY <1>4, <2>1, <2>3, <2>4, <2>5 DEF AtStack, AtOwner
  <2>11. Dependency(s)' = IF AtOwner(s, q, o) \in {"owns", "runs"} \/ AtStack(s, g) # "none"
                          THEN Dependency(s) ELSE None
    BY <1>4, <2>1, <2>3, <2>4, <2>5, <2>8, <2>9, <2>10 DEF AtUnder
  <2>12. CASE AtStack(s, g) = "seen"
    <3>1. Visible(s)' = "seen"
      BY <2>8, <2>12
    <3>2. Dependency(s)' = IF AtOwner(s, q, o) \in {"owns", "runs"} \/ "seen" # "none"
                           THEN Dependency(s) ELSE None
      BY <2>11, <2>12
    <3>3. Owners!Turns(s, AtOwner(s, q, o), "seen")
      BY <2>8, <3>1, <3>2, TurnsOne
    <3>4. AtOwner(s, q, o) \in {"runs", "ends"}
      BY <2>10, <2>12
    <3>5. Owners!Start(s)
      BY <2>5, <2>9, <3>3, <3>4 DEF Owners!Start
    <3>6. QED
      BY <2>8, <3>5 DEF OwnStep, Owners!Turn, Owners!Members, Sessions
  <2>13. CASE AtStack(s, g) = "none"
    <3>1. Visible(s)' = Visible(s)
      BY <2>8, <2>9, <2>13
    <3>2. Dependency(s)' = IF AtOwner(s, q, o) \in {"owns", "runs"} \/ Visible(s) # "none"
                           THEN Dependency(s) ELSE None
      BY <2>9, <2>11, <2>13
    <3>3. CASE o.final
      <4>1. AtOwner(s, q, o) = "ends"
        BY <2>10, <3>3
      <4>2. Owners!Turns(s, "ends", Visible(s))
        BY <2>8, <2>9, <3>1, <3>2, <4>1, TurnsOne
      <4>3. Owners!Finish(s)
        BY <2>9, <4>2 DEF Owners!Finish
      <4>4. QED
        BY <2>8, <4>3 DEF OwnStep, Owners!Turn, Owners!Members, Sessions
    <3>4. CASE ~o.final
      <4>1. AtOwner(s, q, o) = "owns"
        BY <2>10, <2>13, <3>4
      <4>2. \A t \in Sessions : /\ Ownership(t)' = Ownership(t)
                                /\ Visible(t)' = Visible(t)
                                /\ Dependency(t)' = Dependency(t)
        BY <2>8, <2>9, <3>1, <3>2, <4>1
      <4>3. QED
        BY <2>8, <4>2, OwnersStay
    <3>5. QED
      BY <3>3, <3>4
  <2>14. QED
    BY <2>10, <2>12, <2>13
<1>5. CASE /\ group' = [group EXCEPT ![s] = g] /\ Step(s, "popen", "watch")
           /\ own' = [own EXCEPT ![s].child = TRUE]
  <2>1. own' = [own EXCEPT ![s] = Child] /\ pc' = [pc EXCEPT ![s] = "watch"]
    BY <1>5 DEF Step
  <2> HIDE DEF g, Child, Failed
  <2>2. QED
    BY <1>4, <1>5, <2>1
<1>6. CASE /\ group' = [group EXCEPT ![s] = g] /\ own' = [own EXCEPT ![s] = Failed]
           /\ pc' = [pc EXCEPT ![s] = IF s \in NavSessions THEN "quiet" ELSE "stop"]
  <2> HIDE DEF g, Child, Failed
  <2>1. QED
    BY <1>4, <1>6
<1>7. QED
  BY <1>3, <1>5, <1>6 DEF Popen

\* A launch that ends, with its children or not.
LEMMA OwnersLaunch ==
  ASSUME Inv, AllLive, NEW s \in Sessions, LaunchEnds(s) \/ OrphansEnd(s)
  PROVE  AllLive' /\ OwnStep
<1> DEFINE Left(state) == [group[s] EXCEPT !.state = state]
<1>1. /\ pc' = pc /\ own' = own /\ GroupAlive(s)
      /\ \/ group' = [group EXCEPT ![s] = NoGroup]
         \/ group' = [group EXCEPT ![s] = Left("hidden")]
         \/ group' = [group EXCEPT ![s] = Left("orphans")] /\ group[s].state = "up"
  BY DEF LaunchEnds, OrphansEnd, GroupAlive, Remains
<1>2. group[s] \in Group
  BY Before
<1>3. ASSUME NEW state \in {"orphans", "hidden"}
      PROVE  /\ Left(state) \in Group /\ Left(state).state = state
             /\ Left(state).stage = group[s].stage /\ Left(state).nav = group[s].nav
  BY <1>2 DEF Group
<1> HIDE DEF Left
<1>4. QED
  BY <1>1, <1>3, NoGroupFacts, GoGroup

LEMMA OwnersInit == Init => AllLive /\ Owners!Init
<1> SUFFICES ASSUME Init PROVE AllLive /\ Owners!Init
  OBVIOUS
<1>1. AllLive
  <2> SUFFICES ASSUME NEW s \in Sessions PROVE Lives(s, pc[s], own[s], group[s])
    BY DEF AllLive
  <2>1. QED
    BY NoGroupFacts DEF Init, Lives, Locals, Working
<1>2. \A s \in Sessions : Ownership(s) = "waits" /\ Visible(s) = "none" /\ Dependency(s) = None
  BY NoGroupFacts, LocalsFacts
     DEF Init, Ownership, Dependency, Visible, Stack, Present, GroupAlive
<1>3. QED
  BY <1>1, <1>2 DEF Owners!Init, Owners!Members, Sessions

LEMMA OwnersStep == Inv /\ AllLive /\ [Next]_vars => AllLive' /\ OwnStep
<1> SUFFICES ASSUME Inv, AllLive, [Next]_vars PROVE AllLive' /\ OwnStep
  OBVIOUS
<1>1. ASSUME NEW s \in Sessions, Supervise(s) \/ Exec(s) PROVE AllLive' /\ OwnStep
  BY <1>1, EnterAcquires, AdoptDepends, PopenStarts, OwnersSupervise DEF Supervise
<1>2. ASSUME NEW s \in Sessions, Signal(s) PROVE AllLive' /\ OwnStep
  BY <1>2, GoDies, GoAsked DEF Signal, Running
<1>3. ASSUME NEW s \in Sessions, Crash(s) PROVE AllLive' /\ OwnStep
  BY <1>3, GoDies DEF Crash, Running
<1>4. ASSUME NEW s \in Sessions, LaunchEnds(s) \/ OrphansEnd(s)
      PROVE  AllLive' /\ OwnStep
  BY <1>4, OwnersLaunch
<1>5. ASSUME NEW n \in NavSessions, StopRole(n) PROVE AllLive' /\ OwnStep
  BY <1>5, OwnersStopRole
<1>6. ASSUME NEW n \in NavSessions,
             ShutsDown(n) \/ \E node \in Nodes : CriticalExit(n, node)
      PROVE  AllLive' /\ OwnStep
  BY <1>6, NothingMoves DEF ShutsDown, CriticalExit
<1>7. ASSUME NEW role \in Roles, StopTool(role) PROVE AllLive' /\ OwnStep
  BY <1>7, GoAsked DEF StopTool
<1>8. CASE UNCHANGED vars
  BY <1>8, NothingMoves DEF vars
<1>9. QED
  BY <1>1, <1>2, <1>3, <1>4, <1>5, <1>6, <1>7, <1>8 DEF Next

\* The sessions keep the promise of StackOwners, step by step.
THEOREM SessionsTakeTurns == Spec => ImplementsOwners
<1>1. Init => Inv /\ AllLive /\ Owners!Init
  BY InvInit, OwnersInit
<1>2. Inv /\ AllLive /\ [Next]_vars => (Inv /\ AllLive)' /\ [Owners!Next]_(Owners!vars)
  BY InvStep, OwnersStep DEF OwnStep, Owners!Next
<1>3. QED
  BY <1>1, <1>2, PTL DEF Spec, ImplementsOwners, Owners!Spec
=============================================================================
