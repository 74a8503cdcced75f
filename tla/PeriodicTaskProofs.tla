-------------------------- MODULE PeriodicTaskProofs --------------------------
(***************************************************************************)
(* What holds of the periodic tasks for any number of tasks, nodes and     *)
(* passes: the types, and that a task that ran successfully does not run   *)
(* again before its next point.  A pass that is killed before the mark,  *)
(* a failure, an overlap and a run by hand may repeat a run, and each      *)
(* makes served forget it; SoundRuns follows a run it still remembers from *)
(* the pass that made it to the last run of the task.                      *)
(***************************************************************************)
EXTENDS PeriodicTask, WellFoundedInduction, TLAPS

\* A pass on a node that has a task in front of it, or in its hands.
Holds(p, k, n) == pass[p].node = n /\ k \in pass[p].left

\* A pass that ran a task on a node and did not mark it yet.
Marking(p, k, n) == ToMark(p) /\ pass[p].node = n /\ NextTask(p) = k

\* No other pass of the node will run the task.
OnePass(k, n) ==
    \A p, q \in Passes : Holds(p, k, n) /\ Holds(q, k, n) => p = q

\* The run to be marked is the one held.
OwnMark(k, n) ==
    \A p \in Passes :
        Marking(p, k, n) => pass[p].ok /\ pass[p].stamp = served[k][n]

\* Once marked, it is the last run, unless the task was set or deleted since.
Marked(k, n) ==
    (\A p \in Passes : ~Marking(p, k, n)) =>
        \/ lastRun[k][n] = served[k][n]
        \/ lastRun[k][n] = Never /\ (task[k].exists => served[k][n] <= task[k].updated)

\* The next point has passed for a pass that is going to run the task.
PointPassed(k, n) ==
    \A p \in Passes :
        Holds(p, k, n) /\ ~Marking(p, k, n) => NextPoint(served[k][n]) <= now

SoundRun(k, n) == OnePass(k, n) /\ OwnMark(k, n) /\ Marked(k, n) /\ PointPassed(k, n)
SoundRuns == \A k \in Tasks, n \in Nodes : served[k][n] # Never => SoundRun(k, n)

\* A task that does not exist has no last runs.
GoneForgotten == \A k \in Tasks, n \in Nodes : ~task[k].exists => lastRun[k][n] = Never

CronInv == CronTypeOK /\ GoneForgotten /\ SoundRuns

-----------------------------------------------------------------------------
(* The operators *)

LEMMA LeastNatural ==
    ASSUME NEW S, S \subseteq Nat, S # {}
    PROVE  \E c \in S : \A d \in S : c <= d
<1>1. PICK R : /\ IsWellFoundedOn(R, Nat)
               /\ \A x, y \in Nat : <<x, y>> \in R <=> x < y
  <2>1. \A x, y \in Nat : <<x, y>> \in OpToRel(<, Nat) <=> x < y
    BY DEF OpToRel
  <2>2. QED BY <2>1, NatLessThanWellFounded
<1>2. PICK c \in S : \A d \in S : ~ (<<d, c>> \in R)
  <2>1. IsWellFoundedOn(R, Nat)
    BY <1>1
  <2>2. QED BY <2>1, WFMin, Zenon
<1>3. \A d \in S : d \in Nat /\ c \in Nat /\ ~ (d < c)
  BY <1>1, <1>2
<1>4. QED BY <1>3

\* The loop of a pass takes one of the tasks it has left.
LEMMA NextTaskLeft ==
    ASSUME CronTypeOK, NEW p \in Passes, Busy(p)
    PROVE  NextTask(p) \in pass[p].left /\ NextTask(p) \in Tasks /\ pass[p].node \in Nodes
<1>1. pass[p].left \subseteq Tasks /\ pass[p].node \in Nodes
  BY DEF CronTypeOK
<1>2. Tasks \subseteq Nat
  BY PeriodicAssumption DEF Tasks
<1>3. \E k \in pass[p].left : \A j \in pass[p].left : k <= j
  BY <1>1, <1>2, LeastNatural DEF Busy
<1>4. NextTask(p) \in pass[p].left
  BY <1>3 DEF NextTask
<1>5. QED BY <1>1, <1>4

\* A later time has no earlier next point.
LEMMA NextPointMonotone ==
    ASSUME NEW a \in Int, NEW b \in Int, a <= b
    PROVE  NextPoint(a) <= NextPoint(b)
<1> DEFINE qa == a \div Period
           qb == b \div Period
<1>1. Period \in Nat /\ Period > 0
  BY PeriodicAssumption
<1>2. qa \in Int /\ qb \in Int /\ qa * Period <= a /\ b < (qb + 1) * Period
  BY <1>1, Z3
<1>3. qa <= qb
  <2> SUFFICES ASSUME qb + 1 <= qa PROVE FALSE
    BY <1>2
  <2>1. (qb + 1) * Period <= qa * Period
    BY <1>1, <1>2, Z3
  <2>2. QED BY <2>1, <1>1, <1>2, Z3
<1>4. (qa + 1) * Period <= (qb + 1) * Period
  BY <1>1, <1>2, <1>3, Z3
<1>5. QED BY <1>4 DEF NextPoint

-----------------------------------------------------------------------------
(* The types *)

LEMMA CronTypesInit == Init => CronTypeOK
<1> SUFFICES ASSUME Init PROVE CronTypeOK
  OBVIOUS
<1>1. pass \in [Passes -> [node : Nodes, left : SUBSET Tasks, stamp : -1 .. now, ok : BOOLEAN]]
  <2>1. now = 0 /\ Never \in -1 .. now
    BY DEF Init, Never
  <2>2. \A n \in Nodes : NoPass(n) \in [node : Nodes, left : SUBSET Tasks, stamp : -1 .. now, ok : BOOLEAN]
    BY <2>1 DEF NoPass, PassWith
  <2>3. QED BY <2>2 DEF Init
<1>2. \A p \in Passes : pass[p] = NoPass(pass[p].node)
  <2>1. \A n \in Nodes : NoPass(n).node = n
    BY DEF NoPass, PassWith
  <2>2. QED BY <2>1 DEF Init
<1>3. QED BY <1>1, <1>2, PeriodicAssumption DEF Init, CronTypeOK, Never

\* A change of one pass keeps the types of all, when it leaves a proper row.
LEMMA PassTypes ==
    ASSUME CronTypeOK, NEW p \in Passes, NEW n \in Nodes, NEW left \in SUBSET Tasks,
           pass' = [pass EXCEPT ![p] = PassWith(n, left)], now' = now
    PROVE  /\ pass' \in [Passes -> [node : Nodes, left : SUBSET Tasks, stamp : -1 .. now', ok : BOOLEAN]]
           /\ \A q \in Passes : ~Busy(q)' => pass'[q] = NoPass(pass'[q].node)
<1> DEFINE row == PassWith(n, left)
<1>1. now \in 0 .. MaxTime /\ MaxTime \in Nat /\ Never \in -1 .. now'
  BY PeriodicAssumption DEF CronTypeOK, Never
<1>2. row \in [node : Nodes, left : SUBSET Tasks, stamp : -1 .. now', ok : BOOLEAN]
  BY <1>1 DEF PassWith
<1>3. row.left = left /\ row.node = n
  BY DEF PassWith
<1>4. pass' = [pass EXCEPT ![p] = row]
  OBVIOUS
<1> HIDE DEF row
<1>5. pass' \in [Passes -> [node : Nodes, left : SUBSET Tasks, stamp : -1 .. now', ok : BOOLEAN]]
  BY <1>2, <1>4 DEF CronTypeOK
<1>6. ASSUME NEW q \in Passes, ~Busy(q)' PROVE pass'[q] = NoPass(pass'[q].node)
  <2>1. CASE q = p
    <3>1. pass'[q] = row
      BY <2>1, <1>4 DEF CronTypeOK
    <3>2. left = {}
      BY <3>1, <1>3, <1>6 DEF Busy
    <3>3. row = PassWith(n, {})
      BY <3>2 DEF row
    <3>4. QED BY <3>1, <3>3, <1>3 DEF NoPass
  <2>2. CASE q # p
    BY <2>2, <1>4, <1>6 DEF Busy, CronTypeOK
  <2>3. QED BY <2>1, <2>2
<1>7. QED BY <1>5, <1>6

LEMMA CronTypesChange ==
    ASSUME CronTypeOK, Change
    PROVE  CronTypeOK'
<1>1. /\ now' = now /\ crashes' = crashes /\ changes' \in 0 .. MaxChanges
      /\ now \in 0 .. MaxTime
  BY PeriodicAssumption DEF Change, CronTypeOK
<1>2. Never \in -1 .. now
  BY <1>1, PeriodicAssumption DEF Never
<1>3. PICK k \in Tasks :
         \/ \E nodes \in SUBSET Nodes, active \in BOOLEAN : SetTask(k, nodes, active)
         \/ \E active \in BOOLEAN : Enable(k, active)
         \/ Delete(k)
         \/ \E p \in Passes, n \in Nodes : Manual(p, k, n)
  BY DEF Change
<1>4. ASSUME NEW nodes \in SUBSET Nodes, NEW active \in BOOLEAN, SetTask(k, nodes, active)
      PROVE  CronTypeOK'
  BY <1>1, <1>2, <1>4 DEF SetTask, CronTypeOK, Busy
<1>5. ASSUME NEW active \in BOOLEAN, Enable(k, active)
      PROVE  CronTypeOK'
  <2>1. [task[k] EXCEPT !.active = active, !.updated = now]
            \in [exists : BOOLEAN, active : BOOLEAN, nodes : SUBSET Nodes, updated : 0 .. now]
    <3>1. /\ task[k] \in [exists : BOOLEAN, active : BOOLEAN, nodes : SUBSET Nodes, updated : 0 .. now]
          /\ now \in 0 .. now
      BY <1>1, PeriodicAssumption DEF CronTypeOK
    <3>2. QED BY <3>1
  <2>2. task' = [task EXCEPT ![k] = [task[k] EXCEPT !.active = active, !.updated = now]]
    BY <1>5 DEF Enable, CronTypeOK
  <2>3. task' \in [Tasks -> [exists : BOOLEAN, active : BOOLEAN, nodes : SUBSET Nodes, updated : 0 .. now]]
    BY <2>1, <2>2 DEF CronTypeOK
  <2>4. QED BY <1>1, <1>5, <2>3 DEF Enable, CronTypeOK, Busy
<1>6. ASSUME Delete(k) PROVE CronTypeOK'
  BY <1>1, <1>2, <1>6 DEF Delete, CronTypeOK, Busy, NoRow
<1>7. ASSUME NEW p \in Passes, NEW n \in Nodes, Manual(p, k, n)
      PROVE  CronTypeOK'
  <2>1. /\ pass' \in [Passes -> [node : Nodes, left : SUBSET Tasks, stamp : -1 .. now', ok : BOOLEAN]]
        /\ \A q \in Passes : ~Busy(q)' => pass'[q] = NoPass(pass'[q].node)
    <3>1. {k} \in SUBSET Tasks
      OBVIOUS
    <3>2. pass' = [pass EXCEPT ![p] = PassWith(n, {k})]
      BY <1>7 DEF Manual
    <3>3. QED BY <1>1, <3>1, <3>2, PassTypes
  <2>2. served' \in [Tasks -> [Nodes -> -1 .. now]]
    BY <1>2, <1>7 DEF Manual, CronTypeOK
  <2>3. QED BY <1>1, <1>7, <2>1, <2>2 DEF Manual, CronTypeOK
<1>8. QED BY <1>3, <1>4, <1>5, <1>6, <1>7

LEMMA CronTypesNext == CronTypeOK /\ [Next]_cronVars => CronTypeOK'
<1> SUFFICES ASSUME CronTypeOK, [Next]_cronVars PROVE CronTypeOK'
  OBVIOUS
<1>1. now \in 0 .. MaxTime /\ Never \in -1 .. now /\ MaxTime \in Nat /\ MaxCrashes \in Nat
  BY PeriodicAssumption DEF CronTypeOK, Never
<1>2. CASE Change
  BY <1>2, CronTypesChange
<1>3. CASE Tick
  <2>1. now' = now + 1 /\ now' \in 0 .. MaxTime
    BY <1>1, <1>3 DEF Tick
  <2>2. 0 .. now \subseteq 0 .. now' /\ -1 .. now \subseteq -1 .. now'
    BY <1>1, <2>1
  <2>3. pass' \in [Passes -> [node : Nodes, left : SUBSET Tasks, stamp : -1 .. now', ok : BOOLEAN]]
    BY <1>3, <2>2 DEF Tick, CronTypeOK
  <2>4. task' \in [Tasks -> [exists : BOOLEAN, active : BOOLEAN, nodes : SUBSET Nodes, updated : 0 .. now']]
    BY <1>3, <2>2 DEF Tick, CronTypeOK
  <2>5. lastRun' \in [Tasks -> [Nodes -> -1 .. now']] /\ served' \in [Tasks -> [Nodes -> -1 .. now']]
    BY <1>3, <2>2 DEF Tick, CronTypeOK
  <2>6. QED BY <1>3, <2>1, <2>3, <2>4, <2>5 DEF Tick, CronTypeOK, Busy
<1>4. ASSUME NEW p \in Passes, NEW n \in Nodes, Collect(p, n) PROVE CronTypeOK'
  <2>1. /\ pass' \in [Passes -> [node : Nodes, left : SUBSET Tasks, stamp : -1 .. now', ok : BOOLEAN]]
        /\ \A q \in Passes : ~Busy(q)' => pass'[q] = NoPass(pass'[q].node)
    BY <1>4, PassTypes DEF Collect
  <2>2. served' \in [Tasks -> [Nodes -> -1 .. now]]
    BY <1>1, <1>4 DEF Collect, CronTypeOK
  <2>3. QED BY <1>4, <2>1, <2>2 DEF Collect, CronTypeOK
<1>5. ASSUME NEW p \in Passes, NEW ok \in BOOLEAN, Run(p, ok) PROVE CronTypeOK'
  <2> DEFINE row == [pass[p] EXCEPT !.stamp = now, !.ok = ok]
  <2>1. Busy(p) /\ NextTask(p) \in Tasks /\ pass[p].node \in Nodes
    BY <1>5, NextTaskLeft DEF Run, ToRun
  <2>2. pass[p] \in [node : Nodes, left : SUBSET Tasks, stamp : -1 .. now, ok : BOOLEAN]
    BY DEF CronTypeOK
  <2>3. pass' = [pass EXCEPT ![p] = row]
    BY <1>5 DEF Run, CronTypeOK
  <2>4. row \in [node : Nodes, left : SUBSET Tasks, stamp : -1 .. now, ok : BOOLEAN]
    <3> DEFINE stamped == [pass[p] EXCEPT !.stamp = now]
    <3>1. stamped \in [node : Nodes, left : SUBSET Tasks, stamp : -1 .. now, ok : BOOLEAN]
      BY <2>2, <1>1
    <3>2. row = [stamped EXCEPT !.ok = ok]
      BY <2>2
    <3> HIDE DEF stamped, row
    <3>3. QED BY <3>1, <3>2
  <2>5. row.left = pass[p].left
    BY <2>2
  <2>6. pass' \in [Passes -> [node : Nodes, left : SUBSET Tasks, stamp : -1 .. now, ok : BOOLEAN]]
    BY <2>3, <2>4 DEF CronTypeOK
  <2>7. ASSUME NEW q \in Passes, ~Busy(q)' PROVE pass'[q] = NoPass(pass'[q].node)
    <3> HIDE DEF row
    <3>1. CASE q = p
      BY <3>1, <2>3, <2>5, <2>7, <2>1 DEF Busy, CronTypeOK
    <3>2. CASE q # p
      BY <3>2, <2>3, <2>7 DEF Busy, CronTypeOK
    <3>3. QED BY <3>1, <3>2
  <2>8. served' \in [Tasks -> [Nodes -> -1 .. now]]
    <3>1. PICK t \in -1 .. now : served' = [served EXCEPT ![NextTask(p)][pass[p].node] = t]
      <4>1. CASE ok /\ Alone(p)
        <5>1. now \in -1 .. now
          BY <1>1
        <5>2. QED BY <4>1, <5>1, <1>5 DEF Run
      <4>2. CASE ~(ok /\ Alone(p))
        BY <4>2, <1>1, <1>5 DEF Run
      <4>3. QED BY <4>1, <4>2
    <3>2. QED BY <2>1, <3>1 DEF CronTypeOK
  <2>9. QED BY <1>5, <2>6, <2>7, <2>8 DEF Run, CronTypeOK
<1>6. ASSUME NEW p \in Passes, Mark(p) PROVE CronTypeOK'
  <2>1. /\ Busy(p) /\ NextTask(p) \in Tasks /\ pass[p].node \in Nodes
        /\ pass[p].left \subseteq Tasks /\ pass[p].stamp \in -1 .. now
    BY <1>6, NextTaskLeft DEF Mark, ToMark, CronTypeOK
  <2>2. PICK left \in SUBSET Tasks :
           pass' = [pass EXCEPT ![p] = PassWith(pass[p].node, left)]
    BY <1>6, <2>1 DEF Mark
  <2>3. /\ pass' \in [Passes -> [node : Nodes, left : SUBSET Tasks, stamp : -1 .. now', ok : BOOLEAN]]
        /\ \A q \in Passes : ~Busy(q)' => pass'[q] = NoPass(pass'[q].node)
    BY <1>6, <2>1, <2>2, PassTypes DEF Mark
  <2>4. lastRun' \in [Tasks -> [Nodes -> -1 .. now]]
    BY <1>6, <2>1 DEF Mark, CronTypeOK
  <2>5. QED BY <1>6, <2>3, <2>4 DEF Mark, CronTypeOK
<1>7. ASSUME NEW p \in Passes, Crash(p) PROVE CronTypeOK'
  <2>1. NextTask(p) \in Tasks /\ pass[p].node \in Nodes
    BY <1>7, NextTaskLeft DEF Crash
  <2>3. pass' = [pass EXCEPT ![p] = PassWith(pass[p].node, {})]
    BY <1>7 DEF Crash, NoPass
  <2>4. /\ pass' \in [Passes -> [node : Nodes, left : SUBSET Tasks, stamp : -1 .. now', ok : BOOLEAN]]
        /\ \A q \in Passes : ~Busy(q)' => pass'[q] = NoPass(pass'[q].node)
    <3>1. {} \in SUBSET Tasks /\ now' = now
      BY <1>7 DEF Crash
    <3>2. QED BY <2>1, <2>3, <3>1, PassTypes
  <2>5. served' \in [Tasks -> [Nodes -> -1 .. now]]
    BY <1>1, <1>7, <2>1 DEF Crash, CronTypeOK
  <2>6. crashes' \in 0 .. MaxCrashes
    BY <1>1, <1>7 DEF Crash, CronTypeOK
  <2>7. QED BY <1>7, <2>4, <2>5, <2>6 DEF Crash, CronTypeOK
<1>8. CASE UNCHANGED cronVars
  BY <1>8 DEF cronVars, CronTypeOK, Busy
<1>9. QED BY <1>2, <1>3, <1>4, <1>5, <1>6, <1>7, <1>8 DEF Next

\* The types hold of the rows, the last runs and the passes, and a pass that has
\* nothing left to run holds on to no run (run_task_on_node, run_scheduled).
THEOREM CronTypeCorrect == Spec => []CronTypeOK
<1>1. QED BY CronTypesInit, CronTypesNext, PTL DEF Spec

-----------------------------------------------------------------------------
(* Sound runs *)

LEMMA CronInvInit == Init => CronInv
<1> SUFFICES ASSUME Init PROVE CronInv
  OBVIOUS
<1>1. CronTypeOK
  BY CronTypesInit
<1>2. GoneForgotten
  BY DEF Init, GoneForgotten
<1>3. SoundRuns
  BY DEF Init, SoundRuns
<1>4. QED BY <1>1, <1>2, <1>3 DEF CronInv

\* Only a mark and an administrator change a last run, and a mark of a task that
\* was deleted changes none.
LEMMA GoneForgottenNext == CronInv /\ [Next]_cronVars => GoneForgotten'
<1> SUFFICES ASSUME CronInv, [Next]_cronVars, NEW k \in Tasks, NEW n \in Nodes,
                    ~task'[k].exists
             PROVE  lastRun'[k][n] = Never
  BY DEF GoneForgotten
<1>1. CronTypeOK /\ (~task[k].exists => lastRun[k][n] = Never)
  BY DEF CronInv, GoneForgotten
<1>2. CASE UNCHANGED <<task, lastRun>>
  BY <1>1, <1>2
<1>3. ASSUME NEW j \in Tasks, NEW nodes \in SUBSET Nodes, NEW active \in BOOLEAN,
             SetTask(j, nodes, active)
      PROVE  lastRun'[k][n] = Never
  BY <1>1, <1>3 DEF SetTask, CronTypeOK
<1>4. ASSUME NEW j \in Tasks, NEW active \in BOOLEAN, Enable(j, active)
      PROVE  lastRun'[k][n] = Never
  <2>1. task'[k].exists = task[k].exists
    BY <1>1, <1>4 DEF Enable, CronTypeOK
  <2>2. QED BY <2>1, <1>1, <1>4 DEF Enable
<1>5. ASSUME NEW j \in Tasks, Delete(j)
      PROVE  lastRun'[k][n] = Never
  BY <1>1, <1>5 DEF Delete, CronTypeOK
<1>6. ASSUME NEW p \in Passes, Mark(p)
      PROVE  lastRun'[k][n] = Never
  <2>1. NextTask(p) \in Tasks /\ pass[p].node \in Nodes
    BY <1>1, <1>6, NextTaskLeft DEF Mark, ToMark
  <2>2. task' = task /\ ~task[k].exists /\ lastRun[k][n] = Never
    BY <1>1, <1>6 DEF Mark
  <2>3. CASE NextTask(p) = k
    BY <2>2, <2>3, <1>6 DEF Mark
  <2>4. CASE NextTask(p) # k
    BY <2>1, <2>2, <2>4, <1>1, <1>6 DEF Mark, CronTypeOK
  <2>5. QED BY <2>3, <2>4
<1>7. CASE Change
  <2>1. PICK j \in Tasks :
           \/ \E nodes \in SUBSET Nodes, active \in BOOLEAN : SetTask(j, nodes, active)
           \/ \E active \in BOOLEAN : Enable(j, active)
           \/ Delete(j)
           \/ \E p \in Passes, m \in Nodes : Manual(p, j, m)
    BY <1>7 DEF Change
  <2>2. QED BY <2>1, <1>2, <1>3, <1>4, <1>5 DEF Manual
<1>8. QED BY <1>2, <1>6, <1>7 DEF Next, Tick, Collect, Run, Crash, cronVars

\* A pass whose row stays has and marks what it did.
LEMMA SamePass ==
    ASSUME NEW q \in Passes, pass'[q] = pass[q], NEW k \in Tasks, NEW n \in Nodes
    PROVE  /\ Holds(q, k, n)' <=> Holds(q, k, n)
           /\ Marking(q, k, n)' <=> Marking(q, k, n)
BY DEF Holds, Marking, ToMark, Busy, NextTask

\* A pass that gets a new row is not marking.
LEMMA FreshPass ==
    ASSUME CronTypeOK, NEW p \in Passes, NEW m, NEW left,
           pass' = [pass EXCEPT ![p] = PassWith(m, left)],
           NEW k \in Tasks, NEW n \in Nodes
    PROVE  /\ Holds(p, k, n)' <=> m = n /\ k \in left
           /\ ~Marking(p, k, n)'
           /\ \A q \in Passes \ {p} : pass'[q] = pass[q]
<1>1. pass'[p] = PassWith(m, left)
  BY DEF CronTypeOK
<1>2. pass'[p].node = m /\ pass'[p].left = left /\ pass'[p].stamp = Never
  BY <1>1 DEF PassWith
<1>3. \A q \in Passes \ {p} : pass'[q] = pass[q]
  BY DEF CronTypeOK
<1>4. QED BY <1>2, <1>3 DEF Holds, Marking, ToMark

\* A run stays sound when no pass is about to run it that was not before, or to
\* mark it otherwise, and what marking it leaves is right.
LEMMA SoundRunKept ==
    ASSUME CronTypeOK, CronTypeOK', NEW k \in Tasks, NEW n \in Nodes, SoundRun(k, n),
           served'[k][n] = served[k][n], now <= now', Marked(k, n)',
           \A q \in Passes : /\ Holds(q, k, n)' => Holds(q, k, n)
                             /\ Marking(q, k, n) => Marking(q, k, n)'
                             /\ Marking(q, k, n)' => Marking(q, k, n) /\ pass'[q] = pass[q]
    PROVE  SoundRun(k, n)'
<1>1. OnePass(k, n)'
  BY DEF SoundRun, OnePass
<1>2. OwnMark(k, n)'
  BY DEF SoundRun, OwnMark
<1>3. PointPassed(k, n)'
  <2>1. NextPoint(served[k][n])' = NextPoint(served[k][n])
    BY DEF NextPoint
  <2>2. now \in Int /\ now' \in Int /\ NextPoint(served[k][n]) \in Int
    <3>1. served[k][n] \in -1 .. now /\ now \in Int /\ now' \in Int
      BY DEF CronTypeOK
    <3>2. QED BY <3>1, PeriodicAssumption DEF NextPoint
  <2>3. ASSUME NEW q \in Passes, Holds(q, k, n)', ~Marking(q, k, n)'
        PROVE  NextPoint(served[k][n]) <= now
    BY <2>3 DEF SoundRun, PointPassed
  <2>4. ASSUME NEW q \in Passes, Holds(q, k, n)', ~Marking(q, k, n)'
        PROVE  NextPoint(served[k][n])' <= now'
    BY <2>1, <2>2, <2>3, <2>4
  <2>5. QED BY <2>4 DEF PointPassed
<1>4. QED BY <1>1, <1>2, <1>3 DEF SoundRun

\* An administrator changes rows, or starts a pass for a task whose run he forgets.
LEMMA SoundRunsChange ==
    ASSUME CronInv, CronTypeOK', Change, NEW k \in Tasks, NEW n \in Nodes,
           served'[k][n] # Never
    PROVE  SoundRun(k, n)'
<1>1. CronTypeOK /\ now' = now /\ now \in Int
  BY DEF CronInv, CronTypeOK, Change
<1>2. served[k][n] \in -1 .. now
  BY <1>1 DEF CronTypeOK
<1>3. PICK j \in Tasks :
         \/ \E nodes \in SUBSET Nodes, active \in BOOLEAN : SetTask(j, nodes, active)
         \/ \E active \in BOOLEAN : Enable(j, active)
         \/ Delete(j)
         \/ \E p \in Passes, m \in Nodes : Manual(p, j, m)
  BY DEF Change
\* Rows are changed: the last run is forgotten or kept, an update is the latest.
<1>4. ASSUME UNCHANGED <<pass, served>>,
             \/ lastRun'[k][n] = lastRun[k][n] /\ task'[k] = task[k]
             \/ lastRun'[k][n] = lastRun[k][n] /\ task'[k].updated = now
             \/ lastRun'[k][n] = Never /\ (task'[k].exists => task'[k].updated = now)
      PROVE  SoundRun(k, n)'
  <2>1. SoundRun(k, n)
    BY <1>4 DEF CronInv, SoundRuns
  <2>2. \A q \in Passes : /\ Holds(q, k, n)' <=> Holds(q, k, n)
                          /\ Marking(q, k, n)' <=> Marking(q, k, n)
    BY <1>4, SamePass
  <2>3. Marked(k, n)'
    BY <1>1, <1>2, <1>4, <2>1, <2>2 DEF SoundRun, Marked
  <2>4. QED BY <1>1, <1>4, <2>1, <2>2, <2>3, SoundRunKept
<1>5. ASSUME NEW nodes \in SUBSET Nodes, NEW active \in BOOLEAN, SetTask(j, nodes, active)
      PROVE  SoundRun(k, n)'
  <2>1. CASE j = k
    <3>1. task'[k].updated = now
      BY <1>1, <1>5, <2>1 DEF SetTask, CronTypeOK
    <3>2. lastRun'[k][n] = lastRun[k][n] \/ lastRun'[k][n] = Never
      BY <1>1, <1>5, <2>1 DEF SetTask, CronTypeOK
    <3>3. QED BY <3>1, <3>2, <1>4, <1>5 DEF SetTask
  <2>2. CASE j # k
    BY <1>1, <1>4, <1>5, <2>2 DEF SetTask, CronTypeOK
  <2>3. QED BY <2>1, <2>2
<1>6. ASSUME NEW active \in BOOLEAN, Enable(j, active)
      PROVE  SoundRun(k, n)'
  <2>1. CASE j = k
    <3>1. task'[k].updated = now
      BY <1>1, <1>6, <2>1 DEF Enable, CronTypeOK
    <3>2. QED BY <3>1, <1>4, <1>6 DEF Enable
  <2>2. CASE j # k
    BY <1>1, <1>4, <1>6, <2>2 DEF Enable, CronTypeOK
  <2>3. QED BY <2>1, <2>2
<1>7. ASSUME Delete(j) PROVE SoundRun(k, n)'
  <2>1. CASE j = k
    <3>1. ~task'[k].exists /\ lastRun'[k][n] = Never
      BY <1>1, <1>7, <2>1 DEF Delete, CronTypeOK, NoRow
    <3>2. QED BY <3>1, <1>4, <1>7 DEF Delete
  <2>2. CASE j # k
    BY <1>1, <1>4, <1>7, <2>2 DEF Delete, CronTypeOK
  <2>3. QED BY <2>1, <2>2
<1>8. ASSUME NEW p \in Passes, NEW m \in Nodes, Manual(p, j, m)
      PROVE  SoundRun(k, n)'
  <2>1. ~(j = k /\ m = n) /\ served'[k][n] = served[k][n]
    BY <1>1, <1>8 DEF Manual, CronTypeOK
  <2>2. SoundRun(k, n)
    BY <2>1 DEF CronInv, SoundRuns
  <2>3. pass' = [pass EXCEPT ![p] = PassWith(m, {j})]
    BY <1>8 DEF Manual
  <2>4. /\ ~Holds(p, k, n)' /\ ~Marking(p, k, n)'
        /\ \A q \in Passes \ {p} : pass'[q] = pass[q]
    <3>1. ~(m = n /\ k \in {j})
      BY <2>1
    <3> DEFINE left == {j}
    <3>2. pass' = [pass EXCEPT ![p] = PassWith(m, left)] /\ ~(m = n /\ k \in left)
      BY <2>3, <3>1
    <3> HIDE DEF left
    <3>3. QED BY <1>1, <3>2, FreshPass
  <2>5. ~Marking(p, k, n)
    BY <1>8 DEF Manual, Marking, ToMark
  <2>6. \A q \in Passes : /\ Holds(q, k, n)' => Holds(q, k, n)
                          /\ Marking(q, k, n)' <=> Marking(q, k, n)
                          /\ Marking(q, k, n)' => pass'[q] = pass[q]
    BY <2>4, <2>5, SamePass
  <2>7. Marked(k, n)'
    BY <1>8, <2>1, <2>2, <2>6 DEF Manual, SoundRun, Marked
  <2>8. QED BY <1>1, <2>1, <2>2, <2>6, <2>7, SoundRunKept
<1>9. QED BY <1>3, <1>5, <1>6, <1>7, <1>8

\* A pass takes the task up only when a point passed since the run.
LEMMA SoundRunsCollect ==
    ASSUME CronInv, CronTypeOK', NEW k \in Tasks, NEW n \in Nodes,
           NEW p \in Passes, NEW m \in Nodes, Collect(p, m),
           served'[k][n] # Never
    PROVE  SoundRun(k, n)'
<1> DEFINE due == {j \in Tasks : Due(j, m)}
<1>1. CronTypeOK /\ now' = now /\ task' = task /\ lastRun' = lastRun
  BY DEF CronInv, Collect
<1>2. /\ served'[k][n] = served[k][n]
      /\ m = n => \A q \in Passes : ~(Busy(q) /\ pass[q].node = n)
  BY <1>1 DEF Collect, CronTypeOK
<1>3. SoundRun(k, n)
  BY <1>2 DEF CronInv, SoundRuns
<1>4. pass' = [pass EXCEPT ![p] = PassWith(m, due)]
  BY DEF Collect
<1>5. /\ Holds(p, k, n)' <=> m = n /\ Due(k, m)
      /\ ~Marking(p, k, n)'
      /\ \A q \in Passes \ {p} : pass'[q] = pass[q]
  BY <1>1, <1>4, FreshPass
<1>6. ~Holds(p, k, n) /\ ~Marking(p, k, n)
  BY DEF Collect, Holds, Marking, ToMark, Busy
<1>7. \A q \in Passes : /\ q # p => (Holds(q, k, n)' <=> Holds(q, k, n))
                        /\ Marking(q, k, n)' <=> Marking(q, k, n)
                        /\ Marking(q, k, n)' => pass'[q] = pass[q]
  BY <1>5, <1>6, SamePass
<1>8. Marked(k, n)'
  BY <1>1, <1>2, <1>3, <1>7 DEF SoundRun, Marked
<1>9. CASE ~Holds(p, k, n)'
  <2>1. \A q \in Passes : Holds(q, k, n)' => Holds(q, k, n)
    BY <1>7, <1>9
  <2>2. now <= now'
    BY <1>1 DEF CronTypeOK
  <2>3. QED BY <1>1, <1>2, <1>3, <1>7, <1>8, <2>1, <2>2, SoundRunKept
<1>10. CASE Holds(p, k, n)'
  <2>1. m = n /\ Due(k, n)
    BY <1>5, <1>10
  <2>2. \A q \in Passes : ~Holds(q, k, n) /\ ~Marking(q, k, n)
    BY <1>2, <2>1 DEF Holds, Marking, ToMark, Busy
  <2>3. OnePass(k, n)' /\ OwnMark(k, n)'
    BY <1>7, <2>2 DEF OnePass, OwnMark
  <2>4. NextPoint(served[k][n]) <= now
    <3>1. /\ served[k][n] \in -1 .. now /\ lastRun[k][n] \in -1 .. now
          /\ task[k].updated \in 0 .. now /\ now \in Int
      BY <1>1 DEF CronTypeOK
    <3>2. \/ lastRun[k][n] = served[k][n]
          \/ lastRun[k][n] = Never /\ served[k][n] <= task[k].updated
      BY <1>3, <2>1, <2>2 DEF SoundRun, Marked, Due
    <3>3. CASE lastRun[k][n] = served[k][n]
      BY <1>2, <2>1, <3>3 DEF Due
    <3>4. CASE lastRun[k][n] = Never /\ served[k][n] <= task[k].updated
      <4>1. NextPoint(task[k].updated) <= now
        BY <2>1, <3>4 DEF Due
      <4>2. NextPoint(served[k][n]) <= NextPoint(task[k].updated)
        BY <3>1, <3>4, NextPointMonotone
      <4>3. NextPoint(served[k][n]) \in Int /\ NextPoint(task[k].updated) \in Int
        BY <3>1, PeriodicAssumption DEF NextPoint
      <4>4. QED BY <3>1, <4>1, <4>2, <4>3
    <3>5. QED BY <3>2, <3>3, <3>4
  <2>5. PointPassed(k, n)'
    BY <1>1, <1>2, <2>4 DEF PointPassed, NextPoint
  <2>6. QED BY <1>8, <2>3, <2>5 DEF SoundRun
<1>11. QED BY <1>9, <1>10

\* A successful run beside no other pass is remembered, and is yet to be marked.
LEMMA SoundRunsRun ==
    ASSUME CronInv, CronTypeOK', NEW k \in Tasks, NEW n \in Nodes,
           NEW p \in Passes, NEW ok \in BOOLEAN, Run(p, ok),
           served'[k][n] # Never
    PROVE  SoundRun(k, n)'
<1>1. /\ CronTypeOK /\ now' = now /\ task' = task /\ lastRun' = lastRun
      /\ Busy(p) /\ ToRun(p) /\ now \in Nat
  BY DEF CronInv, Run, ToRun, CronTypeOK
<1>2. NextTask(p) \in Tasks /\ pass[p].node \in Nodes /\ NextTask(p) \in pass[p].left
  BY <1>1, NextTaskLeft
<1>3. /\ pass'[p].left = pass[p].left /\ pass'[p].node = pass[p].node
      /\ pass'[p].stamp = now /\ pass'[p].ok = ok
      /\ \A q \in Passes \ {p} : pass'[q] = pass[q]
  <2>1. pass[p] \in [node : Nodes, left : SUBSET Tasks, stamp : -1 .. now, ok : BOOLEAN]
    BY <1>1 DEF CronTypeOK
  <2>2. pass'[p] = [pass[p] EXCEPT !.stamp = now, !.ok = ok]
    BY <1>1 DEF Run, CronTypeOK
  <2>3. \A q \in Passes \ {p} : pass'[q] = pass[q]
    BY <1>1 DEF Run, CronTypeOK
  <2>4. QED BY <2>1, <2>2, <2>3
<1>4. /\ Holds(p, k, n)' <=> Holds(p, k, n)
      /\ NextTask(p)' = NextTask(p)
      /\ ~Marking(p, k, n)
  BY <1>1, <1>3 DEF Holds, NextTask, Marking, ToRun, ToMark
<1>5. Marking(p, k, n)' <=> NextTask(p) = k /\ pass[p].node = n
  BY <1>1, <1>3, <1>4 DEF Marking, ToMark, Busy, Never
<1>6. \A q \in Passes \ {p} : /\ Holds(q, k, n)' <=> Holds(q, k, n)
                              /\ Marking(q, k, n)' <=> Marking(q, k, n)
  BY <1>3, SamePass
<1>7. CASE NextTask(p) = k /\ pass[p].node = n
  <2>1. ok /\ Alone(p) /\ served'[k][n] = now
    <3>1. served'[k][n] = IF ok /\ Alone(p) THEN now ELSE Never
      BY <1>1, <1>7 DEF Run, CronTypeOK
    <3>2. QED BY <3>1
  <2>2. \A q \in Passes \ {p} : ~Holds(q, k, n) /\ ~Marking(q, k, n)
    BY <1>7, <2>1 DEF Alone, Holds, Marking, ToMark, Busy
  <2>3. \A q \in Passes \ {p} : ~Holds(q, k, n)' /\ ~Marking(q, k, n)'
    BY <1>6, <2>2
  <2>4. OnePass(k, n)'
    BY <2>3 DEF OnePass
  <2>5. OwnMark(k, n)'
    BY <1>3, <2>1, <2>3 DEF OwnMark
  <2>6. Marking(p, k, n)'
    BY <1>5, <1>7
  <2>7. Marked(k, n)'
    BY <2>6 DEF Marked
  <2>8. PointPassed(k, n)'
    BY <2>3, <2>6 DEF PointPassed
  <2>9. QED BY <2>4, <2>5, <2>7, <2>8 DEF SoundRun
<1>8. CASE ~(NextTask(p) = k /\ pass[p].node = n)
  <2>1. served'[k][n] = served[k][n]
    BY <1>1, <1>2, <1>8 DEF Run, CronTypeOK
  <2>2. SoundRun(k, n)
    BY <2>1 DEF CronInv, SoundRuns
  <2>3. \A q \in Passes : /\ Holds(q, k, n)' => Holds(q, k, n)
                          /\ Marking(q, k, n)' <=> Marking(q, k, n)
                          /\ Marking(q, k, n)' => pass'[q] = pass[q]
    BY <1>3, <1>4, <1>5, <1>6, <1>8
  <2>4. Marked(k, n)'
    BY <1>1, <2>1, <2>2, <2>3 DEF SoundRun, Marked
  <2>5. QED BY <1>1, <2>1, <2>2, <2>3, <2>4, SoundRunKept
<1>9. QED BY <1>7, <1>8

\* The mark makes the run the last run of the task, and the pass is done with it.
LEMMA SoundRunsMark ==
    ASSUME CronInv, CronTypeOK', NEW k \in Tasks, NEW n \in Nodes,
           NEW p \in Passes, Mark(p),
           served'[k][n] # Never
    PROVE  SoundRun(k, n)'
<1>1. /\ CronTypeOK /\ now' = now /\ task' = task /\ served' = served
      /\ Busy(p) /\ ToMark(p) /\ now \in Nat
      /\ SoundRun(k, n)
  BY DEF CronInv, Mark, ToMark, CronTypeOK, SoundRuns
<1>2. NextTask(p) \in Tasks /\ pass[p].node \in Nodes
  BY <1>1, NextTaskLeft
<1>3. PICK m \in Nodes, left \in SUBSET (pass[p].left \ {NextTask(p)}) :
        m = pass[p].node /\ pass' = [pass EXCEPT ![p] = PassWith(m, left)]
  <2> DEFINE gone == (pass[p].ok \/ NextTask(p) \notin RetryTasks) /\ ~task[NextTask(p)].exists
  <2>1. pass' = [pass EXCEPT ![p] = PassWith(pass[p].node, IF gone THEN {} ELSE pass[p].left \ {NextTask(p)})]
    BY DEF Mark
  <2> HIDE DEF gone
  <2>2. QED BY <1>2, <2>1
<1>4. /\ Holds(p, k, n)' <=> m = n /\ k \in left
      /\ ~Marking(p, k, n)'
      /\ \A q \in Passes \ {p} : pass'[q] = pass[q]
  <2>1. pass' = [pass EXCEPT ![p] = PassWith(m, left)]
    BY <1>3
  <2>2. QED BY <1>1, <2>1, FreshPass
<1>5. \A q \in Passes \ {p} : /\ Holds(q, k, n)' <=> Holds(q, k, n)
                              /\ Marking(q, k, n)' <=> Marking(q, k, n)
  BY <1>4, SamePass
<1>6. Holds(p, k, n)' => Holds(p, k, n)
  BY <1>3, <1>4 DEF Holds
<1>7. CASE Marking(p, k, n)
  <2>1. Holds(p, k, n) /\ ~Holds(p, k, n)'
    BY <1>1, <1>3, <1>4, <1>7, NextTaskLeft DEF Marking, Holds
  <2>2. \A q \in Passes \ {p} : ~Holds(q, k, n)
    BY <1>1, <2>1 DEF SoundRun, OnePass
  <2>3. \A q \in Passes : ~Holds(q, k, n)'
    BY <1>5, <2>1, <2>2
  <2>4. \A q \in Passes : ~Marking(q, k, n)'
    <3>1. \A q \in Passes \ {p} : ~Marking(q, k, n)
      BY <1>1, <2>2, NextTaskLeft DEF Marking, ToMark, Holds
    <3>2. QED BY <3>1, <1>4, <1>5
  <2>5. pass[p].ok /\ pass[p].stamp = served[k][n]
    BY <1>1, <1>7 DEF SoundRun, OwnMark
  <2>6. NextTask(p) = k /\ pass[p].node = n
    BY <1>7 DEF Marking
  <2>7. CASE task[k].exists
    <3>1. lastRun'[k][n] = served'[k][n]
      BY <1>1, <2>5, <2>6, <2>7 DEF Mark, CronTypeOK
    <3>2. QED BY <3>1, <2>3, <2>4 DEF SoundRun, OnePass, OwnMark, Marked, PointPassed
  <2>8. CASE ~task[k].exists
    <3>1. lastRun'[k][n] = Never
      BY <2>6, <2>8 DEF Mark, CronInv, GoneForgotten
    <3>2. Marked(k, n)'
      BY <3>1, <2>8, <1>1 DEF Marked
    <3>3. QED BY <3>2, <2>3, <2>4 DEF SoundRun, OnePass, OwnMark, PointPassed
  <2>9. QED BY <2>7, <2>8
<1>8. CASE ~Marking(p, k, n)
  <2>1. ~(NextTask(p) = k /\ pass[p].node = n)
    BY <1>1, <1>8 DEF Marking
  <2>2. lastRun'[k][n] = lastRun[k][n]
    BY <1>1, <1>2, <2>1 DEF Mark, CronTypeOK
  <2>3. \A q \in Passes : /\ Holds(q, k, n)' => Holds(q, k, n)
                          /\ Marking(q, k, n)' <=> Marking(q, k, n)
                          /\ Marking(q, k, n)' => pass'[q] = pass[q]
    BY <1>4, <1>5, <1>6, <1>8
  <2>4. Marked(k, n)'
    BY <1>1, <2>2, <2>3 DEF SoundRun, Marked
  <2>5. QED BY <1>1, <2>3, <2>4, SoundRunKept
<1>9. QED BY <1>7, <1>8

\* A pass that is killed takes its tasks along; a run it did not mark is forgotten.
LEMMA SoundRunsCrash ==
    ASSUME CronInv, CronTypeOK', NEW k \in Tasks, NEW n \in Nodes,
           NEW p \in Passes, Crash(p),
           served'[k][n] # Never
    PROVE  SoundRun(k, n)'
<1>1. /\ CronTypeOK /\ now' = now /\ task' = task /\ lastRun' = lastRun
      /\ Busy(p) /\ now \in Nat
  BY DEF CronInv, Crash, CronTypeOK
<1>2. NextTask(p) \in Tasks /\ pass[p].node \in Nodes
  BY <1>1, NextTaskLeft
<1>3. ~Marking(p, k, n) /\ served'[k][n] = served[k][n]
  BY <1>1, <1>2 DEF Crash, Marking, CronTypeOK
<1>4. SoundRun(k, n)
  BY <1>3 DEF CronInv, SoundRuns
<1>5. /\ ~Holds(p, k, n)' /\ ~Marking(p, k, n)'
      /\ \A q \in Passes \ {p} : pass'[q] = pass[q]
  <2> DEFINE left == {}
  <2>1. PICK m \in Nodes : pass' = [pass EXCEPT ![p] = PassWith(m, left)] /\ ~(k \in left)
    BY <1>2 DEF Crash, NoPass
  <2> HIDE DEF left
  <2>2. QED BY <1>1, <2>1, FreshPass
<1>6. \A q \in Passes : /\ Holds(q, k, n)' => Holds(q, k, n)
                        /\ Marking(q, k, n)' <=> Marking(q, k, n)
                        /\ Marking(q, k, n)' => pass'[q] = pass[q]
  BY <1>3, <1>5, SamePass
<1>7. Marked(k, n)'
  BY <1>1, <1>3, <1>4, <1>6 DEF SoundRun, Marked
<1>8. QED BY <1>1, <1>3, <1>4, <1>6, <1>7, SoundRunKept

LEMMA CronInvNext == CronInv /\ [Next]_cronVars => CronInv'
<1> SUFFICES ASSUME CronInv, [Next]_cronVars PROVE CronInv'
  OBVIOUS
<1>1. CronTypeOK /\ CronTypeOK' /\ GoneForgotten'
  BY CronTypesNext, GoneForgottenNext DEF CronInv
<1>2. SUFFICES ASSUME NEW k \in Tasks, NEW n \in Nodes, served'[k][n] # Never
               PROVE  SoundRun(k, n)'
  BY <1>1 DEF CronInv, SoundRuns
<1>3. CASE Change
  BY <1>1, <1>2, <1>3, SoundRunsChange
<1>4. ASSUME UNCHANGED <<task, lastRun, pass, served>>, now <= now'
      PROVE  SoundRun(k, n)'
  <2>1. SoundRun(k, n)
    BY <1>2, <1>4 DEF CronInv, SoundRuns
  <2>2. \A q \in Passes : /\ Holds(q, k, n)' <=> Holds(q, k, n)
                          /\ Marking(q, k, n)' <=> Marking(q, k, n)
    BY <1>4, SamePass
  <2>3. Marked(k, n)'
    BY <1>4, <2>1, <2>2 DEF SoundRun, Marked
  <2>4. QED BY <1>1, <1>4, <2>1, <2>2, <2>3, SoundRunKept
<1>5. CASE Tick
  BY <1>1, <1>4, <1>5 DEF Tick, CronTypeOK
<1>6. ASSUME NEW p \in Passes, NEW m \in Nodes, Collect(p, m) PROVE SoundRun(k, n)'
  BY <1>1, <1>2, <1>6, SoundRunsCollect
<1>7. ASSUME NEW p \in Passes, NEW ok \in BOOLEAN, Run(p, ok) PROVE SoundRun(k, n)'
  BY <1>1, <1>2, <1>7, SoundRunsRun
<1>8. ASSUME NEW p \in Passes, Mark(p) PROVE SoundRun(k, n)'
  BY <1>1, <1>2, <1>8, SoundRunsMark
<1>9. ASSUME NEW p \in Passes, Crash(p) PROVE SoundRun(k, n)'
  BY <1>1, <1>2, <1>9, SoundRunsCrash
<1>10. CASE UNCHANGED cronVars
  BY <1>1, <1>4, <1>10 DEF cronVars, CronTypeOK
<1>11. QED BY <1>3, <1>5, <1>6, <1>7, <1>8, <1>9, <1>10 DEF Next

LEMMA CronInvImplies == CronInv => RunsOncePerPoint
<1> SUFFICES ASSUME CronInv, NEW p \in Passes, ToRun(p),
                    served[NextTask(p)][pass[p].node] # Never
             PROVE  NextPoint(served[NextTask(p)][pass[p].node]) <= now
  BY DEF RunsOncePerPoint
<1> DEFINE k == NextTask(p)
           n == pass[p].node
<1>1. k \in pass[p].left /\ k \in Tasks /\ n \in Nodes
  BY NextTaskLeft DEF CronInv, ToRun
<1>2. SoundRun(k, n)
  BY <1>1 DEF CronInv, SoundRuns
<1>3. Holds(p, k, n) /\ ~Marking(p, k, n)
  BY <1>1 DEF Holds, Marking, ToRun, ToMark
<1>4. QED BY <1>2, <1>3 DEF SoundRun, PointPassed

\* run_scheduled repeats no run without a reason: a pass about to run a task after
\* a successful run of it on the node does so because a point of its interval
\* passed since, whatever an administrator and other passes did in between.
THEOREM RunsOnce == Spec => []RunsOncePerPoint
<1>1. QED BY CronInvInit, CronInvNext, CronInvImplies, PTL DEF Spec
===============================================================================
