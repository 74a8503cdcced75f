----------------------------- MODULE PeriodicTask -----------------------------
(***************************************************************************)
(* The periodic tasks of privacyIDEA: their rows, lib/periodictask.py, and *)
(* the privacyidea-cron script, cli/tools/cron.py.  The cron daemon of a   *)
(* node starts the script again and again; each pass collects the tasks    *)
(* that are due, runs one after the other and stores the end of each run.  *)
(* A pass does not know of others on its node, so a long one overlaps the  *)
(* next; it can be killed between the run and the storing; and the tasks   *)
(* are changed behind its back.                                            *)
(***************************************************************************)
EXTENDS Integers

CONSTANTS
    TaskCount,     \* the tasks are 1 .. TaskCount, in their "ordering"
    Nodes,
    Passes,        \* the runs of the script that can overlap
    Period,        \* the interval of a task: it is due at the multiples of it
    RetryTasks,    \* the tasks with retry_if_failed
    MaxChanges,    \* bound of the administrator's actions
    MaxCrashes,    \* bound of the passes killed
    MaxTime        \* bound of the clock

ASSUME PeriodicAssumption ==
    /\ TaskCount \in Nat
    /\ Period \in Nat \ {0}
    /\ RetryTasks \subseteq 1 .. TaskCount
    /\ MaxChanges \in Nat /\ MaxCrashes \in Nat /\ MaxTime \in Nat

Tasks == 1 .. TaskCount

VARIABLES
    task,        \* the rows: exists, active, nodes, last_update
    lastRun,     \* PeriodicTaskLastRun of a task and a node
    pass,        \* the node, the tasks left to run, and what the last run left
    now,
    changes,     \* the number of changes by the administrator so far
    crashes,     \* the number of passes killed so far
    served       \* history: the end of the last run, unless it may be repeated

cronVars == <<task, lastRun, pass, now, changes, crashes, served>>

Never == -1
NoRow == [exists |-> FALSE, active |-> FALSE, nodes |-> {}, updated |-> 0]
PassWith(n, left) == [node |-> n, left |-> left, stamp |-> Never, ok |-> FALSE]
NoPass(n) == PassWith(n, {})

\* croniter.get_next: the first point of the interval after a time.
NextPoint(time) == (time \div Period + 1) * Period

\* Mutant: the update of the task is looked at, not the last run.
DueSinceUpdate(k, n) ==
    /\ task[k].exists
    /\ task[k].active
    /\ n \in task[k].nodes
    /\ NextPoint(task[k].updated) <= now

\* get_scheduled_periodic_tasks with calculate_next_timestamp.
Due(k, n) ==
    /\ task[k].exists
    /\ task[k].active
    /\ n \in task[k].nodes
    /\ NextPoint(IF lastRun[k][n] # Never THEN lastRun[k][n] ELSE task[k].updated) <= now

Busy(p) == pass[p].left # {}

\* The list of tasks is in their ordering, and the loop takes the first.
NextTask(p) == CHOOSE k \in pass[p].left : \A j \in pass[p].left : k <= j
Alone(p) == \A q \in Passes \ {p} : ~(Busy(q) /\ pass[q].node = pass[p].node)

\* All tasks have just been set up.
Init ==
    /\ task = [k \in Tasks |-> [exists |-> TRUE, active |-> TRUE, nodes |-> Nodes,
                               updated |-> 0]]
    /\ lastRun = [k \in Tasks |-> [n \in Nodes |-> Never]]
    /\ pass \in [Passes -> {NoPass(n) : n \in Nodes}]
    /\ now = 0
    /\ changes = 0
    /\ crashes = 0
    /\ served = [k \in Tasks |-> [n \in Nodes |-> Never]]

-----------------------------------------------------------------------------
(* The administrator *)

\* set_periodic_task, for a new task and for an old one, which loses the last
\* runs on nodes it is taken from.
SetTask(k, nodes, active) ==
    /\ task' = [task EXCEPT ![k] = [exists |-> TRUE, active |-> active,
                                    nodes |-> nodes, updated |-> now]]
    /\ lastRun' = [lastRun EXCEPT ![k] =
                     [n \in Nodes |-> IF n \in nodes THEN lastRun[k][n] ELSE Never]]
    /\ UNCHANGED <<pass, served>>

\* enable_periodic_task.
Enable(k, active) ==
    /\ task[k].exists
    /\ task' = [task EXCEPT ![k].active = active, ![k].updated = now]
    /\ UNCHANGED <<lastRun, pass, served>>

\* delete_periodic_task takes the last runs along.
Delete(k) ==
    /\ task[k].exists
    /\ task' = [task EXCEPT ![k] = NoRow]
    /\ lastRun' = [lastRun EXCEPT ![k] = [n \in Nodes |-> Never]]
    /\ UNCHANGED <<pass, served>>

\* run_manually, of any task on any node.
Manual(p, k, n) ==
    /\ ~Busy(p)
    /\ task[k].exists
    /\ pass' = [pass EXCEPT ![p] = PassWith(n, {k})]
    /\ served' = [served EXCEPT ![k][n] = Never]
    /\ UNCHANGED <<task, lastRun>>

Change ==
    /\ changes < MaxChanges
    /\ changes' = changes + 1
    /\ UNCHANGED <<now, crashes>>
    /\ \E k \in Tasks :
         \/ \E nodes \in SUBSET Nodes, active \in BOOLEAN : SetTask(k, nodes, active)
         \/ \E active \in BOOLEAN : Enable(k, active)
         \/ Delete(k)
         \/ \E p \in Passes, n \in Nodes : Manual(p, k, n)

-----------------------------------------------------------------------------
(* The script *)

\* run_scheduled up to its loop.  Beside another pass of the node every task may
\* be run once more.
Collect(p, n) ==
    LET due == {k \in Tasks : Due(k, n)} IN
      /\ ~Busy(p)
      /\ due # {}
      /\ pass' = [pass EXCEPT ![p] = PassWith(n, due)]
      /\ served' = IF \E q \in Passes : Busy(q) /\ pass[q].node = n
                     THEN [k \in Tasks |-> [served[k] EXCEPT ![n] = Never]]
                     ELSE served
      /\ UNCHANGED <<task, lastRun, now, changes, crashes>>

ToRun(p) == Busy(p) /\ pass[p].stamp = Never
ToMark(p) == Busy(p) /\ pass[p].stamp # Never

\* run_task_on_node up to the end of the task, which succeeds, fails or raises;
\* the time is taken then.
Run(p, ok) ==
    LET k == NextTask(p)
        n == pass[p].node
    IN  /\ ToRun(p)
        /\ pass' = [pass EXCEPT ![p].stamp = now, ![p].ok = ok]
        /\ served' = [served EXCEPT ![k][n] = IF ok /\ Alone(p) THEN now ELSE Never]
        /\ UNCHANGED <<task, lastRun, now, changes, crashes>>

\* Mutant: the loop ends at the first task that fails.
MarkStopsAtFailure(p) ==
    LET k == NextTask(p)
        n == pass[p].node
        kept == pass[p].ok \/ k \notin RetryTasks
    IN  /\ ToMark(p)
        /\ lastRun' = IF kept /\ task[k].exists
                        THEN [lastRun EXCEPT ![k][n] = pass[p].stamp] ELSE lastRun
        /\ pass' = [pass EXCEPT ![p] =
                      PassWith(n, IF ~pass[p].ok \/ ~task[k].exists THEN {}
                                    ELSE pass[p].left \ {k})]
        /\ UNCHANGED <<task, now, changes, crashes, served>>

\* Mutant: the stamp of a run is kept for the next task of the pass.
MarkKeepsStamp(p) ==
    LET k == NextTask(p)
        n == pass[p].node
        kept == pass[p].ok \/ k \notin RetryTasks
    IN  /\ ToMark(p)
        /\ lastRun' = IF kept /\ task[k].exists
                        THEN [lastRun EXCEPT ![k][n] = pass[p].stamp] ELSE lastRun
        /\ pass' = [pass EXCEPT ![p].left =
                      IF kept /\ ~task[k].exists THEN {} ELSE @ \ {k}]
        /\ UNCHANGED <<task, now, changes, crashes, served>>

\* The rest of run_task_on_node: set_periodic_task_last_run, also for a failed
\* run that is not retried.  It raises for a task that was deleted meanwhile,
\* which ends the whole pass; it does not ask whether the task is still one of
\* this node, or active, or was marked with a later time.
Mark(p) ==
    LET k == NextTask(p)
        n == pass[p].node
        kept == pass[p].ok \/ k \notin RetryTasks
    IN  /\ ToMark(p)
        /\ lastRun' = IF kept /\ task[k].exists
                        THEN [lastRun EXCEPT ![k][n] = pass[p].stamp] ELSE lastRun
        /\ pass' = [pass EXCEPT ![p] =
                      PassWith(n, IF kept /\ ~task[k].exists THEN {}
                                                            ELSE pass[p].left \ {k})]
        /\ UNCHANGED <<task, now, changes, crashes, served>>

\* The script is killed: what it ran and did not mark will run again.
Crash(p) ==
    LET n == pass[p].node IN
      /\ Busy(p)
      /\ crashes < MaxCrashes
      /\ crashes' = crashes + 1
      /\ pass' = [pass EXCEPT ![p] = NoPass(n)]
      /\ served' = IF ToMark(p) THEN [served EXCEPT ![NextTask(p)][n] = Never]
                                ELSE served
      /\ UNCHANGED <<task, lastRun, now, changes>>

Tick ==
    /\ now < MaxTime
    /\ now' = now + 1
    /\ UNCHANGED <<task, lastRun, pass, changes, crashes, served>>

Next ==
    \/ Change
    \/ Tick
    \/ \E p \in Passes :
         \/ \E n \in Nodes : Collect(p, n)
         \/ \E ok \in BOOLEAN : Run(p, ok)
         \/ Mark(p)
         \/ Crash(p)

Spec == Init /\ [][Next]_cronVars

\* The cron daemon of every node keeps calling the script, and a script that is
\* not killed goes on.
Fairness ==
    /\ \A n \in Nodes : SF_cronVars(\E p \in Passes : Collect(p, n))
    /\ \A p \in Passes : WF_cronVars((\E ok \in BOOLEAN : Run(p, ok)) \/ Mark(p))

FairSpec == Spec /\ Fairness

-----------------------------------------------------------------------------
(* Properties *)

\* The types, and that a pass with nothing left to run holds on to no run: the time
\* of one task is never stored for another.
CronTypeOK ==
    /\ task \in [Tasks -> [exists : BOOLEAN, active : BOOLEAN, nodes : SUBSET Nodes,
                           updated : 0 .. now]]
    /\ lastRun \in [Tasks -> [Nodes -> -1 .. now]]
    /\ pass \in [Passes -> [node : Nodes, left : SUBSET Tasks, stamp : -1 .. now,
                            ok : BOOLEAN]]
    /\ \A p \in Passes : ~Busy(p) => pass[p] = NoPass(pass[p].node)
    /\ now \in 0 .. MaxTime
    /\ changes \in 0 .. MaxChanges
    /\ crashes \in 0 .. MaxCrashes
    /\ served \in [Tasks -> [Nodes -> -1 .. now]]

\* A pass about to run a task after a successful run of it on this node does so
\* because a point of its interval has passed since: updates, switching off and
\* on and runs of other tasks cause no second run.  A pass killed before the
\* mark, a failure, an overlapping pass and run_manually may cause one.
RunsOncePerPoint ==
    \A p \in Passes :
      LET k == NextTask(p) IN
        ToRun(p) /\ served[k][pass[p].node] # Never
          => NextPoint(served[k][pass[p].node]) <= now

\* A task that stays due is tried over and over, whatever the tasks before it in
\* the ordering do: fail, raise, or get deleted while they run.
DueTaskTried ==
    \A k \in Tasks, n \in Nodes :
      <>[]Due(k, n) =>
        []<><<\E p \in Passes : /\ ToRun(p) /\ pass[p].node = n
                                /\ NextTask(p) = k
                                /\ \E ok \in BOOLEAN : Run(p, ok)>>_cronVars
===============================================================================
