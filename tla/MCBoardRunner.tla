--------------------------- MODULE MCBoardRunner ---------------------------
(***************************************************************************)
(* TLC instances of BoardRunner.  Runs and jobs are numbered; but for the  *)
(* first instance, job i is of run i.                                      *)
(***************************************************************************)
EXTENDS BoardRunner

CONSTANTS t1, t2

\* Two runs on t1, the first of them enqueued again.
AgainJobs   == 1..3
AgainRunOf  == <<1, 1, 2>>
AgainTaskOf == <<t1, t1>>

\* Three runs on t1: two of them can be parked at once.
QueueJobs   == 1..3
QueueTaskOf == <<t1, t1, t1>>
QueueRunOf  == <<1, 2, 3>>

\* Three runs on t1 and one on t2.
CrowdJobs   == 1..4
CrowdTaskOf == <<t1, t1, t1, t2>>
CrowdRunOf  == <<1, 2, 3, 4>>

OneTask   == [agents |-> 2, tasks |-> 1]
OneOne    == [agents |-> 1, tasks |-> 1]
SettingsUnlimited == {Unlimited}
SettingsOneTask   == {OneTask}
SettingsOneOne    == {OneOne}
=============================================================================
