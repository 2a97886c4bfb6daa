---------------------------- MODULE MCScheduler ----------------------------
(* Finite instances of Scheduler for TLC. *)
EXTENDS Scheduler

NoLimit == 99
AnyOutcome == {"ok", "cancelled", "retryable", "fatal"}

\* Two kinds; task 1 proposes tasks 2 (a duplicate) and 3, which needs task 1.
Tasks3 == 1 .. 3
Kinds == {"port", "http"}
Modules == {"rxscan.port", "rxscan.http"}
Kind3 == <<"port", "port", "http">>
Module3 == <<"rxscan.port", "rxscan.port", "rxscan.http">>
Priority3 == <<1, 2, 2>>
Deps3 == <<{}, {}, {1}>>
Attempts3 == <<1, 2, 1>>
Plan3 == <<1, 2>>
FollowUps3 == <<<<2, 3>>, <<>>, <<>>>>
OnePortSlot == [k \in Kinds |-> IF k = "port" THEN 1 ELSE NoLimit]
WideKinds == [k \in Kinds |-> NoLimit]
NoModuleLimit == [m \in Modules |-> NoLimit]

\* Two tasks, one after the other.
Tasks2 == 1 .. 2
KindTwo == <<"port", "http">>
ModuleTwo == <<"rxscan.port", "rxscan.http">>
PriorityTwo == <<1, 1>>
Deps2 == <<{}, {1}>>
Attempts2 == <<2, 2>>
Plan2 == <<1, 2>>
FollowUps2 == <<<<>>, <<>>>>
\* Four tasks for the caller's operations: 3 waits for 1 and overtakes 2, for
\* whose kind there is no module, and 4 is one more than its module may run.
Tasks4 == 1 .. 4
AllKinds == {"port", "dns", "http"}
AllModules == {"rxscan.port", "rxscan.dns", "rxscan.http"}
WithModule == {"port", "http"}
Kind4 == <<"port", "dns", "http", "http">>
Module4 == <<"rxscan.port", "rxscan.dns", "rxscan.http", "rxscan.http">>
Priority4 == <<1, 1, 2, 1>>
Deps4 == <<{}, {}, {1}, {}>>
Attempts4 == <<2, 1, 1, 1>>
Plan4 == <<1, 3>>
FollowUps4 == <<<<2, 4>>, <<1>>, <<>>, <<>>>>
NoKindLimit == [k \in AllKinds |-> NoLimit]
OneTaskEach == [m \in AllModules |-> 1]
OneRetryEach == [m \in AllModules |-> 1]

\* Scans whose scope and modules stay as they are.
SteadySpec == Init /\ [][Next /\ UNCHANGED permitted]_vars
=============================================================================
