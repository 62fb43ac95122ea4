---------------------------- MODULE MCThreadPool ----------------------------
(* Two workers, two calling threads, three tasks, one of them urgent.      *)
EXTENDS ThreadPool, TLC

CONSTANTS w1, w2, c1, c2, t1, t2, t3

TwoWorkers == {w1, w2}
OneClient == {c1}
TwoClients == {c1, c2}
TwoTasks == {t1, t2}
ThreeTasks == {t1, t2, t3}
OneUrgent == [t \in Tasks |-> IF t = t3 THEN 1 ELSE 0]
Anyhow == BOOLEAN
Draining == {TRUE}
Symmetry == Permutations(Workers) \cup Permutations(Clients) \cup Permutations({t1, t2})

=============================================================================
