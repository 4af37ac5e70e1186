------------------------ MODULE MCEnvironmentEngine ------------------------
(***************************************************************************)
(* EnvironmentEngine on small instances.  The threads are started once or   *)
(* twice; a limit names the disturbances a configuration lets happen, each  *)
(* of them once.                                                            *)
(***************************************************************************)
EXTENDS EnvironmentProperties, TLC

\* Threads, rows and paths are alike until they meet.
Symmetry == Permutations(Threads) \union Permutations(Envs) \union Permutations(Paths)

StartsOf(n) == [t \in Threads |-> n]
OneStart == StartsOf(1)
TwoStarts == StartsOf(2)

Once(ds) == [d \in Disturbance |-> IF d \in ds THEN 1 ELSE 0]

\* Whatever can go wrong, at any moment.
EveryLimit == Once(Disturbance)

\* The server restarts, and an operation fails.
FaultLimit == Once({"fail", "crash"})

\* An operation fails and an archived thread comes back.
BackLimit == Once({"fail", "back"})

\* The host goes away.
DropLimit == Once({"drop"})
=============================================================================
