---------------------------- MODULE MCVoiceSession ---------------------------
(* Small instances of VoiceSession.                                          *)
EXTENDS VoiceSession, TLC

CONSTANTS t1, t2, w1, w2

\* Every page shows the same workflow, or each its own.
SamePage == [t \in Tabs |-> w1]
OwnPages == [t \in Tabs |-> IF t = t1 THEN w1 ELSE w2]

Symmetry == Permutations(Requests)
SymmetryOfPages == Permutations(Requests) \cup Permutations(Tabs)

\* The two pages with their workflows are interchangeable, taken together.
Exchange == [x \in {t1, t2, w1, w2} |-> CASE x = t1 -> t2 [] x = t2 -> t1
                                          [] x = w1 -> w2 [] x = w2 -> w1]
SymmetryOfOwnPages == {p @@ q : p \in Permutations(Requests),
                                q \in {[x \in {t1, t2, w1, w2} |-> x], Exchange}}

\* Callers who never get to join: the calls themselves are the other runs'.
NobodyJoins == \A t \in Tabs : tab[t].phase # "connected"

NoFaults == {}
ApiFaults == {"api_db", "api_restart"}
WorkerFaults == {"worker_db", "worker_crash"}
AllFaults == FaultKinds
=============================================================================
