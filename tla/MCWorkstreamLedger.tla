----------------------- MODULE MCWorkstreamLedger -----------------------
(* A small instance of WorkstreamLedger: two harnesses, one of them with   *)
(* two native sessions.                                                    *)
EXTENDS WorkstreamLedger, TLC

CONSTANTS claude, codex, s1, s2, t1

MCAgents == {claude, codex}
MCSessions == {s1, s2, t1}
MCAgentOf == [s \in MCSessions |-> IF s = t1 THEN codex ELSE claude]

\* Runs, transcript records and workstreams are interchangeable, and so are
\* the sessions of one harness.
Symmetry ==
    Permutations(Runs) \cup Permutations(RecordIds) \cup Permutations(Workstreams)
        \cup Permutations({s1, s2})
==========================================================================
