--------------------------- MODULE MCManagedRun ---------------------------
(* Small instances of ManagedRun: Claude Code and a second harness, one of *)
(* the two with two native sessions, or neither.                           *)
EXTENDS ManagedRun, TLC

CONSTANTS claude, peer, s1, s2, t1, t2

MCAgents == {claude, peer}
MCTwo == {s1, t1}
MCClaudeTwo == {s1, s2, t1}
MCPeerTwo == {s1, t1, t2}
MCAgentOf == [s \in Sessions |-> IF s \in {t1, t2} THEN peer ELSE claude]
MCRecordIds == Sessions \X (1..MaxRecords)
MCCursors == Sessions \X (0..MaxRecords)

\* Runs are interchangeable, and so are the sessions of one harness.
Symmetry == Permutations(Runs)
SessionSymmetry == Permutations(Runs) \cup Permutations({s1, s2})
===========================================================================
