---------------------- MODULE MCConsolidationQueue ----------------------
(* Small instances of ConsolidationQueue. *)
EXTENDS ConsolidationQueue, TLC

\* Claim ids are interchangeable; so are sessions, workers and handlers.
Symmetry ==
    Permutations(Claims) \cup Permutations(Workers) \cup Permutations(Sessions)
        \cup Permutations(Handlers)
=========================================================================
