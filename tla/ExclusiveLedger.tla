-------------------------- MODULE ExclusiveLedger --------------------------
(***************************************************************************)
(* What managed workstreams promise (docs/managed-workstreams.md, "What    *)
(* happens on each run"): one writer at a time owns a workstream, a writer *)
(* that lost its ownership never regains it, and only the owner extends    *)
(* the append-only history, in which no event occurs twice.  How leases    *)
(* lapse and which native sessions are linked is left to the detailed      *)
(* specification, WorkstreamLedger.                                        *)
(***************************************************************************)
EXTENDS Naturals, Sequences

CONSTANTS Workstreams, Runs, None

VARIABLES
    holder,   \* holder[w]: the run that owns workstream w, or None
    retired,  \* runs whose ownership has ended
    history   \* history[w]: the events imported into w

vars == <<holder, retired, history>>

Init ==
    /\ holder = [w \in Workstreams |-> None]
    /\ retired = {}
    /\ history = [w \in Workstreams |-> <<>>]

Holders(h) == {h[w] : w \in Workstreams} \ {None}

\* Run r becomes the owner of w.  Other owners may lose their workstreams in
\* the same step, and so may the previous owner of w.
Grant(r, w) ==
    /\ r \notin retired \cup Holders(holder)
    /\ holder' \in [Workstreams -> Runs \cup {None}]
    /\ holder'[w] = r
    /\ \A v \in Workstreams \ {w} : holder'[v] \in {holder[v], None}
    /\ retired' = retired \cup (Holders(holder) \ Holders(holder'))
    /\ UNCHANGED history

Release(w) ==
    /\ holder[w] # None
    /\ holder' = [holder EXCEPT ![w] = None]
    /\ retired' = retired \cup {holder[w]}
    /\ UNCHANGED history

\* l continues h with new events only.
Continues(h, l) ==
    /\ Len(h) <= Len(l)
    /\ \A i \in DOMAIN h : l[i] = h[i]
    /\ \A i, j \in DOMAIN l : l[i].id = l[j].id /\ j > Len(h) => i = j

\* The owner of w imports events, and may release w in the same step.
Import(w) ==
    /\ holder[w] # None
    /\ \A v \in Workstreams \ {w} : history'[v] = history[v]
    /\ DOMAIN history' = Workstreams
    /\ Continues(history[w], history'[w])
    /\ \/ UNCHANGED <<holder, retired>>
       \/ /\ holder' = [holder EXCEPT ![w] = None]
          /\ retired' = retired \cup {holder[w]}

Next ==
    \/ \E r \in Runs, w \in Workstreams : Grant(r, w)
    \/ \E w \in Workstreams : Release(w) \/ Import(w)

Spec == Init /\ [][Next]_vars
============================================================================
