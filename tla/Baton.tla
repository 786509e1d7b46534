------------------------------- MODULE Baton -------------------------------
(***************************************************************************)
(* What a handoff promises: a single-use baton.  It is posted once, taken  *)
(* by one reader at a time, and goes back on the shelf only when the       *)
(* session that took it closes without having used it; what is void stays  *)
(* void, and a session never holds two.  Handoff implements this.          *)
(***************************************************************************)
EXTENDS Naturals

CONSTANTS Sessions,    \* receivers that can give a baton back
          Anonymous,   \* a receiver that is no session and keeps what it takes
          Batons,
          None

VARIABLES state,   \* state[b]: absent, open, held or void
          holder,  \* holder[b]: who holds a held baton
          over     \* sessions that have closed

batonVars == <<state, holder, over>>

Init ==
    /\ state = [b \in Batons |-> "absent"]
    /\ holder = [b \in Batons |-> None]
    /\ over = {}

Open == {b \in Batons : state[b] = "open"}
HeldBy(x) == {b \in Batons : state[b] = "held" /\ holder[b] = x}

\* Batons other than those of `moved` stay as they are, or are retired.
RetireOthers(moved) ==
    /\ state' \in [Batons -> {"absent", "open", "held", "void"}]
    /\ \A b \in Batons \ moved : state'[b] # state[b] => state[b] = "open" /\ state'[b] = "void"

\* A newer baton may retire older open ones in the same step.
Post(b) ==
    /\ state[b] = "absent" /\ state'[b] = "open"
    /\ RetireOthers({b})
    /\ UNCHANGED holder

Take(b, x) ==
    /\ state[b] = "open" /\ state'[b] = "held"
    /\ RetireOthers({b})
    /\ x \notin over
    /\ x \in Sessions => HeldBy(x) = {}
    /\ holder' = [holder EXCEPT ![b] = x]
    /\ UNCHANGED over

\* A session that closes keeps what it used, or returns what it did not; or
\* posts a baton of its own.
Return(s) ==
    /\ s \notin over
    /\ \E b \in HeldBy(s) :
          /\ state' = [state EXCEPT ![b] = "open"]
          /\ holder' = [holder EXCEPT ![b] = None]

Close(s) ==
    /\ over' = over \cup {s}
    /\ \/ Return(s)
       \/ \E b \in Batons : Post(b)
       \/ UNCHANGED <<state, holder>>

Void == RetireOthers({}) /\ UNCHANGED <<holder, over>>

Next ==
    \/ \E b \in Batons : Post(b) /\ UNCHANGED over
    \/ \E b \in Batons, x \in Sessions \cup {Anonymous} : Take(b, x)
    \/ \E s \in Sessions : Close(s)
    \/ Void

Spec == Init /\ [][Next]_batonVars
=============================================================================
