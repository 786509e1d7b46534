---------------------- MODULE WorkstreamLedgerSafety ----------------------
(***************************************************************************)
(* The safety invariants and action properties of WorkstreamLedger, proved *)
(* for every value of its constants.  The inductive invariant is IInv:     *)
(* the cursor bounds need mutual exclusion (a link by another active run   *)
(* of the same workstream would raise a cursor past sync_through), and     *)
(* mutual exclusion needs the type invariant.  The last part proves that   *)
(* the ledger implements ExclusiveLedger.                                  *)
(***************************************************************************)
EXTENDS WorkstreamLedgerProofs

IInv ==
    /\ TypeOK
    /\ OneActiveRunPerWorkstream
    /\ CursorsWithinSync
    /\ DeliveryWithinLedger
    /\ BeyondSyncIsOwn

---------------------------------------------------------------------------
(* Steps that touch neither sessions nor the ledger nor grant a run.       *)

Quiet ==
    /\ UNCHANGED <<native, log>>
    /\ \A q \in Runs :
         \/ runs'[q] = runs[q]
         \/ runs[q].state = "active" /\ runs'[q].state = "active" /\ SameGrant(q)
            /\ runs'[q].after = runs[q].after
         \/ runs[q].state = "active" /\ runs'[q].state = "expired"

LEMMA TickQuiet ==
    ASSUME TypeOK, Tick
    PROVE  Quiet
<1> SUFFICES ASSUME NEW q \in Runs, runs'[q] # runs[q]
             PROVE  /\ runs[q].state = "active" /\ runs'[q].state = "active"
                    /\ SameGrant(q) /\ runs'[q].after = runs[q].after
  BY DEF Quiet, Tick
<1>1. runs[q] \in RunRow /\ runs'[q] = [runs[q] EXCEPT !.lease = @ - 1]
      /\ runs[q].state = "active"
  BY DEF TypeOK, Tick, Active
<1> QED BY <1>1 DEF RunRow, SameGrant

LEMMA HeartbeatQuiet ==
    ASSUME TypeOK, NEW r \in Runs, Heartbeat(r)
    PROVE  Quiet
<1>1. /\ runs \in [Runs -> RunRow] /\ runs[r].state = "active"
      /\ runs' = [runs EXCEPT ![r] = [@ EXCEPT !.lease = LeaseTicks]]
      /\ UNCHANGED <<native, log>>
  BY DEF TypeOK, Heartbeat, Active
<1>2. runs'[r].state = "active" /\ SameGrant(r) /\ runs'[r].after = runs[r].after
  BY <1>1 DEF RunRow, SameGrant
<1> QED BY <1>1, <1>2 DEF Quiet

LEMMA CancelQuiet ==
    ASSUME TypeOK, NEW r \in Runs, CancelRun(r)
    PROVE  /\ Quiet
           /\ runs[r].state = "active" /\ runs'[r].state = "expired"
           /\ \A q \in Runs \ {r} : runs'[q] = runs[q]
<1>1. /\ runs \in [Runs -> RunRow] /\ runs[r].state = "active"
      /\ runs' = [runs EXCEPT ![r] = [@ EXCEPT !.state = "expired", !.lease = 0]]
      /\ UNCHANGED <<native, log>>
  BY DEF TypeOK, CancelRun, Active
<1>2. runs'[r].state = "expired"
  BY <1>1 DEF RunRow
<1> QED BY <1>1, <1>2 DEF Quiet

\* Every step is quiet or one of the four transactions that matter.
LEMMA StepCases ==
    ASSUME TypeOK, [Next]_ledgerVars
    PROVE  \/ Quiet
           \/ \E r \in Runs, w \in Workstreams, a \in Agents : PrepareRun(r, w, a)
           \/ \E r \in Runs, s \in Sessions : LinkNativeSession(r, s)
           \/ \E r \in Runs, u \in BOOLEAN : AcceptContext(r, u)
           \/ \E r \in Runs : \E in \in Request(r) : FinishRun(r, in)
<1>1. CASE Tick
  BY <1>1, TickQuiet
<1>2. ASSUME NEW r \in Runs, NEW w \in Workstreams, NEW a \in Agents,
             NEW available \in SUBSET Agents, PrepareAutomaticRun(r, w, a, available)
      PROVE  \E b \in Agents : PrepareRun(r, w, b)
  BY <1>2 DEF PrepareAutomaticRun, AutomaticAgents
<1>3. ASSUME NEW r \in Runs, Heartbeat(r) PROVE Quiet
  BY <1>3, HeartbeatQuiet
<1>4. ASSUME NEW r \in Runs, CancelRun(r) PROVE Quiet
  BY <1>4, CancelQuiet
<1>5. ASSUME NEW w \in Workstreams, NEW n \in Names, Rename(w, n) PROVE Quiet
  BY <1>5 DEF Rename, Quiet
<1>6. CASE UNCHANGED ledgerVars
  BY <1>6 DEF Quiet, ledgerVars
<1> QED BY <1>1, <1>2, <1>3, <1>4, <1>5, <1>6 DEF Next

---------------------------------------------------------------------------
(* The five parts of the inductive invariant. *)

LEMMA OneActiveStep ==
    ASSUME TypeOK, OneActiveRunPerWorkstream, [Next]_ledgerVars
    PROVE  OneActiveRunPerWorkstream'
<1> DEFINE Narrows == \A q \in Runs : runs'[q].state = "active" =>
                        runs[q].state = "active" /\ runs'[q].ws = runs[q].ws
<1>0. ASSUME Narrows PROVE OneActiveRunPerWorkstream'
  BY <1>0 DEF OneActiveRunPerWorkstream, Active
<1>1. CASE Quiet
  BY <1>0, <1>1 DEF Quiet, SameGrant
<1>2. ASSUME NEW r \in Runs, NEW w \in Workstreams, NEW a \in Agents, PrepareRun(r, w, a)
      PROVE  OneActiveRunPerWorkstream'
  <2>1. runs'[r].ws = w
    BY <1>2, GrantFacts, GrantedRowType
  <2>2. \A q \in Runs \ {r} : runs'[q].state = "active" =>
          /\ runs[q].state = "active" /\ runs'[q].ws = runs[q].ws
          /\ runs[q].ws # w
    BY <1>2, GrantFacts
  <2> QED BY <2>1, <2>2 DEF OneActiveRunPerWorkstream, Active
<1>3. ASSUME NEW r \in Runs, NEW s \in Sessions, LinkNativeSession(r, s)
      PROVE  OneActiveRunPerWorkstream'
  BY <1>0, <1>3, LinkFacts DEF SameGrant, Active
<1>4. ASSUME NEW r \in Runs, NEW u \in BOOLEAN, AcceptContext(r, u)
      PROVE  OneActiveRunPerWorkstream'
  BY <1>0, <1>4, AcceptFacts DEF SameGrant, Active
<1>5. ASSUME NEW r \in Runs, NEW in \in Request(r), FinishRun(r, in)
      PROVE  OneActiveRunPerWorkstream'
  BY <1>0, <1>5, FinishFacts DEF SameGrant, Active
<1> HIDE DEF Narrows
<1> QED BY <1>1, <1>2, <1>3, <1>4, <1>5, StepCases

LEMMA DeliveryWithinStep ==
    ASSUME TypeOK, CursorsWithinSync, DeliveryWithinLedger, [Next]_ledgerVars
    PROVE  DeliveryWithinLedger'
<1>0. /\ native \in [Workstreams -> [Sessions -> SessionRow]]
      /\ log \in [Workstreams -> Seq(Event)]
      /\ runs \in [Runs -> RunRow]
      /\ \A w \in Workstreams, s \in Sessions : native[w][s].delivery \in Nat
      /\ \A w \in Workstreams : Len(log[w]) \in Nat
  BY DEF TypeOK, SessionRow
<1>1. CASE Quiet
  BY <1>1 DEF Quiet, DeliveryWithinLedger
<1>2. ASSUME NEW r \in Runs, NEW w \in Workstreams, NEW a \in Agents, PrepareRun(r, w, a)
      PROVE  DeliveryWithinLedger'
  BY <1>2, GrantFacts DEF DeliveryWithinLedger
<1>3. ASSUME NEW r \in Runs, NEW s \in Sessions, LinkNativeSession(r, s)
      PROVE  DeliveryWithinLedger'
  <2> SUFFICES ASSUME NEW v \in Workstreams, NEW x \in Sessions
               PROVE  native'[v][x].delivery <= Len(log[v])
    BY <1>3, LinkFacts DEF DeliveryWithinLedger
  <2>1. CASE v = runs[r].ws /\ x = s
    <3>1. /\ runs[r].through <= Len(log[v])
          /\ native[v][x].delivery <= Len(log[v])
      BY <1>3, <2>1, LinkFacts DEF CursorsWithinSync, DeliveryWithinLedger
    <3>2. native'[v][x].delivery \in {native[v][x].delivery, runs[r].through, 0}
      BY <1>3, <2>1, LinkFacts
    <3> QED BY <1>0, <3>1, <3>2
  <2>2. CASE ~(v = runs[r].ws /\ x = s)
    <3>1. \/ native'[v][x] = native[v][x]
          \/ native'[v][x] = [native[v][x] EXCEPT !.current = FALSE]
      BY <1>3, <2>2, LinkFacts
    <3>2. native'[v][x].delivery = native[v][x].delivery
      BY <1>0, <3>1 DEF SessionRow
    <3> QED BY <3>2 DEF DeliveryWithinLedger
  <2> QED BY <2>1, <2>2
<1>4. ASSUME NEW r \in Runs, NEW u \in BOOLEAN, AcceptContext(r, u)
      PROVE  DeliveryWithinLedger'
  <2> SUFFICES ASSUME NEW v \in Workstreams, NEW x \in Sessions
               PROVE  native'[v][x].delivery <= Len(log[v])
    BY <1>4, AcceptFacts DEF DeliveryWithinLedger
  <2>1. runs[r].through <= Len(log[runs[r].ws]) /\ native[v][x].delivery <= Len(log[v])
    BY <1>4, AcceptFacts DEF CursorsWithinSync, DeliveryWithinLedger
  <2>2. \/ native'[v][x] = native[v][x]
        \/ /\ v = runs[r].ws
           /\ native'[v][x] = [native[v][x] EXCEPT !.delivery = Larger(@, runs[r].through)]
    BY <1>4, AcceptFacts
  <2>3. \/ native'[v][x].delivery = native[v][x].delivery
        \/ /\ v = runs[r].ws
           /\ native'[v][x].delivery = runs[r].through
    BY <1>0, <2>2 DEF SessionRow, Larger
  <2> QED BY <2>1, <2>3
<1>5. ASSUME NEW r \in Runs, NEW in \in Request(r), FinishRun(r, in)
      PROVE  DeliveryWithinLedger'
  <2> DEFINE w == runs[r].ws
             l == Imported(r, in)
  <2>1. /\ w \in Workstreams /\ l \in Seq(Event)
        /\ log' = [log EXCEPT ![w] = l]
        /\ Len(log[w]) <= Len(l)
    BY <1>5, FinishFacts, ImportedFacts DEF Extends
  <2> SUFFICES ASSUME NEW v \in Workstreams, NEW x \in Sessions
               PROVE  native'[v][x].delivery <= Len(log'[v])
    BY DEF DeliveryWithinLedger
  <2>2. \/ native'[v][x] = native[v][x]
        \/ native'[v][x] = [native[v][x] EXCEPT !.current = FALSE]
        \/ /\ v = w
           /\ native'[v][x].delivery = Larger(native[v][x].delivery, KnownThrough(r, l))
    BY <1>5, FinishFacts
  <2>3. KnownThrough(r, l) \in {Len(l), 0}
    BY <1>5, FinishFacts
  <2> HIDE DEF w, l
  <2>4. Len(log[v]) <= Len(log'[v])
    BY <1>0, <2>1
  <2>5. \/ native'[v][x].delivery = native[v][x].delivery
        \/ v = w /\ native'[v][x].delivery \in {Len(l), 0}
    BY <1>0, <2>2, <2>3 DEF SessionRow, Larger
  <2>6. native[v][x].delivery <= Len(log[v])
    BY DEF DeliveryWithinLedger
  <2>7. Len(log'[v]) \in Nat
    BY <1>0, <2>1
  <2>8. v = w => log'[v] = l
    BY <1>0, <2>1
  <2> QED BY <1>0, <2>4, <2>5, <2>6, <2>7, <2>8
<1> QED BY <1>1, <1>2, <1>3, <1>4, <1>5, StepCases

LEMMA CursorsWithinStep ==
    ASSUME IInv, [Next]_ledgerVars
    PROVE  CursorsWithinSync'
<1>0. /\ TypeOK /\ OneActiveRunPerWorkstream /\ CursorsWithinSync /\ DeliveryWithinLedger
      /\ native \in [Workstreams -> [Sessions -> SessionRow]]
      /\ log \in [Workstreams -> Seq(Event)]
      /\ runs \in [Runs -> RunRow]
      /\ \A w \in Workstreams, s \in Sessions : native[w][s].delivery \in Nat
      /\ \A w \in Workstreams : Len(log[w]) \in Nat
      /\ \A q \in Runs : runs[q].through \in Nat /\ runs[q].after \in Nat
      /\ \A q \in Runs : runs[q].state = "active" => runs[q].ws \in Workstreams
  BY DEF IInv, TypeOK, SessionRow, RunRow
<1> DEFINE Bound(q) == /\ runs[q].through <= Len(log[runs[q].ws])
                       /\ runs[q].after <= runs[q].through
                       /\ \A x \in Sessions :
                            native[runs[q].ws][x].delivery <= runs[q].through
<1>b. \A q \in Runs : runs[q].state = "active" => Bound(q)
  BY <1>0 DEF CursorsWithinSync, Active
\* An active run stays bounded if its row keeps its range and the sessions
\* and the ledger of its workstream stay within it.
<1>p. ASSUME NEW q \in Runs, runs[q].state = "active", SameGrant(q),
             runs'[q].after = runs[q].after,
             Len(log[runs[q].ws]) <= Len(log'[runs[q].ws]),
             Len(log'[runs[q].ws]) \in Nat,
             \A x \in Sessions : native'[runs[q].ws][x].delivery
                                   \in {native[runs[q].ws][x].delivery, runs[q].through}
      PROVE  Bound(q)'
  <2>1. Bound(q)
    BY <1>b, <1>p
  <2> HIDE DEF Bound
  <2>2. /\ runs[q].through <= Len(log[runs[q].ws])
        /\ runs[q].after <= runs[q].through
        /\ \A x \in Sessions : native[runs[q].ws][x].delivery <= runs[q].through
    BY <2>1 DEF Bound
  <2>3. runs[q].ws \in Workstreams
    BY <1>0, <1>p
  <2>4. /\ runs'[q].through <= Len(log'[runs'[q].ws])
        /\ runs'[q].after <= runs'[q].through
    <3>1. /\ runs'[q].ws = runs[q].ws /\ runs'[q].through = runs[q].through
          /\ runs'[q].after = runs[q].after
      BY <1>p DEF SameGrant
    <3>2. runs[q].through \in Nat /\ Len(log[runs[q].ws]) \in Nat
      BY <1>0, <2>3
    <3> QED BY <1>p, <2>2, <3>1, <3>2
  <2>5. \A x \in Sessions : native'[runs'[q].ws][x].delivery <= runs'[q].through
    <3> SUFFICES ASSUME NEW x \in Sessions
                 PROVE  native'[runs[q].ws][x].delivery <= runs[q].through
      BY <1>p DEF SameGrant
    <3>1. native[runs[q].ws][x].delivery <= runs[q].through /\ runs[q].through \in Nat
      BY <1>0, <2>2
    <3> QED BY <1>p, <3>1
  <2> QED BY <2>4, <2>5 DEF Bound
<1>s. SUFFICES ASSUME NEW q \in Runs, runs'[q].state = "active"
               PROVE  Bound(q)'
  BY DEF CursorsWithinSync, Active
<1> HIDE DEF Bound
<1>1. CASE Quiet
  <2>1. /\ runs[q].state = "active" /\ SameGrant(q) /\ runs'[q].after = runs[q].after
        /\ UNCHANGED <<native, log>>
    BY <1>s, <1>1 DEF Quiet, SameGrant
  <2> QED BY <1>0, <1>p, <2>1
<1>2. ASSUME NEW r \in Runs, NEW w \in Workstreams, NEW a \in Agents, PrepareRun(r, w, a)
      PROVE  Bound(q)'
  <2>1. CASE q = r
    <3>1. /\ runs'[q].ws = w /\ runs'[q].through = Len(log[w])
          /\ \/ runs'[q].after = 0
             \/ \E s \in Sessions : runs'[q].after = native[w][s].delivery
          /\ UNCHANGED <<native, log>>
      BY <1>0, <1>2, <2>1, GrantFacts, GrantedRowType
    <3>2. runs'[q].after <= Len(log[w])
      BY <1>0, <3>1 DEF DeliveryWithinLedger
    <3> QED BY <1>0, <3>1, <3>2 DEF Bound, DeliveryWithinLedger
  <2>2. CASE q # r
    <3>1. runs'[q] = runs[q] /\ UNCHANGED <<native, log>>
      BY <1>0, <1>2, <1>s, <2>2, GrantFacts
    <3>2. runs[q].state = "active" /\ SameGrant(q) /\ runs'[q].after = runs[q].after
      BY <1>s, <3>1 DEF SameGrant
    <3> QED BY <1>0, <1>p, <3>1, <3>2
  <2> QED BY <2>1, <2>2
<1>3. ASSUME NEW r \in Runs, NEW s \in Sessions, LinkNativeSession(r, s)
      PROVE  Bound(q)'
  <2> DEFINE w == runs[r].ws
             d == InitialDelivery(r, s)
  <2>1. /\ runs[r].state = "active" /\ w \in Workstreams
        /\ d \in {native[w][s].delivery, runs[r].through, 0}
        /\ runs'[r].after = d /\ SameGrant(r)
        /\ \A p \in Runs \ {r} : runs'[p] = runs[p]
        /\ native'[w][s].delivery = d
        /\ UNCHANGED log
    BY <1>0, <1>3, LinkFacts DEF Active
  <2>2. \A v \in Workstreams, x \in Sessions :
          v # w \/ x # s => native'[v][x].delivery = native[v][x].delivery
    <3> SUFFICES ASSUME NEW v \in Workstreams, NEW x \in Sessions, v # w \/ x # s
                 PROVE  native'[v][x].delivery = native[v][x].delivery
      OBVIOUS
    <3>1. \/ native'[v][x] = native[v][x]
          \/ native'[v][x] = [native[v][x] EXCEPT !.current = FALSE]
      <4>1. native'[v][x] = IF v = w /\ AgentOf[x] = AgentOf[s]
                            THEN [native[v][x] EXCEPT !.current = FALSE]
                            ELSE native[v][x]
        BY <1>0, <1>3, LinkFacts
      <4> QED BY <4>1
    <3> QED BY <1>0, <3>1 DEF SessionRow
  <2> HIDE DEF w, d
  <2>3. CASE q = r
    <3>1. d <= runs[r].through
      BY <1>0, <1>b, <2>1 DEF Bound, w
    <3>2. /\ runs[r].through <= Len(log[w])
          /\ \A x \in Sessions : native[w][x].delivery <= runs[r].through
      BY <1>b, <2>1 DEF Bound, w
    <3>3. /\ runs'[r].ws = w /\ runs'[r].through = runs[r].through
          /\ runs'[r].after = d /\ log' = log
      BY <2>1 DEF SameGrant, w
    <3>4. \A x \in Sessions : native'[w][x].delivery <= runs[r].through
      BY <2>1, <2>2, <3>1, <3>2
    <3> QED BY <2>3, <3>1, <3>2, <3>3, <3>4 DEF Bound
  <2>4. CASE q # r
    <3>1. runs'[q] = runs[q] /\ runs[q].state = "active" /\ runs[q].ws # w
      BY <1>0, <1>s, <2>1, <2>4 DEF OneActiveRunPerWorkstream, Active, w
    <3>2. \A x \in Sessions :
            native'[runs[q].ws][x].delivery = native[runs[q].ws][x].delivery
      BY <1>0, <2>2, <3>1
    <3>3. SameGrant(q) /\ runs'[q].after = runs[q].after
      BY <3>1 DEF SameGrant
    <3>4. \A x \in Sessions : native'[runs[q].ws][x].delivery
                                \in {native[runs[q].ws][x].delivery, runs[q].through}
      BY <3>2
    <3>5. /\ Len(log[runs[q].ws]) <= Len(log'[runs[q].ws])
          /\ Len(log'[runs[q].ws]) \in Nat
      BY <1>0, <2>1, <3>1
    <3> QED BY <1>p, <3>1, <3>3, <3>4, <3>5
  <2> QED BY <2>3, <2>4
<1>4. ASSUME NEW r \in Runs, NEW u \in BOOLEAN, AcceptContext(r, u)
      PROVE  Bound(q)'
  <2>1. /\ runs[r].state = "active" /\ runs[r].ws \in Workstreams
        /\ SameGrant(r) /\ runs'[r].after = runs[r].after
        /\ \A p \in Runs \ {r} : runs'[p] = runs[p]
        /\ UNCHANGED log
    BY <1>0, <1>4, AcceptFacts DEF Active
  <2>2. \A v \in Workstreams, x \in Sessions :
          \/ native'[v][x].delivery = native[v][x].delivery
          \/ v = runs[r].ws /\ native'[v][x].delivery = runs[r].through
    <3> SUFFICES ASSUME NEW v \in Workstreams, NEW x \in Sessions
                 PROVE  \/ native'[v][x].delivery = native[v][x].delivery
                        \/ v = runs[r].ws /\ native'[v][x].delivery = runs[r].through
      OBVIOUS
    <3>1. \/ native'[v][x] = native[v][x]
          \/ /\ v = runs[r].ws
             /\ native'[v][x] = [native[v][x] EXCEPT !.delivery = Larger(@, runs[r].through)]
      BY <1>0, <1>4, AcceptFacts
    <3> QED BY <1>0, <3>1 DEF SessionRow, Larger
  <2>3. /\ runs[q].state = "active" /\ SameGrant(q) /\ runs'[q].after = runs[q].after
        /\ q # r => runs[q].ws # runs[r].ws
    BY <1>0, <1>s, <2>1 DEF OneActiveRunPerWorkstream, Active, SameGrant
  <2>4. \A x \in Sessions : native'[runs[q].ws][x].delivery
                              \in {native[runs[q].ws][x].delivery, runs[q].through}
    BY <1>0, <2>2, <2>3
  <2> QED BY <1>0, <1>p, <2>1, <2>3, <2>4
<1>5. ASSUME NEW r \in Runs, NEW in \in Request(r), FinishRun(r, in)
      PROVE  Bound(q)'
  <2> DEFINE w == runs[r].ws
             l == Imported(r, in)
  <2>1. /\ runs[r].state = "active" /\ w \in Workstreams /\ l \in Seq(Event)
        /\ log' = [log EXCEPT ![w] = l]
        /\ Len(log[w]) <= Len(l)
        /\ SameGrant(r) /\ runs'[r].after = runs[r].after
        /\ runs'[r].state = IF in.complete THEN "finished" ELSE "active"
        /\ \A p \in Runs \ {r} : runs'[p] = runs[p]
    BY <1>0, <1>5, FinishFacts, ImportedFacts DEF Active, Extends
  <2>2. \A v \in Workstreams, x \in Sessions :
          v # w \/ ~in.complete => native'[v][x] = native[v][x]
    BY <1>0, <1>5, FinishFacts
  <2> HIDE DEF w, l
  <2>3. /\ runs[q].state = "active" /\ SameGrant(q) /\ runs'[q].after = runs[q].after
        /\ q # r => runs[q].ws # w
        /\ q = r => ~in.complete
    BY <1>0, <1>s, <2>1 DEF OneActiveRunPerWorkstream, Active, SameGrant, w
  <2>4. \A x \in Sessions : native'[runs[q].ws][x] = native[runs[q].ws][x]
    BY <1>0, <2>2, <2>3
  <2>5. /\ Len(log[runs[q].ws]) <= Len(log'[runs[q].ws])
        /\ Len(log'[runs[q].ws]) \in Nat
    BY <1>0, <2>1, <2>3
  <2> QED BY <1>p, <2>3, <2>4, <2>5
<1> QED BY <1>0, <1>1, <1>2, <1>3, <1>4, <1>5, StepCases

LEMMA BeyondSyncStep ==
    ASSUME IInv, [Next]_ledgerVars
    PROVE  BeyondSyncIsOwn'
<1>0. /\ TypeOK /\ OneActiveRunPerWorkstream
      /\ log \in [Workstreams -> Seq(Event)]
      /\ \A q \in Runs : runs[q].through \in Nat
      /\ \A q \in Runs : runs[q].state = "active" => runs[q].ws \in Workstreams
  BY DEF IInv, TypeOK, RunRow
<1> DEFINE Own(q) == \A i \in DOMAIN log[runs[q].ws] :
                       i > runs[q].through => log[runs[q].ws][i].agent = runs[q].agent
<1>b. \A q \in Runs : runs[q].state = "active" => Own(q)
  BY DEF IInv, BeyondSyncIsOwn, Active
<1>s. SUFFICES ASSUME NEW q \in Runs, runs'[q].state = "active"
               PROVE  Own(q)'
  BY DEF BeyondSyncIsOwn, Active
<1>p. ASSUME runs[q].state = "active", SameGrant(q),
             log'[runs[q].ws] = log[runs[q].ws]
      PROVE  Own(q)'
  BY <1>b, <1>p DEF SameGrant
<1> HIDE DEF Own
<1>1. CASE Quiet
  <2>1. runs[q].state = "active" /\ SameGrant(q) /\ UNCHANGED log
    BY <1>s, <1>1 DEF Quiet, SameGrant
  <2> QED BY <1>p, <2>1
<1>2. ASSUME NEW r \in Runs, NEW w \in Workstreams, NEW a \in Agents, PrepareRun(r, w, a)
      PROVE  Own(q)'
  <2>1. CASE q = r
    <3>1. runs'[q].ws = w /\ runs'[q].through = Len(log[w]) /\ UNCHANGED log
      BY <1>0, <1>2, <2>1, GrantFacts, GrantedRowType
    <3>2. \A i \in DOMAIN log[w] : ~(i > Len(log[w]))
      BY <1>0
    <3> QED BY <3>1, <3>2 DEF Own
  <2>2. CASE q # r
    <3>1. runs'[q] = runs[q] /\ UNCHANGED log
      BY <1>0, <1>2, <1>s, <2>2, GrantFacts
    <3>2. runs[q].state = "active" /\ SameGrant(q)
      BY <1>s, <3>1 DEF SameGrant
    <3> QED BY <1>p, <3>1, <3>2
  <2> QED BY <2>1, <2>2
<1>3. ASSUME NEW r \in Runs, NEW s \in Sessions, LinkNativeSession(r, s)
      PROVE  Own(q)'
  <2>1. runs[q].state = "active" /\ SameGrant(q) /\ UNCHANGED log
    BY <1>0, <1>3, <1>s, LinkFacts DEF SameGrant, Active
  <2> QED BY <1>p, <2>1
<1>4. ASSUME NEW r \in Runs, NEW u \in BOOLEAN, AcceptContext(r, u)
      PROVE  Own(q)'
  <2>1. runs[q].state = "active" /\ SameGrant(q) /\ UNCHANGED log
    BY <1>0, <1>4, <1>s, AcceptFacts DEF SameGrant, Active
  <2> QED BY <1>p, <2>1
<1>5. ASSUME NEW r \in Runs, NEW in \in Request(r), FinishRun(r, in)
      PROVE  Own(q)'
  <2> DEFINE w == runs[r].ws
             l == Imported(r, in)
  <2>1. /\ runs[r].state = "active" /\ w \in Workstreams
        /\ log' = [log EXCEPT ![w] = l]
        /\ SameGrant(r)
        /\ \A p \in Runs \ {r} : runs'[p] = runs[p]
    BY <1>0, <1>5, FinishFacts DEF Active
  <2>2. /\ Extends(log[w], l) /\ l \in Seq(Event)
        /\ \A i \in DOMAIN l : i > Len(log[w]) => l[i].agent = runs[r].agent
    BY <1>0, <1>5, FinishFacts, ImportedFacts
  <2> HIDE DEF l
  <2>3. CASE q = r
    <3>1. /\ log'[runs'[q].ws] = l /\ runs'[q].through = runs[r].through
          /\ runs'[q].agent = runs[r].agent
      BY <1>0, <2>1, <2>3 DEF SameGrant
    <3>2. ASSUME NEW i \in DOMAIN l, i > runs[r].through
          PROVE  l[i].agent = runs[r].agent
      <4>1. CASE i \in DOMAIN log[w]
        BY <1>b, <2>1, <2>2, <3>2, <4>1 DEF Own, Extends
      <4>2. CASE i \notin DOMAIN log[w]
        <5>1. i > Len(log[w])
          BY <1>0, <2>1, <2>2, <3>2, <4>2
        <5> QED BY <2>2, <3>2, <5>1
      <4> QED BY <4>1, <4>2
    <3> QED BY <3>1, <3>2 DEF Own
  <2>4. CASE q # r
    <3>1. runs'[q] = runs[q] /\ runs[q].state = "active" /\ runs[q].ws # w
      BY <1>0, <1>s, <2>1, <2>4 DEF OneActiveRunPerWorkstream, Active
    <3>2. SameGrant(q) /\ log'[runs[q].ws] = log[runs[q].ws]
      BY <1>0, <2>1, <3>1 DEF SameGrant
    <3> QED BY <1>p, <3>1, <3>2
  <2> QED BY <2>3, <2>4
<1> QED BY <1>0, <1>1, <1>2, <1>3, <1>4, <1>5, StepCases

---------------------------------------------------------------------------
\* The inductive invariant holds in every reachable state.
THEOREM InductiveInvariant == Spec => []IInv
<1>1. Init => OneActiveRunPerWorkstream /\ CursorsWithinSync
              /\ DeliveryWithinLedger /\ BeyondSyncIsOwn
  BY DEF Init, OneActiveRunPerWorkstream, CursorsWithinSync, DeliveryWithinLedger,
         BeyondSyncIsOwn, Active, NoRun, NoSessionRow
<1>2. TypeOK' /\ IInv /\ [Next]_ledgerVars => IInv'
  BY OneActiveStep, CursorsWithinStep, DeliveryWithinStep, BeyondSyncStep DEF IInv
<1>3. Init /\ TypeOK => IInv
  BY <1>1 DEF IInv
<1> QED BY <1>2, <1>3, TypeInvariant, PTL DEF Spec

\* At any time a workstream has at most one active run.
THEOREM MutualExclusion == Spec => []OneActiveRunPerWorkstream
BY InductiveInvariant, PTL DEF IInv

\* An active run's delivery range and all the cursors of its workstream stay
\* within what the run was prepared with.
THEOREM SyncBounds == Spec => []CursorsWithinSync
BY InductiveInvariant, PTL DEF IInv

\* No delivery cursor points past the end of its ledger.
THEOREM DeliveryBounds == Spec => []DeliveryWithinLedger
BY InductiveInvariant, PTL DEF IInv

\* What lies beyond an active run's sync_through is of the run's own harness.
THEOREM BeyondSync == Spec => []BeyondSyncIsOwn
BY InductiveInvariant, PTL DEF IInv

---------------------------------------------------------------------------
(* Invariants that need only type correctness. *)

\* No two events of a workstream have the same id.
THEOREM ExactlyOnceImport == Spec => []NoDuplicateEvents
<1>1. Init => NoDuplicateEvents
  BY DEF Init, NoDuplicateEvents
<1>2. TypeOK /\ NoDuplicateEvents /\ [Next]_ledgerVars => NoDuplicateEvents'
  <2> SUFFICES ASSUME TypeOK, NoDuplicateEvents, [Next]_ledgerVars
               PROVE  NoDuplicateEvents'
    OBVIOUS
  <2>1. ASSUME UNCHANGED log PROVE NoDuplicateEvents'
    BY <2>1 DEF NoDuplicateEvents
  <2>2. CASE Quiet
    BY <2>1, <2>2 DEF Quiet
  <2>3. ASSUME NEW r \in Runs, NEW w \in Workstreams, NEW a \in Agents, PrepareRun(r, w, a)
        PROVE  NoDuplicateEvents'
    BY <2>1, <2>3, GrantFacts
  <2>4. ASSUME NEW r \in Runs, NEW s \in Sessions, LinkNativeSession(r, s)
        PROVE  NoDuplicateEvents'
    BY <2>1, <2>4, LinkFacts
  <2>5. ASSUME NEW r \in Runs, NEW u \in BOOLEAN, AcceptContext(r, u)
        PROVE  NoDuplicateEvents'
    BY <2>1, <2>5, AcceptFacts
  <2>6. ASSUME NEW r \in Runs, NEW in \in Request(r), FinishRun(r, in)
        PROVE  NoDuplicateEvents'
    <3> DEFINE l == Imported(r, in)
    <3>1. /\ runs[r].ws \in Workstreams
          /\ log' = [log EXCEPT ![runs[r].ws] = l]
          /\ log \in [Workstreams -> Seq(Event)]
      BY <2>6, FinishFacts DEF TypeOK
    <3>2. \A i, j \in DOMAIN l : l[i].id = l[j].id => i = j
      <4>1. Active(r) /\ EventsMatch(r, in)
        BY <2>6, FinishFacts
      <4> QED BY <3>1, <4>1, ImportedFacts DEF NoDuplicateEvents
    <3> HIDE DEF l
    <3> QED BY <3>1, <3>2 DEF NoDuplicateEvents
  <2> QED BY <2>2, <2>3, <2>4, <2>5, <2>6, StepCases
<1> QED BY <1>1, <1>2, TypeInvariant, PTL DEF Spec

\* A workstream has at most one current native session per harness.
THEOREM OneSessionToResume == Spec => []OneCurrentSessionPerHarness
<1>1. Init => OneCurrentSessionPerHarness
  BY DEF Init, OneCurrentSessionPerHarness, NoSessionRow
<1>2. TypeOK /\ OneCurrentSessionPerHarness /\ [Next]_ledgerVars
        => OneCurrentSessionPerHarness'
  <2> SUFFICES ASSUME TypeOK, OneCurrentSessionPerHarness, [Next]_ledgerVars
               PROVE  OneCurrentSessionPerHarness'
    OBVIOUS
  <2>0. native \in [Workstreams -> [Sessions -> SessionRow]]
    BY DEF TypeOK
  <2>1. ASSUME \A v \in Workstreams, x \in Sessions :
                 native'[v][x].current => native[v][x].current
        PROVE  OneCurrentSessionPerHarness'
    BY <2>1 DEF OneCurrentSessionPerHarness
  \* Making s current takes the mark from every other session of its harness.
  <2>m. ASSUME NEW w \in Workstreams, NEW s \in Sessions,
               \A v \in Workstreams, x \in Sessions :
                 v # w \/ x # s =>
                   /\ native'[v][x].current => native[v][x].current
                   /\ native'[v][x].current => v # w \/ AgentOf[x] # AgentOf[s]
        PROVE  OneCurrentSessionPerHarness'
    BY <2>m DEF OneCurrentSessionPerHarness
  <2>2. CASE Quiet
    BY <2>1, <2>2 DEF Quiet
  <2>3. ASSUME NEW r \in Runs, NEW w \in Workstreams, NEW a \in Agents, PrepareRun(r, w, a)
        PROVE  OneCurrentSessionPerHarness'
    BY <2>1, <2>3, GrantFacts
  <2>4. ASSUME NEW r \in Runs, NEW s \in Sessions, LinkNativeSession(r, s)
        PROVE  OneCurrentSessionPerHarness'
    <3> DEFINE w == runs[r].ws
    <3>1. w \in Workstreams
      BY <2>4, LinkFacts
    <3>2. ASSUME NEW v \in Workstreams, NEW x \in Sessions, v # w \/ x # s
          PROVE  /\ native'[v][x].current => native[v][x].current
                 /\ native'[v][x].current => v # w \/ AgentOf[x] # AgentOf[s]
      <4>1. native'[v][x] = IF v = w /\ AgentOf[x] = AgentOf[s]
                            THEN [native[v][x] EXCEPT !.current = FALSE]
                            ELSE native[v][x]
        BY <2>4, <3>2, LinkFacts
      <4> QED BY <2>0, <4>1 DEF SessionRow
    <3> HIDE DEF w
    <3> QED BY <2>m, <3>1, <3>2
  <2>5. ASSUME NEW r \in Runs, NEW u \in BOOLEAN, AcceptContext(r, u)
        PROVE  OneCurrentSessionPerHarness'
    <3>1. ASSUME NEW v \in Workstreams, NEW x \in Sessions
          PROVE  native'[v][x].current => native[v][x].current
      <4>1. \/ native'[v][x] = native[v][x]
            \/ native'[v][x] = [native[v][x] EXCEPT
                                  !.delivery = Larger(@, runs[r].through)]
        BY <2>5, AcceptFacts
      <4> QED BY <2>0, <4>1 DEF SessionRow
    <3> QED BY <2>1, <3>1
  <2>6. ASSUME NEW r \in Runs, NEW in \in Request(r), FinishRun(r, in)
        PROVE  OneCurrentSessionPerHarness'
    <3> DEFINE w == runs[r].ws
               s == FinishSession(r, in)
    <3>1. /\ w \in Workstreams /\ s \in Sessions \cup {None}
          /\ Active(r)
      BY <2>6, FinishFacts
    <3>2. CASE in.complete /\ s # None
      <4>1. ASSUME NEW v \in Workstreams, NEW x \in Sessions, v # w \/ x # s
            PROVE  /\ native'[v][x].current => native[v][x].current
                   /\ native'[v][x].current => v # w \/ AgentOf[x] # AgentOf[s]
        <5>1. native'[v][x] = IF v = w /\ AgentOf[x] = AgentOf[s]
                              THEN [native[v][x] EXCEPT !.current = FALSE]
                              ELSE native[v][x]
          BY <2>6, <3>1, <3>2, <4>1, FinishMovesCurrent
        <5> QED BY <2>0, <5>1 DEF SessionRow
      <4> HIDE DEF w, s
      <4> QED BY <2>m, <3>1, <3>2, <4>1
    <3>3. CASE ~(in.complete /\ s # None)
      BY <2>1, <2>6, <3>3 DEF FinishRun
    <3> QED BY <3>2, <3>3
  <2> QED BY <2>2, <2>3, <2>4, <2>5, <2>6, StepCases
<1> QED BY <1>1, <1>2, TypeInvariant, PTL DEF Spec

---------------------------------------------------------------------------
(* Action properties. *)

\* A session that was never linked has been given nothing.
LinkedOrZero ==
    \A w \in Workstreams, s \in Sessions :
        ~native[w][s].linked => native[w][s].delivery = 0

LEMMA AcceptKeepsUnlinked ==
    ASSUME TypeOK, NEW r \in Runs, NEW u \in BOOLEAN, AcceptContext(r, u),
           NEW v \in Workstreams, NEW x \in Sessions, ~native'[v][x].linked
    PROVE  native'[v][x] = native[v][x]
<1>1. /\ native \in [Workstreams -> [Sessions -> SessionRow]]
      /\ runs[r].ws \in Workstreams
      /\ runs[r].session \in Sessions \cup {None}
  BY DEF AcceptContext, Active, TypeOK, RunRow
<1>2. CASE runs[r].session # None /\ native[runs[r].ws][runs[r].session].linked
  <2>1. native' = [native EXCEPT ![runs[r].ws][runs[r].session].delivery =
                     Larger(@, runs[r].through)]
    BY <1>2 DEF AcceptContext
  <2>2. CASE v = runs[r].ws /\ x = runs[r].session
    <3>1. native'[v][x] = [native[v][x] EXCEPT !.delivery = Larger(@, runs[r].through)]
      BY <1>1, <2>1, <2>2
    <3> QED BY <1>1, <1>2, <2>2, <3>1 DEF SessionRow
  <2>3. CASE ~(v = runs[r].ws /\ x = runs[r].session)
    BY <1>1, <1>2, <2>1, <2>3
  <2> QED BY <2>2, <2>3
<1>3. CASE ~(runs[r].session # None /\ native[runs[r].ws][runs[r].session].linked)
  BY <1>3 DEF AcceptContext
<1> QED BY <1>2, <1>3

\* Finished, cancelled and superseded runs never change again.
THEOREM TerminalIsFinal == Spec => TerminalRunsStay
<1> DEFINE A == \A r \in Runs : runs[r].state \in {"finished", "expired"} =>
                                  runs'[r] = runs[r]
<1>1. TypeOK /\ [Next]_ledgerVars => A
  <2> SUFFICES ASSUME TypeOK, [Next]_ledgerVars,
                      NEW q \in Runs, runs[q].state \in {"finished", "expired"}
               PROVE  runs'[q] = runs[q]
    OBVIOUS
  <2>1. CASE Quiet
    BY <2>1 DEF Quiet
  <2>2. ASSUME NEW r \in Runs, NEW w \in Workstreams, NEW a \in Agents, PrepareRun(r, w, a)
        PROVE  runs'[q] = runs[q]
    BY <2>2, GrantFacts
  <2>3. ASSUME NEW r \in Runs, NEW s \in Sessions, LinkNativeSession(r, s)
        PROVE  runs'[q] = runs[q]
    BY <2>3, LinkFacts DEF Active
  <2>4. ASSUME NEW r \in Runs, NEW u \in BOOLEAN, AcceptContext(r, u)
        PROVE  runs'[q] = runs[q]
    BY <2>4, AcceptFacts DEF Active
  <2>5. ASSUME NEW r \in Runs, NEW in \in Request(r), FinishRun(r, in)
        PROVE  runs'[q] = runs[q]
    BY <2>5, FinishFacts DEF Active
  <2> QED BY <2>1, <2>2, <2>3, <2>4, <2>5, StepCases
<1> QED BY <1>1, TypeInvariant, PTL DEF Spec, TerminalRunsStay

\* A delivery cursor never moves back.
THEOREM NoRedelivery == Spec => DeliveryNeverRegresses
<1> DEFINE A == \A w \in Workstreams, s \in Sessions :
                  native'[w][s].delivery >= native[w][s].delivery
<1>1. IInv /\ LinkedOrZero /\ [Next]_ledgerVars => A
  <2> SUFFICES ASSUME IInv, LinkedOrZero, [Next]_ledgerVars,
                      NEW v \in Workstreams, NEW x \in Sessions
               PROVE  native'[v][x].delivery >= native[v][x].delivery
    OBVIOUS
  <2>0. TypeOK /\ native[v][x] \in SessionRow /\ native[v][x].delivery \in Nat
    BY DEF IInv, TypeOK, SessionRow
  <2>1. CASE Quiet
    BY <2>0, <2>1 DEF Quiet
  <2>2. ASSUME NEW r \in Runs, NEW w \in Workstreams, NEW a \in Agents, PrepareRun(r, w, a)
        PROVE  native'[v][x].delivery >= native[v][x].delivery
    BY <2>0, <2>2, GrantFacts
  <2>3. ASSUME NEW r \in Runs, NEW s \in Sessions, LinkNativeSession(r, s)
        PROVE  native'[v][x].delivery >= native[v][x].delivery
    <3>1. CASE v = runs[r].ws /\ x = s
      <4>1. /\ native'[v][x].delivery \in Nat
            /\ native[v][x].linked => native'[v][x].delivery = native[v][x].delivery
        BY <2>0, <2>3, <3>1, LinkFacts
      <4> QED BY <2>0, <4>1 DEF LinkedOrZero
    <3>2. CASE ~(v = runs[r].ws /\ x = s)
      <4>1. \/ native'[v][x] = native[v][x]
            \/ native'[v][x] = [native[v][x] EXCEPT !.current = FALSE]
        BY <2>0, <2>3, <3>2, LinkFacts
      <4> QED BY <2>0, <4>1 DEF SessionRow
    <3> QED BY <3>1, <3>2
  <2>4. ASSUME NEW r \in Runs, NEW u \in BOOLEAN, AcceptContext(r, u)
        PROVE  native'[v][x].delivery >= native[v][x].delivery
    <3>1. \/ native'[v][x] = native[v][x]
          \/ native'[v][x] = [native[v][x] EXCEPT !.delivery = Larger(@, runs[r].through)]
      BY <2>0, <2>4, AcceptFacts
    <3>2. runs[r].through \in Nat
      BY <2>0 DEF TypeOK, RunRow
    <3> QED BY <2>0, <3>1, <3>2 DEF SessionRow, Larger
  <2>5. ASSUME NEW r \in Runs, NEW in \in Request(r), FinishRun(r, in)
        PROVE  native'[v][x].delivery >= native[v][x].delivery
    <3> DEFINE k == KnownThrough(r, Imported(r, in))
    <3>1. /\ \/ native'[v][x] = native[v][x]
             \/ native'[v][x] = [native[v][x] EXCEPT !.current = FALSE]
             \/ native'[v][x].delivery = Larger(native[v][x].delivery, k)
          /\ k \in Nat
      BY <2>0, <2>5, FinishFacts
    <3> HIDE DEF k
    <3> QED BY <2>0, <3>1 DEF SessionRow, Larger
  <2> QED BY <2>0, <2>1, <2>2, <2>3, <2>4, <2>5, StepCases
<1>2. Init => LinkedOrZero
  BY DEF Init, LinkedOrZero, NoSessionRow
<1>3. IInv /\ LinkedOrZero /\ [Next]_ledgerVars => LinkedOrZero'
  <2> SUFFICES ASSUME IInv, LinkedOrZero, [Next]_ledgerVars,
                      NEW v \in Workstreams, NEW x \in Sessions, ~native'[v][x].linked
               PROVE  native'[v][x].delivery = 0
    BY DEF LinkedOrZero
  <2>0. TypeOK /\ native[v][x] \in SessionRow /\ native[v][x].delivery \in Nat
        /\ (~native[v][x].linked => native[v][x].delivery = 0)
    BY DEF IInv, TypeOK, SessionRow, LinkedOrZero
  <2>1. CASE Quiet
    BY <2>0, <2>1 DEF Quiet
  <2>2. ASSUME NEW r \in Runs, NEW w \in Workstreams, NEW a \in Agents, PrepareRun(r, w, a)
        PROVE  native'[v][x].delivery = 0
    BY <2>0, <2>2, GrantFacts
  <2>3. ASSUME NEW r \in Runs, NEW s \in Sessions, LinkNativeSession(r, s)
        PROVE  native'[v][x].delivery = 0
    <3>1. ~(v = runs[r].ws /\ x = s)
      BY <2>0, <2>3, LinkFacts
    <3>2. \/ native'[v][x] = native[v][x]
          \/ native'[v][x] = [native[v][x] EXCEPT !.current = FALSE]
      BY <2>0, <2>3, <3>1, LinkFacts
    <3> QED BY <2>0, <3>2 DEF SessionRow
  <2>4. ASSUME NEW r \in Runs, NEW u \in BOOLEAN, AcceptContext(r, u)
        PROVE  native'[v][x].delivery = 0
    BY <2>0, <2>4, AcceptKeepsUnlinked
  <2>5. ASSUME NEW r \in Runs, NEW in \in Request(r), FinishRun(r, in)
        PROVE  native'[v][x].delivery = 0
    <3>1. \/ native'[v][x] = native[v][x]
          \/ native'[v][x] = [native[v][x] EXCEPT !.current = FALSE]
          \/ native'[v][x].linked
      BY <2>0, <2>5, FinishFacts
    <3> QED BY <2>0, <3>1 DEF SessionRow
  <2> QED BY <2>0, <2>1, <2>2, <2>3, <2>4, <2>5, StepCases
<1> QED BY <1>1, <1>2, <1>3, InductiveInvariant, PTL DEF Spec, DeliveryNeverRegresses

\* The ledger only grows, and only by events of the active run's harness.
THEOREM LedgerAppendOnly == Spec => AppendOnlyByHolder
<1>1. TypeOK /\ [Next]_ledgerVars => LedgerStep
  <2> SUFFICES ASSUME TypeOK, [Next]_ledgerVars
               PROVE  LedgerStep
    OBVIOUS
  <2>0. log \in [Workstreams -> Seq(Event)]
    BY DEF TypeOK
  <2>1. ASSUME UNCHANGED log PROVE LedgerStep
    BY <2>0, <2>1 DEF LedgerStep, Extends
  <2>2. CASE Quiet
    BY <2>1, <2>2 DEF Quiet
  <2>3. ASSUME NEW r \in Runs, NEW w \in Workstreams, NEW a \in Agents, PrepareRun(r, w, a)
        PROVE  LedgerStep
    BY <2>1, <2>3, GrantFacts
  <2>4. ASSUME NEW r \in Runs, NEW s \in Sessions, LinkNativeSession(r, s)
        PROVE  LedgerStep
    BY <2>1, <2>4, LinkFacts
  <2>5. ASSUME NEW r \in Runs, NEW u \in BOOLEAN, AcceptContext(r, u)
        PROVE  LedgerStep
    BY <2>1, <2>5, AcceptFacts
  <2>6. ASSUME NEW r \in Runs, NEW in \in Request(r), FinishRun(r, in)
        PROVE  LedgerStep
    <3> DEFINE w == runs[r].ws
               l == Imported(r, in)
    <3>1. /\ Active(r) /\ w \in Workstreams /\ EventsMatch(r, in)
          /\ log' = [log EXCEPT ![w] = l]
      BY <2>6, FinishFacts
    <3>2. /\ Extends(log[w], l)
          /\ \A i \in DOMAIN l : i > Len(log[w]) => l[i].agent = runs[r].agent
      BY <3>1, ImportedFacts
    <3> HIDE DEF l
    <3> SUFFICES ASSUME NEW v \in Workstreams
                 PROVE  /\ Extends(log[v], log'[v])
                        /\ log'[v] # log[v] =>
                             \E q \in Runs : /\ Active(q)
                                              /\ runs[q].ws = v
                                              /\ \A i \in DOMAIN log'[v] :
                                                    i > Len(log[v]) =>
                                                      log'[v][i].agent = runs[q].agent
      BY DEF LedgerStep
    <3>3. CASE v = w
      BY <2>0, <3>1, <3>2, <3>3
    <3>4. CASE v # w
      <4>1. log'[v] = log[v] /\ log[v] \in Seq(Event)
        BY <2>0, <3>1, <3>4
      <4> QED BY <4>1 DEF Extends
    <3> QED BY <3>3, <3>4
  <2> QED BY <2>2, <2>3, <2>4, <2>5, <2>6, StepCases
<1> QED BY <1>1, TypeInvariant, PTL DEF Spec, AppendOnlyByHolder

---------------------------------------------------------------------------
\* No two workstreams have one name.
THEOREM NamesAreUnique == Spec => []NamesUnique
<1>1. Init => NamesUnique
  BY DEF Init, NamesUnique, Exists
<1>2. TypeOK /\ NamesUnique /\ [Next]_ledgerVars => NamesUnique'
  <2> SUFFICES ASSUME TypeOK, NamesUnique, [Next]_ledgerVars
               PROVE  NamesUnique'
    OBVIOUS
  <2>0. name \in [Workstreams -> Names \cup {None}]
    BY DEF TypeOK
  <2>1. ASSUME UNCHANGED name PROVE NamesUnique'
    BY <2>1 DEF NamesUnique, Exists
  <2>2. ASSUME NEW w \in Workstreams, NEW n \in Names,
               \A v \in Workstreams : name[v] # n, name' = [name EXCEPT ![w] = n]
        PROVE  NamesUnique'
    BY <2>0, <2>2 DEF NamesUnique, Exists
  <2>3. ASSUME NEW r \in Runs, NEW w \in Workstreams, NEW a \in Agents, PrepareRun(r, w, a)
        PROVE  NamesUnique'
    <3>1. \/ UNCHANGED name
          \/ \E n \in Names : /\ \A v \in Workstreams : name[v] # n
                              /\ name' = [name EXCEPT ![w] = n]
      BY <2>3, DefaultNameAssumption
      DEF PrepareRun, SelectNew, SelectNamed, SelectCurrent, NewWorkstream
    <3> QED BY <2>1, <2>2, <3>1
  <2>4. ASSUME NEW r \in Runs, NEW w \in Workstreams, NEW a \in Agents,
               NEW available \in SUBSET Agents, PrepareAutomaticRun(r, w, a, available)
        PROVE  NamesUnique'
    BY <2>3, <2>4 DEF PrepareAutomaticRun, AutomaticAgents
  <2>5. ASSUME NEW w \in Workstreams, NEW n \in Names, Rename(w, n)
        PROVE  NamesUnique'
    BY <2>2, <2>5 DEF Rename
  <2>6. CASE Tick
    BY <2>1, <2>6 DEF Tick
  <2>7. ASSUME NEW r \in Runs, Heartbeat(r) \/ CancelRun(r) PROVE NamesUnique'
    BY <2>1, <2>7 DEF Heartbeat, CancelRun
  <2>8. ASSUME NEW r \in Runs, NEW s \in Sessions, LinkNativeSession(r, s)
        PROVE  NamesUnique'
    BY <2>1, <2>8, LinkFacts
  <2>9. ASSUME NEW r \in Runs, NEW u \in BOOLEAN, AcceptContext(r, u)
        PROVE  NamesUnique'
    BY <2>1, <2>9, AcceptFacts
  <2>10. ASSUME NEW r \in Runs, NEW in \in Request(r), FinishRun(r, in)
         PROVE  NamesUnique'
    BY <2>1, <2>10, FinishFacts
  <2>11. CASE UNCHANGED ledgerVars
    BY <2>1, <2>11 DEF ledgerVars
  <2> QED BY <2>3, <2>4, <2>5, <2>6, <2>7, <2>8, <2>9, <2>10, <2>11 DEF Next
<1> QED BY <1>1, <1>2, TypeInvariant, PTL DEF Spec

---------------------------------------------------------------------------
(* The workstream tables implement the exclusive ledger: every transaction *)
(* is a step of ExclusiveLedger, or leaves the owners, the retired runs    *)
(* and the histories as they are.  Mutual exclusion is what makes the      *)
(* owner of a workstream well defined.                                     *)

\* The holder of a workstream is its active run.
HolderMap ==
    /\ Holder \in [Workstreams -> Runs \cup {None}]
    /\ \A w \in Workstreams, r \in Runs :
         Holder[w] = r <=> runs[r].state = "active" /\ runs[r].ws = w

LEMMA HolderIsActive == TypeOK /\ OneActiveRunPerWorkstream => HolderMap
<1> SUFFICES ASSUME TypeOK, OneActiveRunPerWorkstream PROVE HolderMap
  OBVIOUS
<1>1. ASSUME NEW w \in Workstreams
      PROVE  /\ HolderOf(w) \in Runs \cup {None}
             /\ \A r \in Runs : HolderOf(w) = r <=> Active(r) /\ runs[r].ws = w
  <2>1. CASE \E r \in Runs : Active(r) /\ runs[r].ws = w
    <3>1. HolderOf(w) \in Runs /\ Active(HolderOf(w)) /\ runs[HolderOf(w)].ws = w
      BY <2>1 DEF HolderOf
    <3> QED BY <3>1 DEF OneActiveRunPerWorkstream
  <2>2. CASE ~\E r \in Runs : Active(r) /\ runs[r].ws = w
    BY <2>2, NoneAssumption DEF HolderOf
  <2> QED BY <2>1, <2>2
<1> QED BY <1>1 DEF HolderMap, Holder, Active

LEMMA HolderIsActiveNext == TypeOK' /\ OneActiveRunPerWorkstream' => HolderMap'
BY HolderIsActive, PTL

\* A step that neither grants nor ends a run.
LEMMA SameOwners ==
    ASSUME HolderMap, HolderMap',
           \A q \in Runs : runs'[q].state = runs[q].state,
           \A q \in Runs : runs[q].state = "active" => runs'[q].ws = runs[q].ws
    PROVE  Holder' = Holder /\ Retired' = Retired
<1>1. Retired' = Retired
  BY DEF Retired
<1>2. ASSUME NEW w \in Workstreams PROVE Holder'[w] = Holder[w]
  BY NoneAssumption DEF HolderMap
<1> QED BY <1>1, <1>2 DEF HolderMap

\* A step that ends run r of workstream w, and no other run.
LEMMA OneRelease ==
    ASSUME HolderMap, HolderMap', NEW r \in Runs,
           runs[r].ws \in Workstreams,
           runs[r].state = "active", runs'[r].state \in {"finished", "expired"},
           \A q \in Runs \ {r} : runs'[q] = runs[q]
    PROVE  /\ Holder[runs[r].ws] = r
           /\ Holder' = [Holder EXCEPT ![runs[r].ws] = None]
           /\ Retired' = Retired \cup {r}
<1>1. Holder[runs[r].ws] = r
  BY DEF HolderMap
<1>2. Retired' = Retired \cup {r}
  BY DEF Retired
<1>3. ASSUME NEW w \in Workstreams
      PROVE  Holder'[w] = IF w = runs[r].ws THEN None ELSE Holder[w]
  BY NoneAssumption DEF HolderMap
<1> QED BY <1>1, <1>2, <1>3 DEF HolderMap

---------------------------------------------------------------------------
(* The transactions as steps of the exclusive ledger. *)

LEMMA GrantRefines ==
    ASSUME TypeOK, HolderMap, HolderMap',
           NEW r \in Runs, NEW w \in Workstreams, NEW a \in Agents, PrepareRun(r, w, a)
    PROVE  Exclusive!Grant(r, w)
<1>1. /\ runs[r].state = "free" /\ runs'[r].state = "active" /\ runs'[r].ws = w
      /\ UNCHANGED log
  BY GrantFacts, GrantedRowType
<1>2. \A q \in Runs \ {r} :
        \/ runs'[q] = runs[q] /\ (runs[q].state = "active" => runs[q].ws # w)
        \/ runs[q].state = "active" /\ runs'[q].state = "expired"
  BY GrantFacts
<1>3. Holder'[w] = r
  BY <1>1 DEF HolderMap
<1>4. ASSUME NEW v \in Workstreams \ {w} PROVE Holder'[v] \in {Holder[v], None}
  BY <1>1, <1>2, NoneAssumption DEF HolderMap
<1>5. \A q \in Runs : q \in Exclusive!Holders(Holder) <=>
                        runs[q].state = "active" /\ runs[q].ws \in Workstreams
  BY NoneAssumption DEF HolderMap, Exclusive!Holders
<1>6. \A q \in Runs : q \in Exclusive!Holders(Holder') <=>
                        runs'[q].state = "active" /\ runs'[q].ws \in Workstreams
  BY NoneAssumption DEF HolderMap, Exclusive!Holders
<1>7. Exclusive!Holders(Holder) \subseteq Runs
  BY DEF HolderMap, Exclusive!Holders
<1>8. r \notin Retired \cup Exclusive!Holders(Holder)
  BY <1>1, <1>5 DEF Retired
<1>9. Retired' = Retired \cup (Exclusive!Holders(Holder) \ Exclusive!Holders(Holder'))
  <2>1. ASSUME NEW q \in Runs
        PROVE  q \in Retired' <=>
                 \/ q \in Retired
                 \/ q \in Exclusive!Holders(Holder) /\ q \notin Exclusive!Holders(Holder')
    <3>1. runs[q].state = "active" => runs[q].ws \in Workstreams
      BY DEF TypeOK
    <3>2. CASE q = r
      BY <1>1, <1>8, <3>2 DEF Retired
    <3>3. CASE q # r
      BY <1>2, <1>5, <1>6, <3>1, <3>3 DEF Retired
    <3> QED BY <3>2, <3>3
  <2> QED BY <1>7, <2>1 DEF Retired
<1> QED BY <1>1, <1>3, <1>4, <1>8, <1>9 DEF Exclusive!Grant, HolderMap

LEMMA FinishRefines ==
    ASSUME TypeOK, NoDuplicateEvents, NoDuplicateEvents', HolderMap, HolderMap',
           NEW r \in Runs, NEW in \in Request(r), FinishRun(r, in)
    PROVE  Exclusive!Import(runs[r].ws)
<1> DEFINE w == runs[r].ws
           l == Imported(r, in)
<1>1. /\ Active(r) /\ w \in Workstreams /\ EventsMatch(r, in)
      /\ log' = [log EXCEPT ![w] = l]
      /\ log \in [Workstreams -> Seq(Event)]
      /\ \A q \in Runs \ {r} : runs'[q] = runs[q]
      /\ runs'[r].state = IF in.complete THEN "finished" ELSE "active"
      /\ runs'[r].ws = w
  BY FinishFacts DEF TypeOK, SameGrant
<1>2. Extends(log[w], l)
  BY <1>1, ImportedFacts
<1> HIDE DEF l
<1>3. /\ \A v \in Workstreams \ {w} : log'[v] = log[v]
      /\ DOMAIN log' = Workstreams
  BY <1>1
<1>4. Exclusive!Continues(log[w], log'[w])
  BY <1>1, <1>2 DEF Exclusive!Continues, Extends, NoDuplicateEvents
<1>5. Holder[w] = r /\ r # None
  BY <1>1, NoneAssumption DEF HolderMap, Active
<1>6. CASE in.complete
  <2>1. Holder' = [Holder EXCEPT ![w] = None] /\ Retired' = Retired \cup {r}
    BY <1>1, <1>6, OneRelease DEF Active
  <2> QED BY <1>3, <1>4, <1>5, <2>1 DEF Exclusive!Import
<1>7. CASE ~in.complete
  <2>1. Holder' = Holder /\ Retired' = Retired
    BY <1>1, <1>7, SameOwners DEF Active
  <2> QED BY <1>3, <1>4, <1>5, <2>1 DEF Exclusive!Import
<1> QED BY <1>6, <1>7

LEMMA StepRefines ==
    ASSUME TypeOK, NoDuplicateEvents, NoDuplicateEvents', HolderMap, HolderMap',
           [Next]_ledgerVars
    PROVE  [Exclusive!Next]_<<Holder, Retired, log>>
<1> DEFINE Stutters == Holder' = Holder /\ Retired' = Retired /\ log' = log
<1>1. ASSUME NEW r \in Runs, NEW w \in Workstreams, NEW a \in Agents, PrepareRun(r, w, a)
      PROVE  Exclusive!Next
  BY <1>1, GrantRefines DEF Exclusive!Next
<1>2. ASSUME NEW r \in Runs, NEW w \in Workstreams, NEW a \in Agents,
             NEW available \in SUBSET Agents, PrepareAutomaticRun(r, w, a, available)
      PROVE  Exclusive!Next
  BY <1>1, <1>2 DEF PrepareAutomaticRun, AutomaticAgents
<1>3. ASSUME NEW r \in Runs, CancelRun(r) PROVE Exclusive!Next
  <2>1. /\ runs[r].state = "active" /\ runs'[r].state = "expired"
        /\ \A q \in Runs \ {r} : runs'[q] = runs[q]
        /\ UNCHANGED log
    BY <1>3, CancelQuiet DEF Quiet
  <2>2. runs[r].ws \in Workstreams
    BY <2>1 DEF TypeOK
  <2>3. /\ Holder[runs[r].ws] = r
        /\ Holder' = [Holder EXCEPT ![runs[r].ws] = None]
        /\ Retired' = Retired \cup {r}
    BY <2>1, <2>2, OneRelease
  <2> QED BY <2>1, <2>2, <2>3, NoneAssumption DEF Exclusive!Next, Exclusive!Release
<1>4. ASSUME NEW r \in Runs, NEW in \in Request(r), FinishRun(r, in)
      PROVE  Exclusive!Next
  BY <1>4, FinishRefines, FinishFacts DEF Exclusive!Next
<1>5. CASE Tick
  <2>1. \A q \in Runs : runs'[q].state = runs[q].state /\ runs'[q].ws = runs[q].ws
    <3> SUFFICES ASSUME NEW q \in Runs
                 PROVE  runs'[q].state = runs[q].state /\ runs'[q].ws = runs[q].ws
      OBVIOUS
    <3>1. /\ runs[q] \in RunRow
          /\ runs'[q] = runs[q] \/ runs'[q] = [runs[q] EXCEPT !.lease = @ - 1]
      BY <1>5 DEF Tick, TypeOK
    <3> QED BY <3>1 DEF RunRow
  <2> QED BY <1>5, <2>1, SameOwners DEF Tick
<1>6. ASSUME NEW r \in Runs, Heartbeat(r) PROVE Stutters
  <2>1. \A q \in Runs : runs'[q].state = runs[q].state /\ runs'[q].ws = runs[q].ws
    BY <1>6 DEF Heartbeat, TypeOK, RunRow
  <2> QED BY <1>6, <2>1, SameOwners DEF Heartbeat
<1>7. ASSUME NEW r \in Runs, NEW s \in Sessions, LinkNativeSession(r, s) PROVE Stutters
  <2>1. \A q \in Runs : runs'[q].state = runs[q].state /\ runs'[q].ws = runs[q].ws
    BY <1>7, LinkFacts DEF SameGrant, Active
  <2> QED BY <1>7, <2>1, LinkFacts, SameOwners
<1>8. ASSUME NEW r \in Runs, NEW u \in BOOLEAN, AcceptContext(r, u) PROVE Stutters
  <2>1. \A q \in Runs : runs'[q].state = runs[q].state /\ runs'[q].ws = runs[q].ws
    BY <1>8, AcceptFacts DEF SameGrant, Active
  <2> QED BY <1>8, <2>1, AcceptFacts, SameOwners
<1>9. ASSUME NEW w \in Workstreams, NEW n \in Names, Rename(w, n) PROVE Stutters
  BY <1>9, SameOwners DEF Rename
<1>10. CASE UNCHANGED ledgerVars
  BY <1>10, SameOwners DEF ledgerVars
<1> HIDE DEF Stutters
<1>11. Exclusive!Next \/ Stutters
  BY <1>1, <1>2, <1>3, <1>4, <1>5, <1>6, <1>7, <1>8, <1>9, <1>10 DEF Next, Stutters
<1> QED BY <1>11 DEF Stutters

LEMMA InitRefines == Init => Exclusive!Init
<1> SUFFICES ASSUME Init PROVE Exclusive!Init
  OBVIOUS
<1>1. \A r \in Runs : ~Active(r) /\ runs[r].state = "free"
  BY DEF Init, NoRun, Active
<1>2. Holder = [w \in Workstreams |-> None]
  BY <1>1 DEF Holder, HolderOf
<1>3. Retired = {}
  BY <1>1 DEF Retired
<1> QED BY <1>2, <1>3 DEF Init, Exclusive!Init

\* The workstream tables implement the exclusive ledger.
THEOREM Refinement == Spec => ImplementsExclusiveLedger
<1>1. Init => Exclusive!Init
  BY InitRefines
<1>2. /\ TypeOK /\ TypeOK' /\ OneActiveRunPerWorkstream /\ OneActiveRunPerWorkstream'
      /\ NoDuplicateEvents /\ NoDuplicateEvents' /\ [Next]_ledgerVars
      => [Exclusive!Next]_<<Holder, Retired, log>>
  BY HolderIsActive, HolderIsActiveNext, StepRefines
<1> QED BY <1>1, <1>2, TypeInvariant, MutualExclusion, ExactlyOnceImport, PTL
        DEF Spec, ImplementsExclusiveLedger, Exclusive!Spec, Exclusive!vars
===========================================================================
