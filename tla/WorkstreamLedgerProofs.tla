---------------------- MODULE WorkstreamLedgerProofs ----------------------
(***************************************************************************)
(* Proofs about WorkstreamLedger for every value of its constants.         *)
(***************************************************************************)
EXTENDS WorkstreamLedger, TLAPS

\* Appending an event unless its id is there keeps the history a duplicate-
\* free sequence, changes no earlier entry, and adds at most that event.
LEMMA AppendNewFacts ==
    ASSUME NEW l \in Seq(Event), NEW e \in Event
    PROVE  /\ AppendNew(l, e) \in Seq(Event)
           /\ Extends(l, AppendNew(l, e))
           /\ Len(AppendNew(l, e)) <= Len(l) + 1
           /\ \A i \in DOMAIN AppendNew(l, e) :
                i > Len(l) => AppendNew(l, e)[i] = e
           /\ (\A i, j \in DOMAIN l : l[i].id = l[j].id => i = j) =>
                \A i, j \in DOMAIN AppendNew(l, e) :
                    AppendNew(l, e)[i].id = AppendNew(l, e)[j].id => i = j
<1>1. CASE HasEvent(l, e.id)
  BY <1>1 DEF AppendNew, Extends
<1>2. CASE ~HasEvent(l, e.id)
  <2>1. AppendNew(l, e) = Append(l, e)
    BY <1>2 DEF AppendNew
  <2>2. /\ Append(l, e) \in Seq(Event)
        /\ Len(Append(l, e)) = Len(l) + 1
        /\ DOMAIN Append(l, e) = 1..(Len(l) + 1)
        /\ \A i \in DOMAIN l : Append(l, e)[i] = l[i]
        /\ Append(l, e)[Len(l) + 1] = e
    OBVIOUS
  <2>3. \A i \in DOMAIN l : l[i].id # e.id
    BY <1>2 DEF HasEvent
  <2> QED BY <2>1, <2>2, <2>3 DEF Extends
<1> QED BY <1>1, <1>2

---------------------------------------------------------------------------
\* What the requests of the next-state relation carry.
LEMMA RequestType ==
    ASSUME TypeOK, NEW r \in Runs, Active(r), NEW in \in Request(r)
    PROVE  /\ in.session \in Sessions \cup {None}
           /\ in.cursor \in Cursors \cup {None}
           /\ in.record \in Event \cup {None}
           /\ in.boundary \in Sessions \cup {None}
           /\ in.complete \in BOOLEAN
           /\ in.session # None => AgentOf[in.session] = runs[r].agent
           /\ BoundaryEvent(r, in.boundary) \in Event
           /\ FinishSession(r, in) \in Sessions \cup {None}
           /\ FinishSession(r, in) # None =>
                AgentOf[FinishSession(r, in)] = runs[r].agent
<1>1. /\ runs[r] \in RunRow
      /\ runs[r].agent \in Agents
      /\ runs[r].session \in Sessions \cup {None}
      /\ runs[r].session # None => AgentOf[runs[r].session] = runs[r].agent
  BY DEF TypeOK, Active, RunRow
<1>2. \A i \in RecordIds, s \in Sessions :
        [id |-> i, agent |-> runs[r].agent, session |-> s] \in Event
  BY <1>1 DEF Event
<1> QED BY <1>1, <1>2 DEF Request, BoundaryEvent, FinishSession, Event

\* What one import does to the ledger of its workstream.
LEMMA ImportedFacts ==
    ASSUME TypeOK, NEW r \in Runs, Active(r), NEW in \in Request(r),
           EventsMatch(r, in)
    PROVE  LET l == log[runs[r].ws]
               m == Imported(r, in)
           IN /\ m \in Seq(Event)
              /\ Extends(l, m)
              /\ \A i \in DOMAIN m : i > Len(l) => m[i].agent = runs[r].agent
              /\ (\A i, j \in DOMAIN l : l[i].id = l[j].id => i = j) =>
                   \A i, j \in DOMAIN m : m[i].id = m[j].id => i = j
<1> DEFINE l == log[runs[r].ws]
           k == IF in.record = None THEN l ELSE AppendNew(l, in.record)
           b == BoundaryEvent(r, in.boundary)
           m == Imported(r, in)
<1>1. l \in Seq(Event)
  BY DEF TypeOK, Active
<1>2. /\ in.record \in Event \cup {None}
      /\ b \in Event /\ b.agent = runs[r].agent
      /\ in.record # None => in.record.agent = runs[r].agent
  BY RequestType DEF BoundaryEvent, EventsMatch
<1>3. /\ k \in Seq(Event)
      /\ Extends(l, k)
      /\ \A i \in DOMAIN k : i > Len(l) => k[i].agent = runs[r].agent
      /\ (\A i, j \in DOMAIN l : l[i].id = l[j].id => i = j) =>
           \A i, j \in DOMAIN k : k[i].id = k[j].id => i = j
  <2>1. CASE in.record = None
    BY <1>1, <2>1 DEF Extends
  <2>2. CASE in.record # None
    BY <1>1, <1>2, <2>2, AppendNewFacts
  <2> QED BY <2>1, <2>2
<1>4. m = IF in.complete THEN AppendNew(k, b) ELSE k
  BY DEF Imported
<1>5. CASE ~in.complete
  BY <1>3, <1>4, <1>5
<1>6. CASE in.complete
  <2> HIDE DEF k, b, l, m
  <2>1. /\ m \in Seq(Event)
        /\ Extends(k, m)
        /\ \A i \in DOMAIN m : i > Len(k) => m[i] = b
        /\ (\A i, j \in DOMAIN k : k[i].id = k[j].id => i = j) =>
             \A i, j \in DOMAIN m : m[i].id = m[j].id => i = j
    BY <1>2, <1>3, <1>4, <1>6, AppendNewFacts
  <2>2. Extends(l, m)
    BY <1>1, <1>3, <2>1 DEF Extends
  <2>3. \A i \in DOMAIN m : i > Len(l) => m[i].agent = runs[r].agent
    <3> SUFFICES ASSUME NEW i \in DOMAIN m, i > Len(l)
                 PROVE  m[i].agent = runs[r].agent
      OBVIOUS
    <3>1. CASE i > Len(k)
      BY <1>2, <2>1, <3>1
    <3>2. CASE ~(i > Len(k))
      BY <1>1, <1>3, <2>1, <3>2 DEF Extends
    <3> QED BY <3>1, <3>2
  <2> QED BY <1>3, <2>1, <2>2, <2>3 DEF m, l
<1> QED BY <1>5, <1>6

---------------------------------------------------------------------------
(* Type correctness. *)

\* The session a workstream would resume, and the row it is granted with.
LEMMA GrantedRowType ==
    ASSUME TypeOK, NEW w \in Workstreams, NEW a \in Agents
    PROVE  LET g == GrantedRow(w, a)
           IN /\ g \in RunRow
              /\ g.state = "active" /\ g.ws = w /\ g.agent = a
              /\ g.session # None => AgentOf[g.session] = a
              /\ g.through = Len(log[w])
              /\ g.after = 0 \/ \E s \in Sessions : g.after = native[w][s].delivery
<1> DEFINE cur == CurrentSession(w, a)
           s   == IF cur = {} THEN None ELSE CHOOSE x \in cur : TRUE
<1>1. s # None => s \in Sessions /\ AgentOf[s] = a
  BY DEF CurrentSession
<1>2. s \in Sessions \cup {None}
  BY <1>1
<1>3. log[w] \in Seq(Event)
  BY DEF TypeOK
<1>4. \A x \in Sessions : native[w][x].delivery \in Nat
  BY DEF TypeOK, SessionRow
<1>5. GrantedRow(w, a) =
        [state |-> "active", ws |-> w, agent |-> a, session |-> s,
         after |-> IF s = None THEN 0 ELSE native[w][s].delivery,
         through |-> Len(log[w]), delivered |-> FALSE, lease |-> LeaseTicks]
  BY DEF GrantedRow
<1>6. LeaseTicks \in 0..LeaseTicks
  BY LeaseAssumption
<1> HIDE DEF s
<1> QED BY <1>1, <1>2, <1>3, <1>4, <1>5, <1>6 DEF RunRow, RunState

\* A row stays a row under each of the updates that the transactions make.
LEMMA RunRowUpdates ==
    ASSUME NEW row \in RunRow, NEW s \in Sessions \cup {None}, NEW d \in Nat
    PROVE  /\ row.lease > 0 => [row EXCEPT !.lease = @ - 1] \in RunRow
           /\ [row EXCEPT !.state = "expired"] \in RunRow
           /\ [row EXCEPT !.lease = LeaseTicks] \in RunRow
           /\ [row EXCEPT !.state = "expired", !.lease = 0] \in RunRow
           /\ [row EXCEPT !.session = s, !.after = d] \in RunRow
           /\ [row EXCEPT !.delivered = TRUE, !.lease = LeaseTicks] \in RunRow
<1>1. /\ LeaseTicks \in 0..LeaseTicks /\ 0 \in 0..LeaseTicks
      /\ "expired" \in RunState
  BY LeaseAssumption DEF RunState
<1>2. ASSUME row.lease > 0
      PROVE  [row EXCEPT !.lease = @ - 1] \in RunRow
  <2>1. row.lease - 1 \in 0..LeaseTicks
    BY <1>2, LeaseAssumption DEF RunRow
  <2> QED BY <2>1 DEF RunRow
<1>3. [row EXCEPT !.state = "expired"] \in RunRow
  BY <1>1 DEF RunRow
<1>4. [row EXCEPT !.lease = LeaseTicks] \in RunRow
  BY <1>1 DEF RunRow
<1>5. [row EXCEPT !.state = "expired", !.lease = 0] \in RunRow
  BY <1>1 DEF RunRow
<1>6. [row EXCEPT !.session = s, !.after = d] \in RunRow
  BY DEF RunRow
<1>7. [row EXCEPT !.delivered = TRUE, !.lease = LeaseTicks] \in RunRow
  BY <1>1 DEF RunRow
<1> QED BY <1>2, <1>3, <1>4, <1>5, <1>6, <1>7

LEMMA FinishedRowType ==
    ASSUME NEW row \in RunRow, NEW s \in Sessions \cup {None}
    PROVE  /\ [row EXCEPT !.state = "finished", !.session = s, !.lease = 0] \in RunRow
           /\ [row EXCEPT !.session = s, !.lease = LeaseTicks] \in RunRow
<1>1. /\ LeaseTicks \in 0..LeaseTicks /\ 0 \in 0..LeaseTicks
      /\ "finished" \in RunState
  BY LeaseAssumption DEF RunState
<1> QED BY <1>1 DEF RunRow

LEMMA SessionRowUpdates ==
    ASSUME NEW row \in SessionRow, NEW d \in Nat
    PROVE  /\ [row EXCEPT !.current = FALSE] \in SessionRow
           /\ [row EXCEPT !.delivery = Larger(@, d)] \in SessionRow
BY DEF SessionRow, Larger

LEMMA MakeCurrentType ==
    ASSUME TypeOK, NEW w \in Workstreams, NEW s \in Sessions, NEW row \in SessionRow,
           MakeCurrent(w, s, row)
    PROVE  /\ native' \in [Workstreams -> [Sessions -> SessionRow]]
           /\ native'[w][s] = row
           /\ \A v \in Workstreams, x \in Sessions :
                v # w \/ x # s => native'[v][x] =
                    IF v = w /\ AgentOf[x] = AgentOf[s]
                    THEN [native[v][x] EXCEPT !.current = FALSE] ELSE native[v][x]
<1>1. native \in [Workstreams -> [Sessions -> SessionRow]]
  BY DEF TypeOK
<1>2. \A x \in Sessions : [native[w][x] EXCEPT !.current = FALSE] \in SessionRow
  BY <1>1, SessionRowUpdates
<1> QED BY <1>1, <1>2 DEF MakeCurrent

LEMMA LedgerStart == Init => TypeOK
BY LeaseAssumption, NoneAssumption
DEF Init, TypeOK, NoRun, RunRow, RunState, NoSessionRow, SessionRow

\* Every transaction keeps the types, whatever it is given.
LEMMA LedgerTypes == TypeOK /\ [Next]_ledgerVars => TypeOK'
<1> SUFFICES ASSUME TypeOK, [Next]_ledgerVars
             PROVE  TypeOK'
  OBVIOUS
<1> USE DEF ledgerVars
<1>0. /\ name \in [Workstreams -> Names \cup {None}]
      /\ selected \in Workstreams \cup {None}
      /\ runs \in [Runs -> RunRow]
      /\ native \in [Workstreams -> [Sessions -> SessionRow]]
      /\ log \in [Workstreams -> Seq(Event)]
  BY DEF TypeOK
<1>1. CASE Tick
  <2>1. runs' \in [Runs -> RunRow]
    BY <1>0, <1>1, RunRowUpdates DEF Tick
  <2> QED BY <1>0, <1>1, <2>1 DEF TypeOK, Tick, Active, RunRow
<1>2. ASSUME NEW r \in Runs, NEW w \in Workstreams, NEW a \in Agents,
             PrepareRun(r, w, a)
      PROVE  TypeOK'
  <2>1. name' \in [Workstreams -> Names \cup {None}]
    BY <1>0, <1>2, DefaultNameAssumption
    DEF PrepareRun, SelectNew, SelectNamed, SelectCurrent, NewWorkstream
  <2>2. \A q \in Runs : /\ Expired(runs[q]) \in RunRow
                        /\ Expired(runs[q]).ws = runs[q].ws
                        /\ Expired(runs[q]).agent = runs[q].agent
                        /\ Expired(runs[q]).session = runs[q].session
                        /\ Expired(runs[q]).state # "free" => runs[q].state # "free"
    BY <1>0 DEF Expired, RunRow, RunState
  <2>3. runs' = [q \in Runs |-> IF q = r THEN GrantedRow(w, a) ELSE Expired(runs[q])]
    BY <1>2 DEF PrepareRun, Grant
  <2>4. runs' \in [Runs -> RunRow]
    BY <2>2, <2>3, GrantedRowType
  <2>5. \A q \in Runs : runs'[q].state # "free" =>
          runs'[q].ws \in Workstreams /\ runs'[q].agent \in Agents
    <3> SUFFICES ASSUME NEW q \in Runs, runs'[q].state # "free"
                 PROVE  runs'[q].ws \in Workstreams /\ runs'[q].agent \in Agents
      OBVIOUS
    <3>1. CASE q = r
      BY <2>3, <3>1, GrantedRowType
    <3>2. CASE q # r
      <4>1. runs'[q] = Expired(runs[q])
        BY <2>3, <3>2
      <4> QED BY <1>2, <2>2, <4>1 DEF TypeOK
    <3> QED BY <3>1, <3>2
  <2>6. \A q \in Runs : runs'[q].session # None =>
          AgentOf[runs'[q].session] = runs'[q].agent
    <3> SUFFICES ASSUME NEW q \in Runs, runs'[q].session # None
                 PROVE  AgentOf[runs'[q].session] = runs'[q].agent
      OBVIOUS
    <3>1. CASE q = r
      BY <2>3, <3>1, GrantedRowType
    <3>2. CASE q # r
      <4>1. runs'[q] = Expired(runs[q])
        BY <2>3, <3>2
      <4> QED BY <2>2, <4>1 DEF TypeOK
    <3> QED BY <3>1, <3>2
  <2> QED BY <1>0, <1>2, <2>1, <2>4, <2>5, <2>6 DEF TypeOK, PrepareRun, Grant
<1>3. ASSUME NEW r \in Runs, NEW w \in Workstreams, NEW a \in Agents,
             NEW available \in SUBSET Agents,
             PrepareAutomaticRun(r, w, a, available)
      PROVE  TypeOK'
  <2>1. PICK b \in AutomaticAgents(w, a, available) : PrepareRun(r, w, b)
    BY <1>3 DEF PrepareAutomaticRun
  <2>2. b \in Agents
    BY <2>1 DEF AutomaticAgents
  <2> QED BY <1>2, <2>1, <2>2
<1>4. ASSUME NEW r \in Runs, NEW row \in RunRow,
             runs' = [runs EXCEPT ![r] = row],
             row.ws = runs[r].ws, row.agent = runs[r].agent,
             row.session = runs[r].session,
             runs[r].state # "free",
             UNCHANGED <<name, selected, native, log>>
      PROVE  TypeOK'
  <2>1. runs' \in [Runs -> RunRow]
    BY <1>0, <1>4
  <2> QED BY <1>0, <1>4, <2>1 DEF TypeOK
<1>41. ASSUME NEW r \in Runs, Heartbeat(r)
       PROVE  TypeOK'
  <2>1. /\ runs[r] \in RunRow /\ runs[r].state # "free"
        /\ UNCHANGED <<name, selected, native, log>>
        /\ runs' = [runs EXCEPT ![r] = [runs[r] EXCEPT !.lease = LeaseTicks]]
    BY <1>0, <1>41 DEF Heartbeat, Active
  <2>2. [runs[r] EXCEPT !.lease = LeaseTicks] \in RunRow
    BY <2>1, RunRowUpdates
  <2> QED BY <1>4, <2>1, <2>2 DEF RunRow
<1>42. ASSUME NEW r \in Runs, CancelRun(r)
       PROVE  TypeOK'
  <2>1. /\ runs[r] \in RunRow /\ runs[r].state # "free"
        /\ UNCHANGED <<name, selected, native, log>>
        /\ runs' = [runs EXCEPT ![r] =
                      [runs[r] EXCEPT !.state = "expired", !.lease = 0]]
    BY <1>0, <1>42 DEF CancelRun, Active
  <2>2. [runs[r] EXCEPT !.state = "expired", !.lease = 0] \in RunRow
    BY <2>1, RunRowUpdates
  <2> QED BY <1>4, <2>1, <2>2 DEF RunRow
<1>5. ASSUME NEW r \in Runs, NEW s \in Sessions, LinkNativeSession(r, s)
      PROVE  TypeOK'
  <2> DEFINE w == runs[r].ws
             d == InitialDelivery(r, s)
             row == [linked |-> TRUE, current |-> TRUE,
                     source |-> native[w][s].source, delivery |-> d]
  <2>1. w \in Workstreams /\ runs[r] \in RunRow /\ runs[r].agent = AgentOf[s]
    BY <1>0, <1>5 DEF LinkNativeSession, CanLink, Active, TypeOK
  <2>2. d \in Nat
    BY <1>0, <2>1 DEF InitialDelivery, SessionRow, RunRow
  <2>3. row \in SessionRow
    BY <1>0, <2>1, <2>2 DEF SessionRow
  <2>4. native' \in [Workstreams -> [Sessions -> SessionRow]]
    BY <1>5, <2>1, <2>3, MakeCurrentType DEF LinkNativeSession
  <2>5. runs' = [runs EXCEPT ![r] = [@ EXCEPT !.session = s, !.after = d]]
    BY <1>5 DEF LinkNativeSession
  <2> HIDE DEF d, w, row
  <2>6. runs' \in [Runs -> RunRow]
    BY <1>0, <2>2, <2>5, RunRowUpdates
  <2>7. UNCHANGED <<name, selected, log>>
    BY <1>5 DEF LinkNativeSession
  <2> QED BY <1>0, <2>1, <2>4, <2>5, <2>6, <2>7 DEF TypeOK, RunRow
<1>6. ASSUME NEW r \in Runs, NEW u \in BOOLEAN, AcceptContext(r, u)
      PROVE  TypeOK'
  <2> DEFINE w == runs[r].ws
             s == runs[r].session
  <2>1. /\ w \in Workstreams /\ runs[r] \in RunRow
        /\ s \in Sessions \cup {None} /\ runs[r].through \in Nat
    BY <1>0, <1>6 DEF AcceptContext, Active, TypeOK, RunRow
  <2>2. runs' \in [Runs -> RunRow]
    BY <1>0, <1>6, RunRowUpdates DEF AcceptContext
  <2>3. native' \in [Workstreams -> [Sessions -> SessionRow]]
    BY <1>0, <1>6, <2>1, SessionRowUpdates DEF AcceptContext
  <2> QED BY <1>0, <1>6, <2>2, <2>3 DEF TypeOK, AcceptContext, Active, RunRow
<1>7. ASSUME NEW r \in Runs, NEW in \in Request(r), FinishRun(r, in)
      PROVE  TypeOK'
  <2> DEFINE w == runs[r].ws
             s == FinishSession(r, in)
             l == Imported(r, in)
             row == [linked |-> TRUE, current |-> TRUE, source |-> in.cursor,
                     delivery |-> Larger(native[w][s].delivery, KnownThrough(r, l))]
  <2>1. /\ Active(r) /\ EventsMatch(r, in)
        /\ w \in Workstreams /\ runs[r] \in RunRow
    BY <1>0, <1>7 DEF FinishRun, Active, TypeOK
  <2>2. l \in Seq(Event)
    BY <1>7, <2>1, ImportedFacts
  <2>3. log' \in [Workstreams -> Seq(Event)]
    BY <1>0, <1>7, <2>1, <2>2 DEF FinishRun
  <2>4. /\ s \in Sessions \cup {None}
        /\ s # None => AgentOf[s] = runs[r].agent
        /\ in.cursor \in Cursors \cup {None} /\ in.complete \in BOOLEAN
    BY <2>1, RequestType
  <2>5. native' \in [Workstreams -> [Sessions -> SessionRow]]
    <3>1. CASE in.complete /\ s # None
      <4>1. Len(l) \in Nat
        BY <2>2
      <4>2. KnownThrough(r, l) \in Nat
        BY <4>1 DEF KnownThrough
      <4>3. row \in SessionRow
        BY <1>0, <2>1, <2>4, <3>1, <4>2 DEF SessionRow, Larger
      <4>4. MakeCurrent(w, s, row)
        BY <1>7, <3>1 DEF FinishRun
      <4> HIDE DEF row
      <4> QED BY <2>1, <2>4, <3>1, <4>3, <4>4, MakeCurrentType
    <3>2. CASE ~(in.complete /\ s # None)
      BY <1>0, <1>7, <3>2 DEF FinishRun
    <3> QED BY <3>1, <3>2
  <2>6. /\ runs' = [runs EXCEPT ![r] =
                      IF in.complete
                      THEN [@ EXCEPT !.state = "finished", !.session = s, !.lease = 0]
                      ELSE [@ EXCEPT !.session = s, !.lease = LeaseTicks]]
        /\ UNCHANGED <<name, selected>>
    BY <1>7 DEF FinishRun
  <2> HIDE DEF w, s, l, row
  <2>7. runs' \in [Runs -> RunRow]
    BY <1>0, <2>1, <2>4, <2>6, FinishedRowType
  <2> QED BY <1>0, <2>1, <2>3, <2>4, <2>5, <2>6, <2>7 DEF TypeOK, Active, RunRow
<1>8. ASSUME NEW w \in Workstreams, NEW n \in Names, Rename(w, n)
      PROVE  TypeOK'
  BY <1>0, <1>8 DEF Rename, TypeOK
<1>9. CASE UNCHANGED ledgerVars
  BY <1>9 DEF TypeOK, Active
<1> QED BY <1>1, <1>2, <1>3, <1>41, <1>42, <1>5, <1>6, <1>7, <1>8, <1>9 DEF Next

\* Every reachable state is well typed: rows keep their shape, an issued run
\* has a workstream and an agent, and its session is of its own harness.
THEOREM TypeInvariant == Spec => []TypeOK
BY LedgerStart, LedgerTypes, PTL DEF Spec

---------------------------------------------------------------------------
(* What each transaction does, row by row. *)

\* Run q keeps the workstream, the harness and the range it was granted for.
SameGrant(q) ==
    /\ runs'[q].ws = runs[q].ws
    /\ runs'[q].agent = runs[q].agent
    /\ runs'[q].through = runs[q].through

\* A grant retires nothing but lapsed runs, and leaves no other active run
\* on the workstream it grants.
LEMMA GrantFacts ==
    ASSUME TypeOK, NEW r \in Runs, NEW w \in Workstreams, NEW a \in Agents,
           PrepareRun(r, w, a)
    PROVE  /\ runs[r].state = "free"
           /\ runs'[r] = GrantedRow(w, a)
           /\ \A q \in Runs \ {r} :
                \/ runs'[q] = runs[q] /\ (runs[q].state = "active" => runs[q].ws # w)
                \/ runs[q].state = "active" /\ runs'[q].state = "expired"
           /\ UNCHANGED <<native, log>>
<1>1. /\ runs[r].state = "free"
      /\ ~Busy(w)
      /\ runs' = [q \in Runs |-> IF q = r THEN GrantedRow(w, a) ELSE Expired(runs[q])]
      /\ UNCHANGED <<native, log>>
  BY DEF PrepareRun, Grant
<1>2. runs'[r] = GrantedRow(w, a)
  BY <1>1
<1>3. ASSUME NEW q \in Runs \ {r}
      PROVE  \/ runs'[q] = runs[q] /\ (runs[q].state = "active" => runs[q].ws # w)
             \/ runs[q].state = "active" /\ runs'[q].state = "expired"
  <2>1. /\ runs[q] \in RunRow
        /\ runs'[q] = Expired(runs[q])
    BY <1>1 DEF TypeOK
  <2>2. CASE runs[q].state = "active" /\ runs[q].lease = 0
    <3>1. runs'[q] = [runs[q] EXCEPT !.state = "expired"]
      BY <2>1, <2>2 DEF Expired
    <3>2. runs'[q].state = "expired"
      BY <2>1, <3>1 DEF RunRow
    <3> QED BY <2>2, <3>1, <3>2
  <2>3. CASE ~(runs[q].state = "active" /\ runs[q].lease = 0)
    <3>1. runs'[q] = runs[q]
      BY <2>1, <2>3 DEF Expired
    <3>2. runs[q].state = "active" => runs[q].lease > 0
      BY <2>1, <2>3, LeaseAssumption DEF RunRow
    <3> QED BY <1>1, <3>1, <3>2 DEF Busy, Active
  <2> QED BY <2>2, <2>3
<1> QED BY <1>1, <1>2, <1>3

\* A link moves one run to one session and changes one delivery cursor.
LEMMA LinkFacts ==
    ASSUME TypeOK, NEW r \in Runs, NEW s \in Sessions, LinkNativeSession(r, s)
    PROVE  LET w == runs[r].ws
               d == InitialDelivery(r, s)
           IN /\ Active(r) /\ w \in Workstreams /\ runs[r].agent = AgentOf[s]
              /\ d \in Nat
              /\ d \in {native[w][s].delivery, runs[r].through, 0}
              /\ native[w][s].linked => d = native[w][s].delivery
              /\ runs'[r].state = "active" /\ SameGrant(r)
              /\ runs'[r].after = d
              /\ \A q \in Runs \ {r} : runs'[q] = runs[q]
              /\ native'[w][s].linked /\ native'[w][s].delivery = d
              /\ \A v \in Workstreams, x \in Sessions :
                   v # w \/ x # s => native'[v][x] =
                       IF v = w /\ AgentOf[x] = AgentOf[s]
                       THEN [native[v][x] EXCEPT !.current = FALSE]
                       ELSE native[v][x]
              /\ UNCHANGED <<name, selected, log>>
<1> DEFINE w == runs[r].ws
           d == InitialDelivery(r, s)
           row == [linked |-> TRUE, current |-> TRUE,
                   source |-> native[w][s].source, delivery |-> d]
<1>1. /\ Active(r) /\ w \in Workstreams /\ runs[r] \in RunRow
      /\ runs[r].agent = AgentOf[s]
      /\ native[w][s] \in SessionRow
  BY DEF LinkNativeSession, CanLink, Active, TypeOK
<1>2. /\ d \in Nat
      /\ d \in {native[w][s].delivery, runs[r].through, 0}
      /\ native[w][s].linked => d = native[w][s].delivery
  BY <1>1 DEF InitialDelivery, SessionRow, RunRow
<1>3. /\ runs \in [Runs -> RunRow]
      /\ MakeCurrent(w, s, row)
      /\ runs' = [runs EXCEPT ![r] = [@ EXCEPT !.session = s, !.after = d]]
      /\ UNCHANGED <<name, selected, log>>
  BY DEF LinkNativeSession, TypeOK
<1>4. row \in SessionRow /\ row.linked /\ row.delivery = d
  BY <1>1, <1>2 DEF SessionRow
<1> HIDE DEF d, row, w
<1>5. /\ runs'[r].state = "active" /\ SameGrant(r)
      /\ runs'[r].after = d
      /\ \A q \in Runs \ {r} : runs'[q] = runs[q]
  BY <1>1, <1>3 DEF RunRow, SameGrant, Active
<1>6. /\ native'[w][s] = row
      /\ \A v \in Workstreams, x \in Sessions :
           v # w \/ x # s => native'[v][x] =
               IF v = w /\ AgentOf[x] = AgentOf[s]
               THEN [native[v][x] EXCEPT !.current = FALSE] ELSE native[v][x]
  BY <1>1, <1>3, <1>4, MakeCurrentType
<1>7. native'[w][s].linked /\ native'[w][s].delivery = d
  BY <1>4, <1>6
<1> QED BY <1>1, <1>2, <1>3, <1>5, <1>6, <1>7 DEF w, d

\* An acknowledgement changes at most the delivery cursor of the run's
\* session, up to what the run was prepared with.
LEMMA AcceptFacts ==
    ASSUME TypeOK, NEW r \in Runs, NEW u \in BOOLEAN, AcceptContext(r, u)
    PROVE  LET w == runs[r].ws
           IN /\ Active(r) /\ w \in Workstreams
              /\ runs'[r].state = "active" /\ SameGrant(r)
              /\ runs'[r].after = runs[r].after
              /\ \A q \in Runs \ {r} : runs'[q] = runs[q]
              /\ \A v \in Workstreams, x \in Sessions :
                   \/ native'[v][x] = native[v][x]
                   \/ /\ v = w
                      /\ native'[v][x] = [native[v][x] EXCEPT
                            !.delivery = Larger(@, runs[r].through)]
              /\ UNCHANGED <<name, selected, log>>
<1>1. /\ Active(r) /\ runs[r].ws \in Workstreams
      /\ runs \in [Runs -> RunRow]
      /\ native \in [Workstreams -> [Sessions -> SessionRow]]
      /\ runs[r].session \in Sessions \cup {None}
  BY DEF AcceptContext, Active, TypeOK, RunRow
<1>2. /\ runs'[r].state = "active" /\ SameGrant(r)
      /\ runs'[r].after = runs[r].after
      /\ \A q \in Runs \ {r} : runs'[q] = runs[q]
      /\ UNCHANGED <<name, selected, log>>
  BY <1>1 DEF AcceptContext, RunRow, SameGrant, Active
<1>3. CASE ~(runs[r].session # None /\ native[runs[r].ws][runs[r].session].linked)
  BY <1>1, <1>2, <1>3 DEF AcceptContext
<1>4. CASE runs[r].session # None /\ native[runs[r].ws][runs[r].session].linked
  <2>1. native' = [native EXCEPT ![runs[r].ws][runs[r].session].delivery =
                     Larger(@, runs[r].through)]
    BY <1>4 DEF AcceptContext
  <2> QED BY <1>1, <1>2, <1>4, <2>1
<1> QED BY <1>3, <1>4

\* A finish extends one ledger with events of the run's harness; only a
\* completing one closes its run and touches a session row.
LEMMA FinishFacts ==
    ASSUME TypeOK, NEW r \in Runs, NEW in \in Request(r), FinishRun(r, in)
    PROVE  LET w == runs[r].ws
               s == FinishSession(r, in)
               l == Imported(r, in)
           IN /\ Active(r) /\ EventsMatch(r, in) /\ w \in Workstreams
              /\ s \in Sessions \cup {None}
              /\ l \in Seq(Event)
              /\ log' = [log EXCEPT ![w] = l]
              /\ runs'[r].state = IF in.complete THEN "finished" ELSE "active"
              /\ SameGrant(r)
              /\ runs'[r].after = runs[r].after
              /\ \A q \in Runs \ {r} : runs'[q] = runs[q]
              /\ \A v \in Workstreams, x \in Sessions :
                   \/ native'[v][x] = native[v][x]
                   \/ /\ v = w /\ x # s /\ in.complete /\ s # None
                      /\ AgentOf[x] = AgentOf[s]
                      /\ native'[v][x] = [native[v][x] EXCEPT !.current = FALSE]
                   \/ /\ v = w /\ x = s /\ in.complete /\ s # None
                      /\ native'[v][x].linked
                      /\ native'[v][x].delivery =
                           Larger(native[v][x].delivery, KnownThrough(r, l))
              /\ \A v \in Workstreams, x \in Sessions :
                   v # w \/ ~in.complete => native'[v][x] = native[v][x]
              /\ KnownThrough(r, l) \in {Len(l), 0}
              /\ UNCHANGED <<name, selected>>
<1> DEFINE w == runs[r].ws
           s == FinishSession(r, in)
           l == Imported(r, in)
           k == KnownThrough(r, l)
           row == [linked |-> TRUE, current |-> TRUE, source |-> in.cursor,
                   delivery |-> Larger(native[w][s].delivery, k)]
<1>1. /\ Active(r) /\ EventsMatch(r, in)
      /\ w \in Workstreams /\ runs \in [Runs -> RunRow]
      /\ native \in [Workstreams -> [Sessions -> SessionRow]]
  BY DEF FinishRun, Active, TypeOK
<1>2. /\ l \in Seq(Event) /\ Len(l) \in Nat
  BY <1>1, ImportedFacts
<1>3. k \in {Len(l), 0} /\ k \in Nat
  BY <1>2 DEF KnownThrough
<1>4. /\ s \in Sessions \cup {None} /\ in.cursor \in Cursors \cup {None}
      /\ in.complete \in BOOLEAN
  BY <1>1, RequestType
<1>5. /\ log' = [log EXCEPT ![w] = l]
      /\ IF in.complete /\ s # None THEN MakeCurrent(w, s, row) ELSE UNCHANGED native
      /\ runs' = [runs EXCEPT ![r] =
                    IF in.complete
                    THEN [@ EXCEPT !.state = "finished", !.session = s, !.lease = 0]
                    ELSE [@ EXCEPT !.session = s, !.lease = LeaseTicks]]
      /\ UNCHANGED <<name, selected>>
  BY DEF FinishRun
<1>6. s # None => /\ row \in SessionRow /\ row.linked
                  /\ row.delivery = Larger(native[w][s].delivery, k)
  BY <1>1, <1>3, <1>4 DEF SessionRow, Larger
<1> HIDE DEF w, s, l, k, row
<1>7. \A q \in Runs \ {r} : runs'[q] = runs[q]
  BY <1>1, <1>5
<1>8. /\ runs'[r].state = IF in.complete THEN "finished" ELSE "active"
      /\ SameGrant(r)
      /\ runs'[r].after = runs[r].after
  <2>1. CASE in.complete
    BY <1>1, <1>5, <2>1 DEF RunRow, SameGrant, Active
  <2>2. CASE ~in.complete
    BY <1>1, <1>5, <2>2 DEF RunRow, SameGrant, Active
  <2> QED BY <2>1, <2>2
<1>9. \A v \in Workstreams, x \in Sessions :
        \/ native'[v][x] = native[v][x]
        \/ /\ v = w /\ x # s /\ in.complete /\ s # None
           /\ AgentOf[x] = AgentOf[s]
           /\ native'[v][x] = [native[v][x] EXCEPT !.current = FALSE]
        \/ /\ v = w /\ x = s /\ in.complete /\ s # None
           /\ native'[v][x].linked
           /\ native'[v][x].delivery = Larger(native[v][x].delivery, k)
  <2>1. CASE ~(in.complete /\ s # None)
    BY <1>5, <2>1
  <2>2. CASE in.complete /\ s # None
    <3>1. /\ native'[w][s] = row
          /\ \A v \in Workstreams, x \in Sessions :
               v # w \/ x # s => native'[v][x] =
                   IF v = w /\ AgentOf[x] = AgentOf[s]
                   THEN [native[v][x] EXCEPT !.current = FALSE] ELSE native[v][x]
      BY <1>1, <1>4, <1>5, <1>6, <2>2, MakeCurrentType
    <3>2. native'[w][s].linked /\ native'[w][s].delivery = Larger(native[w][s].delivery, k)
      BY <1>6, <2>2, <3>1
    <3> QED BY <2>2, <3>1, <3>2
  <2> QED BY <2>1, <2>2
<1>10. \A v \in Workstreams, x \in Sessions :
         v # w \/ ~in.complete => native'[v][x] = native[v][x]
  BY <1>9
<1> QED BY <1>1, <1>2, <1>3, <1>4, <1>5, <1>7, <1>8, <1>9, <1>10 DEF w, s, l, k

\* A finish that closes its run takes the current mark from the other
\* sessions of the harness, and nothing else from them.
LEMMA FinishMovesCurrent ==
    ASSUME TypeOK, NEW r \in Runs, NEW in \in Request(r), FinishRun(r, in),
           in.complete, FinishSession(r, in) # None,
           NEW v \in Workstreams, NEW x \in Sessions,
           v # runs[r].ws \/ x # FinishSession(r, in)
    PROVE  native'[v][x] =
             IF v = runs[r].ws /\ AgentOf[x] = AgentOf[FinishSession(r, in)]
             THEN [native[v][x] EXCEPT !.current = FALSE] ELSE native[v][x]
<1> DEFINE w == runs[r].ws
           s == FinishSession(r, in)
           k == KnownThrough(r, Imported(r, in))
           row == [linked |-> TRUE, current |-> TRUE, source |-> in.cursor,
                   delivery |-> Larger(native[w][s].delivery, k)]
<1>1. /\ w \in Workstreams /\ s \in Sessions /\ Active(r)
      /\ native[w][s] \in SessionRow
      /\ k \in Nat
  BY FinishFacts DEF TypeOK
<1>2. in.cursor \in Cursors \cup {None}
  BY <1>1, RequestType
<1>3. MakeCurrent(w, s, row)
  BY DEF FinishRun
<1>4. row \in SessionRow
  BY <1>1, <1>2 DEF SessionRow, Larger
<1> HIDE DEF w, s, k, row
<1>5. v # w \/ x # s => native'[v][x] =
        IF v = w /\ AgentOf[x] = AgentOf[s]
        THEN [native[v][x] EXCEPT !.current = FALSE] ELSE native[v][x]
  BY <1>1, <1>3, <1>4, MakeCurrentType
<1> QED BY <1>5 DEF w, s
===========================================================================
