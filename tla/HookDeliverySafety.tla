------------------------ MODULE HookDeliverySafety ------------------------
(***************************************************************************)
(* A spooled event is recorded once, and leaves the spool as delivered     *)
(* only when it is settled, for any number of events, requests, attempts   *)
(* and failures.                                                           *)
(***************************************************************************)
EXTENDS HookDelivery, TLAPS

\* An entry that was never written has the blank row's fate; a waiting drain
\* waits for a batch.
Formed ==
    /\ \A e \in Events : entry[e].state = "absent" => entry[e].fate = "plain"
    /\ drain.pc = "wait" => drain.via \in Requests

\* Whoever has an event in hand is alone with it, and its key is claimed.
InHand ==
    \A r \in Requests, e \in Events :
        Holds(r, e) =>
            /\ key[e] = "claimed"
            /\ request[r].pc = "ran" => effects[e] > 0
            /\ \A q \in Requests : Holds(q, e) => q = r

Ran(e) == \E r \in Requests : request[r].pc = "ran" /\ Holds(r, e)

\* Effects that were run are accounted for by a complete key, the handler that
\* has run them, or a cut.
Accounted ==
    \A e \in Events :
        /\ key[e] = "complete" => effects[e] > 0
        /\ effects[e] <= cuts[e] + 1
        /\ key[e] # "complete" /\ ~Ran(e) => effects[e] <= cuts[e]

AcceptedIsSettled ==
    \A r \in Requests, e \in Events : e \in request[r].accepted => Settled(e)

IInv ==
    /\ TypeOK
    /\ Formed
    /\ InHand
    /\ OneObservation
    /\ Accounted
    /\ AcceptedIsSettled
    /\ DeliveredIsSettled

LEMMA InitInv == Init => IInv
<1> SUFFICES ASSUME Init PROVE IInv
    OBVIOUS
<1> USE DEF Init
<1>1. TypeOK
    <2>1. NoEntry \in EntryRow
        BY LimitAssumption DEF NoEntry, EntryRow, Routes, Fates
    <2>2. NoDrain \in DrainRow
        BY DEF NoDrain, DrainRow
    <2>3. NoRequest \in RequestRow
        BY DEF NoRequest, RequestRow
    <2> QED BY <2>1, <2>2, <2>3, BoundAssumption DEF TypeOK
<1>2. Formed
    BY DEF Formed, NoEntry, NoDrain
<1>3. InHand /\ AcceptedIsSettled
    BY DEF InHand, Holds, NoRequest, AcceptedIsSettled
<1>4. OneObservation /\ Accounted /\ DeliveredIsSettled
    BY DEF OneObservation, Accounted, DeliveredIsSettled, NoEntry
<1> QED BY <1>1, <1>2, <1>3, <1>4 DEF IInv

-----------------------------------------------------------------------------
(* Spool files *)

\* New rows for old: well formed, of the same fates, and delivered only if they
\* were or are among A.
Rewritten(new, old, A) ==
    /\ new \in [Events -> EntryRow]
    /\ \A e \in Events :
          /\ new[e].fate = old[e].fate
          /\ new[e].state = "absent" => old[e].state = "absent"
          /\ new[e].state = "delivered" => old[e].state = "delivered" \/ e \in A

LEMMA DeliveredRows ==
    ASSUME TypeOK, NEW A PROVE Rewritten(Delivered(A), entry, A)
BY DEF Rewritten, Delivered, TypeOK, EntryRow

LEMMA BumpRows ==
    ASSUME NEW rows \in [Events -> EntryRow], NEW e \in Events
    PROVE  Rewritten(Bump(rows, e), rows, {})
<1> DEFINE row == Charged(rows[e])
<1>1. rows[e] \in EntryRow /\ rows[e].attempts \in 0..MaxAttempts
    BY DEF EntryRow
<1>2. row \in EntryRow /\ row.fate = rows[e].fate /\ row.state \in {"spent", "queued"}
    <2> DEFINE spent == rows[e].attempts + 1 >= MaxAttempts
               count == IF spent THEN MaxAttempts ELSE rows[e].attempts + 1
               state == IF spent THEN "spent" ELSE "queued"
    <2>1. count \in 0..MaxAttempts
        BY <1>1, LimitAssumption
    <2>2. state \in {"spent", "queued"}
        OBVIOUS
    <2>3. row = [rows[e] EXCEPT !.attempts = count, !.state = state]
        BY DEF Charged
    <2> HIDE DEF count, state
    <2> QED BY <1>1, <2>1, <2>2, <2>3 DEF EntryRow
<1>3. Bump(rows, e) = [rows EXCEPT ![e] = row]
    BY DEF Bump
<1> HIDE DEF row
<1> QED BY <1>2, <1>3 DEF Rewritten

LEMMA ChargedRows ==
    ASSUME TypeOK, ChargeFirst PROVE Rewritten(entry', entry, {})
<1>1. PICK e \in drain.chunk : entry' = Bump(entry, e)
    BY DEF ChargeFirst
<1>2. e \in Events /\ entry \in [Events -> EntryRow]
    BY <1>1 DEF TypeOK, DrainRow
<1> QED BY <1>1, <1>2, BumpRows

\* A batch whose answer was taken, or lost, is closed.
Closes(r) == request' = [request EXCEPT ![r] = NoRequest]

\* The client's part of a step: files are rewritten, a batch is closed or begun.
ClientStep(A) ==
    /\ Rewritten(entry', entry, A)
    /\ drain' \in DrainRow
    /\ drain'.pc = "wait" => drain'.via \in Requests
    /\ blamed' \in [Events -> Nat]
    /\ faults' \in 0..MaxFaults
    /\ UNCHANGED <<store, cuts>>
    /\ \/ request' = request
       \/ \E r \in Requests : /\ request[r].pc \in {"ok", "full", "lost"}
                              /\ Closes(r)
       \/ \E r \in Requests, S \in SUBSET Events :
              /\ request[r] = NoRequest
              /\ request' = [request EXCEPT ![r] = Batch(S)]

LEMMA ClientInv ==
    ASSUME IInv, NEW A, \A e \in Events : e \in A => Settled(e), ClientStep(A)
    PROVE  IInv'
<1> USE DEF IInv
<1> DEFINE Kept(new) ==
               /\ new \in [Requests -> RequestRow]
               /\ \A r \in Requests :
                     \/ new[r] = request[r]
                     \/ /\ request[r].pc \notin {"claimed", "ran"}
                        /\ new[r].pc \notin {"claimed", "ran"}
                        /\ new[r].accepted = {}
<1>k. Kept(request')
    <2>1. CASE request' = request
        BY <2>1 DEF TypeOK
    <2>2. ASSUME NEW r \in Requests, request[r].pc \in {"ok", "full", "lost"}, Closes(r)
          PROVE  Kept(request')
        BY <2>2 DEF Closes, TypeOK, NoRequest, RequestRow
    <2>3. ASSUME NEW r \in Requests, NEW S \in SUBSET Events, request[r] = NoRequest,
                 request' = [request EXCEPT ![r] = Batch(S)]
          PROVE  Kept(request')
        <3>1. Batch(S) \in RequestRow /\ Batch(S).pc = "item" /\ Batch(S).accepted = {}
            BY DEF Batch, RequestRow
        <3>2. request[r].pc = "free"
            BY <2>3 DEF NoRequest
        <3> QED BY <2>3, <3>1, <3>2 DEF TypeOK
    <2> QED BY <2>1, <2>2, <2>3 DEF ClientStep
<1>r. /\ request' \in [Requests -> RequestRow]
      /\ \A r \in Requests, e \in Events :
            /\ Holds(r, e) <=> Holds(r, e)'
            /\ Holds(r, e) => request'[r] = request[r]
            /\ e \in request'[r].accepted => e \in request[r].accepted
    BY <1>k DEF Holds, IsFirst
<1> HIDE DEF Kept
<1>s. key' = key /\ observations' = observations /\ effects' = effects /\ cuts' = cuts
    BY DEF ClientStep, store
<1>1. TypeOK'
    BY <1>r, <1>s DEF ClientStep, Rewritten, TypeOK
<1>2. Formed'
    BY DEF ClientStep, Rewritten, Formed
<1>t. \A e \in Events : Settled(e) => Settled(e)'
    BY <1>s DEF Settled, ClientStep, Rewritten
<1>3. InHand' /\ Accounted'
    BY <1>r, <1>s DEF InHand, Accounted, Ran
<1>4. OneObservation'
    BY <1>s DEF OneObservation
<1>5. AcceptedIsSettled'
    BY <1>r, <1>t DEF AcceptedIsSettled
<1>6. DeliveredIsSettled'
    BY <1>t DEF DeliveredIsSettled, ClientStep, Rewritten
<1> QED BY <1>1, <1>2, <1>3, <1>4, <1>5, <1>6

\* Where a drain goes after a chunk.
LEMMA Going ==
    ASSUME TypeOK
    PROVE  /\ Stop => drain' \in DrainRow /\ drain'.pc = "idle"
           /\ \A dead \in SUBSET Routes :
                 GoOn(dead) => drain' \in DrainRow /\ drain'.pc = "load"
           /\ AfterRetry => drain' \in DrainRow /\ drain'.pc \in {"idle", "load"}
<1>1. Stop => drain' \in DrainRow /\ drain'.pc = "idle"
    BY DEF Stop, NoDrain, DrainRow
<1>2. ASSUME NEW dead \in SUBSET Routes, GoOn(dead)
      PROVE  drain' \in DrainRow /\ drain'.pc = "load"
    BY <1>2 DEF GoOn, TypeOK, DrainRow
<1>3. {"moved"} \in SUBSET Routes
    BY DEF Routes
<1> QED BY <1>1, <1>2, <1>3 DEF AfterRetry

LEMMA FaultType ==
    ASSUME TypeOK PROVE (Fault => faults' \in 0..MaxFaults) /\ (NoFault => faults' \in 0..MaxFaults)
BY BoundAssumption DEF TypeOK, Fault, NoFault

LEMMA BlameType ==
    ASSUME TypeOK, NEW e, Blame(e) PROVE blamed' \in [Events -> Nat]
<1>1. blamed \in [Events -> Nat]
    BY DEF TypeOK
<1>2. \A d \in Events : [blamed EXCEPT ![e] = @ + 1][d] \in Nat
    BY <1>1
<1> QED BY <1>1, <1>2 DEF Blame

\* Looking at files, and sending a chunk.
LEMMA PassSteps ==
    ASSUME IInv,
           \/ StartDrain
           \/ \E e \in Events : Skip(e) \/ DropStale(e) \/ ChargeMalformed(e) \/ Take(e)
           \/ PostToNobody \/ PostDenied \/ EndPass
           \/ \E r \in Requests : Post(r)
    PROVE  ClientStep({})
<1> USE DEF IInv
<1>s. entry' = entry => Rewritten(entry', entry, {})
    BY DEF TypeOK, Rewritten
<1>w. drain.pc = "load" => drain.pc # "wait"
    OBVIOUS
<1>1. ASSUME StartDrain PROVE ClientStep({})
    <2>1. drain' \in DrainRow /\ drain'.pc = "load"
        BY <1>1 DEF StartDrain, NoDrain, DrainRow, Queued
    <2> QED BY <1>1, <1>s, <2>1 DEF StartDrain, ClientStep, TypeOK
<1>2. ASSUME NEW e \in Events, Skip(e) PROVE ClientStep({})
    <2>1. drain' \in DrainRow /\ drain'.pc = "load"
        BY <1>2 DEF Skip, Loading, TypeOK, DrainRow
    <2> QED BY <1>2, <1>s, <2>1 DEF Skip, ClientStep, TypeOK
<1>3. ASSUME NEW e \in Events, DropStale(e) PROVE ClientStep({})
    <2>1. drain' \in DrainRow /\ drain'.pc = "load"
        BY <1>3 DEF DropStale, Loading, TypeOK, DrainRow
    <2>2. Rewritten(entry', entry, {})
        BY <1>3 DEF DropStale, TypeOK, EntryRow, Rewritten
    <2> QED BY <1>3, <2>1, <2>2 DEF DropStale, ClientStep, TypeOK
<1>4. ASSUME NEW e \in Events, ChargeMalformed(e) PROVE ClientStep({})
    <2>1. drain' \in DrainRow /\ drain'.pc = "load"
        BY <1>4 DEF ChargeMalformed, Loading, TypeOK, DrainRow
    <2>2. Rewritten(entry', entry, {})
        BY <1>4, BumpRows DEF ChargeMalformed, TypeOK
    <2> QED BY <1>4, <2>1, <2>2 DEF ChargeMalformed, ClientStep, TypeOK
<1>5. ASSUME NEW e \in Events, Take(e) PROVE ClientStep({})
    <2>1. drain' \in DrainRow /\ drain'.pc = "load"
        BY <1>5 DEF Take, Loading, TypeOK, DrainRow
    <2> QED BY <1>5, <1>s, <2>1 DEF Take, ClientStep, TypeOK
<1>6. ASSUME PostToNobody PROVE ClientStep({})
    <2>1. {Address(Route)} \in SUBSET Routes
        BY DEF Address, Routes
    <2>2. drain' \in DrainRow /\ drain'.pc = "load"
        BY <1>6, <2>1, Going DEF PostToNobody
    <2>3. Rewritten(entry', entry, {})
        BY <1>6, ChargedRows DEF PostToNobody
    <2>4. faults' \in 0..MaxFaults
        BY <1>6, FaultType DEF PostToNobody
    <2> QED BY <1>6, <2>2, <2>3, <2>4 DEF PostToNobody, ClientStep, TypeOK
<1>7. ASSUME PostDenied PROVE ClientStep({})
    BY <1>7, Going, ChargedRows DEF PostDenied, ClientStep, TypeOK
<1>8. ASSUME EndPass PROVE ClientStep({})
    BY <1>8, <1>s, Going DEF EndPass, ClientStep, TypeOK
<1>9. ASSUME NEW r \in Requests, Post(r) PROVE ClientStep({})
    <2>1. drain' \in DrainRow /\ drain'.via = r
        BY <1>9 DEF Post, TypeOK, DrainRow
    <2>2. drain.chunk \in SUBSET Events
        BY DEF TypeOK, DrainRow
    <2> QED BY <1>9, <1>s, <2>1, <2>2 DEF Post, ClientStep, TypeOK
<1> QED BY <1>1, <1>2, <1>3, <1>4, <1>5, <1>6, <1>7, <1>8, <1>9

\* Taking the answer to a chunk, or giving up on it.
LEMMA AnswerSteps ==
    ASSUME IInv, NEW r \in Requests,
           \/ ReceiveOk(r) \/ ReceiveOkAgain(r) \/ ReceiveFull(r)
           \/ ReceiveFullAgain(r) \/ NoAnswer(r) \/ BadAnswer(r)
    PROVE  ClientStep(request[r].accepted)
<1> USE DEF IInv
<1> DEFINE A == request[r].accepted
<1>a. Rewritten(Delivered(A), entry, A)
    BY DeliveredRows
<1>b. ASSUME ChargeFirst PROVE Rewritten(entry', entry, A)
    BY <1>b, ChargedRows DEF Rewritten
<1>c. Closed(r) => Closes(r)
    BY DEF Closed, Closes
<1>d. {} \in SUBSET Routes /\ {"direct"} \in SUBSET Routes
    BY DEF Routes
<1>1. ASSUME ReceiveOk(r) PROVE ClientStep(A)
    <2> DEFINE f == request[r].failed
               rows == Delivered(A)
    <2>1. f \in Events \cup {None}
        BY DEF TypeOK, RequestRow
    <2>2. Rewritten(entry', entry, A)
        <3>1. CASE f = None
            BY <1>1, <1>a, <3>1 DEF ReceiveOk
        <3>2. CASE f # None
            <4>1. entry' = Bump(rows, f)
                BY <1>1, <3>2 DEF ReceiveOk
            <4>2. rows \in [Events -> EntryRow]
                BY <1>a DEF Rewritten
            <4>3. Rewritten(Bump(rows, f), rows, {})
                BY <2>1, <3>2, <4>2, BumpRows
            <4> HIDE DEF rows
            <4> QED BY <1>a, <4>1, <4>3 DEF Rewritten, rows
        <3> QED BY <3>1, <3>2
    <2>3. drain' \in DrainRow /\ drain'.pc \in {"idle", "load"}
        BY <1>1, <1>d, Going DEF ReceiveOk
    <2>4. blamed' \in [Events -> Nat]
        BY <1>1, BlameType DEF ReceiveOk
    <2>5. request[r].pc = "ok" /\ Closes(r)
        BY <1>1, <1>c DEF ReceiveOk, Receives
    <2> QED BY <1>1, <2>2, <2>3, <2>4, <2>5 DEF ReceiveOk, ClientStep, TypeOK
<1>2. ASSUME ReceiveOkAgain(r) PROVE ClientStep(A)
    <2>1. drain' \in DrainRow /\ drain'.pc = "load"
        BY <1>2, <1>d, Going DEF ReceiveOkAgain
    <2>2. blamed' \in [Events -> Nat]
        BY <1>2, BlameType DEF ReceiveOkAgain
    <2>3. request[r].pc = "ok" /\ Closes(r)
        BY <1>2, <1>c DEF ReceiveOkAgain, Receives
    <2> QED BY <1>2, <1>a, <2>1, <2>2, <2>3 DEF ReceiveOkAgain, ClientStep, TypeOK
<1>3. ASSUME ReceiveFull(r) PROVE ClientStep(A)
    <2>1. request[r].pc = "full" /\ Closes(r)
        BY <1>3, <1>c DEF ReceiveFull, Receives
    <2> QED BY <1>3, <1>a, <2>1, Going DEF ReceiveFull, ClientStep, TypeOK
<1>4. ASSUME ReceiveFullAgain(r) PROVE ClientStep(A)
    <2>1. request[r].pc = "full" /\ Closes(r)
        BY <1>4, <1>c DEF ReceiveFullAgain, Receives
    <2> QED BY <1>4, <1>b, <2>1, Going DEF ReceiveFullAgain, ClientStep, TypeOK
<1>5. ASSUME NoAnswer(r) PROVE ClientStep(A)
    <2>1. drain' \in DrainRow /\ drain'.pc \in {"idle", "load"}
        BY <1>5, <1>d, Going DEF NoAnswer
    <2>2. faults' \in 0..MaxFaults
        BY <1>5, FaultType DEF NoAnswer
    <2>3. (request[r].pc = "lost" /\ Closes(r)) \/ request' = request
        BY <1>5, <1>c DEF NoAnswer
    <2> QED BY <1>5, <1>b, <2>1, <2>2, <2>3 DEF NoAnswer, ClientStep, TypeOK
<1>6. ASSUME BadAnswer(r) PROVE ClientStep(A)
    <2>1. drain' \in DrainRow /\ drain'.pc \in {"idle", "load"}
        BY <1>6, Going DEF BadAnswer
    <2>2. faults' \in 0..MaxFaults
        BY <1>6, FaultType DEF BadAnswer
    <2> QED BY <1>6, <1>b, <1>c, <2>1, <2>2 DEF BadAnswer, ClientStep, TypeOK
<1> QED BY <1>1, <1>2, <1>3, <1>4, <1>5, <1>6

LEMMA DieStep ==
    ASSUME IInv, Die PROVE IInv'
<1> DEFINE from == IF drain.pc = "wait" /\ request[drain.via].pc = "ok"
                   THEN request[drain.via].accepted ELSE {}
<1>1. PICK done \in SUBSET from : entry' = Delivered(done)
    BY DEF Die
<1>2. \A e \in Events : e \in done => Settled(e)
    BY <1>1 DEF IInv, Formed, AcceptedIsSettled
<1>3. Rewritten(entry', entry, done)
    BY <1>1, DeliveredRows DEF IInv
<1>4. ClientStep(done)
    BY <1>3, Going, FaultType DEF Die, ClientStep, IInv, TypeOK
<1> QED BY <1>2, <1>4, ClientInv

LEMMA EnqueueStep ==
    ASSUME IInv, NEW kind \in Kinds, Enqueue(kind[1], kind[2], kind[3]) PROVE IInv'
<1> USE DEF IInv
<1> DEFINE n == kind[1]
           lost == Pruned(Queued \cup {n})
<1>1. n \in Events /\ kind[2] \in Routes /\ kind[3] \in Fates
    BY KindAssumption
<1>2. \A d \in Events :
         entry'[d] = IF d \in lost THEN [entry[d] EXCEPT !.state = "pruned"]
                     ELSE IF d = n THEN [state |-> "queued", attempts |-> 0,
                                         route |-> kind[2], fate |-> kind[3]]
                     ELSE entry[d]
    BY DEF Enqueue
<1>d. \A d \in Events :
         \/ entry'[d] = [entry[d] EXCEPT !.state = "pruned"]
         \/ d = n /\ entry'[d] = [state |-> "queued", attempts |-> 0,
                                 route |-> kind[2], fate |-> kind[3]]
         \/ entry'[d] = entry[d]
    BY <1>2
<1>e. \A d \in Events :
         /\ entry'[d] \in EntryRow
         /\ d # n => entry'[d].fate = entry[d].fate
         /\ entry'[d].state = "absent" => entry'[d].fate = entry[d].fate /\ entry[d].state = "absent"
         /\ entry'[d].state = "delivered" => entry[d].state = "delivered"
    <2> HIDE DEF n
    <2> TAKE d \in Events
    <2>0. entry[d] \in EntryRow
        BY DEF TypeOK
    <2>1. CASE entry'[d] = [entry[d] EXCEPT !.state = "pruned"]
        BY <2>0, <2>1 DEF EntryRow
    <2>2. CASE d = n /\ entry'[d] = [state |-> "queued", attempts |-> 0,
                                    route |-> kind[2], fate |-> kind[3]]
        BY <1>1, <2>2, LimitAssumption DEF EntryRow
    <2>3. CASE entry'[d] = entry[d]
        BY <2>0, <2>3
    <2> QED BY <1>d, <2>1, <2>2, <2>3
<1>3. entry' \in [Events -> EntryRow]
    <2>1. entry' = [d \in Events |-> entry'[d]]
        BY DEF Enqueue
    <2> QED BY <1>e, <2>1
<1>5. entry[n].state = "absent"
    BY DEF Enqueue
<1>s. /\ key' = key /\ observations' = observations /\ effects' = effects
      /\ cuts' = cuts /\ request' = request /\ drain' = drain
    BY DEF Enqueue, store
<1> HIDE DEF lost, n
<1>6. \A e \in Events : Settled(e) => Settled(e)'
    BY <1>1, <1>e, <1>5, <1>s DEF Settled, Formed
<1>7. TypeOK'
    BY <1>3, <1>s DEF Enqueue, TypeOK
<1>8. Formed' /\ InHand' /\ OneObservation' /\ Accounted'
    BY <1>e, <1>s DEF Formed, InHand, Holds, OneObservation, Accounted, Ran
<1>9. AcceptedIsSettled' /\ DeliveredIsSettled'
    BY <1>e, <1>6, <1>s DEF AcceptedIsSettled, DeliveredIsSettled
<1> QED BY <1>7, <1>8, <1>9

-----------------------------------------------------------------------------
(* The server *)

\* CutBy, where no more than one handler stops.
CutOne(r) ==
    /\ cuts' \in [Events -> Nat]
    /\ \A e \in Events : cuts'[e] = IF Holds(r, e) THEN cuts[e] + 1 ELSE cuts[e]

LEMMA CutFacts ==
    ASSUME TypeOK, NEW r \in Requests
    PROVE  /\ CutBy({r}) => CutOne(r)
           /\ cuts' = cuts /\ request[r].pc \notin {"claimed", "ran"} => CutOne(r)
<1>1. ASSUME CutBy({r}) PROVE CutOne(r)
    BY <1>1 DEF CutBy, CutOne, TypeOK
<1>2. ASSUME cuts' = cuts, request[r].pc \notin {"claimed", "ran"} PROVE CutOne(r)
    BY <1>2 DEF CutOne, Holds, TypeOK
<1> QED BY <1>1, <1>2

\* A handler lets go of the item in hand, or had none: nothing is recorded, and
\* what it had run is a cut.
Releases(r, row) ==
    /\ request' = [request EXCEPT ![r] = row]
    /\ row \in RequestRow
    /\ row.pc \notin {"claimed", "ran"}
    /\ \A e \in row.accepted : e \in request[r].accepted \/ Settled(e)
    /\ CutOne(r)
    /\ blamed' = blamed
    /\ faults' \in 0..MaxFaults
    /\ UNCHANGED <<client, store>>

LEMMA ReleaseInv ==
    ASSUME IInv, NEW r \in Requests, NEW row, Releases(r, row) PROVE IInv'
<1> USE DEF IInv
<1>s. /\ key' = key /\ observations' = observations /\ effects' = effects
      /\ entry' = entry /\ drain' = drain
    BY DEF Releases, client, store
<1>1. TypeOK'
    BY <1>s DEF TypeOK, Releases, CutOne
<1>2. /\ request'[r] = row
      /\ \A q \in Requests : q # r => request'[q] = request[q]
    BY DEF Releases, TypeOK
<1>3. \A q \in Requests, e \in Events : Holds(q, e)' <=> q # r /\ Holds(q, e)
    BY <1>2 DEF Holds, IsFirst, Releases
<1>4. Formed' /\ InHand' /\ OneObservation' /\ DeliveredIsSettled'
    BY <1>2, <1>3, <1>s DEF Formed, InHand, OneObservation, DeliveredIsSettled, Settled
<1>5. AcceptedIsSettled'
    <2>1. \A e \in Events : Settled(e)' <=> Settled(e)
        BY <1>s DEF Settled
    <2> QED BY <1>2, <2>1 DEF AcceptedIsSettled, Releases
<1>6. Accounted'
    <2> SUFFICES ASSUME NEW e \in Events
                 PROVE  /\ effects[e] <= cuts'[e] + 1
                        /\ key[e] # "complete" /\ ~Ran(e)' => effects[e] <= cuts'[e]
        BY <1>s DEF Accounted
    <2>1. effects[e] \in Nat /\ cuts[e] \in Nat
        BY DEF TypeOK
    <2>2. CASE Holds(r, e)
        BY <2>1, <2>2 DEF Accounted, Releases, CutOne
    <2>3. CASE ~Holds(r, e)
        <3>1. Ran(e) => Ran(e)'
            BY <1>2, <1>3, <2>3 DEF Ran
        <3> QED BY <2>1, <2>3, <3>1 DEF Accounted, Releases, CutOne
    <2> QED BY <2>2, <2>3
<1> QED BY <1>1, <1>4, <1>5, <1>6

\* The row of a batch whose item e is accepted
AcceptedRow(r, e) ==
    [request[r] EXCEPT !.pc = "item", !.rest = @ \ {e}, !.accepted = @ \cup {e}]

LEMMA AcceptFacts ==
    ASSUME TypeOK, NEW r \in Requests, NEW e \in Events, Accept(r, e)
    PROVE  /\ request' = [request EXCEPT ![r] = AcceptedRow(r, e)]
           /\ AcceptedRow(r, e) \in RequestRow
           /\ AcceptedRow(r, e).pc = "item"
           /\ AcceptedRow(r, e).accepted = request[r].accepted \cup {e}
<1>1. request[r] \in RequestRow
    BY DEF TypeOK
<1>2. request' = [request EXCEPT ![r] = AcceptedRow(r, e)]
    BY DEF Accept, AcceptedRow
<1> QED BY <1>1, <1>2 DEF AcceptedRow, RequestRow

LEMMA ReleaseSteps ==
    ASSUME IInv, NEW r \in Requests, NEW e \in Events,
           \/ Discard(r, e) \/ Saturate(r, e) \/ Limit(r, e) \/ Fail(r, e)
           \/ Answer(r) \/ Abandon(r)
    PROVE  IInv'
<1> USE DEF IInv
<1>r. request[r] \in RequestRow
    BY DEF TypeOK
<1>f. faults \in 0..MaxFaults
    BY DEF TypeOK
<1>1. ASSUME Discard(r, e) PROVE IInv'
    <2>1. Settled(e) /\ request[r].pc = "item"
        BY <1>1 DEF Discard, Settled, AtItem
    <2>2. Accept(r, e)
        BY <1>1 DEF Discard
    <2>3. Releases(r, AcceptedRow(r, e))
        <3>1. CutOne(r)
            BY <1>1, <2>1, CutFacts DEF Discard
        <3> QED BY <1>1, <1>f, <2>1, <2>2, <3>1, AcceptFacts DEF Discard, Releases
    <2> QED BY <2>3, ReleaseInv
<1>2. ASSUME Saturate(r, e) PROVE IInv'
    <2> DEFINE row == [request[r] EXCEPT !.pc = "full"]
    <2>1. request' = [request EXCEPT ![r] = row] /\ request[r].pc = "item"
        BY <1>2 DEF Saturate, AtItem
    <2>2. row \in RequestRow /\ row.pc = "full" /\ row.accepted = request[r].accepted
        BY <1>r DEF RequestRow
    <2>3. faults' \in 0..MaxFaults
        BY <1>2, FaultType DEF Saturate
    <2> HIDE DEF row
    <2>4. Releases(r, row)
        BY <1>2, <2>1, <2>2, <2>3, CutFacts DEF Saturate, Releases
    <2> QED BY <2>4, ReleaseInv
<1>3. ASSUME Limit(r, e) PROVE IInv'
    <2> DEFINE row == [request[r] EXCEPT !.rest = @ \ {e}]
    <2>1. request' = [request EXCEPT ![r] = row] /\ request[r].pc = "item"
        BY <1>3 DEF Limit, AtItem
    <2>2. row \in RequestRow /\ row.pc = "item" /\ row.accepted = request[r].accepted
        BY <1>r, <2>1 DEF RequestRow
    <2>3. faults' \in 0..MaxFaults
        BY <1>3, FaultType DEF Limit
    <2> HIDE DEF row
    <2>4. Releases(r, row)
        BY <1>3, <2>1, <2>2, <2>3, CutFacts DEF Limit, Releases
    <2> QED BY <2>4, ReleaseInv
<1>4. ASSUME Fail(r, e) PROVE IInv'
    <2> DEFINE row == [request[r] EXCEPT !.pc = "ok", !.failed = e]
    <2>1. request' = [request EXCEPT ![r] = row]
        BY <1>4 DEF Fail
    <2>2. row \in RequestRow /\ row.pc = "ok" /\ row.accepted = request[r].accepted
        BY <1>r DEF RequestRow
    <2>3. faults' \in 0..MaxFaults
        BY <1>4, FaultType DEF Fail
    <2> HIDE DEF row
    <2>4. Releases(r, row)
        BY <1>4, <2>1, <2>2, <2>3, CutFacts DEF Fail, Releases
    <2> QED BY <2>4, ReleaseInv
<1>5. ASSUME Answer(r) PROVE IInv'
    <2> DEFINE row == [request[r] EXCEPT !.pc = "ok"]
    <2>1. request' = [request EXCEPT ![r] = row] /\ request[r].pc = "item"
        BY <1>5 DEF Answer
    <2>2. row \in RequestRow /\ row.pc = "ok" /\ row.accepted = request[r].accepted
        BY <1>r DEF RequestRow
    <2> HIDE DEF row
    <2>4. Releases(r, row)
        BY <1>5, <1>f, <2>1, <2>2, CutFacts DEF Answer, Releases
    <2> QED BY <2>4, ReleaseInv
<1>6. ASSUME Abandon(r) PROVE IInv'
    <2>1. NoRequest \in RequestRow /\ NoRequest.pc = "free" /\ NoRequest.accepted = {}
        BY DEF NoRequest, RequestRow
    <2>2. Releases(r, NoRequest)
        BY <1>6, <1>f, <2>1, CutFacts DEF Abandon, Closed, Releases
    <2> QED BY <2>2, ReleaseInv
<1> QED BY <1>1, <1>2, <1>3, <1>4, <1>5, <1>6

LEMMA AdmitStep ==
    ASSUME IInv, NEW r \in Requests, NEW e \in Events, Admit(r, e) PROVE IInv'
<1> USE DEF IInv
<1>i. request[r].pc = "item" /\ IsFirst(e, request[r].rest)
    BY DEF Admit, AtItem
<1>1. CASE AlreadyComplete(e)
    <2>1. Accept(r, e) /\ UNCHANGED <<client, store, cuts, blamed, faults>>
        BY <1>1 DEF Admit, store
    <2>2. Settled(e)
        BY <1>1 DEF AlreadyComplete, Settled, Accounted
    <2>3. Releases(r, AcceptedRow(r, e))
        <3>1. faults' \in 0..MaxFaults
            BY <2>1 DEF TypeOK
        <3>2. CutOne(r)
            BY <1>i, <2>1, CutFacts
        <3> QED BY <2>1, <2>2, <3>1, <3>2, AcceptFacts DEF Releases
    <2> QED BY <2>3, ReleaseInv
<1>2. CASE ~AlreadyComplete(e)
    <2> DEFINE row == [request[r] EXCEPT !.pc = "claimed"]
    <2>s. /\ request' = [request EXCEPT ![r] = row]
          /\ key' = [key EXCEPT ![e] = "claimed"]
          /\ observations' = [observations EXCEPT ![e] = IF Record(e) THEN @ + 1 ELSE @]
          /\ effects' = effects /\ cuts' = cuts /\ blamed' = blamed /\ faults' = faults
          /\ entry' = entry /\ drain' = drain
        BY <1>2 DEF Admit, client
    <2>r. /\ row \in RequestRow /\ row.pc = "claimed"
          /\ row.rest = request[r].rest /\ row.accepted = request[r].accepted
        BY DEF TypeOK, RequestRow
    <2> HIDE DEF row
    <2>q. /\ request'[r] = row
          /\ \A q \in Requests : q # r => request'[q] = request[q]
        BY <2>s DEF TypeOK
    <2>h. \A q \in Requests, d \in Events :
             Holds(q, d)' <=> Holds(q, d) \/ (q = r /\ d = e)
        <3>1. \A d \in Events : IsFirst(d, request[r].rest) => d = e
            BY <1>i, BoundAssumption DEF IsFirst, Events
        <3> QED BY <1>i, <2>q, <2>r, <3>1 DEF Holds, IsFirst
    <2>f. \A q \in Requests : ~Holds(q, e)
        BY DEF Admit, GateFree
    <2>k. /\ key[e] # "complete" /\ key'[e] = "claimed"
          /\ \A d \in Events : d # e => key'[d] = key[d] /\ observations'[d] = observations[d]
        BY <1>2, <2>s DEF AlreadyComplete, TypeOK
    <2>1. TypeOK'
        <3>1. observations' \in [Events -> Nat]
            BY <2>s DEF TypeOK
        <3> QED BY <2>s, <2>r, <3>1 DEF TypeOK
    <2>2. Formed' /\ DeliveredIsSettled'
        BY <2>k, <2>s DEF Formed, DeliveredIsSettled, Settled
    <2>3. InHand'
        BY <2>f, <2>h, <2>k, <2>q, <2>r, <2>s DEF InHand
    <2>4. OneObservation'
        <3>1. observations'[e] = 1
            BY <2>k, <2>s DEF OneObservation, Record, TypeOK
        <3> QED BY <2>k, <3>1 DEF OneObservation
    <2>5. Accounted'
        <3>1. \A d \in Events : Ran(d)' <=> Ran(d)
            BY <1>i, <2>h, <2>q, <2>r DEF Ran
        <3> QED BY <2>k, <2>s, <3>1 DEF Accounted
    <2>6. AcceptedIsSettled'
        BY <2>k, <2>q, <2>r, <2>s DEF AcceptedIsSettled, Settled
    <2> QED BY <2>1, <2>2, <2>3, <2>4, <2>5, <2>6
<1> QED BY <1>1, <1>2

LEMMA RunStep ==
    ASSUME IInv, NEW r \in Requests, NEW e \in Events, Run(r, e) PROVE IInv'
<1> USE DEF IInv
<1> DEFINE row == [request[r] EXCEPT !.pc = "ran"]
<1>s. /\ request' = [request EXCEPT ![r] = row]
      /\ effects' = [effects EXCEPT ![e] = @ + 1]
      /\ key' = key /\ observations' = observations /\ cuts' = cuts
      /\ blamed' = blamed /\ faults' = faults /\ entry' = entry /\ drain' = drain
    BY DEF Run, client
<1>r. /\ row \in RequestRow /\ row.pc = "ran"
      /\ row.rest = request[r].rest /\ row.accepted = request[r].accepted
    BY DEF TypeOK, RequestRow
<1> HIDE DEF row
<1>q. /\ request'[r] = row
      /\ \A q \in Requests : q # r => request'[q] = request[q]
    BY <1>s DEF TypeOK
<1>i. request[r].pc = "claimed" /\ Holds(r, e)
    BY DEF Run
<1>h. \A q \in Requests, d \in Events : Holds(q, d)' <=> Holds(q, d)
    BY <1>i, <1>q, <1>r DEF Holds, IsFirst
<1>e. /\ effects'[e] = effects[e] + 1 /\ effects[e] \in Nat /\ cuts[e] \in Nat
      /\ \A d \in Events : d # e => effects'[d] = effects[d]
    BY <1>s DEF TypeOK
<1>1. TypeOK'
    <2>1. effects' \in [Events -> Nat]
        BY <1>s DEF TypeOK
    <2> QED BY <1>s, <1>r, <2>1 DEF TypeOK
<1>g. \A d \in Events : effects[d] > 0 => effects'[d] > 0
    BY <1>e DEF TypeOK
<1>t. \A d \in Events : Settled(d) => Settled(d)'
    BY <1>g, <1>s DEF Settled
<1>2. Formed' /\ DeliveredIsSettled' /\ OneObservation'
    BY <1>s, <1>t DEF Formed, DeliveredIsSettled, OneObservation
<1>3. InHand'
    <2>1. \A d \in Events : Holds(r, d) => d = e
        BY <1>i, BoundAssumption DEF Holds, IsFirst, Events
    <2> QED BY <1>e, <1>g, <1>h, <1>q, <1>r, <1>s, <2>1 DEF InHand
<1>4. Accounted'
    <2>1. ~Ran(e) /\ key[e] = "claimed"
        BY <1>i DEF InHand, Ran
    <2>2. effects[e] <= cuts[e]
        BY <2>1 DEF Accounted
    <2>3. Ran(e)'
        BY <1>h, <1>i, <1>q, <1>r DEF Ran
    <2>4. \A d \in Events : Ran(d) => Ran(d)'
        BY <1>h, <1>i, <1>q DEF Ran
    <2> QED BY <1>e, <1>g, <1>s, <2>1, <2>2, <2>3, <2>4 DEF Accounted
<1>5. AcceptedIsSettled'
    BY <1>q, <1>r, <1>t DEF AcceptedIsSettled
<1> QED BY <1>1, <1>2, <1>3, <1>4, <1>5

LEMMA CompleteStep ==
    ASSUME IInv, NEW r \in Requests, NEW e \in Events, Complete(r, e) PROVE IInv'
<1> USE DEF IInv
<1> DEFINE row == AcceptedRow(r, e)
<1>i. request[r].pc = "ran" /\ Holds(r, e)
    BY DEF Complete
<1>a. Accept(r, e)
    BY DEF Complete
<1>s. /\ request' = [request EXCEPT ![r] = row]
      /\ key' = [key EXCEPT ![e] = "complete"]
      /\ effects' = effects /\ observations' = observations /\ cuts' = cuts
      /\ blamed' = blamed /\ faults' = faults /\ entry' = entry /\ drain' = drain
    BY <1>a, AcceptFacts DEF Complete, client
<1>r. row \in RequestRow /\ row.pc = "item" /\ row.accepted = request[r].accepted \cup {e}
    BY <1>a, AcceptFacts
<1> HIDE DEF row
<1>q. /\ request'[r] = row
      /\ \A q \in Requests : q # r => request'[q] = request[q]
    BY <1>s DEF TypeOK
<1>h. \A q \in Requests, d \in Events : Holds(q, d)' <=> q # r /\ Holds(q, d)
    BY <1>q, <1>r DEF Holds, IsFirst
<1>e. key[e] = "claimed" /\ effects[e] > 0
    BY <1>i DEF InHand
<1>k. key'[e] = "complete" /\ \A d \in Events : d # e => key'[d] = key[d]
    BY <1>s DEF TypeOK
<1>t. Settled(e)' /\ \A d \in Events : Settled(d) => Settled(d)'
    BY <1>e, <1>k, <1>s DEF Settled
<1>1. TypeOK'
    BY <1>s, <1>r DEF TypeOK
<1>2. Formed' /\ DeliveredIsSettled' /\ OneObservation'
    BY <1>e, <1>k, <1>s, <1>t DEF Formed, DeliveredIsSettled, OneObservation
<1>3. InHand'
    <2>1. \A q \in Requests : q # r => ~Holds(q, e)
        BY <1>i DEF InHand
    <2> QED BY <1>h, <1>k, <1>q, <1>s, <2>1 DEF InHand
<1>4. Accounted'
    <2>1. \A d \in Events : d # e => (Ran(d) => Ran(d)')
        <3>1. \A d \in Events : Holds(r, d) => d = e
            BY <1>i, BoundAssumption DEF Holds, IsFirst, Events
        <3> QED BY <1>h, <1>q, <3>1 DEF Ran
    <2> QED BY <1>e, <1>k, <1>s, <2>1 DEF Accounted
<1>5. AcceptedIsSettled'
    BY <1>q, <1>r, <1>t DEF AcceptedIsSettled
<1> QED BY <1>1, <1>2, <1>3, <1>4, <1>5

LEMMA RestartStep ==
    ASSUME IInv, Restart PROVE IInv'
<1> USE DEF IInv
<1>s. /\ key' = key /\ observations' = observations /\ effects' = effects
      /\ blamed' = blamed /\ entry' = entry /\ drain' = drain
    BY DEF Restart, client, store
<1>r. request' \in [Requests -> RequestRow]
      /\ \A r \in Requests : request'[r].pc \in {"lost", "free"} /\ request'[r].accepted = {}
    <2> DEFINE gone == [NoRequest EXCEPT !.pc = "lost"]
    <2>1. NoRequest \in RequestRow /\ NoRequest.pc = "free" /\ NoRequest.accepted = {}
        BY DEF NoRequest, RequestRow
    <2>2. gone \in RequestRow /\ gone.pc = "lost" /\ gone.accepted = {}
        BY <2>1 DEF RequestRow
    <2>3. request' = [r \in Requests |-> IF drain.via = r THEN gone ELSE NoRequest]
        BY DEF Restart
    <2> HIDE DEF gone
    <2> QED BY <2>1, <2>2, <2>3
<1>h. \A r \in Requests, e \in Events : ~Holds(r, e)'
    BY <1>r DEF Holds
<1>c. /\ cuts' \in [Events -> Nat]
      /\ \A e \in Events : /\ cuts'[e] >= cuts[e]
                           /\ Ran(e) => cuts'[e] = cuts[e] + 1
    BY DEF Restart, CutBy, TypeOK, Ran
<1>1. TypeOK'
    <2>1. faults' \in 0..MaxFaults
        BY FaultType DEF Restart
    <2> QED BY <1>s, <1>r, <1>c, <2>1 DEF TypeOK
<1>2. Formed' /\ DeliveredIsSettled' /\ OneObservation'
    BY <1>s DEF Formed, DeliveredIsSettled, OneObservation, Settled
<1>3. InHand' /\ AcceptedIsSettled'
    BY <1>h, <1>r DEF InHand, AcceptedIsSettled
<1>4. Accounted'
    BY <1>c, <1>s DEF Accounted, TypeOK
<1> QED BY <1>1, <1>2, <1>3, <1>4

-----------------------------------------------------------------------------
(* Results *)

LEMMA NextInv == IInv /\ [Next]_vars => IInv'
<1> SUFFICES ASSUME IInv, [Next]_vars PROVE IInv'
    OBVIOUS
<1>1. ASSUME NEW kind \in Kinds, Enqueue(kind[1], kind[2], kind[3]) PROVE IInv'
    BY <1>1, EnqueueStep
<1>2. ASSUME \/ StartDrain
             \/ \E e \in Events : Skip(e) \/ DropStale(e) \/ ChargeMalformed(e) \/ Take(e)
             \/ PostToNobody \/ PostDenied \/ EndPass
             \/ \E r \in Requests : Post(r)
      PROVE  IInv'
    BY <1>2, PassSteps, ClientInv
<1>3. ASSUME NEW r \in Requests,
             \/ ReceiveOk(r) \/ ReceiveOkAgain(r) \/ ReceiveFull(r)
             \/ ReceiveFullAgain(r) \/ NoAnswer(r) \/ BadAnswer(r)
      PROVE  IInv'
    <2>1. \A e \in Events : e \in request[r].accepted => Settled(e)
        BY DEF IInv, AcceptedIsSettled
    <2> QED BY <1>3, <2>1, AnswerSteps, ClientInv
<1>4. CASE Die
    BY <1>4, DieStep
<1>5. ASSUME NEW r \in Requests, NEW e \in Events,
             Discard(r, e) \/ Saturate(r, e) \/ Limit(r, e) \/ Fail(r, e)
      PROVE  IInv'
    BY <1>5, ReleaseSteps
<1>6. ASSUME NEW r \in Requests, Answer(r) \/ Abandon(r) PROVE IInv'
    <2>1. CASE Events = {}
        <3>1. \/ request' = [request EXCEPT ![r] = [request[r] EXCEPT !.pc = "ok"]]
              \/ request' = [request EXCEPT ![r] = NoRequest]
            BY <1>6 DEF Answer, Abandon, Closed
        <3>2. request' \in [Requests -> RequestRow]
            BY <3>1 DEF IInv, TypeOK, RequestRow, NoRequest
        <3>3. cuts' = cuts
            BY <1>6, <2>1 DEF Answer, Abandon, CutBy, IInv, TypeOK
        <3> QED BY <1>6, <2>1, <3>2, <3>3
                DEF Answer, Abandon, client, store, IInv, TypeOK, Formed, InHand, OneObservation,
                    Accounted, AcceptedIsSettled, DeliveredIsSettled
    <2>2. CASE Events # {}
        BY <1>6, <2>2, ReleaseSteps
    <2> QED BY <2>1, <2>2
<1>7. ASSUME NEW r \in Requests, NEW e \in Events,
             Admit(r, e) \/ Run(r, e) \/ Complete(r, e)
      PROVE  IInv'
    BY <1>7, AdmitStep, RunStep, CompleteStep
<1>8. CASE Restart
    BY <1>8, RestartStep
<1>9. CASE UNCHANGED vars
    BY <1>9 DEF vars, IInv, TypeOK, Formed, InHand, Holds, IsFirst, OneObservation, Accounted,
                Ran, AcceptedIsSettled, DeliveredIsSettled, Settled
<1> QED
    BY <1>1, <1>2, <1>3, <1>4, <1>5, <1>6, <1>7, <1>8, <1>9 DEF Next, Pass, Handle

LEMMA Inductive == Spec => []IInv
<1>1. Init => IInv
    BY InitInv
<1>2. IInv /\ [Next]_vars => IInv'
    BY NextInv
<1> QED BY <1>1, <1>2, PTL DEF Spec

\* The spool, the drain, the batches and the store keep their form: no attempt
\* is counted beyond MAX_ATTEMPTS (hook_spool.rs).
THEOREM TypeInvariant == Spec => []TypeOK
<1>1. IInv => TypeOK
    BY DEF IInv
<1> QED BY <1>1, Inductive, PTL

\* An event has one observation once its key is claimed, and none before
\* (admit_hook_session_event).
THEOREM RecordedOnce == Spec => []OneObservation
<1>1. IInv => OneObservation
    BY DEF IInv
<1> QED BY <1>1, Inductive, PTL

\* A spool file is removed as delivered only when its event is settled in the
\* server (drain_with_live_token, handle_hook_batch).
THEOREM NoEventLost == Spec => []DeliveredIsSettled
<1>1. IInv => DeliveredIsSettled
    BY DEF IInv
<1> QED BY <1>1, Inductive, PTL

\* The effects of an event run again only after a handling that was stopped
\* half way (IngestGates, complete_observation_ingest).
THEOREM NoIdleRepeat == Spec => []RepeatsExplained
<1>1. IInv => RepeatsExplained
    BY DEF IInv, Accounted, RepeatsExplained
<1> QED BY <1>1, Inductive, PTL

\* No handler runs the effects of an event whose key is complete
\* (process_authorized).
THEOREM NothingAfterComplete == Spec => CompleteIsFinal
<1>1. IInv /\ [Next]_vars =>
          [\A e \in Events : key[e] = "complete" => effects'[e] = effects[e]]_vars
    <2> SUFFICES ASSUME IInv, Next, NEW e \in Events, key[e] = "complete"
                 PROVE  effects'[e] = effects[e]
        OBVIOUS
    <2>1. ASSUME NEW r \in Requests, NEW d \in Events, Run(r, d) PROVE effects'[e] = effects[e]
        <3>1. d # e
            BY <2>1 DEF Run, IInv, InHand
        <3> QED BY <2>1, <3>1 DEF Run, IInv, TypeOK
    <2>2. CASE ~\E r \in Requests, d \in Events : Run(r, d)
        BY <2>2 DEF Next, Pass, Handle, Enqueue, StartDrain, Skip, DropStale, ChargeMalformed, Take,
              Post, PostToNobody, PostDenied, EndPass, ReceiveOk, ReceiveOkAgain, ReceiveFull,
              ReceiveFullAgain, NoAnswer, BadAnswer, Die, Discard, Saturate, Limit, Admit,
              Complete, Fail, Answer, Abandon, Restart, store
    <2> QED BY <2>1, <2>2
<1> QED BY <1>1, Inductive, PTL DEF Spec, CompleteIsFinal
=============================================================================
