--------------------------- MODULE HandoffSafety ---------------------------
(***************************************************************************)
(* The safety properties of Handoff and its refinement of Baton.  Every    *)
(* step is first reduced to one of five effects on batons and sessions;    *)
(* each invariant is then preserved by the five.                           *)
(***************************************************************************)
EXTENDS HandoffProofs

SessionsGrow ==
    \A s \in Sessions : /\ session[s].ended => session'[s].ended
                        /\ session[s].work => session'[s].work

\* A session that ends in this step has done work.
EndsWorked ==
    \A s \in Sessions : session'[s].ended => session[s].ended \/ session'[s].work

\* At most one session ends in this step.
EndsOne ==
    \A x, y \in Sessions :
        session'[x].ended # session[x].ended /\ session'[y].ended # session[y].ended => x = y

ExpiredRow(row) == [row EXCEPT !.state = "expired"]

Quiet == UNCHANGED <<baton, readers, discarded>> /\ SessionsGrow /\ EndsWorked /\ EndsOne

Taking(r) ==
    LET h == request[r].baton
        x == request[r].for
    IN
    /\ h \in Batons /\ x \in Receivers
    /\ baton[h].state = "open"
    /\ baton'[h] = [baton[h] EXCEPT !.state = "accepted", !.by = x, !.user = request[r].by]
    /\ x \in Sessions => Holding(x) = {} /\ ~session[x].ended
    /\ x \in Sessions => baton[h].owner \in {Shared, request[r].by}
    /\ \A g \in Batons \ {h} :
          \/ baton'[g] = baton[g]
          \/ /\ g \in OpenAutos /\ g < h /\ baton[h].auto /\ baton[g].owner = baton[h].owner
             /\ baton'[g] = ExpiredRow(baton[g])
    /\ readers' = [readers EXCEPT ![h] = @ \cup {x}]
    /\ \A s \in Sessions : session'[s].ended = session[s].ended /\ session'[s].work = session[s].work
    /\ UNCHANGED discarded

Returning(s) ==
    /\ ~session[s].work /\ session'[s].ended
    /\ \A x \in Sessions : session'[x].work = session[x].work
    /\ \A x \in Sessions \ {s} : session'[x].ended = session[x].ended
    /\ \A h \in Batons :
          baton'[h] = IF h \in Holding(s)
                      THEN [baton[h] EXCEPT !.state = "open", !.by = None, !.user = Shared]
                      ELSE baton[h]
    /\ UNCHANGED <<readers, discarded>>

Posting(h) ==
    /\ Unused(h)
    /\ baton'[h].state = "open" /\ baton'[h].by = None
    /\ \A g \in Batons \ {h} :
          \/ /\ baton'[g] = baton[g]
             /\ ~ (/\ baton'[h].auto /\ g \in OpenAutos
                   /\ baton[g].dir = baton'[h].dir /\ baton[g].owner = baton'[h].owner)
          \/ /\ baton'[h].auto /\ g \in OpenAutos /\ baton[g].owner = baton'[h].owner
             /\ baton'[g] = ExpiredRow(baton[g])
    /\ SessionsGrow /\ EndsWorked /\ EndsOne
    /\ UNCHANGED <<readers, discarded>>

Discarding ==
    /\ \A h \in Batons :
          \/ baton'[h] = baton[h]
          \/ baton[h].state = "open" /\ baton'[h] = ExpiredRow(baton[h]) /\ h \in discarded'
    /\ discarded \subseteq discarded'
    /\ \A h \in discarded' \ discarded : baton[h].state = "open"
    /\ UNCHANGED <<session, readers>>

Effects ==
    \/ Quiet
    \/ \E r \in Requests : Taking(r)
    \/ \E s \in Sessions : Returning(s)
    \/ \E h \in Batons : Posting(h)
    \/ Discarding

LEMMA StepEffects == Typed /\ [RestartNext]_vars => Effects
<1> SUFFICES ASSUME Typed, [RestartNext]_vars PROVE Effects
    OBVIOUS
<1> USE DEF Typed
<1>0. \A s \in Sessions : session[s] \in SessionRow
    BY DEF TypeOK
<1>q. ASSUME UNCHANGED <<baton, session, readers, discarded>> PROVE Effects
    BY <1>q DEF Effects, Quiet, SessionsGrow, EndsWorked, EndsOne
<1>a. ASSUME NEW c \in Calls, NEW working \in BOOLEAN, c[2] # Agent, Observe(c[2], c[3], working)
      PROVE  Effects
    <2>1. c[2] \in Sessions
        BY <1>a, CallAssumption DEF Receivers
    <2> DEFINE row == ObservedRow(session[c[2]], c[3], working)
    <2>2. row.ended = session[c[2]].ended /\ (session[c[2]].work => row.work)
        BY DEF ObservedRow
    <2>3. session' = [session EXCEPT ![c[2]] = row]
        BY <1>a DEF Observe
    <2>4. SessionsGrow /\ EndsWorked /\ EndsOne
        BY <1>0, <2>1, <2>2, <2>3 DEF SessionsGrow, EndsWorked, EndsOne, TypeOK
    <2> QED BY <1>a, <2>4 DEF Observe, Effects, Quiet
<1>b. ASSUME NEW c \in Calls, NEW any \in BOOLEAN, StartFetch(c[1], c[2], c[3], any, c[4])
      PROVE  Effects
    BY <1>b, <1>q DEF StartFetch
<1>c. ASSUME NEW r \in Requests, StartRefused(r) \/ Abandon(r) PROVE Effects
    BY <1>c, <1>q DEF StartRefused, Abandon
<1>d. ASSUME NEW r \in Requests, StartClaim(r) PROVE Effects
    <2> DEFINE h == request[r].baton
               x == request[r].for
    <2>0. request[r] \in RequestRow /\ x \in Receivers
        BY DEF TypeOK, RequestRow
    <2>1. \A s \in Sessions : /\ Registered(r)[s].ended = session[s].ended
                              /\ Registered(r)[s].work = session[s].work
        BY <1>0 DEF Registered, TypeOK, SessionRow
    <2>2. \A s \in Sessions : session'[s].ended = session[s].ended /\ session'[s].work = session[s].work
        BY <1>d, <2>1 DEF StartClaim
    <2>3. CASE UNCHANGED <<baton, readers>>
        BY <1>d, <2>2, <2>3 DEF StartClaim, Effects, Quiet, SessionsGrow, EndsWorked, EndsOne
    <2>4. CASE /\ ReceiverValid(r) /\ Takes(r)
               /\ baton' = TakenRows(r)
               /\ readers' = [readers EXCEPT ![h] = @ \cup {x}]
        <3>1. h \in Batons /\ baton[h].state = "open" /\ (x \in Sessions => Holding(x) = {})
            BY <2>0, <2>4 DEF Takes, RequestRow
        <3>2. x \in Sessions => ~session[x].ended
            BY <2>4 DEF ReceiverValid, Takes
        <3>3. x \in Sessions => baton[h].owner \in {Shared, request[r].by}
            <4> SUFFICES ASSUME x \in Sessions PROVE baton[h].owner \in {Shared, request[r].by}
                OBVIOUS
            <4>1. ~request[r].any
                BY ReceiverAssumption DEF InFlight
            <4>2. request[r].by # AnyOwner
                BY <2>0, OwnerAssumption DEF RequestRow
            <4> QED BY <2>4, <4>1, <4>2 DEF Takes, Admits
        <3> DEFINE rows == [baton EXCEPT ![h] = [@ EXCEPT !.state = "accepted", !.by = x,
                                                          !.user = request[r].by]]
                   gone == IF baton[h].auto THEN Superseded(h, request[r].dir) ELSE {}
        <3>4. baton' = ExpireRows(rows, gone)
            BY <2>4 DEF TakenRows
        <3>5. \A g \in gone : g \in OpenAutos /\ g < h /\ baton[h].auto /\ baton[g].owner = baton[h].owner
            BY DEF Superseded
        <3>6. /\ rows[h] = [baton[h] EXCEPT !.state = "accepted", !.by = x, !.user = request[r].by]
              /\ \A g \in Batons \ {h} : rows[g] = baton[g]
            BY <3>1 DEF TypeOK
        <3>7. h \notin gone
            BY <3>1, <3>5 DEF Batons
        <3>8. \A g \in Batons : baton'[g] = IF g \in gone THEN ExpiredRow(rows[g]) ELSE rows[g]
            BY <3>4 DEF ExpireRows, ExpiredRow
        <3>9. baton'[h] = [baton[h] EXCEPT !.state = "accepted", !.by = x, !.user = request[r].by]
            BY <3>1, <3>6, <3>7, <3>8
        <3>10. \A g \in Batons \ {h} :
                  \/ baton'[g] = baton[g]
                  \/ /\ g \in OpenAutos /\ g < h /\ baton[h].auto /\ baton[g].owner = baton[h].owner
                     /\ baton'[g] = ExpiredRow(baton[g])
            <4> HIDE DEF rows, gone
            <4> QED BY <3>5, <3>6, <3>8
        <3>11. UNCHANGED discarded
            BY <1>d DEF StartClaim
        <3>12. Taking(r)
            BY <2>0, <2>2, <2>4, <3>1, <3>2, <3>3, <3>9, <3>10, <3>11 DEF Taking
        <3> QED BY <3>12 DEF Effects
    <2> QED BY <1>d, <2>3, <2>4 DEF StartClaim
<1>e. ASSUME NEW s \in Sessions, RunPrepared(s) \/ RunOver(s) \/ EndReplayed(s) PROVE Effects
    BY <1>e, <1>q DEF RunPrepared, RunOver, EndReplayed
<1>g. ASSUME NEW e \in Handlers, NEW c \in Calls, NEW filter \in Filters, c[2] # Agent,
             EndAdmit(e, c[2], filter)
      PROVE  Effects
    <2>1. c[2] \in Sessions
        BY <1>g, CallAssumption DEF Receivers
    <2>2. session' = session \/ session' = [session EXCEPT ![c[2]] = [session[c[2]] EXCEPT !.fresh = TRUE]]
        BY <1>g DEF EndAdmit
    <2>3. /\ [session[c[2]] EXCEPT !.fresh = TRUE].work = session[c[2]].work
          /\ [session[c[2]] EXCEPT !.fresh = TRUE].ended = session[c[2]].ended
        BY <1>0, <2>1 DEF SessionRow
    <2>4. \A x \in Sessions : session'[x].ended = session[x].ended /\ session'[x].work = session[x].work
        BY <2>1, <2>2, <2>3 DEF TypeOK
    <2> QED BY <1>g, <2>4 DEF EndAdmit, Effects, Quiet, SessionsGrow, EndsWorked, EndsOne
<1>h. ASSUME NEW e \in Handlers, EndEmpty(e) PROVE Effects
    <2> DEFINE s == handler[e].session
    <2>1. s \in Sessions
        BY <1>h DEF EndEmpty, InFlight
    <2>2. CASE UNCHANGED <<session, baton>>
        BY <1>h, <1>q, <2>2 DEF EndEmpty
    <2>3. CASE StillEmpty(s) /\ session' = [session EXCEPT ![s] = EndedRow(session[s])]
               /\ baton' = ReopenedRows(s)
        <3>1. ~session[s].work
            BY <2>3 DEF StillEmpty
        <3>2. /\ session'[s].ended /\ session'[s].work = session[s].work
              /\ \A x \in Sessions \ {s} : session'[x] = session[x]
            BY <1>0, <2>1, <2>3, EndedType DEF TypeOK
        <3>3. \A h \in Batons :
                 baton'[h] = IF h \in Holding(s)
                             THEN [baton[h] EXCEPT !.state = "open", !.by = None, !.user = Shared]
                             ELSE baton[h]
            BY <2>3 DEF ReopenedRows
        <3>4. Returning(s)
            BY <1>h, <3>1, <3>2, <3>3 DEF Returning, EndEmpty
        <3> QED BY <2>1, <3>4 DEF Effects
    <2> QED BY <1>h, <2>2, <2>3 DEF EndEmpty
<1>i. ASSUME NEW e \in Handlers, EndWithoutHandoff(e) PROVE Effects
    <2> DEFINE s == handler[e].session
    <2>1. s \in Sessions /\ session[s].work
        BY <1>i DEF EndWithoutHandoff, InFlight
    <2>2. session' = [session EXCEPT ![s] = EndedRow(session[s])]
        BY <1>i DEF EndWithoutHandoff
    <2>3. SessionsGrow /\ EndsWorked /\ EndsOne
        BY <1>0, <2>1, <2>2, EndedType DEF SessionsGrow, EndsWorked, EndsOne, TypeOK
    <2> QED BY <1>i, <2>3 DEF EndWithoutHandoff, Effects, Quiet
<1>j. ASSUME NEW e \in Handlers, EndCut(e) \/ EndCollision(e) PROVE Effects
    BY <1>j, <1>q DEF EndCut, EndCollision
<1>k. ASSUME NEW e \in Handlers, NEW h \in Batons, NEW c \in Calls, EndWithHandoff(e, h, c[4])
      PROVE  Effects
    <2> DEFINE s == handler[e].session
               owner == Stamp(session[s].owner)
               gone == Retired(c[4], owner)
               rows == ExpireRows(baton, gone)
               row == PostedRow(TRUE, c[4], owner)
    <2>1. s \in Sessions /\ session[s].work
        BY <1>k DEF EndWithHandoff, InFlight
    <2>2. session' = [session EXCEPT ![s] = EndedRow(session[s])]
        BY <1>k DEF EndWithHandoff
    <2>3. SessionsGrow /\ EndsWorked /\ EndsOne
        BY <1>0, <2>1, <2>2, EndedType DEF SessionsGrow, EndsWorked, EndsOne, TypeOK
    <2>4. baton' = [rows EXCEPT ![h] = row] /\ UNCHANGED <<readers, discarded>> /\ Unused(h)
        BY <1>k DEF EndWithHandoff
    <2>5. row.state = "open" /\ row.by = None /\ row.auto /\ row.dir = c[4] /\ row.owner = owner
        BY DEF PostedRow, NoBaton
    <2>6. \A g \in Batons : rows[g] = IF g \in gone THEN ExpiredRow(baton[g]) ELSE baton[g]
        BY DEF ExpireRows, ExpiredRow
    <2>7. DOMAIN rows = Batons
        BY DEF ExpireRows
    <2>8. baton'[h] = row /\ \A g \in Batons \ {h} : baton'[g] = rows[g]
        BY <2>4, <2>7
    <2>9. \A g : g \in gone <=> g \in OpenAutos /\ baton[g].dir = c[4] /\ baton[g].owner = owner
        BY DEF Retired
    <2>10. Posting(h)
        <3> HIDE DEF rows, gone, row, owner
        <3> QED BY <2>3, <2>4, <2>5, <2>6, <2>8, <2>9 DEF Posting
    <2> QED BY <2>10 DEF Effects
<1>l. ASSUME NEW h \in Batons, NEW actor \in Authors, Begin(h, actor) PROVE Effects
    <2> DEFINE row == PostedRow(FALSE, NoDir, Stamp(actor))
    <2>1. row.state = "open" /\ row.by = None /\ ~row.auto
        BY DEF PostedRow, NoBaton
    <2>2. baton' = [baton EXCEPT ![h] = row] /\ Unused(h) /\ UNCHANGED <<session, readers, discarded>>
        BY <1>l DEF Begin
    <2>3. baton'[h] = row /\ \A g \in Batons \ {h} : baton'[g] = baton[g]
        BY <2>2 DEF TypeOK
    <2>4. Posting(h)
        <3> HIDE DEF row
        <3> QED BY <2>1, <2>2, <2>3 DEF Posting, SessionsGrow, EndsWorked, EndsOne
    <2> QED BY <2>4 DEF Effects
<1>m. ASSUME NEW gone, gone \subseteq OpenBatons, Discard(gone) PROVE Effects
    <2>1. Discarding
        BY <1>m DEF Discard, Discarding, ExpireRows, ExpiredRow, OpenBatons
    <2> QED BY <2>1 DEF Effects
<1>n. CASE Reconfigure
    BY <1>n, <1>q DEF Reconfigure
<1>o. CASE UNCHANGED vars
    BY <1>o, <1>q DEF vars
<1> QED
    BY <1>a, <1>b, <1>c, <1>d, <1>e, <1>g, <1>h, <1>i, <1>j, <1>k, <1>l, <1>m, <1>n, <1>o
    DEF RestartNext, Next, Visible

-----------------------------------------------------------------------------
(* The invariants *)

\* Batons are created in the order of their numbers.
InOrder ==
    \A g, h \in Batons : g < h /\ baton[h].state # "absent" => baton[g].state # "absent"

\* OneFreshPerDirectory, whatever has become of the newer baton.
OldOnesReturned ==
    \A g, h \in Batons :
        /\ g < h /\ g \in OpenAutos
        /\ baton[h].state # "absent" /\ baton[h].auto
        /\ baton[g].dir = baton[h].dir /\ baton[g].owner = baton[h].owner
        => readers[g] # {}

Reading == OneActiveReader /\ HoldsOne /\ UnusedIsReturned /\ OwnerRespected

\* What is accepted has been given to someone.
AcceptedRead == \A h \in Batons : baton[h].state = "accepted" => readers[h] # {}

DiscardedPosted == \A h \in discarded : baton[h].state # "absent"

Sweeping == InOrder /\ SweptHasSuccessor /\ OldOnesReturned /\ AcceptedRead /\ DiscardedPosted

IInv == Typed /\ Reading /\ Sweeping

LEMMA IInit == Init => IInv
<1> SUFFICES ASSUME Init PROVE IInv
    OBVIOUS
<1>1. Typed
    BY TypedInit
<1>2. \A h \in Batons : baton[h].state = "absent" /\ readers[h] = {}
    BY DEF Init, NoBaton
<1>3. Reading
    BY <1>2, <1>1 DEF Reading, OneActiveReader, HoldsOne, UnusedIsReturned, OwnerRespected, Holding, Init
<1>4. Sweeping
    BY <1>2 DEF Init, Sweeping, InOrder, SweptHasSuccessor, OldOnesReturned, AcceptedRead,
                DiscardedPosted, OpenAutos, OpenBatons
<1> QED BY <1>1, <1>3, <1>4 DEF IInv

LEMMA ReadingStep == Typed /\ Typed' /\ Reading /\ Effects => Reading'
<1> SUFFICES ASSUME Typed, Typed', Reading, Effects PROVE Reading'
    OBVIOUS
<1>0. /\ baton \in [Batons -> BatonRow] /\ baton' \in [Batons -> BatonRow]
      /\ readers \in [Batons -> SUBSET Receivers]
      /\ \A h \in Batons : (baton[h].state = "accepted") <=> (baton[h].by # None)
      /\ \A h \in Batons : (baton'[h].state = "accepted") <=> (baton'[h].by # None)
    BY DEF Typed, TypeOK
<1>1. CASE Quiet
    BY <1>1 DEF Quiet, SessionsGrow, EndsWorked, Reading, OneActiveReader, HoldsOne,
                UnusedIsReturned, OwnerRespected, Holding
<1>2. ASSUME NEW r \in Requests, Taking(r) PROVE Reading'
    <2> DEFINE h == request[r].baton
               x == request[r].for
    <2>1. h \in Batons /\ x \in Receivers /\ baton[h].state = "open"
        BY <1>2 DEF Taking
    <2>2. /\ baton'[h].state = "accepted" /\ baton'[h].by = x /\ baton'[h].user = request[r].by
          /\ baton'[h].owner = baton[h].owner
        BY <1>0, <1>2, <2>1 DEF Taking, BatonRow
    <2>3. \A g \in Batons \ {h} :
             /\ baton'[g].by = baton[g].by /\ baton'[g].owner = baton[g].owner
             /\ baton'[g].user = baton[g].user
             /\ (baton'[g].state = "accepted" <=> baton[g].state = "accepted")
        BY <1>0, <1>2 DEF Taking, BatonRow, ExpiredRow, OpenAutos, OpenBatons
    <2>4. \A s \in Sessions : session'[s].ended = session[s].ended /\ session'[s].work = session[s].work
        BY <1>2 DEF Taking
    <2>5. \A s \in Sessions \ {x} : Holding(s)' = Holding(s)
        BY <2>1, <2>2, <2>3 DEF Holding
    <2>6. \A s \in Sessions : s = x => Holding(s)' = {h} /\ ~session[s].ended
        <3> SUFFICES ASSUME NEW s \in Sessions, s = x PROVE Holding(s)' = {h} /\ ~session[s].ended
            OBVIOUS
        <3>1. Holding(s) = {} /\ ~session[s].ended
            BY <1>2 DEF Taking
        <3>2. baton'[h].by = s
            BY <2>2
        <3> HIDE DEF h, x
        <3>3. \A g \in Batons \ {h} : ~(baton'[g].state = "accepted" /\ baton'[g].by = s)
            BY <2>3, <3>1 DEF Holding
        <3>4. Holding(s)' = {h}
            BY <2>1, <2>2, <3>2, <3>3 DEF Holding
        <3> QED BY <3>1, <3>4
    <2>7. OneActiveReader'
        <3>1. readers' = [readers EXCEPT ![h] = @ \cup {x}]
            BY <1>2 DEF Taking
        <3> SUFFICES ASSUME NEW g \in Batons, NEW y \in readers'[g]
                     PROVE  \/ baton'[g].state = "accepted" /\ baton'[g].by = y
                            \/ y \in Sessions /\ session'[y].ended
            BY DEF OneActiveReader
        <3>2. CASE g = h
            BY <1>0, <2>1, <2>2, <2>4, <3>1, <3>2 DEF Reading, OneActiveReader
        <3>3. CASE g # h
            BY <1>0, <2>1, <2>3, <2>4, <3>1, <3>3 DEF Reading, OneActiveReader
        <3> QED BY <3>2, <3>3
    <2>8. HoldsOne'
        BY <2>5, <2>6 DEF Reading, HoldsOne
    <2>9. UnusedIsReturned'
        BY <2>4, <2>5, <2>6 DEF Reading, UnusedIsReturned
    <2>10. OwnerRespected'
        <3> SUFFICES ASSUME NEW s \in Sessions, NEW g \in Holding(s)'
                     PROVE  baton'[g].owner \in {Shared, baton'[g].user}
            BY DEF OwnerRespected
        <3>1. CASE g = h
            BY <1>2, <2>2, <3>1 DEF Holding, Taking
        <3>2. CASE g # h
            BY <2>3, <3>2 DEF Holding, Reading, OwnerRespected
        <3> QED BY <3>1, <3>2
    <2> QED BY <2>7, <2>8, <2>9, <2>10 DEF Reading
<1>3. ASSUME NEW s \in Sessions, Returning(s) PROVE Reading'
    <2>1. \A h \in Batons : h \in Holding(s) => baton'[h].state = "open" /\ baton'[h].by = None
        BY <1>0, <1>3 DEF Returning, BatonRow
    <2>2. \A h \in Batons : h \notin Holding(s) => baton'[h] = baton[h]
        BY <1>3 DEF Returning
    <2>3. /\ readers' = readers /\ session'[s].ended
          /\ \A x \in Sessions : session'[x].work = session[x].work
          /\ \A x \in Sessions \ {s} : session'[x].ended = session[x].ended
        BY <1>3 DEF Returning
    <2>4. Holding(s)' = {}
        BY <2>1, <2>2 DEF Holding
    <2>5. \A x \in Sessions \ {s} : Holding(x)' = Holding(x)
        BY <2>1, <2>2 DEF Holding
    <2>6. OneActiveReader'
        <3> SUFFICES ASSUME NEW g \in Batons, NEW y \in readers[g]
                     PROVE  \/ baton'[g].state = "accepted" /\ baton'[g].by = y
                            \/ y \in Sessions /\ session'[y].ended
            BY <2>3 DEF OneActiveReader
        <3>1. CASE g \in Holding(s)
            BY <2>3, <3>1 DEF Holding, Reading, OneActiveReader
        <3>2. CASE g \notin Holding(s)
            BY <2>2, <2>3, <3>2 DEF Reading, OneActiveReader
        <3> QED BY <3>1, <3>2
    <2>7. HoldsOne' /\ UnusedIsReturned'
        BY <2>3, <2>4, <2>5 DEF Reading, HoldsOne, UnusedIsReturned
    <2>8. OwnerRespected'
        <3> SUFFICES ASSUME NEW x \in Sessions, NEW g \in Holding(x)'
                     PROVE  baton'[g].owner \in {Shared, baton'[g].user}
            BY DEF OwnerRespected
        <3>1. x # s /\ g \in Batons /\ g \in Holding(x) /\ g \notin Holding(s)
            BY <2>1, <2>4, <2>5 DEF Holding
        <3> QED BY <2>2, <3>1 DEF Reading, OwnerRespected
    <2> QED BY <2>6, <2>7, <2>8 DEF Reading
<1>4. ASSUME NEW h \in Batons, Posting(h) PROVE Reading'
    <2>1. \A g \in Batons \ {h} :
             /\ baton'[g].by = baton[g].by /\ baton'[g].owner = baton[g].owner
             /\ baton'[g].user = baton[g].user
             /\ (baton'[g].state = "accepted" <=> baton[g].state = "accepted")
        BY <1>0, <1>4 DEF Posting, BatonRow, ExpiredRow, OpenAutos, OpenBatons
    <2>2. baton[h].state # "accepted" /\ baton'[h].state # "accepted" /\ readers' = readers
        BY <1>4 DEF Posting, Unused
    <2>3. \A s \in Sessions : Holding(s)' = Holding(s)
        BY <2>1, <2>2 DEF Holding
    <2>4. SessionsGrow /\ EndsWorked
        BY <1>4 DEF Posting
    <2>5. OneActiveReader'
        BY <2>1, <2>2, <2>4 DEF Reading, OneActiveReader, SessionsGrow
    <2>6. HoldsOne' /\ UnusedIsReturned'
        BY <2>3, <2>4 DEF Reading, HoldsOne, UnusedIsReturned, SessionsGrow, EndsWorked
    <2>7. OwnerRespected'
        BY <2>1, <2>2 DEF Holding, Reading, OwnerRespected
    <2> QED BY <2>5, <2>6, <2>7 DEF Reading
<1>5. CASE Discarding
    <2>1. \A g \in Batons :
             /\ baton'[g].by = baton[g].by /\ baton'[g].owner = baton[g].owner
             /\ baton'[g].user = baton[g].user
             /\ (baton'[g].state = "accepted" <=> baton[g].state = "accepted")
        BY <1>0, <1>5 DEF Discarding, BatonRow, ExpiredRow
    <2>2. session' = session /\ readers' = readers
        BY <1>5 DEF Discarding
    <2>3. \A s \in Sessions : Holding(s)' = Holding(s)
        BY <2>1 DEF Holding
    <2>4. OneActiveReader'
        BY <2>1, <2>2 DEF Reading, OneActiveReader
    <2>5. HoldsOne' /\ UnusedIsReturned'
        BY <2>2, <2>3 DEF Reading, HoldsOne, UnusedIsReturned
    <2>6. OwnerRespected'
        BY <2>1 DEF Holding, Reading, OwnerRespected
    <2> QED BY <2>4, <2>5, <2>6 DEF Reading
<1> QED BY <1>1, <1>2, <1>3, <1>4, <1>5 DEF Effects

LEMMA SweepingStep == Typed /\ Typed' /\ Sweeping /\ Effects => Sweeping'
<1> SUFFICES ASSUME Typed, Typed', Sweeping, Effects PROVE Sweeping'
    OBVIOUS
<1>0. /\ baton \in [Batons -> BatonRow] /\ baton' \in [Batons -> BatonRow]
      /\ readers \in [Batons -> SUBSET Receivers]
      /\ discarded \subseteq Batons
    BY DEF Typed, TypeOK
<1>t. \A g, h, k \in Batons : (g < h /\ h < k => g < k) /\ (g < h \/ g = h \/ h < g) /\ ~(g < h /\ h < g)
    BY BatonAssumption DEF Batons
<1>1. CASE Quiet
    BY <1>1 DEF Quiet, Sweeping, InOrder, SweptHasSuccessor, OldOnesReturned, AcceptedRead, DiscardedPosted, OpenAutos,
                OpenBatons
<1>2. ASSUME NEW r \in Requests, Taking(r) PROVE Sweeping'
    <2> DEFINE h == request[r].baton
    <2>1. h \in Batons /\ baton[h].state = "open"
        BY <1>2 DEF Taking
    <2>2. /\ baton'[h].state = "accepted" /\ baton'[h].owner = baton[h].owner
          /\ baton'[h].auto = baton[h].auto /\ baton'[h].dir = baton[h].dir
        BY <1>0, <1>2, <2>1 DEF Taking, BatonRow
    <2>3. \A g \in Batons \ {h} :
             /\ baton'[g].owner = baton[g].owner /\ baton'[g].auto = baton[g].auto
             /\ baton'[g].dir = baton[g].dir
             /\ \/ baton'[g].state = baton[g].state
                \/ /\ baton[g].state = "open" /\ baton'[g].state = "expired"
                   /\ g < h /\ baton[h].auto /\ baton[g].auto /\ baton[g].owner = baton[h].owner
        BY <1>0, <1>2 DEF Taking, BatonRow, ExpiredRow, OpenAutos, OpenBatons
    <2>4. discarded' = discarded /\ \A g \in Batons : readers[g] # {} => readers'[g] # {}
        BY <1>0, <1>2, <2>1 DEF Taking
    <2>5. InOrder'
        BY <2>1, <2>2, <2>3 DEF Sweeping, InOrder
    <2>6. SweptHasSuccessor'
        <3> SUFFICES ASSUME NEW g \in Batons \ discarded, baton'[g].state = "expired"
                     PROVE  /\ baton'[g].auto
                            /\ \E k \in Batons :
                                  /\ k > g
                                  /\ baton'[k].auto /\ baton'[k].owner = baton'[g].owner
                                  /\ baton'[k].state \in {"open", "accepted"} \/ k \in discarded
            BY <2>4 DEF SweptHasSuccessor
        <3>0. g # h
            BY <2>2
        <3>1. CASE baton[g].state # "expired"
            BY <2>1, <2>2, <2>3, <3>0, <3>1
        <3>2. CASE baton[g].state = "expired"
            <4>1. PICK k \in Batons :
                     /\ k > g
                     /\ baton[k].auto /\ baton[k].owner = baton[g].owner
                     /\ baton[k].state \in {"open", "accepted"} \/ k \in discarded
                BY <3>2 DEF Sweeping, SweptHasSuccessor
            <4>2. baton[g].auto
                BY <3>2 DEF Sweeping, SweptHasSuccessor
            <4>3. CASE k = h
                BY <2>1, <2>2, <2>3, <3>0, <4>1, <4>2, <4>3
            <4>4. CASE k # h /\ baton'[k].state = baton[k].state
                BY <2>3, <3>0, <4>1, <4>2, <4>4
            <4>5. CASE k # h /\ baton'[k].state # baton[k].state
                <5> HIDE DEF h
                <5>1. k < h /\ baton[h].auto /\ baton[k].owner = baton[h].owner
                    BY <2>3, <4>5
                <5>2. h > g
                    BY <1>t, <2>1, <4>1, <5>1
                <5>3. baton'[h].auto /\ baton'[h].state = "accepted" /\ baton'[h].owner = baton'[g].owner
                    BY <2>2, <2>3, <3>0, <4>1, <5>1
                <5>4. baton'[g].auto
                    BY <2>3, <3>0, <4>2
                <5> QED BY <2>1, <5>2, <5>3, <5>4
            <4> QED BY <4>3, <4>4, <4>5
        <3> QED BY <3>1, <3>2
    <2>7. OldOnesReturned'
        <3> SUFFICES ASSUME NEW g \in Batons, NEW k \in Batons, g < k,
                            baton'[g].state = "open", baton'[g].auto,
                            baton'[k].state # "absent", baton'[k].auto,
                            baton'[g].dir = baton'[k].dir, baton'[g].owner = baton'[k].owner
                     PROVE  readers'[g] # {}
            BY DEF OldOnesReturned, OpenAutos, OpenBatons
        <3>1. g # h /\ baton[g].state = "open" /\ baton[k].state # "absent"
            BY <2>1, <2>2, <2>3
        <3>2. g \in OpenAutos /\ baton[k].auto /\ baton[g].dir = baton[k].dir /\ baton[g].owner = baton[k].owner
            BY <2>2, <2>3, <3>1 DEF OpenAutos, OpenBatons
        <3> QED BY <2>4, <3>1, <3>2 DEF Sweeping, OldOnesReturned
    <2>8. AcceptedRead'
        <3>1. readers'[h] # {}
            BY <1>0, <1>2, <2>1 DEF Taking
        <3> QED BY <2>3, <2>4, <3>1 DEF Sweeping, AcceptedRead
    <2>9. DiscardedPosted'
        BY <1>0, <2>2, <2>3, <2>4 DEF Sweeping, DiscardedPosted
    <2> QED BY <2>5, <2>6, <2>7, <2>8, <2>9 DEF Sweeping
<1>3. ASSUME NEW s \in Sessions, Returning(s) PROVE Sweeping'
    <2>1. \A g \in Batons :
             /\ baton'[g].owner = baton[g].owner /\ baton'[g].auto = baton[g].auto
             /\ baton'[g].dir = baton[g].dir
             /\ \/ baton'[g].state = baton[g].state
                \/ /\ baton[g].state = "accepted" /\ baton'[g].state = "open" /\ g \in Holding(s)
        BY <1>0, <1>3 DEF Returning, BatonRow, Holding
    <2>2. discarded' = discarded /\ readers' = readers
        BY <1>3 DEF Returning
    <2>3. InOrder'
        BY <2>1 DEF Sweeping, InOrder
    <2>4. SweptHasSuccessor'
        BY <2>1, <2>2 DEF Sweeping, SweptHasSuccessor
    <2>5. OldOnesReturned'
        <3> SUFFICES ASSUME NEW g \in Batons, NEW k \in Batons, g < k,
                            baton'[g].state = "open", baton'[g].auto,
                            baton'[k].state # "absent", baton'[k].auto,
                            baton'[g].dir = baton'[k].dir, baton'[g].owner = baton'[k].owner
                     PROVE  readers[g] # {}
            BY <2>2 DEF OldOnesReturned, OpenAutos, OpenBatons
        <3>1. CASE baton[g].state = "open"
            <4>1. g \in OpenAutos /\ baton[k].state # "absent"
                BY <2>1, <3>1 DEF OpenAutos, OpenBatons
            <4> QED BY <2>1, <4>1 DEF Sweeping, OldOnesReturned
        <3>2. CASE g \in Holding(s)
            BY <3>2 DEF Holding, Sweeping, AcceptedRead
        <3> QED BY <2>1, <3>1, <3>2
    <2>6. AcceptedRead'
        BY <2>1, <2>2 DEF Sweeping, AcceptedRead
    <2>7. DiscardedPosted'
        BY <1>0, <2>1, <2>2 DEF Sweeping, DiscardedPosted
    <2> QED BY <2>3, <2>4, <2>5, <2>6, <2>7 DEF Sweeping
<1>4. ASSUME NEW h \in Batons, Posting(h) PROVE Sweeping'
    <2>1. /\ baton[h].state = "absent" /\ baton'[h].state = "open"
          /\ \A g \in Batons : g < h => baton[g].state # "absent"
        BY <1>4, BatonAssumption DEF Posting, Unused, Batons
    <2>2. \A g \in Batons : baton[g].state # "absent" => g < h
        BY <1>t, <2>1 DEF Sweeping, InOrder
    <2>3. \A g \in Batons \ {h} :
             /\ baton'[g].owner = baton[g].owner /\ baton'[g].auto = baton[g].auto
             /\ baton'[g].dir = baton[g].dir
             /\ \/ /\ baton'[g].state = baton[g].state
                   /\ ~ (/\ baton'[h].auto /\ g \in OpenAutos
                         /\ baton[g].dir = baton'[h].dir /\ baton[g].owner = baton'[h].owner)
                \/ /\ baton[g].state = "open" /\ baton'[g].state = "expired" /\ baton[g].auto
                   /\ baton'[h].auto /\ baton[g].owner = baton'[h].owner
        BY <1>0, <1>4 DEF Posting, BatonRow, ExpiredRow, OpenAutos, OpenBatons
    <2>4. discarded' = discarded /\ readers' = readers
        BY <1>4 DEF Posting
    <2>5. InOrder'
        BY <1>t, <2>1, <2>2, <2>3 DEF Sweeping, InOrder
    <2>6. SweptHasSuccessor'
        <3> SUFFICES ASSUME NEW g \in Batons \ discarded, baton'[g].state = "expired"
                     PROVE  /\ baton'[g].auto
                            /\ \E k \in Batons :
                                  /\ k > g
                                  /\ baton'[k].auto /\ baton'[k].owner = baton'[g].owner
                                  /\ baton'[k].state \in {"open", "accepted"} \/ k \in discarded
            BY <2>4 DEF SweptHasSuccessor
        <3>0. g # h /\ baton[g].state # "absent" /\ h > g
            BY <2>1, <2>2, <2>3
        <3>1. CASE baton[g].state # "expired"
            BY <2>1, <2>3, <3>0, <3>1
        <3>2. CASE baton[g].state = "expired"
            <4>1. PICK k \in Batons :
                     /\ k > g
                     /\ baton[k].auto /\ baton[k].owner = baton[g].owner
                     /\ baton[k].state \in {"open", "accepted"} \/ k \in discarded
                BY <3>2 DEF Sweeping, SweptHasSuccessor
            <4>2. baton[g].auto
                BY <3>2 DEF Sweeping, SweptHasSuccessor
            <4>3. k # h
                BY <1>t, <2>1, <3>0, <4>1 DEF Sweeping, DiscardedPosted
            <4>4. CASE baton'[k].state = baton[k].state
                BY <2>3, <3>0, <4>1, <4>2, <4>3, <4>4
            <4>5. CASE baton'[k].state # baton[k].state
                BY <2>1, <2>3, <3>0, <4>1, <4>2, <4>3, <4>5
            <4> QED BY <4>4, <4>5
        <3> QED BY <3>1, <3>2
    <2>7. OldOnesReturned'
        <3> SUFFICES ASSUME NEW g \in Batons, NEW k \in Batons, g < k,
                            baton'[g].state = "open", baton'[g].auto,
                            baton'[k].state # "absent", baton'[k].auto,
                            baton'[g].dir = baton'[k].dir, baton'[g].owner = baton'[k].owner
                     PROVE  readers[g] # {}
            BY <2>4 DEF OldOnesReturned, OpenAutos, OpenBatons
        <3>1. g # h
            <4>1. CASE k # h
                BY <1>t, <2>2, <2>3, <4>1
            <4>2. CASE k = h
                BY <1>t, <4>2
            <4> QED BY <4>1, <4>2
        <3>2. g \in OpenAutos
            BY <2>3, <3>1 DEF OpenAutos, OpenBatons
        <3>3. k # h
            BY <2>3, <3>1, <3>2
        <3>4. baton[k].state # "absent"
            BY <2>3, <3>3
        <3> QED BY <2>3, <3>1, <3>2, <3>3, <3>4 DEF Sweeping, OldOnesReturned
    <2>8. AcceptedRead'
        BY <2>1, <2>3, <2>4 DEF Sweeping, AcceptedRead
    <2>9. DiscardedPosted'
        BY <1>0, <2>1, <2>3, <2>4 DEF Sweeping, DiscardedPosted
    <2> QED BY <2>5, <2>6, <2>7, <2>8, <2>9 DEF Sweeping
<1>5. CASE Discarding
    <2>1. \A g \in Batons :
             /\ baton'[g].owner = baton[g].owner /\ baton'[g].auto = baton[g].auto
             /\ baton'[g].dir = baton[g].dir
             /\ \/ baton'[g].state = baton[g].state
                \/ /\ baton[g].state = "open" /\ baton'[g].state = "expired" /\ g \in discarded'
        BY <1>0, <1>5 DEF Discarding, BatonRow, ExpiredRow
    <2>2. discarded \subseteq discarded' /\ readers' = readers
        BY <1>5 DEF Discarding
    <2>3. InOrder'
        BY <2>1 DEF Sweeping, InOrder
    <2>4. SweptHasSuccessor'
        BY <2>1, <2>2 DEF Sweeping, SweptHasSuccessor
    <2>5. OldOnesReturned'
        BY <2>1, <2>2 DEF Sweeping, OldOnesReturned, OpenAutos, OpenBatons
    <2>6. AcceptedRead'
        BY <2>1, <2>2 DEF Sweeping, AcceptedRead
    <2>7. DiscardedPosted'
        <3>1. \A g \in discarded' : baton[g].state # "absent"
            BY <1>5 DEF Discarding, Sweeping, DiscardedPosted
        <3>2. \A g \in discarded' : g \in Batons
            BY DEF Typed, TypeOK
        <3> QED BY <2>1, <3>1, <3>2 DEF DiscardedPosted
    <2> QED BY <2>3, <2>4, <2>5, <2>6, <2>7 DEF Sweeping
<1> QED BY <1>1, <1>2, <1>3, <1>4, <1>5 DEF Effects

LEMMA IStep == IInv /\ [RestartNext]_vars => IInv'
BY TypedStep, StepEffects, ReadingStep, SweepingStep DEF IInv

-----------------------------------------------------------------------------
(* The theorems *)

\* The inductive invariant holds, whatever becomes of the settings.
LEMMA Inductive == RestartSpec => []IInv
BY IInit, IStep, PTL DEF RestartSpec

\* The settings are constant in Spec.
LEMMA SpecInductive == Spec => []IInv
<1>1. [Next]_vars => [RestartNext]_vars
    BY DEF RestartNext
<1> QED BY IInit, IStep, <1>1, PTL DEF Spec

\* The tables are well typed and a baton names its receiver while it is
\* accepted.
THEOREM TypeInvariant == Spec => []TypeOK
<1>1. IInv => TypeOK
    BY DEF IInv, Typed
<1> QED BY SpecInductive, <1>1, PTL

\* A baton given to a second reader was given back by the first, which has
\* ended.
THEOREM SingleReader == Spec => []OneActiveReader
<1>1. IInv => OneActiveReader
    BY DEF IInv, Reading
<1> QED BY SpecInductive, <1>1, PTL

\* No session ever holds two batons.
THEOREM SingleHolding == Spec => []HoldsOne
<1>1. IInv => HoldsOne
    BY DEF IInv, Reading
<1> QED BY SpecInductive, <1>1, PTL

\* A session that did nothing gives back what it took.
THEOREM GivenBack == Spec => []UnusedIsReturned
<1>1. IInv => UnusedIsReturned
    BY DEF IInv, Reading
<1> QED BY SpecInductive, <1>1, PTL

\* Nothing is swept away without a newer baton in its place.
THEOREM Succession == Spec => []SweptHasSuccessor
<1>1. IInv => SweptHasSuccessor
    BY DEF IInv, Sweeping
<1> QED BY SpecInductive, <1>1, PTL

\* Abandoned sessions do not pile up batons.
THEOREM NoPile == Spec => []OneFreshPerDirectory
<1>1. IInv => OneFreshPerDirectory
    BY DEF IInv, Sweeping, OldOnesReturned, OneFreshPerDirectory, OpenAutos, OpenBatons
<1> QED BY SpecInductive, <1>1, PTL

\* Sessions hold batons of their own operator, or of nobody.
THEOREM Ownership == Spec => []OwnerRespected
<1>1. IInv => OwnerRespected
    BY DEF IInv, Reading
<1> QED BY SpecInductive, <1>1, PTL

\* A baton comes back only from a session without work.
THEOREM Returns == Spec => ReturnedUnused
<1>1. IInv /\ [Next]_vars =>
        [\A h \in Batons :
            baton[h].state = "accepted" /\ baton'[h].state # "accepted" =>
                /\ baton[h].by \in Sessions /\ ~session[baton[h].by].work
                /\ baton'[h].state = "open"]_vars
    <2> SUFFICES ASSUME IInv, [Next]_vars, NEW h \in Batons,
                        baton[h].state = "accepted", baton'[h].state # "accepted"
                 PROVE  /\ baton[h].by \in Sessions /\ ~session[baton[h].by].work
                        /\ baton'[h].state = "open"
        OBVIOUS
    <2>1. Effects /\ baton[h] \in BatonRow
        BY StepEffects DEF RestartNext, IInv, Typed, TypeOK
    <2>2. ~Quiet
        BY DEF Quiet
    <2>3. \A r \in Requests : ~Taking(r)
        BY <2>1 DEF Taking, OpenAutos, OpenBatons, BatonRow
    <2>4. \A g \in Batons : ~Posting(g)
        BY DEF Posting, Unused, OpenAutos, OpenBatons
    <2>5. ~Discarding
        BY DEF Discarding
    <2>6. PICK s \in Sessions : Returning(s)
        BY <2>1, <2>2, <2>3, <2>4, <2>5 DEF Effects
    <2> QED BY <2>1, <2>6 DEF Returning, Holding, BatonRow
<1> QED BY SpecInductive, <1>1, PTL DEF Spec, ReturnedUnused

\* A startup that read a packet takes its baton only with the packet.
THEOREM TogetherOrNot == Spec => ClaimedTogether
<1>1. IInv /\ [Next]_vars =>
        [\A r \in Requests :
            /\ request[r].packet /\ request[r].baton # None
            /\ baton[request[r].baton].state # baton'[request[r].baton].state
            /\ StartClaim(r)
            => packet[request[r].for] = "pending" /\ packet'[request[r].for] = "claimed"]_vars
    <2> SUFFICES ASSUME IInv, NEW r \in Requests, request[r].packet,
                        baton[request[r].baton].state # baton'[request[r].baton].state,
                        StartClaim(r)
                 PROVE  packet[request[r].for] = "pending" /\ packet'[request[r].for] = "claimed"
        OBVIOUS
    <2>1. PacketValid(r) /\ packet' = [packet EXCEPT ![request[r].for] = "claimed"]
        BY DEF StartClaim
    <2>2. packet[request[r].for] = "pending"
        BY <2>1 DEF PacketValid
    <2>3. request[r].for \in Sessions /\ packet \in [Sessions -> {"none", "pending", "claimed"}]
        BY DEF IInv, Typed, InFlight, TypeOK
    <2> QED BY <2>1, <2>2, <2>3
<1> QED BY SpecInductive, <1>1, PTL DEF Spec, ClaimedTogether

-----------------------------------------------------------------------------
(* Refinement *)

\* How the states of well-typed rows map to states of batons.
Mapped ==
    /\ \A h \in Batons :
          /\ StateOf[h] = "held" <=> baton[h].state = "accepted"
          /\ StateOf[h] = "void" <=> baton[h].state = "expired"
          /\ StateOf[h] = "absent" <=> baton[h].state = "absent"
          /\ StateOf[h] = "open" <=> baton[h].state = "open"
          /\ HolderOf[h] = baton[h].by
    /\ DOMAIN HolderOf = Batons
    /\ StateOf \in [Batons -> {"absent", "open", "held", "void"}]

LEMMA StateMap == TypeOK => Mapped
BY DEF TypeOK, BatonRow, StateOf, HolderOf, Mapped

LEMMA StateMapNext == TypeOK' => Mapped'
BY StateMap, PTL

\* Rows in the same state, held by the same session, map to the same baton.
LEMMA SameBaton ==
    ASSUME NEW h \in Batons, baton'[h].state = baton[h].state, baton'[h].by = baton[h].by
    PROVE  StateOf'[h] = StateOf[h] /\ HolderOf'[h] = HolderOf[h]
BY DEF StateOf, HolderOf

\* A step that ends at most one session.
LEMMA OverGrows ==
    SessionsGrow /\ EndsOne => Over' = Over \/ \E s \in Sessions : Over' = Over \cup {s}
<1> SUFFICES ASSUME SessionsGrow, EndsOne, Over' # Over
             PROVE  \E s \in Sessions : Over' = Over \cup {s}
    OBVIOUS
<1>1. PICK s \in Sessions : session'[s].ended /\ ~session[s].ended
    BY DEF Over, SessionsGrow
<1>2. \A x \in Sessions \ {s} : ~(session'[x].ended /\ ~session[x].ended)
    BY <1>1 DEF EndsOne
<1>3. Over' = Over \cup {s}
    BY <1>1, <1>2 DEF Over, SessionsGrow
<1> QED BY <1>3

LEMMA StepRefines ==
    ASSUME IInv, IInv', [RestartNext]_vars
    PROVE  [Promise!Next]_<<StateOf, HolderOf, Over>>
<1>0. /\ baton \in [Batons -> BatonRow] /\ baton' \in [Batons -> BatonRow]
      /\ \A h \in Batons : (baton[h].state = "accepted") <=> (baton[h].by # None)
    BY DEF IInv, Typed, TypeOK
<1>m. Mapped /\ Mapped'
    BY StateMap, StateMapNext DEF IInv, Typed
<1>1. CASE Quiet
    <2>1. StateOf' = StateOf /\ HolderOf' = HolderOf
        BY <1>1 DEF Quiet, StateOf, HolderOf
    <2> QED BY <1>1, <2>1, OverGrows DEF Quiet, Promise!Next, Promise!Close
<1>2. ASSUME NEW r \in Requests, Taking(r) PROVE Promise!Next
    <2> DEFINE h == request[r].baton
               x == request[r].for
    <2>1. /\ h \in Batons /\ x \in Sessions \cup {Agent}
          /\ baton[h].state = "open" /\ (x \in Sessions => Holding(x) = {} /\ ~session[x].ended)
        BY <1>2 DEF Taking, Receivers
    <2>2. baton'[h].state = "accepted" /\ baton'[h].by = x
        BY <1>0, <1>2, <2>1 DEF Taking, BatonRow
    <2>3. \A g \in Batons \ {h} :
             /\ baton'[g].by = baton[g].by
             /\ \/ baton'[g].state = baton[g].state
                \/ baton[g].state = "open" /\ baton'[g].state = "expired"
        BY <1>0, <1>2 DEF Taking, BatonRow, ExpiredRow, OpenAutos, OpenBatons
    <2>4. Over' = Over
        BY <1>2 DEF Taking, Over
    <2> HIDE DEF h, x
    <2>5. StateOf[h] = "open" /\ StateOf'[h] = "held"
        BY <2>1, <2>2, <1>m DEF Mapped
    <2>6. Promise!RetireOthers({h})
        BY <1>0, <2>3, <1>m, SameBaton DEF Mapped, Promise!RetireOthers
    <2>7. HolderOf' = [HolderOf EXCEPT ![h] = x]
        BY <2>1, <2>2, <2>3 DEF HolderOf
    <2>8. x \notin Over /\ (x \in Sessions => Promise!HeldBy(x) = {})
        BY <2>1, ReceiverAssumption, <1>m DEF Mapped, Over, Promise!HeldBy, Holding
    <2>9. Promise!Take(h, x)
        BY <2>4, <2>5, <2>6, <2>7, <2>8 DEF Promise!Take
    <2> QED BY <2>1, <2>9 DEF Promise!Next
<1>3. ASSUME NEW s \in Sessions, Returning(s) PROVE [Promise!Next]_<<StateOf, HolderOf, Over>>
    <2>1. /\ ~session[s].work /\ Over' = Over \cup {s}
        BY <1>3 DEF Returning, Over
    <2>2. \A g \in Batons : g \notin Holding(s) => baton'[g] = baton[g]
        BY <1>3 DEF Returning
    <2>3. CASE Holding(s) = {}
        <3>1. StateOf' = StateOf /\ HolderOf' = HolderOf
            BY <2>2, <2>3 DEF StateOf, HolderOf
        <3> QED BY <2>1, <3>1 DEF Promise!Next, Promise!Close
    <2>4. ASSUME NEW h \in Holding(s) PROVE Promise!Next
        <3>1. h \in Batons /\ baton[h].state = "accepted" /\ baton[h].by = s
            BY DEF Holding
        <3>2. \A g \in Batons \ {h} : g \notin Holding(s)
            BY <2>4 DEF IInv, Reading, HoldsOne
        <3>3. baton'[h].state = "open" /\ baton'[h].by = None
            BY <1>0, <1>3, <2>4, <3>1 DEF Returning, BatonRow
        <3>4. StateOf' = [StateOf EXCEPT ![h] = "open"]
            BY <2>2, <3>1, <3>2, <3>3 DEF StateOf
        <3>5. HolderOf' = [HolderOf EXCEPT ![h] = None]
            BY <2>2, <3>1, <3>2, <3>3 DEF HolderOf
        <3>6. s \notin Over /\ h \in Promise!HeldBy(s)
            BY <2>1, <3>1, <2>4, <1>m DEF Mapped, Over, Promise!HeldBy, IInv, Reading, UnusedIsReturned
        <3>7. Promise!Return(s)
            BY <3>4, <3>5, <3>6 DEF Promise!Return
        <3> QED BY <2>1, <3>7 DEF Promise!Next, Promise!Close
    <2> QED BY <2>3, <2>4
<1>4. ASSUME NEW h \in Batons, Posting(h) PROVE Promise!Next
    <2>1. baton[h].state = "absent" /\ baton'[h].state = "open" /\ baton'[h].by = None
        BY <1>4 DEF Posting, Unused
    <2>2. \A g \in Batons \ {h} :
             /\ baton'[g].by = baton[g].by
             /\ \/ baton'[g].state = baton[g].state
                \/ baton[g].state = "open" /\ baton'[g].state = "expired"
        BY <1>0, <1>4 DEF Posting, BatonRow, ExpiredRow, OpenAutos, OpenBatons
    <2>3. HolderOf' = HolderOf
        BY <1>0, <2>1, <2>2 DEF HolderOf
    <2>4. StateOf[h] = "absent" /\ StateOf'[h] = "open"
        BY <2>1, <1>m DEF Mapped
    <2>5. Promise!RetireOthers({h})
        BY <1>0, <2>2, <1>m, SameBaton DEF Mapped, Promise!RetireOthers
    <2>6. Promise!Post(h)
        BY <2>3, <2>4, <2>5 DEF Promise!Post
    <2> QED BY <1>4, <2>6, OverGrows DEF Posting, Promise!Next, Promise!Close
<1>5. CASE Discarding
    <2>1. \A g \in Batons :
             /\ baton'[g].by = baton[g].by
             /\ \/ baton'[g].state = baton[g].state
                \/ baton[g].state = "open" /\ baton'[g].state = "expired"
        BY <1>0, <1>5 DEF Discarding, BatonRow, ExpiredRow
    <2>2. HolderOf' = HolderOf /\ Over' = Over
        BY <1>5, <2>1 DEF HolderOf, Over, Discarding
    <2>3. Promise!RetireOthers({})
        BY <1>0, <2>1, <1>m, SameBaton DEF Mapped, Promise!RetireOthers
    <2> QED BY <2>2, <2>3 DEF Promise!Void, Promise!Next
<1> QED BY StepEffects, <1>1, <1>2, <1>3, <1>4, <1>5 DEF IInv, Effects

LEMMA InitRefines == Init => Promise!Init
BY DEF Init, Promise!Init, StateOf, HolderOf, Over, NoBaton, NoSession

\* The handoffs table implements single-use batons, whatever becomes of the
\* settings.
THEOREM RestartRefinement == RestartSpec => ImplementsBaton
<1>1. IInv /\ IInv' /\ [RestartNext]_vars => [Promise!Next]_<<StateOf, HolderOf, Over>>
    BY StepRefines
<1> QED BY <1>1, InitRefines, Inductive, PTL
        DEF RestartSpec, ImplementsBaton, Promise!Spec, Promise!batonVars

\* So do the handoffs of one deployment.
THEOREM Refinement == Spec => ImplementsBaton
<1>1. [Next]_vars => [RestartNext]_vars
    BY DEF RestartNext
<1>2. IInv /\ IInv' /\ [RestartNext]_vars => [Promise!Next]_<<StateOf, HolderOf, Over>>
    BY StepRefines
<1> QED BY <1>1, <1>2, InitRefines, SpecInductive, PTL
        DEF Spec, ImplementsBaton, Promise!Spec, Promise!batonVars

=============================================================================
