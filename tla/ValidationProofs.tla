-------------------------- MODULE ValidationProofs --------------------------
(***************************************************************************)
(* Proofs about Validation, for every set of inputs and every value of the *)
(* limits: the types, six safety invariants with the inductive invariant   *)
(* IInv they follow from, and that every step keeps ItineraryContract.     *)
(*                                                                         *)
(* IInv has four layers, each proved from the ones before it.  ReadInv:    *)
(* what the first k - 1 activities and transfers left in the dictionaries  *)
(* is exactly what the input says.  Ordering: the indegrees count the      *)
(* pending predecessors, and the order is closed under predecessors.       *)
(* Forward: the finish times computed so far are final and minimal.        *)
(* Verdicts: the verdict reached follows from the three.                   *)
(* The contract needs a fifth, Unobjected: the stages behind the current   *)
(* one have nothing to object to, and every position of the order holds    *)
(* the least activity it could.                                            *)
(***************************************************************************)
EXTENDS Validation, FiniteSetTheorems, WellFoundedInduction, TLAPS

-----------------------------------------------------------------------------
(* What the checks of the first three stages establish when they pass.     *)

(* A chain of checks passes exactly when each of them does.                *)
LEMMA NeitherFault == ASSUME NEW f, NEW g
                      PROVE  (f ?? g) = {} <=> f = {} /\ g = {}
  BY DEF ??

(* The header check leaves no missing part and a horizon in range.         *)
LEMMA HeaderFaultless ==
  ASSUME NEW it, HeaderFault(it) = {}
  PROVE  /\ it # Malformed
         /\ it.horizon # Malformed /\ ~Outside(it.horizon, 1, MaxHorizon)
         /\ it.activities # Malformed /\ it.transfers # Malformed
<1>1. /\ Blame(it = Malformed, "INVALID_TYPE") = {}
      /\ Blame(it.horizon = Malformed, "INVALID_TYPE") = {}
      /\ Blame(Outside(it.horizon, 1, MaxHorizon), "OUT_OF_RANGE") = {}
      /\ Blame(it.activities = Malformed, "INVALID_TYPE") = {}
      /\ Blame(it.transfers = Malformed, "INVALID_TYPE") = {}
  BY NeitherFault DEF HeaderFault
<1> QED  BY <1>1 DEF Blame

(* What a passed header check makes of the input.                          *)
LEMMA HeaderPassed ==
  ASSUME NEW it \in Itinerary \cup {Malformed}, HeaderFault(it) = {}
  PROVE  /\ it \in Itinerary
         /\ it.horizon \in Nat
         /\ it.activities \in Seq(Activity \cup {Malformed})
         /\ it.transfers \in Seq(Transfer \cup {Malformed})
<1>1. /\ it # Malformed
      /\ it.horizon # Malformed /\ ~Outside(it.horizon, 1, MaxHorizon)
      /\ it.activities # Malformed /\ it.transfers # Malformed
  BY HeaderFaultless
<1>2. it \in Itinerary
  BY <1>1
<1> QED
  BY <1>1, <1>2, MalformedAssumption, LimitsAssumption DEF Itinerary, Number, Outside

(* An activity that passes its checks has every number in range.           *)
LEMMA ActivityPassed ==
  ASSUME NEW x \in Activity \cup {Malformed}, NEW h \in Nat,
         ActivityFault(x, h) = {}
  PROVE  x \in CheckedActivity
  BY MalformedAssumption, NeitherFault DEF ActivityFault, Outside, Blame, Activity, Number, Identifier, CheckedActivity

(* So has a transfer, and it is the first of its pair.                     *)
LEMMA TransferPassed ==
  ASSUME NEW t \in Transfer \cup {Malformed}, NEW h \in Nat,
         TransferFault(t, h) = {}, PairFault(t) = {}
  PROVE  /\ t \in CheckedTransfer
         /\ <<t.from, t.to>> \notin pairs
         /\ t.from # t.to
  BY MalformedAssumption, NeitherFault DEF TransferFault, PairFault, Outside, Blame, Transfer, Number, Identifier, CheckedTransfer

(* A transfer that passes the pair checks joins two known activities.      *)
LEMMA PairPassed ==
  ASSUME NEW t, PairFault(t) = {}
  PROVE  /\ t.from \in Ids /\ t.to \in Ids /\ t.from # t.to
         /\ <<t.from, t.to>> \notin pairs
  BY NeitherFault DEF PairFault, Blame

(* The codes of the stages that read the document.                         *)
ReadCodes == Codes \ {"DEPENDENCY_CYCLE"}

(* A chain of checks blames one of the codes of its parts.                 *)
LEMMA EitherCode ==
  ASSUME NEW f \in SUBSET ReadCodes, NEW g \in SUBSET ReadCodes
  PROVE  (f ?? g) \in SUBSET ReadCodes
  BY DEF ??

(* The header check blames a reading code.                                 *)
LEMMA HeaderCodes == ASSUME NEW it PROVE HeaderFault(it) \in SUBSET ReadCodes
  BY EitherCode DEF Blame, HeaderFault, ReadCodes, Codes

(* So does the check of an activity.                                       *)
LEMMA ActivityCodes == ASSUME NEW x, NEW h PROVE ActivityFault(x, h) \in SUBSET ReadCodes
  BY EitherCode DEF Blame, ActivityFault, ReadCodes, Codes

(* So does the check of a transfer.                                        *)
LEMMA TransferCodes ==
  ASSUME NEW t, NEW h
  PROVE  TransferFault(t, h) \in SUBSET ReadCodes /\ PairFault(t) \in SUBSET ReadCodes
  BY EitherCode DEF Blame, TransferFault, PairFault, ReadCodes, Codes

-----------------------------------------------------------------------------
(* Reading the document.                                                   *)

Early == {"header", "activities", "transfers"}
Late  == {"ordering", "start", "relax"}

HeaderRead ==
    pc \notin {"header", "done"} =>
        /\ itinerary \in Itinerary
        /\ itinerary.horizon \in Nat
        /\ itinerary.activities \in Seq(Activity \cup {Malformed})
        /\ itinerary.transfers \in Seq(Transfer \cup {Malformed})

(* The types of the variables, as far as the steps keep them without help. *)
Typed ==
    /\ itinerary \in Itinerary \cup {Malformed}
    /\ pc \in Stages
    /\ k \in Nat \ {0} /\ j \in Nat \ {0}
    /\ Ids \subseteq Nat /\ IsFiniteSet(Ids)
    /\ activityById \in [Ids -> CheckedActivity]
    /\ pairs \subseteq Ids \X Ids
    /\ ready \subseteq Ids
    /\ order \in Seq(Ids)
    /\ DOMAIN earliestFinish \subseteq Ids
    /\ earliestFinish = [a \in DOMAIN earliestFinish |-> earliestFinish[a]]
    /\ result \in Codes \cup {"PENDING", "ACCEPTED"}
    /\ pc # "done" => result = "PENDING"
    /\ pc \in {"transfers"} \cup Late =>
          /\ successors \in [Ids -> SUBSET Ids]
          /\ incoming \in [Ids -> Seq(CheckedTransfer)]
          /\ indegree \in [Ids -> Int]
    /\ pc \in {"header", "activities"} => pairs = {}
    /\ pc = "header" => activityById = << >> /\ k = 1
    /\ pc \in Early => order = << >>
    /\ pc = "relax" => k <= Len(order)
    /\ pc \in Early \cup {"ordering"} => earliestFinish = << >>

(* The first n activities are the ones in activityById.                    *)
ActivitiesRead(n) ==
    /\ \A i \in 1..n : LET x == itinerary.activities[i] IN
          x.id \in Ids /\ activityById[x.id] = x
    /\ \A a \in Ids : \E i \in 1..n :
          /\ itinerary.activities[i] = activityById[a]
          /\ activityById[a].id = a

(* The first n transfers are the ones in the graph.                        *)
TransfersRead(n) ==
    /\ \A i \in 1..n : LET t == itinerary.transfers[i] IN
          /\ t \in CheckedTransfer
          /\ <<t.from, t.to>> \in pairs
          /\ \E m \in DOMAIN incoming[t.to] : incoming[t.to][m] = t
    /\ \A e \in pairs : \E i \in 1..n :
          e = <<itinerary.transfers[i].from, itinerary.transfers[i].to>>
    /\ \A p, a \in Ids : a \in successors[p] <=> <<p, a>> \in pairs
    /\ \A a \in Ids : \A m \in DOMAIN incoming[a] :
          /\ incoming[a][m].to = a
          /\ <<incoming[a][m].from, a>> \in pairs
          /\ \E i \in 1..n : incoming[a][m] = itinerary.transfers[i]

Reading ==
    /\ pc = "activities" => /\ k <= Len(itinerary.activities) + 1
                            /\ ActivitiesRead(k - 1)
    /\ pc \in {"transfers"} \cup Late => ActivitiesRead(Len(itinerary.activities))
    /\ pc = "transfers" => /\ k <= Len(itinerary.transfers) + 1
                           /\ TransfersRead(k - 1)
    /\ pc \in Late => TransfersRead(Len(itinerary.transfers))

ReadInv == Typed /\ HeaderRead /\ Reading

(* ReadInv holds at the start of the call.                                 *)
LEMMA ReadInit == Init => ReadInv
<1> SUFFICES ASSUME Init PROVE ReadInv  OBVIOUS
<1>1. /\ DOMAIN activityById = {} /\ DOMAIN earliestFinish = {}
      /\ activityById = [a \in {} |-> activityById[a]]
      /\ earliestFinish = [a \in {} |-> earliestFinish[a]]
  BY DEF Init
<1>2. Typed
  BY <1>1, InputsAssumption, FS_EmptySet DEF Init, Typed, Ids, Stages, Early, Late, CheckedActivity
<1> QED  BY <1>2 DEF Init, ReadInv, HeaderRead, Reading, Late

(* CheckHeader preserves ReadInv.                                          *)
LEMMA ReadHeader == ReadInv /\ CheckHeader => ReadInv'
<1> SUFFICES ASSUME ReadInv, CheckHeader PROVE ReadInv'  OBVIOUS
<1> USE DEF CheckHeader, graph, timing
<1>1. CASE HeaderFault(itinerary) # {}
  BY <1>1, HeaderCodes DEF ReadCodes, ReadInv, Typed, HeaderRead, Reading, Fail, Stages, Early, Late, Ids
<1>2. CASE HeaderFault(itinerary) = {}
  <2>1. HeaderRead'
    BY <1>2, HeaderPassed DEF ReadInv, Typed, HeaderRead
  <2>2. Typed'
    BY <1>2 DEF ReadInv, Typed, Stages, Early, Late, Ids
  <2>3. pc' = "activities" /\ k' = 1 /\ Ids' = {}
    BY <1>2 DEF ReadInv, Typed, Ids
  <2>4. Reading'
    BY <2>1, <2>3 DEF Reading, ActivitiesRead, HeaderRead, Late
  <2> QED  BY <2>1, <2>2, <2>4 DEF ReadInv
<1> QED  BY <1>1, <1>2

(* Reading one more activity preserves ReadInv.                            *)
LEMMA ReadActivity == ReadInv /\ CheckActivity => ReadInv'
<1> SUFFICES ASSUME ReadInv, CheckActivity PROVE ReadInv'  OBVIOUS
<1> DEFINE acts == itinerary.activities
           x == acts[k]
           fault == ActivityFault(x, itinerary.horizon) ??
                    Blame(x.id \in Ids, "DUPLICATE_ACTIVITY_ID")
<1>1. /\ x \in Activity \cup {Malformed} /\ itinerary.horizon \in Nat
      /\ acts \in Seq(Activity \cup {Malformed}) /\ k \in DOMAIN acts
      /\ Len(acts) \in Nat /\ k \in 1..Len(acts)
  BY DEF ReadInv, Typed, HeaderRead, CheckActivity
<1>2. CASE fault # {} /\ Fail(fault) /\ UNCHANGED <<k, activityById>>
  <2>1. fault \in SUBSET ReadCodes
    BY ActivityCodes, EitherCode DEF Blame, ReadCodes, Codes
  <2>2. result' \in Codes /\ pc' = "done"
    BY <1>2, <2>1 DEF Fail, ReadCodes
  <2>3. UNCHANGED <<itinerary, j, pairs, order, ready, earliestFinish, k, activityById>>
    BY <1>2 DEF CheckActivity, graph, timing
  <2> QED
    BY <2>2, <2>3 DEF ReadInv, Typed, HeaderRead, Reading, Stages, Early, Late, Ids
<1>3. CASE /\ fault = {}
           /\ activityById' = Put(activityById, x.id, x)
           /\ k' = k + 1
           /\ UNCHANGED <<pc, result>>
  <2>1. ActivityFault(x, itinerary.horizon) = {} /\ x.id \notin Ids
    BY <1>3, NeitherFault DEF Blame
  <2>2. x \in CheckedActivity /\ x.id \in Nat
    BY <1>1, <2>1, ActivityPassed DEF CheckedActivity
  <2>3. UNCHANGED <<itinerary, j, pairs, order, ready, earliestFinish, successors, incoming, indegree>>
        /\ pc = "activities"
    BY DEF CheckActivity, graph, timing
  <2>4. /\ Ids' = Ids \cup {x.id}
        /\ activityById'[x.id] = x
        /\ \A a \in Ids : activityById'[a] = activityById[a]
    BY <1>3, <2>1 DEF Ids, Put
  <2>5. activityById' \in [Ids' -> CheckedActivity]
    BY <1>3, <2>2, <2>4 DEF Put, ReadInv, Typed, Ids
  <2>6. IsFiniteSet(Ids')
    <3>1. IsFiniteSet(Ids)  BY DEF ReadInv, Typed
    <3> QED  BY <2>4, <3>1, FS_AddElement
  <2>7. Typed'
    BY <1>3, <2>2, <2>3, <2>4, <2>5, <2>6 DEF ReadInv, Typed, Stages, Early, Late
  <2>8. HeaderRead'
    BY <1>3, <2>3 DEF ReadInv, HeaderRead
  <2>9. ActivitiesRead(k - 1) /\ k \in Nat \ {0}
    BY <2>3 DEF ReadInv, Reading, Typed
  <2>10. k' - 1 = k
    BY <1>3, <2>9
  <2>11. ActivitiesRead(k - 1)'
    <3>1. ASSUME NEW i \in 1..k
          PROVE  acts[i].id \in Ids' /\ activityById'[acts[i].id] = acts[i]
      <4>1. CASE i = k  BY <4>1, <2>4
      <4>2. CASE i \in 1..(k - 1)  BY <4>2, <2>4, <2>9 DEF ActivitiesRead
      <4> QED  BY <4>1, <4>2, <2>9
    <3>2. ASSUME NEW a \in Ids'
          PROVE  \E i \in 1..k : acts[i] = activityById'[a] /\ activityById'[a].id = a
      <4>1. CASE a = x.id  BY <4>1, <2>4, <2>9
      <4>2. CASE a \in Ids
        <5>1. PICK i \in 1..(k - 1) : acts[i] = activityById[a] /\ activityById[a].id = a
          BY <4>2, <2>9 DEF ActivitiesRead
        <5> QED  BY <5>1, <4>2, <2>4, <2>9
      <4> QED  BY <4>1, <4>2, <2>4
    <3> QED  BY <3>1, <3>2, <2>3, <2>10 DEF ActivitiesRead
  <2>12. Reading'
    BY <1>1, <1>3, <2>3, <2>9, <2>11 DEF Reading, Late
  <2> QED  BY <2>7, <2>8, <2>12 DEF ReadInv
<1> QED  BY <1>2, <1>3 DEF CheckActivity

(* Building the empty graph preserves ReadInv.                             *)
LEMMA ReadStartTransfers == ReadInv /\ StartTransfers => ReadInv'
<1> SUFFICES ASSUME ReadInv, StartTransfers PROVE ReadInv'  OBVIOUS
<1>1. /\ pc = "activities" /\ pc' = "transfers" /\ k' = 1
      /\ UNCHANGED <<itinerary, j, activityById, pairs, ready, order, earliestFinish, result>>
      /\ Ids' = Ids
      /\ successors' = [a \in Ids |-> {}]
      /\ incoming'   = [a \in Ids |-> << >>]
      /\ indegree'   = [a \in Ids |-> 0]
  BY DEF StartTransfers, timing, Ids
<1>2. HeaderRead'
  BY <1>1 DEF ReadInv, HeaderRead
<1>3. Typed'
  BY <1>1 DEF ReadInv, Typed, Stages, Early, Late
<1>4. ActivitiesRead(Len(itinerary.activities))'
  <2>1. k - 1 = Len(itinerary.activities)
    BY <1>1 DEF StartTransfers, ReadInv, Reading, HeaderRead, Typed
  <2> QED  BY <1>1, <2>1 DEF ReadInv, Reading, ActivitiesRead
<1>5. TransfersRead(0)'
  BY <1>1 DEF TransfersRead, ReadInv, Typed
<1>6. Reading'
  BY <1>1, <1>2, <1>4, <1>5 DEF Reading, Late, HeaderRead
<1> QED  BY <1>2, <1>3, <1>6 DEF ReadInv

(* Reading one more transfer preserves ReadInv.                            *)
LEMMA ReadTransfer == ReadInv /\ CheckTransfer => ReadInv'
<1> SUFFICES ASSUME ReadInv, CheckTransfer PROVE ReadInv'  OBVIOUS
<1> DEFINE trs == itinerary.transfers
           t == trs[k]
           fault == TransferFault(t, itinerary.horizon) ?? PairFault(t)
<1>1. /\ t \in Transfer \cup {Malformed} /\ itinerary.horizon \in Nat
      /\ trs \in Seq(Transfer \cup {Malformed})
      /\ Len(trs) \in Nat /\ k \in 1..Len(trs) /\ pc = "transfers"
  BY DEF ReadInv, Typed, HeaderRead, CheckTransfer
<1>2. CASE fault # {} /\ Fail(fault) /\ UNCHANGED <<k, pairs, graph>>
  <2>1. fault \in SUBSET ReadCodes
    BY TransferCodes, EitherCode
  <2>2. result' \in Codes /\ pc' = "done"
    BY <1>2, <2>1 DEF Fail, ReadCodes
  <2>3. UNCHANGED <<itinerary, j, pairs, order, ready, earliestFinish, k, activityById>>
    BY <1>2 DEF CheckTransfer, timing
  <2> QED
    BY <2>2, <2>3 DEF ReadInv, Typed, HeaderRead, Reading, Stages, Early, Late, Ids
<1>3. CASE /\ fault = {}
           /\ pairs'      = pairs \cup {<<t.from, t.to>>}
           /\ successors' = [successors EXCEPT ![t.from] = @ \cup {t.to}]
           /\ incoming'   = [incoming EXCEPT ![t.to] = Append(@, t)]
           /\ indegree'   = [indegree EXCEPT ![t.to] = @ + 1]
           /\ k' = k + 1
           /\ UNCHANGED <<pc, result>>
  <2>1. TransferFault(t, itinerary.horizon) = {} /\ PairFault(t) = {}
    BY <1>3, NeitherFault
  <2>2. /\ t \in CheckedTransfer /\ <<t.from, t.to>> \notin pairs
        /\ t.from \in Ids /\ t.to \in Ids
    BY <1>1, <2>1, TransferPassed DEF CheckedTransfer
  <2>3. UNCHANGED <<itinerary, j, activityById, order, ready, earliestFinish>> /\ Ids' = Ids
    BY DEF CheckTransfer, timing, Ids
  <2>4. /\ successors \in [Ids -> SUBSET Ids]
        /\ incoming \in [Ids -> Seq(CheckedTransfer)]
        /\ indegree \in [Ids -> Int]
        /\ pairs \subseteq Ids \X Ids
    BY <1>1 DEF ReadInv, Typed
  <2>5. /\ successors' \in [Ids -> SUBSET Ids]
        /\ incoming' \in [Ids -> Seq(CheckedTransfer)]
        /\ indegree' \in [Ids -> Int]
        /\ pairs' \subseteq Ids \X Ids
    BY <1>3, <2>2, <2>4
  <2>6. CheckedTransfer' = CheckedTransfer
    BY <2>3 DEF CheckedTransfer
  <2>7. Typed'
    <3>1. (/\ successors \in [Ids -> SUBSET Ids]
           /\ incoming \in [Ids -> Seq(CheckedTransfer)]
           /\ indegree \in [Ids -> Int])'
      BY <2>3, <2>5, <2>6
    <3>2. pc' = "transfers" /\ result' = result /\ k' \in Nat \ {0} /\ pairs' \subseteq Ids \X Ids
      <4>1. k \in Nat \ {0}  BY DEF ReadInv, Typed
      <4>2. k' = k + 1 /\ pc' = pc /\ result' = result  BY <1>3
      <4> QED  BY <4>1, <4>2, <1>1, <2>5
    <3> QED
      BY <1>1, <2>3, <3>1, <3>2 DEF ReadInv, Typed, Stages, Early, Late
  <2>8. HeaderRead'
    BY <1>3, <2>3 DEF ReadInv, HeaderRead
  <2>9. TransfersRead(k - 1) /\ k \in Nat \ {0}
    BY <1>1 DEF ReadInv, Reading, Typed
  <2>10. /\ incoming'[t.to] = Append(incoming[t.to], t)
         /\ \A a \in Ids : a # t.to => incoming'[a] = incoming[a]
         /\ incoming[t.to] \in Seq(CheckedTransfer)
         /\ Len(incoming[t.to]) \in Nat
    <3>1. incoming[t.to] \in Seq(CheckedTransfer)  BY <2>2, <2>4
    <3>2. Len(incoming[t.to]) \in Nat  BY <3>1
    <3> QED  BY <1>3, <2>2, <2>4, <3>1, <3>2
  <2>11. /\ DOMAIN incoming[t.to] = 1..Len(incoming[t.to])
         /\ DOMAIN incoming'[t.to] = 1..(Len(incoming[t.to]) + 1)
         /\ incoming'[t.to][Len(incoming[t.to]) + 1] = t
         /\ \A m \in DOMAIN incoming[t.to] : incoming'[t.to][m] = incoming[t.to][m]
    <3>1. PICK s \in Seq(CheckedTransfer), c \in CheckedTransfer : s = incoming[t.to] /\ c = t
      BY <2>2, <2>10
    <3>2. /\ DOMAIN s = 1..Len(s) /\ DOMAIN Append(s, c) = 1..(Len(s) + 1)
          /\ Append(s, c)[Len(s) + 1] = c
          /\ \A m \in 1..Len(s) : Append(s, c)[m] = s[m]
      OBVIOUS
    <3> QED  BY <3>1, <3>2, <2>10
  <2>12. trs[k] = t  OBVIOUS
  <2> HIDE DEF t, fault
  <2>13. TransfersRead(k - 1)'
    <3>1. ASSUME NEW i \in 1..k
          PROVE  /\ trs[i] \in CheckedTransfer
                 /\ <<trs[i].from, trs[i].to>> \in pairs'
                 /\ \E m \in DOMAIN incoming'[trs[i].to] : incoming'[trs[i].to][m] = trs[i]
      <4>1. CASE i = k
        <5>1. trs[i] = t  BY <4>1, <2>12
        <5>2. \E m \in DOMAIN incoming'[t.to] : incoming'[t.to][m] = t  BY <2>11, <2>10
        <5>3. <<t.from, t.to>> \in pairs'  BY <1>3
        <5> QED  BY <5>1, <5>2, <5>3, <2>2
      <4>2. CASE i \in 1..(k - 1)
        <5>1. /\ trs[i] \in CheckedTransfer /\ trs[i].to \in Ids
              /\ <<trs[i].from, trs[i].to>> \in pairs
          BY <4>2, <2>9 DEF TransfersRead, CheckedTransfer
        <5>2. PICK m \in DOMAIN incoming[trs[i].to] : incoming[trs[i].to][m] = trs[i]
          BY <4>2, <2>9 DEF TransfersRead
        <5>3. /\ m \in DOMAIN incoming'[trs[i].to]
              /\ incoming'[trs[i].to][m] = trs[i]
          <6>1. CASE trs[i].to = t.to  BY <6>1, <5>2, <2>10, <2>11
          <6>2. CASE trs[i].to # t.to  BY <6>2, <5>1, <5>2, <2>10
          <6> QED  BY <6>1, <6>2
        <5> QED  BY <5>1, <5>3, <1>3
      <4> QED  BY <4>1, <4>2, <2>9
    <3>2. ASSUME NEW e \in pairs'
          PROVE  \E i \in 1..k : e = <<trs[i].from, trs[i].to>>
      <4>1. CASE e = <<t.from, t.to>>  BY <4>1, <2>9, <2>12
      <4>2. CASE e \in pairs
        <5>1. PICK i \in 1..(k - 1) : e = <<trs[i].from, trs[i].to>>
          BY <4>2, <2>9 DEF TransfersRead
        <5> QED  BY <5>1, <2>9
      <4> QED  BY <4>1, <4>2, <1>3
    <3>3. ASSUME NEW p \in Ids, NEW a \in Ids
          PROVE  a \in successors'[p] <=> <<p, a>> \in pairs'
      <4>1. a \in successors[p] <=> <<p, a>> \in pairs
        BY <2>9 DEF TransfersRead
      <4>2. CASE p = t.from  BY <4>1, <4>2, <1>3, <2>2, <2>4
      <4>3. CASE p # t.from  BY <4>1, <4>3, <1>3, <2>2, <2>4
      <4> QED  BY <4>2, <4>3
    <3>4. ASSUME NEW a \in Ids, NEW m \in DOMAIN incoming'[a]
          PROVE  /\ incoming'[a][m].to = a
                 /\ <<incoming'[a][m].from, a>> \in pairs'
                 /\ \E i \in 1..k : incoming'[a][m] = trs[i]
      <4>1. CASE a = t.to /\ m = Len(incoming[t.to]) + 1
        BY <4>1, <1>3, <2>9, <2>11, <2>12
      <4>2. CASE m \in DOMAIN incoming[a] /\ incoming'[a][m] = incoming[a][m]
        <5>1. /\ incoming[a][m].to = a
              /\ <<incoming[a][m].from, a>> \in pairs
              /\ \E i \in 1..(k - 1) : incoming[a][m] = trs[i]
          BY <4>2, <2>9 DEF TransfersRead
        <5> QED  BY <4>2, <5>1, <1>3, <2>9
      <4>3. CASE a = t.to
        <5>1. m \in 1..(Len(incoming[t.to]) + 1)  BY <4>3, <2>11
        <5>2. CASE m = Len(incoming[t.to]) + 1  BY <5>2, <4>1, <4>3
        <5>3. CASE m \in DOMAIN incoming[t.to]
          <6>1. incoming'[a][m] = incoming[a][m]  BY <5>3, <4>3, <2>11
          <6>2. m \in DOMAIN incoming[a]  BY <5>3, <4>3
          <6> QED  BY <6>1, <6>2, <4>2
        <5> QED  BY <5>1, <5>2, <5>3, <2>10, <2>11
      <4>4. CASE a # t.to  BY <4>2, <4>4, <2>10
      <4> QED  BY <4>3, <4>4
    <3>5. (k - 1)' = k  BY <1>3, <2>9
    <3> QED  BY <3>1, <3>2, <3>3, <3>4, <3>5, <2>3, <2>6 DEF TransfersRead
  <2>14. k' - 1 = k /\ k' <= Len(trs) + 1
    BY <1>1, <1>3, <2>9
  <2>15. ActivitiesRead(Len(itinerary.activities))'
    BY <1>1, <2>3 DEF ReadInv, Reading, ActivitiesRead
  <2>16. Reading'
    BY <1>1, <1>3, <2>3, <2>13, <2>14, <2>15 DEF Reading, Late
  <2> QED  BY <2>7, <2>8, <2>16 DEF ReadInv
<1> QED  BY <1>2, <1>3 DEF CheckTransfer

(* What is read stays read while only the later variables change.          *)
LEMMA ReadLate ==
  ASSUME ReadInv, pc \in {"transfers"} \cup Late,
         pc' \in Late \cup {"done"}, pc = "transfers" => k > Len(itinerary.transfers),
         UNCHANGED <<itinerary, activityById, pairs, successors, incoming>>,
         Typed'
  PROVE  ReadInv'
<1>1. Ids' = Ids  BY DEF Ids
<1>2. HeaderRead /\ HeaderRead'
  BY DEF ReadInv, HeaderRead, Late
<1>3. pc \in {"transfers"} => k - 1 = Len(itinerary.transfers)
  BY <1>2 DEF HeaderRead, ReadInv, Reading, Typed, Late
<1>4. ActivitiesRead(Len(itinerary.activities)) /\ TransfersRead(Len(itinerary.transfers))
  BY <1>3 DEF ReadInv, Reading, Late
<1>5. /\ ActivitiesRead(Len(itinerary.activities))'
      /\ TransfersRead(Len(itinerary.transfers))'
  <2>1. CheckedTransfer' = CheckedTransfer  BY <1>1 DEF CheckedTransfer
  <2>2. ActivitiesRead(Len(itinerary.activities))'  BY <1>1, <1>4 DEF ActivitiesRead
  <2>3. TransfersRead(Len(itinerary.transfers))'  BY <1>1, <1>4, <2>1 DEF TransfersRead
  <2> QED  BY <2>2, <2>3
<1>6. Reading'
  BY <1>5 DEF Reading, Late
<1> QED  BY <1>2, <1>6 DEF ReadInv

(* StartOrdering preserves ReadInv.                                        *)
LEMMA ReadStartOrdering == ReadInv /\ StartOrdering => ReadInv'
<1> SUFFICES ASSUME ReadInv, StartOrdering PROVE ReadInv'  OBVIOUS
<1>1. Ids' = Ids /\ CheckedTransfer' = CheckedTransfer
  BY DEF StartOrdering, Ids, CheckedTransfer
<1>2. Typed'
  BY <1>1 DEF StartOrdering, graph, timing, ReadInv, Typed, Stages, Early, Late
<1> QED  BY <1>2, ReadLate DEF StartOrdering, graph, timing, Late

(* A nonempty set of naturals has a least element: among its finite        *)
(* initial parts one is minimal for inclusion.                             *)
LEMMA LeastIsLeast ==
  ASSUME NEW S \in SUBSET Nat, S # {}
  PROVE  Least(S) \in S /\ \A y \in S : Least(S) <= y
<1> DEFINE upTo(n) == {y \in S : y <= n}
           starts  == {upTo(n) : n \in S}
<1>1. starts \subseteq FiniteSubsetsOf(S)
  <2> SUFFICES ASSUME NEW n \in S PROVE upTo(n) \in FiniteSubsetsOf(S)  OBVIOUS
  <2>1. IsFiniteSet(upTo(n))
    BY FS_BoundedSetOfNaturals
  <2> QED  BY <2>1 DEF FiniteSubsetsOf
<1>2. PICK T \in starts : \A U \in starts : ~(<<U, T>> \in StrictSubsetOrdering(S))
  <2>1. starts # {}  OBVIOUS
  <2>2. IsWellFoundedOn(StrictSubsetOrdering(S), FiniteSubsetsOf(S))
    BY FS_StrictSubsetOrderingWellFounded
  <2> HIDE DEF starts
  <2> QED  BY <1>1, <2>1, <2>2, WFMin
<1>3. PICK x \in S : T = upTo(x)  OBVIOUS
<1>4. ASSUME NEW y \in S, y < x PROVE FALSE
  <2>1. x \in Nat /\ y \in Nat /\ \A z \in S : z \in Nat  OBVIOUS
  <2>2. \A z \in S : z <= y => z <= x  BY <1>4, <2>1
  <2>3. upTo(y) \subseteq upTo(x) /\ x \in upTo(x) /\ x \notin upTo(y)
    <3>1. upTo(y) \subseteq upTo(x)  BY <2>2
    <3>2. x \in upTo(x)  BY <2>1
    <3>3. ~(x <= y)  BY <1>4, <2>1
    <3> QED  BY <3>1, <3>2, <3>3
  <2>4. <<upTo(y), T>> \in StrictSubsetOrdering(S)
    BY <2>3, <1>3 DEF StrictSubsetOrdering
  <2> QED  BY <1>2, <2>4
<1>5. \A y \in S : x <= y  BY <1>4
<1> QED  BY <1>5 DEF Least

(* PopReady preserves ReadInv.                                             *)
LEMMA ReadPop == ReadInv /\ PopReady => ReadInv'
<1> SUFFICES ASSUME ReadInv, PopReady PROVE ReadInv'  OBVIOUS
<1>1. Ids' = Ids /\ CheckedTransfer' = CheckedTransfer
  BY DEF PopReady, Ids, CheckedTransfer
<1>2. Least(ready) \in Ids
  BY LeastIsLeast DEF PopReady, ReadInv, Typed
<1>3. order' \in Seq(Ids)
  BY <1>2 DEF PopReady, ReadInv, Typed
<1>4. indegree' \in [Ids -> Int] /\ ready' \subseteq Ids
  <2>1. /\ successors \in [Ids -> SUBSET Ids] /\ indegree \in [Ids -> Int]
        /\ ready \subseteq Ids
    BY DEF PopReady, ReadInv, Typed, Late
  <2>2. indegree' = [s \in Ids |-> IF s \in successors[Least(ready)]
                                   THEN indegree[s] - 1 ELSE indegree[s]]
        /\ ready' = (ready \ {Least(ready)}) \cup Released(Least(ready))
    BY DEF PopReady
  <2>3. Released(Least(ready)) \subseteq Ids
    BY <1>2, <2>1 DEF Released
  <2> QED  BY <2>1, <2>2, <2>3
<1>5. Typed'
  BY <1>1, <1>3, <1>4 DEF PopReady, timing, ReadInv, Typed, Stages, Early, Late
<1> QED  BY <1>5, ReadLate DEF PopReady, Late

(* FinishOrdering preserves ReadInv.                                       *)
LEMMA ReadFinishOrdering == ReadInv /\ FinishOrdering => ReadInv'
<1> SUFFICES ASSUME ReadInv, FinishOrdering PROVE ReadInv'  OBVIOUS
<1>1. Ids' = Ids /\ CheckedTransfer' = CheckedTransfer
  BY DEF FinishOrdering, Ids, CheckedTransfer
<1>2. /\ pc' \in {"start", "done"} /\ (pc' # "done" => result' = "PENDING")
      /\ result' \in Codes \cup {"PENDING", "ACCEPTED"}
      /\ k' \in Nat \ {0}
  BY DEF FinishOrdering, Fail, OrderingFault, Blame, Codes, ReadInv, Typed
<1>3. Typed'
  BY <1>1, <1>2 DEF FinishOrdering, graph, timing, ReadInv, Typed, Stages, Early, Late
<1> QED  BY <1>2, <1>3, ReadLate DEF FinishOrdering, graph, timing, Late

(* StartActivity preserves ReadInv.                                        *)
LEMMA ReadStartActivity == ReadInv /\ StartActivity => ReadInv'
<1> SUFFICES ASSUME ReadInv, StartActivity PROVE ReadInv'  OBVIOUS
<1>1. Ids' = Ids /\ CheckedTransfer' = CheckedTransfer
  BY DEF StartActivity, Ids, CheckedTransfer
<1>2. Typed'
  BY <1>1 DEF StartActivity, graph, ReadInv, Typed, Stages, Early, Late
<1> QED  BY <1>2, ReadLate DEF StartActivity, graph, Late

(* RelaxTransfer preserves ReadInv.                                        *)
LEMMA ReadRelax == ReadInv /\ RelaxTransfer => ReadInv'
<1> SUFFICES ASSUME ReadInv, RelaxTransfer PROVE ReadInv'  OBVIOUS
<1>1. Ids' = Ids /\ CheckedTransfer' = CheckedTransfer
  BY DEF RelaxTransfer, Ids, CheckedTransfer
<1>2. Typed'
  <2>1. UNCHANGED <<itinerary, pc, k, activityById, pairs, graph, ready, order,
                    earliestFinish, result>>
        /\ j' = j + 1
    BY DEF RelaxTransfer
  <2>2. j' \in Nat \ {0}  BY <2>1 DEF ReadInv, Typed
  <2> QED
    BY <1>1, <2>1, <2>2 DEF graph, ReadInv, Typed, Stages, Early, Late
<1> QED  BY <1>2, ReadLate DEF RelaxTransfer, graph, Late

(* Return preserves ReadInv.                                               *)
LEMMA ReadReturn == ReadInv /\ Return => ReadInv'
<1> SUFFICES ASSUME ReadInv, Return PROVE ReadInv'  OBVIOUS
<1>1. Ids' = Ids /\ CheckedTransfer' = CheckedTransfer
  BY DEF Return, Ids, CheckedTransfer
<1>2. Typed'
  BY <1>1 DEF Return, graph, timing, ReadInv, Typed, Stages, Early, Late
<1> QED  BY <1>2, ReadLate DEF Return, graph, timing, Late

(* FinishActivity preserves ReadInv.                                       *)
LEMMA ReadFinishActivity == ReadInv /\ FinishActivity => ReadInv'
<1> SUFFICES ASSUME ReadInv, FinishActivity PROVE ReadInv'  OBVIOUS
<1> DEFINE x == activityById[order[k]]
           fault == DeadlineFault(x, FinishOf(x))
<1>1. Ids' = Ids /\ CheckedTransfer' = CheckedTransfer
  BY DEF FinishActivity, Ids, CheckedTransfer
<1>2. order[k] \in Ids /\ pc = "relax"
  BY DEF FinishActivity, ReadInv, Typed
<1>3. /\ DOMAIN earliestFinish' \subseteq Ids
      /\ earliestFinish' = [a \in DOMAIN earliestFinish' |-> earliestFinish'[a]]
  BY <1>2 DEF FinishActivity, Put, ReadInv, Typed
<1>4. /\ pc' \in {"start", "done"} /\ (pc' # "done" => result' = "PENDING")
      /\ result' \in Codes \cup {"PENDING", "ACCEPTED"}
      /\ k' \in Nat \ {0}
  BY DEF FinishActivity, Fail, DeadlineFault, Blame, Codes, ReadInv, Typed
<1>5. Typed'
  BY <1>1, <1>2, <1>3, <1>4 DEF FinishActivity, graph, ReadInv, Typed, Stages, Early, Late
<1> QED  BY <1>2, <1>4, <1>5, ReadLate DEF FinishActivity, graph, Late

(* So does a stuttering step.                                              *)
LEMMA ReadStutter == ReadInv /\ UNCHANGED vars => ReadInv'
<1> SUFFICES ASSUME ReadInv, UNCHANGED vars PROVE ReadInv'  OBVIOUS
<1>1. UNCHANGED <<itinerary, pc, k, j, activityById, pairs, successors, incoming,
                  indegree, ready, order, earliestFinish, result>>
      /\ Ids' = Ids /\ CheckedTransfer' = CheckedTransfer
  BY DEF vars, Ids, CheckedTransfer
<1>2. Typed'  BY <1>1 DEF ReadInv, Typed, Early, Late
<1>3. HeaderRead'  BY <1>1 DEF ReadInv, HeaderRead
<1>4. \A n : ActivitiesRead(n)' <=> ActivitiesRead(n)  BY <1>1 DEF ActivitiesRead
<1>5. \A n : TransfersRead(n)' <=> TransfersRead(n)  BY <1>1 DEF TransfersRead
<1>6. Reading'  BY <1>1, <1>4, <1>5 DEF ReadInv, Reading
<1> QED  BY <1>2, <1>3, <1>6 DEF ReadInv

(* Every step preserves ReadInv.                                           *)
LEMMA ReadStep == ReadInv /\ [Next]_vars => ReadInv'
  BY ReadHeader, ReadActivity, ReadStartTransfers, ReadTransfer, ReadStartOrdering,
     ReadPop, ReadFinishOrdering, ReadStartActivity, ReadRelax, ReadFinishActivity,
     ReadReturn, ReadStutter DEF Next

-----------------------------------------------------------------------------
(* The topological order.                                                  *)

OrderClosed ==
    \A i \in DOMAIN order : \A p \in Ids :
        order[i] \in successors[p] => \E m \in 1..(i - 1) : order[m] = p

Ordering ==
    /\ FrontierIsExact
    /\ pc \in Late => OrderClosed /\ IsInjective(order)
    /\ pc \in {"start", "relax"} => Len(order) = Cardinality(Ids)

(* The pending predecessors of an activity are finitely many.              *)
LEMMA PendingFinite ==
  ASSUME ReadInv, NEW a
  PROVE  /\ IsFiniteSet(PendingOf(a))
         /\ Cardinality(PendingOf(a)) \in Nat
         /\ Cardinality(PendingOf(a)) = 0 <=> PendingOf(a) = {}
<1>1. PendingOf(a) \in SUBSET Ids  BY DEF PendingOf
<1>2. IsFiniteSet(Ids)  BY DEF ReadInv, Typed
<1>3. IsFiniteSet(PendingOf(a))  BY <1>1, <1>2, FS_Subset
<1> QED  BY <1>3, FS_EmptySet, FS_CardinalityType

(* The empty graph has no pending predecessors.                            *)
LEMMA OrderStartTransfers ==
  ReadInv /\ Ordering /\ StartTransfers => Ordering'
<1> SUFFICES ASSUME ReadInv, Ordering, StartTransfers PROVE Ordering'  OBVIOUS
<1>1. Ids' = Ids /\ pc' = "transfers"
  BY DEF StartTransfers, Ids
<1>2. ASSUME NEW a \in Ids PROVE indegree'[a] = Cardinality(PendingOf(a)')
  <2>1. PendingOf(a)' = {}
    BY <1>1 DEF StartTransfers, PendingOf
  <2> QED  BY <2>1, FS_EmptySet DEF StartTransfers
<1> QED  BY <1>1, <1>2 DEF Ordering, FrontierIsExact, Late

(* A new transfer adds one pending predecessor, because its pair is new.   *)
LEMMA OrderTransfer == ReadInv /\ ReadInv' /\ Ordering /\ CheckTransfer => Ordering'
<1> SUFFICES ASSUME ReadInv, ReadInv', Ordering, CheckTransfer, pc' # "done"
             PROVE  Ordering'
  BY DEF Ordering, FrontierIsExact, Late
<1> DEFINE t == itinerary.transfers[k]
<1>1. /\ Ids' = Ids /\ pc = "transfers" /\ pc' = "transfers"
      /\ order = << >> /\ order' = << >>
      /\ successors' = [successors EXCEPT ![t.from] = @ \cup {t.to}]
      /\ indegree'   = [indegree EXCEPT ![t.to] = @ + 1]
      /\ PairFault(t) = {}
  <2>1. /\ pc = "transfers" /\ order' = order /\ activityById' = activityById
        /\ TransferFault(t, itinerary.horizon) ?? PairFault(t) = {}
        /\ successors' = [successors EXCEPT ![t.from] = @ \cup {t.to}]
        /\ indegree'   = [indegree EXCEPT ![t.to] = @ + 1]
        /\ pc' = pc
    BY DEF CheckTransfer, Fail
  <2>2. order = << >>  BY <2>1 DEF ReadInv, Typed, Early
  <2> QED  BY <2>1, <2>2, NeitherFault DEF Ids
<1>2. /\ t.from \in Ids /\ t.to \in Ids /\ <<t.from, t.to>> \notin pairs
  BY <1>1, PairPassed
<1>3. t.to \notin successors[t.from]
  BY <1>1, <1>2 DEF ReadInv, Reading, TransfersRead
<1>4. successors \in [Ids -> SUBSET Ids] /\ indegree \in [Ids -> Int]
  BY <1>1 DEF ReadInv, Typed
<1>5. ASSUME NEW a \in Ids PROVE indegree'[a] = Cardinality(PendingOf(a)')
  <2>1. indegree[a] = Cardinality(PendingOf(a))
    BY <1>1 DEF Ordering, FrontierIsExact
  <2>2. CASE a = t.to
    <3>1. PendingOf(a)' = PendingOf(a) \cup {t.from} /\ t.from \notin PendingOf(a)
      BY <1>1, <1>2, <1>3, <1>4, <2>2 DEF PendingOf, Range
    <3>2. Cardinality(PendingOf(a) \cup {t.from}) = Cardinality(PendingOf(a)) + 1
      BY <3>1, PendingFinite, FS_AddElement
    <3> QED  BY <1>1, <1>4, <2>1, <2>2, <3>1, <3>2
  <2>3. CASE a # t.to
    <3>1. PendingOf(a)' = PendingOf(a)
      BY <1>1, <1>2, <1>4, <2>3 DEF PendingOf
    <3> QED  BY <1>1, <1>4, <2>1, <2>3, <3>1
  <2> QED  BY <2>2, <2>3
<1> QED  BY <1>1, <1>5 DEF Ordering, FrontierIsExact, Late

(* The first heap holds the activities that wait for nobody.               *)
LEMMA OrderStart == ReadInv /\ Ordering /\ StartOrdering => Ordering'
<1> SUFFICES ASSUME ReadInv, Ordering, StartOrdering PROVE Ordering'  OBVIOUS
<1>1. /\ pc = "transfers" /\ pc' = "ordering"
      /\ UNCHANGED <<activityById, successors, indegree, order>> /\ Ids' = Ids
      /\ ready' = {a \in Ids : indegree[a] = 0}
      /\ order = << >>
  BY DEF StartOrdering, graph, Ids, ReadInv, Typed, Early
<1>2. \A a \in Ids : indegree[a] = Cardinality(PendingOf(a))
  BY <1>1 DEF Ordering, FrontierIsExact
<1>3. \A a : PendingOf(a)' = PendingOf(a)
  BY <1>1 DEF PendingOf
<1>4. ready' = {a \in Ids \ Range(order) : PendingOf(a) = {}}
  <2>1. Range(order) = {}  BY <1>1 DEF Range
  <2> QED  BY <1>1, <1>2, <2>1, PendingFinite
<1>5. FrontierIsExact'
  BY <1>1, <1>2, <1>3, <1>4 DEF FrontierIsExact
<1>6. OrderClosed' /\ IsInjective(order')
  BY <1>1 DEF OrderClosed, IsInjective
<1> QED  BY <1>1, <1>5, <1>6 DEF Ordering, Late

(* Popping the heap keeps the counts, the heap and the order right.        *)
LEMMA OrderPop == ReadInv /\ ReadInv' /\ Ordering /\ PopReady => Ordering'
<1> SUFFICES ASSUME ReadInv, ReadInv', Ordering, PopReady PROVE Ordering'  OBVIOUS
<1> DEFINE a == Least(ready)
<1>1. /\ pc = "ordering" /\ pc' = "ordering" /\ Ids' = Ids
      /\ UNCHANGED <<activityById, successors>>
      /\ order' = Append(order, a)
      /\ indegree' = [s \in Ids |-> IF s \in successors[a] THEN indegree[s] - 1
                                                           ELSE indegree[s]]
      /\ ready' = (ready \ {a}) \cup Released(a)
  BY DEF PopReady, Ids
<1>2. /\ successors \in [Ids -> SUBSET Ids] /\ indegree \in [Ids -> Int]
      /\ ready \subseteq Ids /\ Ids \subseteq Nat /\ order \in Seq(Ids)
  BY <1>1 DEF ReadInv, Typed, Late
<1>3. /\ \A s \in Ids : indegree[s] = Cardinality(PendingOf(s))
      /\ ready = {s \in Ids \ Range(order) : PendingOf(s) = {}}
      /\ OrderClosed /\ IsInjective(order)
  BY <1>1 DEF Ordering, FrontierIsExact, Late
<1>4. a \in ready
  BY <1>2, LeastIsLeast DEF PopReady
<1>5. a \in Ids /\ a \notin Range(order) /\ PendingOf(a) = {}
  BY <1>3, <1>4
<1> HIDE DEF a
<1>6. /\ Len(order) \in Nat /\ DOMAIN order = 1..Len(order)
      /\ DOMAIN order' = 1..(Len(order) + 1)
      /\ order'[Len(order) + 1] = a
      /\ \A i \in 1..Len(order) : order'[i] = order[i]
  BY <1>1, <1>2, <1>5
<1>7. Range(order') = Range(order) \cup {a}
  <2>1. a \in Range(order')  BY <1>6 DEF Range
  <2>2. Range(order) \subseteq Range(order')  BY <1>6 DEF Range
  <2>3. ASSUME NEW i \in DOMAIN order' PROVE order'[i] \in Range(order) \cup {a}
    BY <1>6 DEF Range
  <2> QED  BY <2>1, <2>2, <2>3 DEF Range
<1>8. \A s : PendingOf(s)' = PendingOf(s) \ {a}
  BY <1>1, <1>7 DEF PendingOf
<1>9. ASSUME NEW s \in Ids PROVE indegree'[s] = Cardinality(PendingOf(s)')
  <2>1. CASE s \in successors[a]
    <3>1. a \in PendingOf(s)  BY <2>1, <1>5 DEF PendingOf
    <3>2. Cardinality(PendingOf(s) \ {a}) = Cardinality(PendingOf(s)) - 1
      BY <3>1, PendingFinite, FS_RemoveElement
    <3> QED  BY <1>1, <1>3, <1>8, <2>1, <3>2
  <2>2. CASE s \notin successors[a]
    <3>1. PendingOf(s) \ {a} = PendingOf(s)  BY <2>2 DEF PendingOf
    <3> QED  BY <1>1, <1>3, <1>8, <2>2, <3>1
  <2> QED  BY <2>1, <2>2
<1>10. ready' = {s \in Ids \ Range(order') : PendingOf(s)' = {}}
  <2>1. ASSUME NEW s \in Ids
        PROVE  s \in ready' <=> s \notin Range(order') /\ PendingOf(s)' = {}
    <3>1. CASE s = a
      <4>1. s \notin successors[a]  BY <3>1, <1>5 DEF PendingOf
      <4> QED  BY <3>1, <4>1, <1>1, <1>7 DEF Released
    <3>2. CASE s # a /\ s \notin successors[a]
      <4>1. PendingOf(s) \ {a} = PendingOf(s)  BY <3>2 DEF PendingOf
      <4>2. s \in ready' <=> s \in ready  BY <3>2, <1>1 DEF Released
      <4> QED  BY <3>2, <4>1, <4>2, <1>3, <1>7, <1>8
    <3>3. CASE s # a /\ s \in successors[a]
      <4>1. a \in PendingOf(s)  BY <3>3, <1>5 DEF PendingOf
      <4>2. s \notin ready  BY <4>1, <1>3
      <4>3. s \notin Range(order)
        <5>1. SUFFICES ASSUME NEW i \in DOMAIN order, order[i] = s PROVE FALSE
          BY DEF Range
        <5>2. PICK m \in 1..(i - 1) : order[m] = a
          BY <3>3, <5>1, <1>3, <1>5 DEF OrderClosed
        <5>3. m \in DOMAIN order  BY <5>1, <1>6
        <5> QED  BY <5>2, <5>3, <1>5 DEF Range
      <4>4. s \in ready' <=> indegree[s] = 1
        BY <3>3, <4>2, <1>1 DEF Released
      <4>5. /\ Cardinality(PendingOf(s) \ {a}) = Cardinality(PendingOf(s)) - 1
            /\ IsFiniteSet(PendingOf(s) \ {a})
        BY <4>1, PendingFinite, FS_RemoveElement
      <4>6. Cardinality(PendingOf(s) \ {a}) = 0 <=> PendingOf(s) \ {a} = {}
        BY <4>5, FS_EmptySet
      <4> QED  BY <3>3, <4>3, <4>4, <4>5, <4>6, <1>2, <1>3, <1>7, <1>8, PendingFinite
    <3> QED  BY <3>1, <3>2, <3>3
  <2>2. ready' \subseteq Ids  BY <1>1, <1>2, <1>5 DEF Released
  <2> QED  BY <2>1, <2>2
<1>11. FrontierIsExact'
  BY <1>1, <1>9, <1>10 DEF FrontierIsExact
<1>12. OrderClosed'
  <2>1. SUFFICES ASSUME NEW i \in DOMAIN order', NEW p \in Ids,
                        order'[i] \in successors[p]
                 PROVE  \E m \in 1..(i - 1) : order'[m] = p
    BY <1>1 DEF OrderClosed
  <2>2. CASE i = Len(order) + 1
    <3>1. p \in Range(order)
      BY <2>1, <2>2, <1>5, <1>6 DEF PendingOf
    <3>2. PICK m \in DOMAIN order : order[m] = p  BY <3>1 DEF Range
    <3> QED  BY <2>2, <3>2, <1>6
  <2>3. CASE i \in 1..Len(order)
    <3>1. PICK m \in 1..(i - 1) : order[m] = p
      BY <2>1, <2>3, <1>3, <1>6 DEF OrderClosed
    <3> QED  BY <2>3, <3>1, <1>6
  <2> QED  BY <2>2, <2>3, <1>6
<1>13. IsInjective(order')
  BY <1>3, <1>5, <1>6 DEF IsInjective, Range
<1> QED  BY <1>1, <1>11, <1>12, <1>13 DEF Ordering, Late

(* A finished order is as long as there are activities.                    *)
LEMMA OrderFinish == ReadInv /\ Ordering /\ FinishOrdering => Ordering'
<1> SUFFICES ASSUME ReadInv, Ordering, FinishOrdering, pc' # "done" PROVE Ordering'
  BY DEF Ordering, FrontierIsExact, Late
<1>1. /\ pc = "ordering" /\ pc' = "start" /\ OrderingFault = {}
      /\ UNCHANGED <<successors, order>> /\ Ids' = Ids
  BY DEF FinishOrdering, Fail, graph, Ids
<1>2. Len(order) = Cardinality(Ids)
  BY <1>1 DEF OrderingFault, Blame
<1> QED  BY <1>1, <1>2 DEF Ordering, FrontierIsExact, OrderClosed, IsInjective, Late

(* Ordering does not depend on the variables of the forward pass.          *)
LEMMA OrderRest ==
  ASSUME ReadInv, Ordering,
         UNCHANGED <<activityById, successors, indegree, order, ready>>,
         pc' = pc \/ (pc \in {"start", "relax"} /\ pc' \in {"start", "relax"})
         \/ pc' \in {"activities", "done"}
  PROVE  Ordering'
<1>1. Ids' = Ids  BY DEF Ids
<1>2. \A a : PendingOf(a)' = PendingOf(a)  BY <1>1 DEF PendingOf
<1>3. OrderClosed' <=> OrderClosed  BY <1>1 DEF OrderClosed
<1>4. IsInjective(order') <=> IsInjective(order)  OBVIOUS
<1>5. FrontierIsExact'  BY <1>1, <1>2 DEF Ordering, FrontierIsExact
<1> QED  BY <1>1, <1>3, <1>4, <1>5 DEF Ordering, Late

(* Every step preserves Ordering.                                          *)
LEMMA OrderStep == ReadInv /\ ReadInv' /\ Ordering /\ [Next]_vars => Ordering'
<1> SUFFICES ASSUME ReadInv, ReadInv', Ordering, [Next]_vars PROVE Ordering'  OBVIOUS
<1>1. CASE CheckHeader
  BY <1>1, OrderRest DEF CheckHeader, Fail, graph
<1>2. CASE CheckActivity
  BY <1>2 DEF CheckActivity, Fail, Ordering, FrontierIsExact, Late
<1>3. CASE StartActivity \/ RelaxTransfer \/ FinishActivity
  BY <1>3, OrderRest DEF StartActivity, RelaxTransfer, FinishActivity, Fail, graph
<1>4. CASE Return
  BY <1>4, OrderRest DEF Return, graph
<1>5. CASE UNCHANGED vars
  BY <1>5, OrderRest DEF vars
<1> QED
  BY <1>1, <1>2, <1>3, <1>4, <1>5, OrderStartTransfers, OrderTransfer, OrderStart,
     OrderPop, OrderFinish DEF Next

-----------------------------------------------------------------------------
(* The graph the loops work on is the graph of the input.                  *)

(* Once the transfers are read, the dictionaries are the input.            *)
LEMMA GraphOfInput ==
  ASSUME ReadInv, pc \in Late
  PROVE  /\ IdsOf(itinerary) = Ids
         /\ EdgesOf(itinerary) = pairs
         /\ \A a \in Ids : ActivityOf(itinerary, a) = activityById[a]
         /\ MinDurations(itinerary) = [a \in Ids |-> activityById[a].min]
<1> DEFINE acts == itinerary.activities
           trs  == itinerary.transfers
<1>1. /\ acts \in Seq(Activity \cup {Malformed}) /\ trs \in Seq(Transfer \cup {Malformed})
      /\ ActivitiesRead(Len(acts)) /\ TransfersRead(Len(trs))
  BY DEF ReadInv, HeaderRead, Reading, Late
<1>2. DOMAIN acts = 1..Len(acts) /\ DOMAIN trs = 1..Len(trs)
  BY <1>1
<1>3. /\ \A x \in Range(acts) : x.id \in Ids /\ activityById[x.id] = x
      /\ \A a \in Ids : activityById[a] \in Range(acts) /\ activityById[a].id = a
  BY <1>1, <1>2 DEF ActivitiesRead, Range
<1>4. IdsOf(itinerary) = Ids
  BY <1>3 DEF IdsOf
<1>5. EdgesOf(itinerary) = pairs
  <2>1. \A t \in Range(trs) : <<t.from, t.to>> \in pairs
    BY <1>1, <1>2 DEF TransfersRead, Range
  <2>2. \A e \in pairs : \E t \in Range(trs) : e = <<t.from, t.to>>
    <3> TAKE e \in pairs
    <3>1. PICK i \in 1..Len(trs) : e = <<trs[i].from, trs[i].to>>
      BY <1>1 DEF TransfersRead
    <3> QED  BY <3>1, <1>2 DEF Range
  <2> QED  BY <2>1, <2>2 DEF EdgesOf
<1>6. ASSUME NEW a \in Ids PROVE ActivityOf(itinerary, a) = activityById[a]
  BY <1>3 DEF ActivityOf
<1>7. MinDurations(itinerary) = [a \in Ids |-> activityById[a].min]
  BY <1>4, <1>6 DEF MinDurations
<1> QED  BY <1>4, <1>5, <1>6, <1>7

-----------------------------------------------------------------------------
(* The forward pass.                                                       *)

(* The times of a are final: every bound on its start is respected.        *)
Settled(a) ==
    LET start == earliestFinish[a] - activityById[a].min IN
    /\ earliestFinish[a] \in Nat
    /\ earliestFinish[a] <= activityById[a].deadline
    /\ start >= activityById[a].release
    /\ \A m \in DOMAIN incoming[a] :
          /\ incoming[a][m].from \in DOMAIN earliestFinish
          /\ start >= TransferBound(incoming[a][m])

AllSchedules == [IdsOf(itinerary) -> Int]

InSchedule(start) == RespectsPrecedence(itinerary, MinDurations(itinerary), start)

(* FinishIsLowerBound, for schedules with any integer times.               *)
FinishIsMinimal ==
    earliestFinish # << >> =>
    \A start \in AllSchedules :
        InSchedule(start) =>
            \A a \in DOMAIN earliestFinish :
                earliestFinish[a] <= start[a] + activityById[a].min

Forward ==
    /\ pc \in {"start", "relax"} =>
          /\ k <= Len(order) + 1
          /\ DOMAIN earliestFinish = {order[i] : i \in 1..(k - 1)}
          /\ \A a \in DOMAIN earliestFinish : Settled(a)
    /\ pc = "relax" =>
          /\ j <= Len(incoming[order[k]]) + 1
          /\ earliestStart >= activityById[order[k]].release
          /\ \A m \in 1..(j - 1) :
                earliestStart >= TransferBound(incoming[order[k]][m])
          /\ \A start \in AllSchedules :
                InSchedule(start) => earliestStart <= start[order[k]]
    /\ earliestStart \in Nat
    /\ \A a \in DOMAIN earliestFinish : earliestFinish[a] \in Nat
    /\ FinishIsMinimal

(* The schedules of the properties are among them.                         *)
LEMMA SchedulesAreIntegral == Schedules \subseteq AllSchedules
  BY TimesAssumption DEF Schedules, AllSchedules

(* Before the forward pass nothing is computed.                            *)
LEMMA ForwardElsewhere ==
  ASSUME ReadInv, Forward,
         pc \in Early \cup {"ordering"},
         UNCHANGED <<itinerary, earliestStart, earliestFinish>>,
         pc' \notin {"start", "relax"}
  PROVE  Forward'
<1>1. DOMAIN earliestFinish = {}
  BY DEF ReadInv, Typed, Early
<1>2. FinishIsMinimal'
  BY <1>1 DEF FinishIsMinimal
<1> QED  BY <1>2 DEF Forward, Early

(* The forward pass starts with nothing computed.                          *)
LEMMA ForwardBegin == ReadInv /\ Forward /\ FinishOrdering => Forward'
<1> SUFFICES ASSUME ReadInv, Forward, FinishOrdering PROVE Forward'  OBVIOUS
<1>1. /\ DOMAIN earliestFinish = {} /\ pc = "ordering"
      /\ UNCHANGED <<itinerary, order, earliestStart, earliestFinish>>
  BY DEF FinishOrdering, timing, ReadInv, Typed
<1>2. FinishIsMinimal'
  BY <1>1 DEF FinishIsMinimal
<1>3. CASE pc' = "done"
  BY <1>1, <1>2, <1>3 DEF Forward
<1>4. CASE pc' = "start" /\ k' = 1
  <2>1. Len(order) \in Nat  BY DEF ReadInv, Typed
  <2> QED  BY <1>1, <1>2, <1>4, <2>1 DEF Forward
<1> QED  BY <1>3, <1>4 DEF FinishOrdering, Fail

(* No schedule starts an activity before its release.                      *)
LEMMA ForwardStart == ReadInv /\ Ordering /\ Forward /\ StartActivity => Forward'
<1> SUFFICES ASSUME ReadInv, Ordering, Forward, StartActivity PROVE Forward'  OBVIOUS
<1>1. /\ pc = "start" /\ pc' = "relax" /\ j' = 1 /\ k \in Nat \ {0}
      /\ k <= Len(order) /\ order \in Seq(Ids)
      /\ UNCHANGED <<itinerary, k, activityById, successors, incoming, order, earliestFinish>>
      /\ earliestStart' = activityById[order[k]].release
  BY DEF StartActivity, graph, ReadInv, Typed
<1>2. order[k] \in Ids  BY <1>1
<1>3. /\ activityById[order[k]] \in CheckedActivity
      /\ Len(incoming[order[k]]) \in Nat
  BY <1>1, <1>2 DEF ReadInv, Typed, Late
<1>4. earliestStart' \in Nat /\ earliestStart' >= activityById[order[k]].release
  BY <1>1, <1>3 DEF CheckedActivity
<1>5. ASSUME NEW start \in AllSchedules, InSchedule(start)
      PROVE  earliestStart' <= start[order[k]]
  <2>1. start[order[k]] >= ActivityOf(itinerary, order[k]).release
    BY <1>1, <1>2, <1>5, GraphOfInput DEF InSchedule, RespectsPrecedence, Late
  <2>2. start[order[k]] \in Int
    BY <1>1, <1>2, <1>5, GraphOfInput DEF AllSchedules, Late
  <2> QED  BY <1>1, <1>2, <1>4, <2>1, <2>2, GraphOfInput DEF Late
<1>6. \A a \in DOMAIN earliestFinish : Settled(a)' <=> Settled(a)
  BY <1>1 DEF Settled, TransferBound
<1>7. FinishIsMinimal'
  BY <1>1 DEF Forward, FinishIsMinimal, AllSchedules, InSchedule
<1>8. \A start : InSchedule(start)' <=> InSchedule(start)
  BY <1>1 DEF InSchedule
<1>9. AllSchedules' = AllSchedules  BY <1>1 DEF AllSchedules
<1> QED
  BY <1>1, <1>3, <1>4, <1>5, <1>6, <1>7, <1>8, <1>9 DEF Forward

(* The predecessors of the current activity are already computed: the      *)
(* order is topological.                                                   *)
LEMMA PredecessorsFinished ==
  ASSUME ReadInv, Ordering, Forward, pc = "relax",
         NEW m \in DOMAIN incoming[order[k]]
  PROVE  /\ order[k] \in Ids
         /\ incoming[order[k]][m] \in Range(itinerary.transfers)
         /\ incoming[order[k]][m].to = order[k]
         /\ incoming[order[k]][m].from \in Ids
         /\ incoming[order[k]][m].min \in Nat
         /\ incoming[order[k]][m].from \in DOMAIN earliestFinish
         /\ TransferBound(incoming[order[k]][m]) \in Nat
<1> DEFINE a == order[k]
           t == incoming[a][m]
<1>1. /\ k \in DOMAIN order /\ k \in Nat \ {0} /\ a \in Ids
  BY DEF ReadInv, Typed
<1>2. t \in CheckedTransfer
  BY <1>1 DEF ReadInv, Typed, Late
<1>3. TransfersRead(Len(itinerary.transfers))
  BY DEF ReadInv, Reading, Late
<1>4. /\ t.to = a /\ <<t.from, a>> \in pairs
      /\ \E i \in 1..Len(itinerary.transfers) : t = itinerary.transfers[i]
  BY <1>1, <1>3 DEF TransfersRead
<1>5. t \in Range(itinerary.transfers)
  <2>1. itinerary.transfers \in Seq(Transfer \cup {Malformed})
    BY DEF ReadInv, HeaderRead
  <2> QED  BY <1>4, <2>1 DEF Range
<1>6. t.from \in Ids /\ t.min \in Nat
  BY <1>2 DEF CheckedTransfer
<1>7. a \in successors[t.from]
  BY <1>1, <1>3, <1>4, <1>6 DEF TransfersRead
<1>8. PICK l \in 1..(k - 1) : order[l] = t.from
  BY <1>1, <1>6, <1>7 DEF Ordering, OrderClosed, Late
<1>9. t.from \in DOMAIN earliestFinish
  BY <1>8 DEF Forward
<1>10. earliestFinish[t.from] \in Nat
  BY <1>9 DEF Forward, Settled
<1>11. TransferBound(t) \in Nat
  BY <1>6, <1>10 DEF TransferBound
<1> QED  BY <1>1, <1>4, <1>5, <1>6, <1>9, <1>11

(* No schedule starts an activity before a transfer bound.                 *)
LEMMA ForwardRelax == ReadInv /\ Ordering /\ Forward /\ RelaxTransfer => Forward'
<1> SUFFICES ASSUME ReadInv, Ordering, Forward, RelaxTransfer PROVE Forward'  OBVIOUS
<1> DEFINE a == order[k]
           t == incoming[a][j]
<1>1. /\ pc = "relax" /\ pc' = "relax" /\ j' = j + 1
      /\ j \in Nat \ {0} /\ k \in Nat \ {0} /\ j <= Len(incoming[a])
      /\ UNCHANGED <<itinerary, k, activityById, successors, incoming, order, earliestFinish>>
      /\ earliestStart' = Later(earliestStart, TransferBound(t))
      /\ earliestStart \in Nat
  BY DEF RelaxTransfer, graph, ReadInv, Typed, Forward
<1>2. a \in Ids /\ k <= Len(order)
  BY <1>1 DEF ReadInv, Typed
<1>3. /\ activityById[a] \in CheckedActivity
      /\ incoming[a] \in Seq(CheckedTransfer)
      /\ Len(incoming[a]) \in Nat
      /\ j \in DOMAIN incoming[a]
  BY <1>1, <1>2 DEF ReadInv, Typed, Late
<1>4. \A m \in DOMAIN incoming[a] : TransferBound(incoming[a][m]) \in Nat
  BY <1>1, PredecessorsFinished
<1>5. /\ t \in Range(itinerary.transfers) /\ t.to = a
      /\ t.from \in Ids /\ t.min \in Nat
      /\ t.from \in DOMAIN earliestFinish
  BY <1>1, <1>3, PredecessorsFinished
<1>6. TransferBound(t) \in Nat
  BY <1>3, <1>4
<1> HIDE DEF t, a
<1>7. earliestFinish[t.from] \in Nat
  BY <1>1, <1>5 DEF Forward, Settled
<1>8. /\ earliestStart' \in Nat /\ earliestStart' >= earliestStart
      /\ earliestStart' >= TransferBound(t)
      /\ earliestStart' = earliestStart \/ earliestStart' = TransferBound(t)
  BY <1>1, <1>6 DEF Later
<1>9. earliestStart' >= activityById[a].release
  BY <1>1, <1>3, <1>8 DEF Forward, CheckedActivity, a
<1>10. ASSUME NEW m \in 1..j
       PROVE  earliestStart' >= TransferBound(incoming[a][m])
  <2>1. CASE m = j  BY <2>1, <1>8 DEF t
  <2>2. CASE m \in 1..(j - 1)
    <3>1. earliestStart >= TransferBound(incoming[a][m])
      BY <2>2, <1>1 DEF Forward, a
    <3>2. TransferBound(incoming[a][m]) \in Nat
      BY <1>1, <1>3, <1>4, <2>2
    <3> QED  BY <3>1, <3>2, <1>1, <1>8
  <2> QED  BY <2>1, <2>2, <1>1
<1>11. ASSUME NEW start \in AllSchedules, InSchedule(start)
       PROVE  earliestStart' <= start[a]
  <2>1. earliestStart <= start[a]
    BY <1>1, <1>11 DEF Forward, a
  <2>2. /\ start[t.from] \in Int /\ start[a] \in Int
        /\ activityById[t.from].min \in Nat
    BY <1>1, <1>2, <1>5, GraphOfInput
       DEF AllSchedules, Late, ReadInv, Typed, CheckedActivity
  <2>3. start[a] >= start[t.from] + MinDurations(itinerary)[t.from] + t.min
    BY <1>5, <1>11 DEF InSchedule, RespectsPrecedence
  <2>4. MinDurations(itinerary)[t.from] = activityById[t.from].min
    BY <1>1, <1>5, GraphOfInput DEF Late
  <2>5. earliestFinish[t.from] <= start[t.from] + activityById[t.from].min
    BY <1>5, <1>11 DEF Forward, FinishIsMinimal, InSchedule
  <2>6. TransferBound(t) <= start[a]
    BY <2>2, <2>3, <2>4, <2>5, <1>5, <1>7 DEF TransferBound
  <2> QED  BY <2>1, <2>6, <1>8
<1>12. \A b \in DOMAIN earliestFinish : Settled(b)' <=> Settled(b)
  BY <1>1 DEF Settled, TransferBound
<1>13. FinishIsMinimal'
  BY <1>1 DEF Forward, FinishIsMinimal, AllSchedules, InSchedule
<1>14. /\ \A start : InSchedule(start)' <=> InSchedule(start)
       /\ AllSchedules' = AllSchedules
       /\ \A u : TransferBound(u)' = TransferBound(u)
  BY <1>1 DEF InSchedule, AllSchedules, TransferBound
<1>15. order'[k'] = a /\ order[k] = a /\ j' - 1 = j /\ k' = k
  BY <1>1 DEF a
<1> QED
  BY <1>1, <1>3, <1>8, <1>9, <1>10, <1>11, <1>12, <1>13, <1>14, <1>15 DEF Forward

(* A finish time, once computed, is final and minimal.                     *)
LEMMA ForwardFinish == ReadInv /\ Ordering /\ Forward /\ FinishActivity => Forward'
<1> SUFFICES ASSUME ReadInv, Ordering, Forward, FinishActivity PROVE Forward'  OBVIOUS
<1> DEFINE a == order[k]
           x == activityById[a]
           finish == FinishOf(x)
<1>1. /\ pc = "relax" /\ j > Len(incoming[a])
      /\ j \in Nat \ {0} /\ k \in Nat \ {0} /\ k <= Len(order)
      /\ UNCHANGED <<itinerary, activityById, successors, incoming, order, earliestStart>>
      /\ earliestFinish' = Put(earliestFinish, a, finish)
      /\ earliestStart \in Nat /\ order \in Seq(Ids)
      /\ pc' = "done" \/ (DeadlineFault(x, finish) = {} /\ pc' = "start" /\ k' = k + 1)
  BY DEF FinishActivity, Fail, graph, ReadInv, Typed, Forward
<1>2. a \in Ids /\ k \in DOMAIN order /\ Len(order) \in Nat
  BY <1>1
<1>3. /\ x \in CheckedActivity /\ x.min \in Nat /\ x.release \in Nat /\ x.deadline \in Nat
      /\ incoming[a] \in Seq(CheckedTransfer)
      /\ DOMAIN incoming[a] = 1..Len(incoming[a])
      /\ Len(incoming[a]) \in Nat
      /\ finish = earliestStart + x.min /\ finish \in Nat
  <2>1. x \in CheckedActivity /\ incoming[a] \in Seq(CheckedTransfer)
    BY <1>1, <1>2 DEF ReadInv, Typed, Late
  <2>2. x.min \in Nat /\ x.release \in Nat /\ x.deadline \in Nat
    BY <2>1 DEF CheckedActivity
  <2>3. DOMAIN incoming[a] = 1..Len(incoming[a]) /\ Len(incoming[a]) \in Nat
    BY <2>1
  <2>4. finish = earliestStart + x.min
    BY DEF FinishOf
  <2> QED  BY <2>1, <2>2, <2>3, <2>4, <1>1
<1>4. \A m \in DOMAIN incoming[a] :
         /\ incoming[a][m].from \in DOMAIN earliestFinish
         /\ TransferBound(incoming[a][m]) \in Nat
         /\ earliestStart >= TransferBound(incoming[a][m])
  BY <1>1, <1>3, PredecessorsFinished DEF Forward
<1>5. DOMAIN earliestFinish = {order[i] : i \in 1..(k - 1)}
  BY <1>1 DEF Forward
<1>6. a \notin DOMAIN earliestFinish
  BY <1>1, <1>2, <1>5 DEF Ordering, IsInjective, Late
<1>7. /\ DOMAIN earliestFinish' = DOMAIN earliestFinish \cup {a}
      /\ earliestFinish'[a] = finish
      /\ \A b \in DOMAIN earliestFinish : earliestFinish'[b] = earliestFinish[b]
  BY <1>1, <1>6 DEF Put
<1> HIDE DEF a, x, finish
<1>8. \A start \in AllSchedules : InSchedule(start) => earliestStart <= start[a]
  BY <1>1 DEF Forward, a
<1>9. ASSUME NEW start \in AllSchedules, InSchedule(start), NEW b \in DOMAIN earliestFinish'
      PROVE  earliestFinish'[b] <= start[b] + activityById[b].min
  <2>1. CASE b = a
    <3>1. start[a] \in Int
      BY <1>1, <1>2, GraphOfInput DEF AllSchedules, Late
    <3> QED  BY <2>1, <3>1, <1>1, <1>3, <1>7, <1>8, <1>9 DEF x
  <2>2. CASE b \in DOMAIN earliestFinish
    BY <2>2, <1>7, <1>9 DEF Forward, FinishIsMinimal, InSchedule
  <2> QED  BY <2>1, <2>2, <1>7
<1>10. FinishIsMinimal'
  BY <1>1, <1>9 DEF FinishIsMinimal, InSchedule, AllSchedules
<1>11. \A b \in DOMAIN earliestFinish' : earliestFinish'[b] \in Nat
  BY <1>3, <1>7 DEF Forward
<1>12. CASE pc' = "done"
  BY <1>1, <1>10, <1>12, <1>11 DEF Forward
<1>13. CASE DeadlineFault(x, finish) = {} /\ pc' = "start" /\ k' = k + 1
  <2>1. finish <= x.deadline
    BY <1>3, <1>13 DEF DeadlineFault, Blame
  <2>2. DOMAIN earliestFinish' = {order[i] : i \in 1..k}
    <3>1. \A i \in 1..k : i \in 1..(k - 1) \/ i = k  BY <1>1
    <3>2. \A i \in 1..(k - 1) : i \in 1..k  BY <1>1
    <3>3. k \in 1..k  BY <1>1
    <3> QED  BY <3>1, <3>2, <3>3, <1>5, <1>7 DEF a
  <2>3. \A u : u.from \in DOMAIN earliestFinish => TransferBound(u)' = TransferBound(u)
    BY <1>7 DEF TransferBound
  <2>4. ASSUME NEW b \in DOMAIN earliestFinish', b = a PROVE Settled(b)'
    <3>1. activityById'[b] = x /\ incoming'[b] = incoming[a] /\ earliestFinish'[b] = finish
      BY <1>1, <1>7, <2>4 DEF x
    <3>2. finish - x.min = earliestStart  BY <1>1, <1>3
    <3>3. earliestStart >= x.release  BY <1>1 DEF Forward, x, a
    <3>4. ASSUME NEW m \in DOMAIN incoming'[b]
          PROVE  /\ incoming'[b][m].from \in DOMAIN earliestFinish'
                 /\ earliestStart >= TransferBound(incoming[b][m])'
      <4>1. m \in DOMAIN incoming[a]  BY <3>1
      <4>2. TransferBound(incoming[b][m])' = TransferBound(incoming[a][m])
        BY <1>1, <1>4, <2>3, <2>4, <4>1
      <4> QED  BY <1>4, <1>7, <3>1, <4>1, <4>2
    <3> QED  BY <3>1, <3>2, <3>3, <3>4, <2>1, <1>3 DEF Settled
  <2>5. ASSUME NEW b \in DOMAIN earliestFinish PROVE Settled(b)'
    <3>1. Settled(b)  BY <1>1 DEF Forward
    <3>2. earliestFinish'[b] = earliestFinish[b] /\ activityById'[b] = activityById[b]
          /\ incoming' = incoming
      BY <1>1, <1>7
    <3>3. ASSUME NEW m \in DOMAIN incoming[b]
          PROVE  /\ incoming[b][m].from \in DOMAIN earliestFinish'
                 /\ TransferBound(incoming[b][m])' = TransferBound(incoming[b][m])
      BY <3>1, <1>1, <1>7, <2>3 DEF Settled
    <3> QED  BY <3>1, <3>2, <3>3 DEF Settled
  <2>6. k' <= Len(order') + 1 /\ k' - 1 = k
    BY <1>1, <1>2, <1>13
  <2>7. DOMAIN earliestFinish' = {order'[i] : i \in 1..(k' - 1)}
    BY <2>2, <2>6, <1>1
  <2> QED
    BY <1>1, <1>7, <1>10, <1>13, <1>11, <2>4, <2>5, <2>6, <2>7 DEF Forward
<1> QED  BY <1>1, <1>12, <1>13

(* Forward does not depend on the variables of the other stages.           *)
LEMMA ForwardRest ==
  ASSUME ReadInv, Forward,
         UNCHANGED <<itinerary, activityById, order, incoming, k, j, earliestStart, earliestFinish>>,
         pc' \in {pc, "done"}
  PROVE  Forward'
<1>1. /\ \A a : Settled(a)' <=> Settled(a)
      /\ \A start : InSchedule(start)' <=> InSchedule(start)
      /\ AllSchedules' = AllSchedules
      /\ \A u : TransferBound(u)' = TransferBound(u)
  BY DEF Settled, InSchedule, AllSchedules, TransferBound
<1>2. FinishIsMinimal'
  BY DEF Forward, FinishIsMinimal, AllSchedules, InSchedule
<1>3. CASE pc' = "done"  BY <1>2, <1>3 DEF Forward
<1>4. CASE pc' = pc  BY <1>1, <1>2, <1>4 DEF Forward
<1> QED  BY <1>3, <1>4

(* Every step preserves Forward.                                           *)
LEMMA ForwardStep == ReadInv /\ Ordering /\ Forward /\ [Next]_vars => Forward'
<1> SUFFICES ASSUME ReadInv, Ordering, Forward, [Next]_vars PROVE Forward'  OBVIOUS
<1>1. CASE \/ CheckHeader \/ CheckActivity \/ StartTransfers \/ CheckTransfer
           \/ StartOrdering \/ PopReady
  BY <1>1, ForwardElsewhere
     DEF CheckHeader, CheckActivity, StartTransfers, CheckTransfer, StartOrdering,
         PopReady, Fail, timing, Early
<1>2. CASE Return \/ UNCHANGED vars
  BY <1>2, ForwardRest DEF Return, vars, graph, timing
<1> QED
  BY <1>1, <1>2, ForwardBegin, ForwardStart, ForwardRelax, ForwardFinish DEF Next

-----------------------------------------------------------------------------
(* The verdicts.                                                           *)

Verdicts ==
    /\ AcceptedOrderIsTopological
    /\ CycleVerdictIsJust
    /\ InfeasibleVerdictIsJust
    /\ EarliestScheduleIsAttained

(* Without a verdict nothing is claimed.                                   *)
LEMMA NoVerdict ==
  ASSUME result' \notin {"ACCEPTED", "DEPENDENCY_CYCLE", "INFEASIBLE_DEADLINE"}
  PROVE  Verdicts'
  BY DEF Verdicts, AcceptedOrderIsTopological, CycleVerdictIsJust,
         InfeasibleVerdictIsJust, EarliestScheduleIsAttained

(* A refusal by a reading stage claims nothing about the graph.            *)
LEMMA ReadVerdict ==
  ASSUME result' \in ReadCodes, earliestFinish' = << >>
  PROVE  Verdicts'
  BY DEF Verdicts, AcceptedOrderIsTopological, CycleVerdictIsJust,
         InfeasibleVerdictIsJust, EarliestScheduleIsAttained, ReadCodes, Codes

(* An order without repetitions lists everything exactly when it is as     *)
(* long as the set is large.                                               *)
LEMMA FullOrder ==
  ASSUME ReadInv, IsInjective(order)
  PROVE  Len(order) = Cardinality(Ids) <=> Range(order) = Ids
<1>1. /\ IsFiniteSet(Ids) /\ order \in Seq(Ids) /\ Len(order) \in Nat
      /\ DOMAIN order = 1..Len(order)
  BY DEF ReadInv, Typed
<1>2. order \in Injection(1..Len(order), Ids)
  BY <1>1 DEF IsInjective, Injection
<1>3. Cardinality(1..Len(order)) = Len(order)
  BY <1>1, FS_Interval
<1>4. Len(order) = Cardinality(Ids) <=> order \in Surjection(1..Len(order), Ids)
  BY <1>1, <1>2, <1>3, FS_Injection
<1>5. order \in Surjection(1..Len(order), Ids) <=> Range(order) = Ids
  BY <1>1 DEF Surjection, Range
<1> QED  BY <1>4, <1>5

(* When the heap runs empty early, the activities left wait for each       *)
(* other.                                                                  *)
LEMMA CycleVerdict ==
  ASSUME ReadInv, Ordering, FinishOrdering, pc' = "done"
  PROVE  Verdicts'
<1>1. /\ pc = "ordering" /\ ready = {} /\ OrderingFault # {}
      /\ result' \in OrderingFault /\ itinerary' = itinerary
  BY DEF FinishOrdering, Fail
<1>2. /\ result' = "DEPENDENCY_CYCLE" /\ Len(order) # Cardinality(Ids)
  BY <1>1 DEF OrderingFault, Blame
<1> DEFINE C == Ids \ Range(order)
<1>3. C # {}
  <2>1. Range(order) # Ids
    BY <1>1, <1>2, FullOrder DEF Ordering, Late
  <2>2. Range(order) \subseteq Ids
    BY DEF ReadInv, Typed, Range
  <2> QED  BY <2>1, <2>2
<1>4. ASSUME NEW a \in C PROVE \E p \in C : <<p, a>> \in pairs
  <2>1. PendingOf(a) # {}
    BY <1>1 DEF Ordering, FrontierIsExact
  <2>2. PICK p \in PendingOf(a) : TRUE  BY <2>1
  <2>3. p \in C /\ a \in successors[p]  BY <2>2 DEF PendingOf
  <2>4. <<p, a>> \in pairs
    BY <1>1, <2>3 DEF ReadInv, Reading, TransfersRead, Late
  <2> QED  BY <2>3, <2>4
<1>5. HasCycle(Ids, pairs)
  BY <1>3, <1>4 DEF HasCycle, IsKnot
<1>6. CycleVerdictIsJust'
  BY <1>1, <1>5, GraphOfInput DEF CycleVerdictIsJust, Late
<1> QED
  BY <1>2, <1>6 DEF Verdicts, AcceptedOrderIsTopological, InfeasibleVerdictIsJust,
                    EarliestScheduleIsAttained

(* When a minimal finish time misses a deadline, every schedule does.      *)
LEMMA InfeasibleRefusal ==
  ASSUME ReadInv, Ordering, Forward, Forward', FinishActivity, pc' = "done"
  PROVE  /\ pc = "relax" /\ itinerary' = itinerary
         /\ result' = "INFEASIBLE_DEADLINE"
         /\ \A start \in AllSchedules :
               InSchedule(start) =>
                   ~MeetsDeadlines(itinerary, MinDurations(itinerary), start)
<1> DEFINE a == order[k]
           x == activityById[a]
<1>1. /\ pc = "relax" /\ a \in Ids
      /\ itinerary' = itinerary /\ activityById' = activityById
      /\ result' \in DeadlineFault(x, FinishOf(x))
      /\ earliestFinish' = Put(earliestFinish, a, FinishOf(x))
      /\ x \in CheckedActivity /\ earliestStart \in Nat
  BY DEF FinishActivity, Fail, ReadInv, Typed, Forward
<1>2. result' = "INFEASIBLE_DEADLINE" /\ FinishOf(x) > x.deadline
  BY <1>1 DEF DeadlineFault, Blame
<1>3. a \in DOMAIN earliestFinish' /\ earliestFinish'[a] = FinishOf(x)
  BY <1>1 DEF Put
<1>4. earliestFinish' # << >>
  BY <1>3
<1>5. FinishOf(x) \in Nat /\ x.min \in Nat /\ x.deadline \in Nat
  BY <1>1 DEF FinishOf, CheckedActivity
<1>6. ASSUME NEW start \in AllSchedules, InSchedule(start)
      PROVE  ~MeetsDeadlines(itinerary, MinDurations(itinerary), start)
  <2>1. FinishOf(x) <= start[a] + x.min
    <3>1. /\ AllSchedules' = AllSchedules /\ activityById'[a] = x
          /\ InSchedule(start)' = InSchedule(start)
      BY <1>1 DEF AllSchedules, InSchedule
    <3>2. FinishIsMinimal'  BY DEF Forward
    <3>3. earliestFinish'[a] <= start[a] + x.min
      BY <1>1, <1>3, <1>4, <1>6, <3>1, <3>2 DEF FinishIsMinimal
    <3> QED  BY <1>3, <3>3
  <2>2. /\ MinDurations(itinerary)[a] = x.min /\ a \in IdsOf(itinerary)
        /\ ActivityOf(itinerary, a) = x
    BY <1>1, GraphOfInput DEF Late
  <2>3. start[a] \in Int
    BY <1>6, <2>2 DEF AllSchedules
  <2>4. ~(start[a] + x.min <= x.deadline)
    BY <1>2, <1>5, <2>1, <2>3
  <2> QED  BY <2>2, <2>4 DEF MeetsDeadlines
<1> QED  BY <1>1, <1>2, <1>6

(* The verdict is just.                                                    *)
LEMMA InfeasibleVerdict ==
  ASSUME ReadInv, Ordering, Forward, Forward', FinishActivity, pc' = "done"
  PROVE  Verdicts'
<1>1. /\ itinerary' = itinerary /\ result' = "INFEASIBLE_DEADLINE"
      /\ \A start \in AllSchedules :
            InSchedule(start) =>
                ~MeetsDeadlines(itinerary, MinDurations(itinerary), start)
  BY InfeasibleRefusal
<1>2. InfeasibleVerdictIsJust'
  BY <1>1, SchedulesAreIntegral DEF InfeasibleVerdictIsJust, Schedules, InSchedule
<1> QED
  BY <1>1, <1>2 DEF Verdicts, AcceptedOrderIsTopological, CycleVerdictIsJust,
                    EarliestScheduleIsAttained

(* When the forward pass ends, its times are a schedule.                   *)
LEMMA AcceptedVerdict ==
  ASSUME ReadInv, Ordering, Forward, Return
  PROVE  Verdicts'
<1>1. /\ pc = "start" /\ k > Len(order) /\ result' = "ACCEPTED"
      /\ UNCHANGED <<itinerary, order, earliestFinish, activityById>>
      /\ Ids' = Ids
  BY DEF Return, timing, Ids
<1>2. /\ OrderClosed /\ IsInjective(order) /\ Len(order) = Cardinality(Ids)
      /\ order \in Seq(Ids) /\ DOMAIN order = 1..Len(order) /\ Len(order) \in Nat
      /\ k \in Nat
  BY <1>1 DEF Ordering, Late, ReadInv, Typed
<1>3. Range(order) = Ids
  BY <1>2, FullOrder
<1>4. /\ IdsOf(itinerary) = Ids /\ EdgesOf(itinerary) = pairs
      /\ \A a \in Ids : ActivityOf(itinerary, a) = activityById[a]
      /\ MinDurations(itinerary) = [a \in Ids |-> activityById[a].min]
  BY <1>1, GraphOfInput DEF Late
<1>5. TransfersRead(Len(itinerary.transfers))
  BY <1>1 DEF ReadInv, Reading, Late
<1>6. AcceptedOrderIsTopological'
  <2>1. ASSUME NEW i \in DOMAIN order, NEW m \in DOMAIN order,
               <<order[i], order[m]>> \in pairs
        PROVE  i < m
    <3>1. order[i] \in Ids /\ order[m] \in Ids  BY <1>2
    <3>2. order[m] \in successors[order[i]]
      BY <2>1, <3>1, <1>5 DEF TransfersRead
    <3>3. PICK l \in 1..(m - 1) : order[l] = order[i]
      BY <3>1, <3>2, <1>2 DEF OrderClosed
    <3>4. l \in DOMAIN order  BY <1>2
    <3>5. l = i  BY <3>3, <3>4, <1>2 DEF IsInjective
    <3> QED  BY <3>5, <1>2
  <2>2. IsTopological(order, Ids, pairs)
    BY <1>2, <1>3, <2>1 DEF IsTopological
  <2> QED  BY <1>1, <1>4, <2>2 DEF AcceptedOrderIsTopological
<1>7. DOMAIN earliestFinish = Ids /\ \A a \in Ids : Settled(a)
  <2>1. k - 1 = Len(order)  BY <1>1, <1>2 DEF Forward
  <2>2. DOMAIN earliestFinish = {order[i] : i \in DOMAIN order}
    BY <1>1, <1>2, <2>1 DEF Forward
  <2> QED  BY <1>1, <1>3, <2>2 DEF Forward, Range
<1>8. EarliestScheduleIsAttained'
  <2> DEFINE dur   == MinDurations(itinerary)
             start == [a \in Ids |-> earliestFinish[a] - dur[a]]
  <2>1. ASSUME NEW a \in Ids
        PROVE  /\ start[a] >= ActivityOf(itinerary, a).release
               /\ start[a] + dur[a] <= ActivityOf(itinerary, a).deadline
    <3>1. /\ Settled(a) /\ dur[a] = activityById[a].min
          /\ start[a] = earliestFinish[a] - activityById[a].min
          /\ ActivityOf(itinerary, a) = activityById[a]
      BY <1>4, <1>7
    <3>2. activityById[a].min \in Nat
      BY DEF ReadInv, Typed, CheckedActivity
    <3> QED  BY <3>1, <3>2 DEF Settled
  <2>2. ASSUME NEW t \in Range(itinerary.transfers)
        PROVE  start[t.to] >= start[t.from] + dur[t.from] + t.min
    <3>1. itinerary.transfers \in Seq(Transfer \cup {Malformed})
      BY <1>1 DEF ReadInv, HeaderRead
    <3>2. PICK i \in 1..Len(itinerary.transfers) : t = itinerary.transfers[i]
      BY <3>1 DEF Range
    <3>3. /\ t \in CheckedTransfer
          /\ \E m \in DOMAIN incoming[t.to] : incoming[t.to][m] = t
      BY <3>2, <1>5 DEF TransfersRead
    <3>4. t.to \in Ids /\ t.from \in Ids /\ t.min \in Nat
      BY <3>3 DEF CheckedTransfer
    <3>5. start[t.to] >= earliestFinish[t.from] + t.min
      BY <3>3, <3>4, <1>4, <1>7 DEF Settled, TransferBound
    <3>6. start[t.from] = earliestFinish[t.from] - dur[t.from]
      BY <3>4
    <3>7. dur[t.from] \in Nat /\ earliestFinish[t.from] \in Nat
      BY <3>4, <1>4, <1>7 DEF Settled, ReadInv, Typed, CheckedActivity
    <3>8. start[t.from] + dur[t.from] = earliestFinish[t.from]
      BY <3>6, <3>7
    <3> HIDE DEF start, dur
    <3> QED  BY <3>5, <3>8
  <2>3. RespectsPrecedence(itinerary, dur, start) /\ MeetsDeadlines(itinerary, dur, start)
    BY <2>1, <2>2, <1>4 DEF RespectsPrecedence, MeetsDeadlines
  <2> QED  BY <2>3, <1>1 DEF EarliestScheduleIsAttained
<1> QED
  BY <1>1, <1>6, <1>8 DEF Verdicts, CycleVerdictIsJust, InfeasibleVerdictIsJust

(* Every step preserves Verdicts.                                          *)
LEMMA VerdictStep ==
  ASSUME ReadInv, ReadInv', Ordering, Forward, Forward', Verdicts, [Next]_vars
  PROVE  Verdicts'
<1>1. CASE pc' # "done"
  <2>1. result' = "PENDING"  BY <1>1 DEF ReadInv, Typed
  <2> QED  BY <2>1, NoVerdict
<1>2. CASE pc' = "done" /\ (CheckHeader \/ CheckActivity \/ CheckTransfer)
  <2>1. earliestFinish' = << >>
    BY <1>2 DEF CheckHeader, CheckActivity, CheckTransfer, timing, ReadInv, Typed, Early
  <2>2. result' \in ReadCodes
    <3>1. CASE CheckHeader
      BY <1>2, <3>1, HeaderCodes DEF CheckHeader, Fail
    <3>2. CASE CheckActivity
      <4> DEFINE x == itinerary.activities[k]
      <4>1. (ActivityFault(x, itinerary.horizon) ??
             Blame(x.id \in Ids, "DUPLICATE_ACTIVITY_ID")) \in SUBSET ReadCodes
        BY ActivityCodes, EitherCode DEF Blame, ReadCodes, Codes
      <4> QED  BY <1>2, <3>2, <4>1 DEF CheckActivity, Fail
    <3>3. CASE CheckTransfer
      <4> DEFINE t == itinerary.transfers[k]
      <4>1. (TransferFault(t, itinerary.horizon) ?? PairFault(t)) \in SUBSET ReadCodes
        BY TransferCodes, EitherCode
      <4> QED  BY <1>2, <3>3, <4>1 DEF CheckTransfer, Fail
    <3> QED  BY <1>2, <3>1, <3>2, <3>3
  <2> QED  BY <2>1, <2>2, ReadVerdict
<1>3. CASE pc' = "done" /\ UNCHANGED vars
  <2>1. UNCHANGED <<itinerary, order, earliestFinish, activityById, result>>
    BY <1>3 DEF vars
  <2> QED
    BY <2>1 DEF Verdicts, AcceptedOrderIsTopological, CycleVerdictIsJust,
           InfeasibleVerdictIsJust, EarliestScheduleIsAttained, Schedules, Ids
<1> QED
  BY <1>1, <1>2, <1>3, CycleVerdict, InfeasibleVerdict, AcceptedVerdict
     DEF Next, StartTransfers, StartOrdering, PopReady, StartActivity, RelaxTransfer

-----------------------------------------------------------------------------
IInv == ReadInv /\ Ordering /\ Forward /\ Verdicts

(* IInv holds initially.                                                   *)
LEMMA InitIInv == Init => IInv
<1> SUFFICES ASSUME Init PROVE IInv  OBVIOUS
<1>1. ReadInv  BY ReadInit
<1>2. Ordering  BY DEF Init, Ordering, FrontierIsExact, Late
<1>3. Forward  BY DEF Init, Forward, FinishIsMinimal
<1>4. Verdicts
  BY DEF Init, Verdicts, AcceptedOrderIsTopological, CycleVerdictIsJust,
         InfeasibleVerdictIsJust, EarliestScheduleIsAttained
<1> QED  BY <1>1, <1>2, <1>3, <1>4 DEF IInv

(* Every step preserves IInv.                                              *)
LEMMA StepIInv == IInv /\ [Next]_vars => IInv'
  BY ReadStep, OrderStep, ForwardStep, VerdictStep DEF IInv

(* IInv holds in every state of every call (validate_itinerary, all of     *)
(* it).                                                                    *)
THEOREM InvariantHolds == Spec => []IInv
  BY InitIInv, StepIInv, PTL DEF Spec

(* IInv gives every variable its type.                                     *)
LEMMA IInvTypes == IInv => TypeOK
<1> SUFFICES ASSUME IInv PROVE TypeOK  OBVIOUS
<1>1. earliestStart \in Nat /\ earliestFinish \in [DOMAIN earliestFinish -> Nat]
  BY DEF IInv, ReadInv, Typed, Forward
<1>2. pc \in {"transfers", "ordering"} => indegree \in [Ids -> Nat]
  <2>1. SUFFICES ASSUME pc \in {"transfers", "ordering"}
                 PROVE  indegree \in [Ids -> Nat]
    OBVIOUS
  <2>2. indegree \in [Ids -> Int]  BY <2>1 DEF IInv, ReadInv, Typed, Late
  <2>3. \A a \in Ids : indegree[a] \in Nat
    BY <2>1, PendingFinite DEF IInv, Ordering, FrontierIsExact
  <2> QED  BY <2>2, <2>3
<1> QED  BY <1>1, <1>2 DEF IInv, ReadInv, Typed, TypeOK, Late

(* Every variable has its type in every state: no dictionary lookup of     *)
(* validate_itinerary can fail and nothing malformed is computed with.     *)
THEOREM TypeCorrect == Spec => []TypeOK
  BY InvariantHolds, IInvTypes, PTL

(* Kahn's loop counts right for every input: indegrees are the pending     *)
(* predecessors and the heap is the activities that wait for nobody.       *)
THEOREM FrontierExact == Spec => []FrontierIsExact
<1>1. IInv => FrontierIsExact  BY DEF IInv, Ordering
<1> QED  BY <1>1, InvariantHolds, PTL

(* Whatever is accepted, the order returned is topological.                *)
THEOREM OrderTopological == Spec => []AcceptedOrderIsTopological
<1>1. IInv => AcceptedOrderIsTopological  BY DEF IInv, Verdicts
<1> QED  BY <1>1, InvariantHolds, PTL

(* Whatever is refused as cyclic has a cycle.                              *)
THEOREM CycleJust == Spec => []CycleVerdictIsJust
<1>1. IInv => CycleVerdictIsJust  BY DEF IInv, Verdicts
<1> QED  BY <1>1, InvariantHolds, PTL

(* No schedule beats the finish times the forward pass computes.           *)
THEOREM FinishLowerBound == Spec => []FinishIsLowerBound
<1>1. IInv => FinishIsLowerBound
  BY SchedulesAreIntegral DEF IInv, Forward, FinishIsMinimal, FinishIsLowerBound, InSchedule
<1> QED  BY <1>1, InvariantHolds, PTL

(* What the forward pass refuses as infeasible has no schedule that meets  *)
(* the deadlines.                                                          *)
THEOREM InfeasibleJust == Spec => []InfeasibleVerdictIsJust
<1>1. IInv => InfeasibleVerdictIsJust  BY DEF IInv, Verdicts
<1> QED  BY <1>1, InvariantHolds, PTL

(* What is accepted has a schedule that meets every deadline: the earliest *)
(* one.                                                                    *)
THEOREM EarliestAttained == Spec => []EarliestScheduleIsAttained
<1>1. IInv => EarliestScheduleIsAttained  BY DEF IInv, Verdicts
<1> QED  BY <1>1, InvariantHolds, PTL

-----------------------------------------------------------------------------
(* What the checks of a stage refuse, against what there is to object to.  *)

(* A check passes, or every code it blames is one of the objections.       *)
Passed(fault) == fault = {}

Just(fault, objections) == fault \subseteq objections

(* A chain of checks passes when its parts do, and is just if its parts    *)
(* are as far as they run.                                                 *)
LEMMA Chain ==
  ASSUME NEW f, NEW g
  PROVE  /\ Passed(f ?? g) <=> Passed(f) /\ Passed(g)
         /\ \A S : Just(f, S) /\ (Passed(f) => Just(g, S)) => Just(f ?? g, S)
  BY DEF ??, Just, Passed

(* One check.                                                              *)
LEMMA OneCheck ==
  ASSUME NEW bad, NEW code
  PROVE  /\ Passed(Blame(bad, code)) <=> ~bad
         /\ \A S : (bad => code \in S) => Just(Blame(bad, code), S)
  BY DEF Blame, Passed, Just

(* The header check refuses with an objection, and whenever there is one.  *)
LEMMA HeaderObjected ==
  ASSUME NEW it \in Itinerary \cup {Malformed}
  PROVE  /\ HeaderFault(it) \subseteq HeaderObjections(it)
         /\ HeaderFault(it) = {} => HeaderObjections(it) = {}
<1> DEFINE S == HeaderObjections(it)
           c1 == Blame(it = Malformed, "INVALID_TYPE")
           c2 == Blame(it.schema = Malformed, "INVALID_TYPE")
           c3 == Blame(it.schema # SchemaVersion, "OUT_OF_RANGE")
           c4 == Blame(it.id = Malformed, "INVALID_IDENTIFIER")
           c5 == Blame(~it.anchor, "INVALID_TIMESTAMP")
           c6 == Blame(it.horizon = Malformed, "INVALID_TYPE")
           c7 == Blame(Outside(it.horizon, 1, MaxHorizon), "OUT_OF_RANGE")
           c8 == Blame(it.activities = Malformed, "INVALID_TYPE")
           c9 == Blame(Outside(Len(it.activities), 1, MaxActivities), "OUT_OF_RANGE")
           c10 == Blame(it.transfers = Malformed, "INVALID_TYPE")
           c11 == Blame(Len(it.transfers) > MaxTransfers, "OUT_OF_RANGE")
<1>1. c1 \subseteq S
  BY DEF Blame, HeaderObjections
<1>2. c1 = {} => it \in Itinerary
  BY DEF Blame
<1>3. ASSUME it \in Itinerary, it # Malformed
      PROVE  /\ c2 \subseteq S /\ c3 \subseteq S /\ c4 \subseteq S /\ c5 \subseteq S
             /\ c6 \subseteq S /\ c7 \subseteq S /\ c8 \subseteq S /\ c10 \subseteq S
             /\ c8 = {} => c9 \subseteq S
             /\ c10 = {} => c11 \subseteq S
             /\ c2 = {} /\ c3 = {} /\ c4 = {} /\ c5 = {} /\ c6 = {} /\ c7 = {} /\ c8 = {}
                /\ c9 = {} /\ c10 = {} /\ c11 = {} => S = {}
  <2>1. it.activities # Malformed => Len(it.activities) \in Nat
    BY <1>3 DEF Itinerary
  <2>2. it.transfers # Malformed => Len(it.transfers) \in Nat
    BY <1>3 DEF Itinerary
  <2>3. Malformed \notin Int  BY MalformedAssumption
  <2> QED  BY <1>3, <2>1, <2>2, <2>3, LimitsAssumption DEF Blame, HeaderObjections, Outside, SchemaVersion
<1>4. c1 = {} <=> it # Malformed  BY DEF Blame
<1>5. /\ Just(c1, S)
      /\ Passed(c1) => /\ Just(c2, S) /\ Just(c3, S) /\ Just(c4, S) /\ Just(c5, S)
                       /\ Just(c6, S) /\ Just(c7, S) /\ Just(c8, S) /\ Just(c10, S)
                       /\ Passed(c8) => Just(c9, S)
                       /\ Passed(c10) => Just(c11, S)
  BY <1>1, <1>2, <1>3, <1>4 DEF Just, Passed
<1>6. HeaderFault(it) = c1 ?? c2 ?? c3 ?? c4 ?? c5 ?? c6 ?? c7 ?? c8 ?? c9 ?? c10 ?? c11
  BY DEF HeaderFault
<1>7. HeaderFault(it) = {} => /\ c1 = {} /\ c2 = {} /\ c3 = {} /\ c4 = {} /\ c5 = {} /\ c6 = {}
                              /\ c7 = {} /\ c8 = {} /\ c9 = {} /\ c10 = {} /\ c11 = {}
  BY NeitherFault DEF HeaderFault
<1> HIDE DEF S, c1, c2, c3, c4, c5, c6, c7, c8, c9, c10, c11
<1>8. Just(HeaderFault(it), S)
  BY ONLY <1>5, <1>6, Chain
<1> QED
  BY <1>2, <1>3, <1>4, <1>7, <1>8 DEF S, Just

(* So does the check of an activity.                                       *)
LEMMA ActivityObjected ==
  ASSUME NEW it \in Itinerary, it.horizon \in Nat,
         it.activities \in Seq(Activity \cup {Malformed}),
         NEW x \in Range(it.activities)
  PROVE  Just(ActivityFault(x, it.horizon), ActivityObjections(it))
<1> DEFINE S == ActivityObjections(it)
           h == it.horizon
           c1 == Blame(x = Malformed, "INVALID_TYPE")
           c2 == Blame(x.id = Malformed, "INVALID_IDENTIFIER")
           c3 == Blame(x.release = Malformed, "INVALID_TYPE")
           c4 == Blame(Outside(x.release, 0, h), "OUT_OF_RANGE")
           c5 == Blame(x.min = Malformed \/ x.max = Malformed, "INVALID_TYPE")
           c6 == Blame(Outside(x.min, 1, h), "OUT_OF_RANGE")
           c7 == Blame(Outside(x.max, 1, h), "OUT_OF_RANGE")
           c8 == Blame(x.min > x.max, "OUT_OF_RANGE")
           c9 == Blame(x.deadline = Malformed, "INVALID_TYPE")
           c10 == Blame(Outside(x.deadline, 1, h), "OUT_OF_RANGE")
           c11 == Blame(x.release + x.min > x.deadline, "INFEASIBLE_DEADLINE")
           records == Range(it.activities) \ {Malformed}
           typed == {y \in records : \A f \in {"release", "min", "max", "deadline"} :
                                        y[f] # Malformed}
<1>1. Range(it.activities) # typed => "INVALID_TYPE" \in S
  BY DEF ActivityObjections, Blame
<1>2. \A y \in records :
         /\ y.id = Malformed => "INVALID_IDENTIFIER" \in S
         /\ (\/ Outside(y.release, 0, h) \/ Outside(y.min, 1, h)
             \/ Outside(y.max, 1, h) \/ Outside(y.deadline, 1, h)) => "OUT_OF_RANGE" \in S
         /\ y.min # Malformed /\ y.max # Malformed /\ y.min > y.max => "OUT_OF_RANGE" \in S
         /\ y \in typed /\ y.release + y.min > y.deadline => "INFEASIBLE_DEADLINE" \in S
  BY DEF ActivityObjections, Blame
<1> HIDE DEF S
<1>3. Just(c1, S)
  BY <1>1 DEF Just, Blame
<1>4. Passed(c1) => x \in records
  BY DEF Passed, Blame
<1>5. ASSUME x \in records
      PROVE  /\ Just(c2, S) /\ Just(c3, S) /\ Just(c4, S) /\ Just(c5, S)
             /\ Just(c6, S) /\ Just(c7, S) /\ Just(c9, S) /\ Just(c10, S)
             /\ Passed(c5) => Just(c8, S)
             /\ Passed(c3) /\ Passed(c5) /\ Passed(c9) => Just(c11, S)
  <2>1. x \in typed <=> /\ x.release # Malformed /\ x.min # Malformed
                        /\ x.max # Malformed /\ x.deadline # Malformed
    BY <1>5
  <2>2. x \in typed => x \in records  BY DEF typed
  <2>3. x \notin typed => "INVALID_TYPE" \in S
    BY <1>1
  <2> HIDE DEF typed, records, h
  <2>4. /\ Just(c2, S) /\ Just(c4, S) /\ Just(c6, S) /\ Just(c7, S) /\ Just(c10, S)
    BY <1>2, <1>5 DEF Just, Blame
  <2>5. Just(c3, S) /\ Just(c5, S) /\ Just(c9, S)
    BY <2>1, <2>3, OneCheck
  <2>6. ASSUME Passed(c5) PROVE Just(c8, S)
    <3>1. ~(x.min = Malformed \/ x.max = Malformed)  BY <2>6, OneCheck
    <3>2. x.min > x.max => "OUT_OF_RANGE" \in S  BY <3>1, <1>2, <1>5
    <3> QED  BY <3>2, OneCheck
  <2>7. Passed(c3) /\ Passed(c5) /\ Passed(c9) => Just(c11, S)
    BY <1>2, <1>5, <2>1, OneCheck
  <2> QED  BY <2>4, <2>5, <2>6, <2>7
<1>6. ActivityFault(x, h) = c1 ?? c2 ?? c3 ?? c4 ?? c5 ?? c6 ?? c7 ?? c8 ?? c9 ?? c10 ?? c11
  BY DEF ActivityFault
<1> HIDE DEF c1, c2, c3, c4, c5, c6, c7, c8, c9, c10, c11, records, typed
<1>7. Just(ActivityFault(x, h), S)
  BY ONLY <1>3, <1>4, <1>5, <1>6, Chain
<1> QED  BY <1>7 DEF S

(* When every activity passes and their identifiers differ, there is       *)
(* nothing to object to.                                                   *)
LEMMA ActivitiesUnobjected ==
  ASSUME NEW it \in Itinerary, it.horizon \in Nat,
         it.activities \in Seq(Activity \cup {Malformed}),
         \A x \in Range(it.activities) : Passed(ActivityFault(x, it.horizon)),
         \A i, l \in DOMAIN it.activities :
             i < l => it.activities[i].id # it.activities[l].id
  PROVE  ActivityObjections(it) = {}
<1> DEFINE h == it.horizon
           records == Range(it.activities) \ {Malformed}
           typed == {y \in records : \A f \in {"release", "min", "max", "deadline"} :
                                        y[f] # Malformed}
<1>1. ASSUME NEW x \in Range(it.activities)
      PROVE  /\ x \in typed /\ x \in records /\ x.id # Malformed
             /\ ~Outside(x.release, 0, h) /\ ~Outside(x.min, 1, h)
             /\ ~Outside(x.max, 1, h) /\ ~Outside(x.deadline, 1, h)
             /\ ~(x.min > x.max)
             /\ ~(x.release + x.min > x.deadline)
  <2>1. Passed(ActivityFault(x, h))  OBVIOUS
  <2>2. /\ x # Malformed /\ x.id # Malformed /\ x.release # Malformed
        /\ ~(x.min = Malformed \/ x.max = Malformed) /\ x.deadline # Malformed
        /\ ~Outside(x.release, 0, h) /\ ~Outside(x.min, 1, h)
        /\ ~Outside(x.max, 1, h) /\ ~Outside(x.deadline, 1, h)
        /\ ~(x.min > x.max) /\ ~(x.release + x.min > x.deadline)
    <3>1. /\ Passed(Blame(x = Malformed, "INVALID_TYPE"))
          /\ Passed(Blame(x.id = Malformed, "INVALID_IDENTIFIER"))
          /\ Passed(Blame(x.release = Malformed, "INVALID_TYPE"))
          /\ Passed(Blame(Outside(x.release, 0, h), "OUT_OF_RANGE"))
          /\ Passed(Blame(x.min = Malformed \/ x.max = Malformed, "INVALID_TYPE"))
          /\ Passed(Blame(Outside(x.min, 1, h), "OUT_OF_RANGE"))
          /\ Passed(Blame(Outside(x.max, 1, h), "OUT_OF_RANGE"))
          /\ Passed(Blame(x.min > x.max, "OUT_OF_RANGE"))
          /\ Passed(Blame(x.deadline = Malformed, "INVALID_TYPE"))
          /\ Passed(Blame(Outside(x.deadline, 1, h), "OUT_OF_RANGE"))
          /\ Passed(Blame(x.release + x.min > x.deadline, "INFEASIBLE_DEADLINE"))
      BY <2>1, Chain DEF ActivityFault
    <3> QED  BY <3>1 DEF Passed, Blame
  <2> QED  BY <2>2
<1>2. Range(it.activities) = typed  BY <1>1
<1>3. ~Twins(it.activities, LAMBDA x, y : x # Malformed /\ y # Malformed /\ x.id = y.id)
  BY DEF Twins
<1> QED
  BY <1>1, <1>2, <1>3 DEF ActivityObjections, Blame

(* So do the checks of a transfer that is a record ...                     *)
LEMMA TransferObjected ==
  ASSUME NEW it \in Itinerary, it.horizon \in Nat,
         it.transfers \in Seq(Transfer \cup {Malformed}),
         NEW t \in Range(it.transfers)
  PROVE  Just(TransferFault(t, it.horizon), TransferObjections(it))
<1> DEFINE S == TransferObjections(it)
           h == it.horizon
           c1 == Blame(t = Malformed, "INVALID_TYPE")
           c2 == Blame(t.from = Malformed \/ t.to = Malformed, "INVALID_IDENTIFIER")
           c3 == Blame(t.min = Malformed, "INVALID_TYPE")
           c4 == Blame(Outside(t.min, 0, h), "OUT_OF_RANGE")
<1>1. /\ Malformed \in Range(it.transfers) => "INVALID_TYPE" \in S
      /\ \A u \in Range(it.transfers) \ {Malformed} :
            /\ u.min = Malformed => "INVALID_TYPE" \in S
            /\ u.from = Malformed \/ u.to = Malformed => "INVALID_IDENTIFIER" \in S
            /\ Outside(u.min, 0, h) => "OUT_OF_RANGE" \in S
  BY DEF TransferObjections, Blame
<1> HIDE DEF S, h
<1>2. Just(c1, S)  BY <1>1, OneCheck
<1>3. Passed(c1) => t # Malformed  BY OneCheck
<1>4. t # Malformed => Just(c2, S) /\ Just(c3, S) /\ Just(c4, S)
  BY <1>1, OneCheck
<1>5. TransferFault(t, h) = c1 ?? c2 ?? c3 ?? c4
  BY DEF TransferFault
<1> HIDE DEF c1, c2, c3, c4
<1>6. Just(TransferFault(t, h), S)
  BY ONLY <1>2, <1>3, <1>4, <1>5, Chain
<1> QED  BY <1>6 DEF S, h

(* The identifiers read are the ones of the activities read.               *)
LEMMA IdentifiersRead ==
  ASSUME NEW n, ActivitiesRead(n)
  PROVE  /\ \A i \in 1..n : itinerary.activities[i].id \in Ids
         /\ \A a \in Ids : \E i \in 1..n : itinerary.activities[i].id = a
<1>1. \A i \in 1..n : itinerary.activities[i].id \in Ids
  BY DEF ActivitiesRead
<1>2. ASSUME NEW a \in Ids PROVE \E i \in 1..n : itinerary.activities[i].id = a
  <2>1. PICK i \in 1..n : itinerary.activities[i] = activityById[a] /\ activityById[a].id = a
    BY DEF ActivitiesRead
  <2> QED  BY <2>1
<1> QED  BY <1>1, <1>2

(* When the activities are read, these are the identifiers of the input.   *)
LEMMA AllIdentifiersRead ==
  ASSUME itinerary.activities \in Seq(Activity \cup {Malformed}),
         ActivitiesRead(Len(itinerary.activities))
  PROVE  Ids = IdsOf(itinerary)
<1>1. DOMAIN itinerary.activities = 1..Len(itinerary.activities)  OBVIOUS
<1>2. /\ \A i \in DOMAIN itinerary.activities : itinerary.activities[i].id \in Ids
      /\ \A a \in Ids : \E i \in DOMAIN itinerary.activities : itinerary.activities[i].id = a
  BY <1>1, IdentifiersRead
<1> QED  BY <1>2 DEF IdsOf, Range

(* What a passed check says of a transfer.                                 *)
LEMMA PassedTransfer ==
  ASSUME NEW t, NEW h, Passed(TransferFault(t, h))
  PROVE  /\ t # Malformed /\ t.from # Malformed /\ t.to # Malformed
         /\ t.min # Malformed /\ ~Outside(t.min, 0, h)
<1>1. /\ Passed(Blame(t = Malformed, "INVALID_TYPE"))
      /\ Passed(Blame(t.from = Malformed \/ t.to = Malformed, "INVALID_IDENTIFIER"))
      /\ Passed(Blame(t.min = Malformed, "INVALID_TYPE"))
      /\ Passed(Blame(Outside(t.min, 0, h), "OUT_OF_RANGE"))
  BY Chain DEF TransferFault
<1> QED  BY <1>1 DEF Passed, Blame

(* ... and of its pair, once the activities and the transfers before it    *)
(* are read.                                                               *)
LEMMA PairObjected ==
  ASSUME ReadInv, pc = "transfers", k <= Len(itinerary.transfers),
         Passed(TransferFault(itinerary.transfers[k], itinerary.horizon)),
         \A i \in 1..(k - 1) : itinerary.transfers[i] # Malformed
  PROVE  Just(PairFault(itinerary.transfers[k]), TransferObjections(itinerary))
<1> DEFINE S == TransferObjections(itinerary)
           trs == itinerary.transfers
           t == trs[k]
           Same(u, v) == u # Malformed /\ v # Malformed /\ u.from = v.from /\ u.to = v.to
<1>1. /\ trs \in Seq(Transfer \cup {Malformed}) /\ DOMAIN trs = 1..Len(trs)
      /\ k \in DOMAIN trs /\ k \in Nat \ {0} /\ Len(trs) \in Nat
      /\ TransfersRead(k - 1) /\ ActivitiesRead(Len(itinerary.activities))
      /\ itinerary.activities \in Seq(Activity \cup {Malformed})
  BY DEF ReadInv, Typed, HeaderRead, Reading
<1>2. t \in Range(trs) \ {Malformed}
  <2>1. t \in Range(trs)  BY <1>1 DEF Range
  <2>2. t # Malformed
    BY PassedTransfer
  <2> QED  BY <2>1, <2>2
<1>3. Ids = IdsOf(itinerary)  BY <1>1, AllIdentifiersRead
<1>4. /\ t.from = t.to => "SELF_TRANSFER" \in S
      /\ ~({t.from, t.to} \subseteq IdsOf(itinerary)) => "UNKNOWN_TRANSFER_REFERENCE" \in S
      /\ Twins(trs, Same) => "DUPLICATE_TRANSFER" \in S
  <2>1. Just(Blame(Twins(trs, Same), "DUPLICATE_TRANSFER"), S)
    BY DEF TransferObjections, Just, Twins
  <2>2. Just(Blame(\E u \in Range(trs) \ {Malformed} : u.from = u.to, "SELF_TRANSFER"), S)
    BY DEF TransferObjections, Just
  <2>3. Just(Blame(\E u \in Range(trs) \ {Malformed} : ~({u.from, u.to} \subseteq IdsOf(itinerary)),
                   "UNKNOWN_TRANSFER_REFERENCE"), S)
    BY DEF TransferObjections, Just
  <2> QED  BY <1>2, <2>1, <2>2, <2>3 DEF Just, Blame
<1>5. <<t.from, t.to>> \in pairs => Twins(trs, Same)
  <2> SUFFICES ASSUME <<t.from, t.to>> \in pairs PROVE Twins(trs, Same)  OBVIOUS
  <2>1. PICK i \in 1..(k - 1) : <<t.from, t.to>> = <<trs[i].from, trs[i].to>>
    BY <1>1 DEF TransfersRead
  <2>2. i \in DOMAIN trs /\ i < k /\ trs[i] # Malformed  BY <1>1
  <2>3. Same(trs[i], trs[k])  BY <1>2, <2>1, <2>2
  <2> QED  BY <1>1, <2>2, <2>3 DEF Twins
<1> DEFINE c1 == Blame(<<t.from, t.to>> \in pairs, "DUPLICATE_TRANSFER")
           c2 == Blame(t.from = t.to, "SELF_TRANSFER")
           c3 == Blame(t.from \notin Ids \/ t.to \notin Ids, "UNKNOWN_TRANSFER_REFERENCE")
<1> HIDE DEF S, t, Same
<1>6. Just(c1, S) /\ Just(c2, S) /\ Just(c3, S)
  BY <1>3, <1>4, <1>5, OneCheck
<1>7. PairFault(t) = c1 ?? c2 ?? c3  BY DEF PairFault
<1> HIDE DEF c1, c2, c3
<1>8. Just(PairFault(t), S)
  BY ONLY <1>6, <1>7, Chain
<1> QED  BY <1>8 DEF S, t

(* When every transfer passes, joins two known activities and no two join  *)
(* the same, there is nothing to object to.                                *)
LEMMA TransfersUnobjected ==
  ASSUME NEW it \in Itinerary, it.horizon \in Nat,
         it.transfers \in Seq(Transfer \cup {Malformed}),
         \A t \in Range(it.transfers) :
             /\ Passed(TransferFault(t, it.horizon))
             /\ t.from # t.to /\ t.from \in IdsOf(it) /\ t.to \in IdsOf(it),
         \A i, l \in DOMAIN it.transfers :
             i < l => \/ it.transfers[i].from # it.transfers[l].from
                      \/ it.transfers[i].to # it.transfers[l].to
  PROVE  TransferObjections(it) = {}
<1>1. ASSUME NEW t \in Range(it.transfers)
      PROVE  /\ t # Malformed /\ t.from # Malformed /\ t.to # Malformed
             /\ t.min # Malformed /\ ~Outside(t.min, 0, it.horizon)
  BY PassedTransfer
<1>2. ~Twins(it.transfers, LAMBDA t, u : /\ t # Malformed /\ u # Malformed
                                         /\ t.from = u.from /\ t.to = u.to)
  BY DEF Twins
<1> QED
  BY <1>1, <1>2 DEF TransferObjections, Blame

-----------------------------------------------------------------------------
(* The stages behind the current one objected to nothing.                  *)

ActivitiesPassed(n) ==
    /\ \A i \in 1..n : Passed(ActivityFault(itinerary.activities[i], itinerary.horizon))
    /\ \A i, l \in 1..n : i < l => itinerary.activities[i].id # itinerary.activities[l].id

TransfersPassed(n) ==
    /\ \A i \in 1..n : LET t == itinerary.transfers[i] IN
          /\ Passed(TransferFault(t, itinerary.horizon))
          /\ t.from # t.to /\ t.from \in Ids /\ t.to \in Ids
    /\ \A i, l \in 1..n : i < l =>
          \/ itinerary.transfers[i].from # itinerary.transfers[l].from
          \/ itinerary.transfers[i].to # itinerary.transfers[l].to

(* Position i of the order is not after any activity that waits only for   *)
(* earlier positions.                                                      *)
LeastAt(i) ==
    \A a \in Ids :
        /\ \A m \in 1..(i - 1) : order[m] # a
        /\ \A p \in Ids : a \in successors[p] => \E m \in 1..(i - 1) : order[m] = p
        => order[i] <= a

Unobjected ==
    /\ pc \notin {"header", "done"} => HeaderObjections(itinerary) = {}
    /\ pc = "activities" => ActivitiesPassed(k - 1)
    /\ pc \in {"transfers"} \cup Late => ActivityObjections(itinerary) = {}
    /\ pc = "transfers" => TransfersPassed(k - 1)
    /\ pc \in Late => /\ TransferObjections(itinerary) = {}
                      /\ \A i \in DOMAIN order : LeastAt(i)
    /\ pc \in {"start", "relax"} => ~HasCycle(IdsOf(itinerary), EdgesOf(itinerary))

(* The header stage.                                                       *)
LEMMA UnobjectedHeader == ReadInv /\ CheckHeader => Unobjected'
<1> SUFFICES ASSUME ReadInv, CheckHeader PROVE Unobjected'  OBVIOUS
<1>1. CASE pc' = "done"
  BY <1>1 DEF Unobjected, Late
<1>2. CASE pc' # "done"
  <2>1. /\ pc' = "activities" /\ k' = 1 /\ itinerary' = itinerary
        /\ HeaderFault(itinerary) = {}
    BY <1>2 DEF CheckHeader, Fail, ReadInv, Typed
  <2>2. HeaderObjections(itinerary) = {}
    BY <2>1, HeaderObjected DEF ReadInv, Typed
  <2> QED  BY <2>1, <2>2 DEF Unobjected, ActivitiesPassed, Late
<1> QED  BY <1>1, <1>2

(* One more activity passes.                                               *)
LEMMA UnobjectedActivity == ReadInv /\ Unobjected /\ CheckActivity => Unobjected'
<1> SUFFICES ASSUME ReadInv, Unobjected, CheckActivity PROVE Unobjected'  OBVIOUS
<1>1. CASE pc' = "done"
  BY <1>1 DEF Unobjected, Late
<1>2. CASE pc' # "done"
  <2> DEFINE x == itinerary.activities[k]
             c == Blame(x.id \in Ids, "DUPLICATE_ACTIVITY_ID")
  <2>1. /\ pc = "activities" /\ pc' = pc /\ k' = k + 1 /\ itinerary' = itinerary
        /\ k \in Nat \ {0}
        /\ ActivityFault(x, itinerary.horizon) ?? c = {}
    BY <1>2 DEF CheckActivity, Fail, ReadInv, Typed
  <2>2. Passed(ActivityFault(x, itinerary.horizon)) /\ x.id \notin Ids
    BY <2>1, NeitherFault DEF Passed, Blame
  <2>3. ActivitiesPassed(k - 1) /\ ActivitiesRead(k - 1)
    BY <2>1 DEF Unobjected, ReadInv, Reading
  <2>4. \A i \in 1..(k - 1) : itinerary.activities[i].id \in Ids
    BY <2>3 DEF ActivitiesRead
  <2>5. ActivitiesPassed(k)
    <3>1. \A i \in 1..k : i = k \/ i \in 1..(k - 1)  BY <2>1
    <3>2. \A i \in 1..k : Passed(ActivityFault(itinerary.activities[i], itinerary.horizon))
      BY <3>1, <2>2, <2>3 DEF ActivitiesPassed
    <3>3. ASSUME NEW i \in 1..k, NEW l \in 1..k, i < l
          PROVE  itinerary.activities[i].id # itinerary.activities[l].id
      <4>1. i \in 1..(k - 1)  BY <3>3, <2>1
      <4>2. CASE l = k  BY <4>1, <4>2, <2>2, <2>4
      <4>3. CASE l \in 1..(k - 1)  BY <3>3, <4>1, <4>3, <2>3 DEF ActivitiesPassed
      <4> QED  BY <3>1, <4>2, <4>3
    <3> QED  BY <3>2, <3>3 DEF ActivitiesPassed
  <2>6. ActivitiesPassed(k - 1)'
    <3>1. (k + 1) - 1 = k  BY <2>1
    <3> QED  BY <2>1, <2>5, <3>1 DEF ActivitiesPassed
  <2>7. HeaderObjections(itinerary) = {}  BY <2>1 DEF Unobjected
  <2> QED  BY <2>1, <2>6, <2>7 DEF Unobjected, Late
<1> QED  BY <1>1, <1>2

(* All have passed.                                                        *)
LEMMA UnobjectedStartTransfers ==
  ReadInv /\ Unobjected /\ StartTransfers => Unobjected'
<1> SUFFICES ASSUME ReadInv, Unobjected, StartTransfers PROVE Unobjected'  OBVIOUS
<1> DEFINE acts == itinerary.activities
<1>1. /\ pc = "activities" /\ pc' = "transfers" /\ k' = 1 /\ itinerary' = itinerary
      /\ k > Len(acts) /\ k <= Len(acts) + 1 /\ k \in Nat
      /\ itinerary \in Itinerary /\ itinerary.horizon \in Nat
      /\ acts \in Seq(Activity \cup {Malformed})
      /\ ActivitiesPassed(k - 1) /\ HeaderObjections(itinerary) = {}
  BY DEF StartTransfers, Unobjected, ReadInv, Typed, Reading, HeaderRead
<1>2. k - 1 = Len(acts) /\ DOMAIN acts = 1..(k - 1)
  BY <1>1
<1>3. /\ \A x \in Range(acts) : Passed(ActivityFault(x, itinerary.horizon))
      /\ \A i, l \in DOMAIN acts : i < l => acts[i].id # acts[l].id
  BY <1>1, <1>2 DEF ActivitiesPassed, Range
<1>4. ActivityObjections(itinerary) = {}
  BY <1>1, <1>3, ActivitiesUnobjected
<1> QED  BY <1>1, <1>4 DEF Unobjected, TransfersPassed, Late

(* One more transfer passes.                                               *)
LEMMA UnobjectedTransfer == ReadInv /\ Unobjected /\ CheckTransfer => Unobjected'
<1> SUFFICES ASSUME ReadInv, Unobjected, CheckTransfer PROVE Unobjected'  OBVIOUS
<1>1. CASE pc' = "done"
  BY <1>1 DEF Unobjected, Late
<1>2. CASE pc' # "done"
  <2> DEFINE trs == itinerary.transfers
             t == trs[k]
  <2>1. /\ pc = "transfers" /\ pc' = pc /\ k' = k + 1
        /\ itinerary' = itinerary /\ Ids' = Ids /\ k \in Nat \ {0}
        /\ TransferFault(t, itinerary.horizon) ?? PairFault(t) = {}
    BY <1>2 DEF CheckTransfer, Fail, ReadInv, Typed, Ids
  <2>2. /\ Passed(TransferFault(t, itinerary.horizon))
        /\ <<t.from, t.to>> \notin pairs /\ t.from # t.to
        /\ t.from \in Ids /\ t.to \in Ids
    <3>1. TransferFault(t, itinerary.horizon) = {} /\ PairFault(t) = {}
      BY <2>1, NeitherFault
    <3>2. /\ Blame(<<t.from, t.to>> \in pairs, "DUPLICATE_TRANSFER") = {}
          /\ Blame(t.from = t.to, "SELF_TRANSFER") = {}
          /\ Blame(t.from \notin Ids \/ t.to \notin Ids, "UNKNOWN_TRANSFER_REFERENCE") = {}
      BY <3>1, NeitherFault DEF PairFault
    <3> QED  BY <3>1, <3>2 DEF Passed, Blame
  <2>3. TransfersPassed(k - 1) /\ TransfersRead(k - 1)
    BY <2>1 DEF Unobjected, ReadInv, Reading
  <2>4. \A i \in 1..(k - 1) : <<trs[i].from, trs[i].to>> \in pairs
    BY <2>3 DEF TransfersRead
  <2>5. TransfersPassed(k)
    <3>1. \A i \in 1..k : i = k \/ i \in 1..(k - 1)  BY <2>1
    <3>2. \A i \in 1..k : /\ Passed(TransferFault(trs[i], itinerary.horizon))
                          /\ trs[i].from # trs[i].to
                          /\ trs[i].from \in Ids /\ trs[i].to \in Ids
      BY <3>1, <2>2, <2>3 DEF TransfersPassed
    <3>3. ASSUME NEW i \in 1..k, NEW l \in 1..k, i < l
          PROVE  trs[i].from # trs[l].from \/ trs[i].to # trs[l].to
      <4>1. i \in 1..(k - 1)  BY <3>3, <2>1
      <4>2. CASE l = k  BY <4>1, <4>2, <2>2, <2>4
      <4>3. CASE l \in 1..(k - 1)  BY <3>3, <4>1, <4>3, <2>3 DEF TransfersPassed
      <4> QED  BY <3>1, <4>2, <4>3
    <3> QED  BY <3>2, <3>3 DEF TransfersPassed
  <2>6. TransfersPassed(k - 1)'
    <3>1. (k + 1) - 1 = k  BY <2>1
    <3> QED  BY <2>1, <2>5, <3>1 DEF TransfersPassed
  <2>7. HeaderObjections(itinerary) = {} /\ ActivityObjections(itinerary) = {}
    BY <2>1 DEF Unobjected
  <2> QED  BY <2>1, <2>6, <2>7 DEF Unobjected, Late
<1> QED  BY <1>1, <1>2

(* All have passed.                                                        *)
LEMMA UnobjectedStartOrdering ==
  ReadInv /\ Unobjected /\ StartOrdering => Unobjected'
<1> SUFFICES ASSUME ReadInv, Unobjected, StartOrdering PROVE Unobjected'  OBVIOUS
<1> DEFINE trs == itinerary.transfers
<1>1. /\ pc = "transfers" /\ pc' = "ordering" /\ itinerary' = itinerary
      /\ order' = order /\ order = << >>
      /\ k > Len(trs) /\ k <= Len(trs) + 1 /\ k \in Nat
      /\ itinerary \in Itinerary /\ itinerary.horizon \in Nat
      /\ trs \in Seq(Transfer \cup {Malformed})
      /\ TransfersPassed(k - 1) /\ HeaderObjections(itinerary) = {}
      /\ ActivityObjections(itinerary) = {}
  BY DEF StartOrdering, Unobjected, ReadInv, Typed, Reading, HeaderRead, Early
<1>2. k - 1 = Len(trs) /\ DOMAIN trs = 1..(k - 1)
  BY <1>1
<1>3. Ids = IdsOf(itinerary)
  <2>1. /\ itinerary.activities \in Seq(Activity \cup {Malformed})
        /\ ActivitiesRead(Len(itinerary.activities))
    BY <1>1 DEF ReadInv, HeaderRead, Reading
  <2> QED  BY <2>1, AllIdentifiersRead
<1>4. /\ \A t \in Range(trs) : /\ Passed(TransferFault(t, itinerary.horizon))
                               /\ t.from # t.to
                               /\ t.from \in IdsOf(itinerary) /\ t.to \in IdsOf(itinerary)
      /\ \A i, l \in DOMAIN trs : i < l => trs[i].from # trs[l].from \/ trs[i].to # trs[l].to
  BY <1>1, <1>2, <1>3 DEF TransfersPassed, Range
<1>5. TransferObjections(itinerary) = {}
  BY <1>1, <1>4, TransfersUnobjected
<1> QED  BY <1>1, <1>5 DEF Unobjected, Late

(* The heap gives the least activity that waits for nobody.                *)
LEMMA UnobjectedPop ==
  ReadInv /\ Ordering /\ Unobjected /\ PopReady => Unobjected'
<1> SUFFICES ASSUME ReadInv, Ordering, Unobjected, PopReady PROVE Unobjected'  OBVIOUS
<1> DEFINE a == Least(ready)
<1>1. /\ pc = "ordering" /\ pc' = "ordering" /\ Ids' = Ids
      /\ itinerary' = itinerary /\ successors' = successors
      /\ order' = Append(order, a) /\ ready # {}
  BY DEF PopReady, Ids
<1>2. /\ ready \subseteq Ids /\ Ids \subseteq Nat /\ order \in Seq(Ids)
      /\ ready = {s \in Ids \ Range(order) : PendingOf(s) = {}}
      /\ \A i \in DOMAIN order : LeastAt(i)
      /\ HeaderObjections(itinerary) = {} /\ ActivityObjections(itinerary) = {}
      /\ TransferObjections(itinerary) = {}
  BY <1>1 DEF ReadInv, Typed, Ordering, FrontierIsExact, Unobjected, Late
<1>3. a \in Ids /\ \A s \in ready : a <= s
  BY <1>1, <1>2, LeastIsLeast
<1> HIDE DEF a
<1>4. /\ Len(order) \in Nat /\ DOMAIN order = 1..Len(order)
      /\ DOMAIN order' = 1..(Len(order) + 1)
      /\ order'[Len(order) + 1] = a
      /\ \A i \in 1..Len(order) : order'[i] = order[i]
  BY <1>1, <1>2, <1>3
<1>5. ASSUME NEW i \in DOMAIN order' PROVE LeastAt(i)'
  <2>1. SUFFICES ASSUME NEW s \in Ids,
                        \A m \in 1..(i - 1) : order'[m] # s,
                        \A p \in Ids : s \in successors[p] =>
                                           \E m \in 1..(i - 1) : order'[m] = p
                 PROVE  order'[i] <= s
    BY <1>1 DEF LeastAt
  <2>2. \A m \in 1..(i - 1) : m \in DOMAIN order /\ order'[m] = order[m]
    BY <1>4
  <2>3. CASE i \in DOMAIN order
    <3>1. order'[i] = order[i] /\ LeastAt(i)  BY <1>2, <1>4, <2>3
    <3> QED  BY <2>1, <2>2, <3>1 DEF LeastAt
  <2>4. CASE i = Len(order) + 1
    <3>1. s \notin Range(order)
      <4> SUFFICES ASSUME NEW m \in DOMAIN order, order[m] = s PROVE FALSE
        BY DEF Range
      <4>1. m \in 1..(i - 1)  BY <2>4, <1>4
      <4> QED  BY <4>1, <2>1, <2>2
    <3>2. PendingOf(s) = {}
      <4> SUFFICES ASSUME NEW p \in Ids, s \in successors[p] PROVE p \in Range(order)
        BY DEF PendingOf
      <4>1. PICK m \in 1..(i - 1) : order'[m] = p  BY <2>1
      <4> QED  BY <4>1, <2>2 DEF Range
    <3>3. s \in ready  BY <1>2, <3>1, <3>2
    <3> QED  BY <1>3, <1>4, <2>4, <3>3
  <2> QED  BY <1>4, <2>3, <2>4
<1> QED  BY <1>1, <1>2, <1>5 DEF Unobjected, Late

(* A full order leaves no knot: its first activity in the order would wait *)
(* for an earlier one.                                                     *)
LEMMA UnobjectedFinishOrdering ==
  ReadInv /\ Ordering /\ Unobjected /\ FinishOrdering => Unobjected'
<1> SUFFICES ASSUME ReadInv, Ordering, Unobjected, FinishOrdering PROVE Unobjected'  OBVIOUS
<1>1. CASE pc' = "done"
  BY <1>1 DEF Unobjected, Late
<1>2. CASE pc' # "done"
  <2>1. /\ pc = "ordering" /\ pc' = "start" /\ itinerary' = itinerary
        /\ order' = order /\ successors' = successors /\ Ids' = Ids
        /\ OrderingFault = {}
    BY <1>2 DEF FinishOrdering, Fail, graph, Ids
  <2>2. /\ Len(order) = Cardinality(Ids) /\ OrderClosed /\ IsInjective(order)
        /\ order \in Seq(Ids) /\ DOMAIN order = 1..Len(order)
        /\ TransfersRead(Len(itinerary.transfers))
    BY <2>1 DEF OrderingFault, Blame, Ordering, ReadInv, Typed, Reading, Late
  <2>3. Range(order) = Ids  BY <2>2, FullOrder
  <2>4. IdsOf(itinerary) = Ids /\ EdgesOf(itinerary) = pairs
    BY <2>1, GraphOfInput DEF Late
  <2>5. ~HasCycle(Ids, pairs)
    <3>1. SUFFICES ASSUME NEW C \in SUBSET Ids, C # {},
                          \A x \in C : \E p \in C : <<p, x>> \in pairs
                   PROVE  FALSE
      BY DEF HasCycle, IsKnot
    <3> DEFINE at == {i \in DOMAIN order : order[i] \in C}
    <3>2. at \subseteq Nat /\ at # {}
      <4>1. at \subseteq Nat  BY <2>2
      <4>2. PICK x \in C : x \in Range(order)  BY <2>3, <3>1
      <4>3. PICK i \in DOMAIN order : order[i] = x  BY <4>2 DEF Range
      <4> QED  BY <4>1, <4>3
    <3> DEFINE i == Least(at)
    <3>3. i \in at /\ \A l \in at : i <= l
      <4> HIDE DEF at
      <4> QED  BY <3>2, LeastIsLeast
    <3> HIDE DEF i
    <3>4. PICK p \in C : <<p, order[i]>> \in pairs  BY <3>1, <3>3
    <3>5. order[i] \in successors[p]
      BY <2>2, <3>3, <3>4 DEF TransfersRead
    <3>6. PICK m \in 1..(i - 1) : order[m] = p
      BY <2>2, <3>3, <3>4, <3>5 DEF OrderClosed
    <3>7. m \in at  BY <2>2, <3>3, <3>4, <3>6
    <3> QED  BY <2>2, <3>3, <3>6, <3>7
  <2>6. /\ HeaderObjections(itinerary) = {} /\ ActivityObjections(itinerary) = {}
        /\ TransferObjections(itinerary) = {}
        /\ \A i \in DOMAIN order : LeastAt(i)
    BY <2>1 DEF Unobjected, Late
  <2>7. \A i \in DOMAIN order' : LeastAt(i)'
    BY <2>1, <2>6 DEF LeastAt
  <2> QED  BY <2>1, <2>4, <2>5, <2>6, <2>7 DEF Unobjected, Late
<1> QED  BY <1>1, <1>2

(* The forward pass leaves all of this alone.                              *)
LEMMA UnobjectedForward ==
  Unobjected /\ (StartActivity \/ RelaxTransfer \/ FinishActivity \/ Return)
      => Unobjected'
<1> SUFFICES ASSUME Unobjected, StartActivity \/ RelaxTransfer \/ FinishActivity \/ Return
             PROVE  Unobjected'
  OBVIOUS
<1>1. /\ pc \in {"start", "relax"} /\ pc' \in {"start", "relax", "done"}
      /\ UNCHANGED <<itinerary, activityById, order, successors>>
  BY DEF StartActivity, RelaxTransfer, FinishActivity, Return, Fail, graph
<1>2. /\ HeaderObjections(itinerary) = {} /\ ActivityObjections(itinerary) = {}
      /\ TransferObjections(itinerary) = {}
      /\ ~HasCycle(IdsOf(itinerary), EdgesOf(itinerary))
      /\ \A i \in DOMAIN order : LeastAt(i)
  BY <1>1 DEF Unobjected, Late
<1>3. \A i \in DOMAIN order' : LeastAt(i)'
  BY <1>1, <1>2 DEF LeastAt, Ids
<1> QED  BY <1>1, <1>2, <1>3 DEF Unobjected, Late

(* Nor does standing still.                                                *)
LEMMA UnobjectedStutter == Unobjected /\ UNCHANGED vars => Unobjected'
  BY DEF Unobjected, vars, ActivitiesPassed, TransfersPassed, LeastAt, Ids

(* Every step preserves Unobjected.                                        *)
LEMMA UnobjectedStep == ReadInv /\ Ordering /\ Unobjected /\ [Next]_vars => Unobjected'
  BY UnobjectedHeader, UnobjectedActivity, UnobjectedStartTransfers, UnobjectedTransfer,
     UnobjectedStartOrdering, UnobjectedPop, UnobjectedFinishOrdering, UnobjectedForward,
     UnobjectedStutter DEF Next

-----------------------------------------------------------------------------
(* The instance of the contract speaks of the same operators.              *)

(* The objections are the same ...                                         *)
LEMMA SameObjections == ASSUME NEW it PROVE Contract!Objections(it) = Objections(it)
<1>1. Contract!HeaderObjections(it) = HeaderObjections(it)
  BY DEF HeaderObjections, Contract!HeaderObjections, Blame, Contract!Blame, Outside, Contract!Outside
<1>2. Contract!ActivityObjections(it) = ActivityObjections(it)
  BY DEF ActivityObjections, Contract!ActivityObjections, Blame, Contract!Blame, Outside,
         Contract!Outside, Range, Contract!Range, Twins, Contract!Twins
<1>3. Contract!IdsOf(it) = IdsOf(it) /\ Contract!EdgesOf(it) = EdgesOf(it)
  BY DEF IdsOf, Contract!IdsOf, EdgesOf, Contract!EdgesOf, Range, Contract!Range
<1>4. Contract!TransferObjections(it) = TransferObjections(it)
  BY <1>3 DEF TransferObjections, Contract!TransferObjections, Blame, Contract!Blame, Outside,
         Contract!Outside, Range, Contract!Range, Twins, Contract!Twins
<1>5. Contract!HasCycle(IdsOf(it), EdgesOf(it)) = HasCycle(IdsOf(it), EdgesOf(it))
  BY DEF HasCycle, Contract!HasCycle, IsKnot, Contract!IsKnot
<1>6. \A a : Contract!ActivityOf(it, a) = ActivityOf(it, a)
  BY DEF ActivityOf, Contract!ActivityOf, Range, Contract!Range
<1>7. Contract!IsSchedulable(it, Contract!MinDurations(it)) = IsSchedulable(it, MinDurations(it))
  BY <1>3, <1>6 DEF IsSchedulable, Contract!IsSchedulable, MinDurations, Contract!MinDurations,
     RespectsPrecedence, Contract!RespectsPrecedence, MeetsDeadlines, Contract!MeetsDeadlines, Range, Contract!Range
<1> QED 
  BY <1>1, <1>2, <1>3, <1>4, <1>5, <1>7 DEF Objections, Contract!Objections, ??, Contract!??, Blame, Contract!Blame

(* ... and the verdicts, unfolded.                                         *)
LEMMA SameVerdicts == ASSUME NEW it PROVE Contract!Verdicts(it) =
    IF Objections(it) # {}
      THEN [code: Objections(it), order: {<< >>}]
      ELSE [code: {"ACCEPTED"},
            order: {p \in Bijection(1..Cardinality(IdsOf(it)), IdsOf(it)) :
                       IsLeastOrder(p, IdsOf(it), EdgesOf(it))}]
<1>0. \A T : Contract!Cardinality(T) = Cardinality(T)
  BY DEF Contract!Cardinality, Cardinality
<1>1. Contract!IdsOf(it) = IdsOf(it) /\ Contract!EdgesOf(it) = EdgesOf(it)
  BY DEF IdsOf, Contract!IdsOf, EdgesOf, Contract!EdgesOf, Range, Contract!Range
<1>2. ASSUME NEW S, NEW T PROVE Contract!Bijection(S, T) = Bijection(S, T)
  <2>1. Contract!Injection(S, T) = Injection(S, T)
    BY DEF Contract!Injection, Injection, Contract!IsInjective, IsInjective
  <2>2. Contract!Surjection(S, T) = Surjection(S, T)
    BY DEF Contract!Surjection, Surjection
  <2> QED  BY <2>1, <2>2 DEF Contract!Bijection, Bijection
<1>3. ASSUME NEW p, NEW S, NEW E PROVE Contract!IsLeastOrder(p, S, E) <=> IsLeastOrder(p, S, E)
  <2>1. ASSUME NEW q PROVE Contract!IsTopological(q, S, E) <=> IsTopological(q, S, E)
    <3>1. Contract!Range(q) = Range(q)  BY DEF Contract!Range, Range
    <3> QED  BY <3>1, <1>0 DEF Contract!IsTopological, IsTopological
  <2>2. ASSUME NEW q PROVE Contract!LexBefore(q, p) <=> LexBefore(q, p)
    BY DEF Contract!LexBefore, LexBefore
  <2>3. \A B : (\A q \in B : Contract!IsTopological(q, S, E) => ~Contract!LexBefore(q, p))
               <=> (\A q \in B : IsTopological(q, S, E) => ~LexBefore(q, p))
    BY <2>1, <2>2
  <2> QED  BY <1>2, <1>0, <2>1, <2>3 DEF Contract!IsLeastOrder, IsLeastOrder
<1> DEFINE least(ids, edges) ==
               {p \in Bijection(1..Cardinality(ids), ids) : IsLeastOrder(p, ids, edges)}
           abstract(ids, edges) ==
               {p \in Contract!Bijection(1..Contract!Cardinality(ids), ids) :
                   Contract!IsLeastOrder(p, ids, edges)}
<1>4. \A ids, edges : abstract(ids, edges) = least(ids, edges)
  BY <1>0, <1>2, <1>3
<1>5. Contract!Verdicts(it) =
         IF Contract!Objections(it) # {}
           THEN [code: Contract!Objections(it), order: {<< >>}]
           ELSE [code: {"ACCEPTED"}, order: abstract(Contract!IdsOf(it), Contract!EdgesOf(it))]
  BY DEF Contract!Verdicts
<1> HIDE DEF least, abstract
<1>6. Contract!Verdicts(it) =
         IF Objections(it) # {}
           THEN [code: Objections(it), order: {<< >>}]
           ELSE [code: {"ACCEPTED"}, order: least(IdsOf(it), EdgesOf(it))]
  BY <1>1, <1>4, <1>5, SameObjections
<1> QED  BY <1>6 DEF least

-----------------------------------------------------------------------------
(* The contract.                                                           *)

(* The order shown to the caller, and the verdict of the contract.         *)
Shown == IF result = "ACCEPTED" THEN order ELSE << >>

Verdict == [code |-> result, order |-> Shown]

(* An objection of the first stage that has any is what the contract       *)
(* allows.                                                                 *)
LEMMA RefusalKept ==
  ASSUME result = "PENDING", result' \in Objections(itinerary), result' \in Codes,
         UNCHANGED itinerary
  PROVE  Contract!Decide
<1>1. result' # "ACCEPTED" /\ result' # "PENDING"  BY DEF Codes
<1>2. Verdict' = [code |-> result', order |-> << >>]  BY <1>1 DEF Verdict, Shown
<1>3. Contract!Verdicts(itinerary) = [code: Objections(itinerary), order: {<< >>}]
  <2>1. Objections(itinerary) # {}  OBVIOUS
  <2> QED  BY <2>1, SameVerdicts
<1>4. Verdict' \in Contract!Verdicts(itinerary)  BY <1>2, <1>3
<1> QED  BY <1>1, <1>4 DEF Contract!Decide, Contract!Pending, Verdict, Shown

(* Every refusal of a reading stage is one.                                *)
LEMMA ReadRefusal ==
  ASSUME ReadInv, Unobjected, CheckHeader \/ CheckActivity \/ CheckTransfer, pc' = "done"
  PROVE  result' \in Objections(itinerary)
<1>1. CASE CheckHeader
  <2>1. result' \in HeaderFault(itinerary)
    BY <1>1 DEF CheckHeader, Fail
  <2>2. result' \in HeaderObjections(itinerary)
    BY <2>1, HeaderObjected DEF ReadInv, Typed
  <2> QED  BY <2>2 DEF Objections, ??
<1>2. CASE CheckActivity
  <2> DEFINE acts == itinerary.activities
             x == acts[k]
             c == Blame(x.id \in Ids, "DUPLICATE_ACTIVITY_ID")
  <2>1. /\ pc = "activities" /\ k <= Len(acts) /\ k \in Nat \ {0}
        /\ itinerary \in Itinerary /\ itinerary.horizon \in Nat
        /\ acts \in Seq(Activity \cup {Malformed})
        /\ HeaderObjections(itinerary) = {} /\ ActivitiesPassed(k - 1)
        /\ ActivitiesRead(k - 1)
        /\ result' \in ActivityFault(x, itinerary.horizon) ?? c
    BY <1>2 DEF CheckActivity, Fail, ReadInv, Typed, HeaderRead, Reading, Unobjected
  <2>2. DOMAIN acts = 1..Len(acts) /\ k \in DOMAIN acts /\ x \in Range(acts)
    BY <2>1 DEF Range
  <2>3. Just(ActivityFault(x, itinerary.horizon), ActivityObjections(itinerary))
    BY <2>1, <2>2, ActivityObjected
  <2>4. Passed(ActivityFault(x, itinerary.horizon)) => Just(c, ActivityObjections(itinerary))
    <3>1. SUFFICES ASSUME Passed(ActivityFault(x, itinerary.horizon)), x.id \in Ids
                   PROVE  "DUPLICATE_ACTIVITY_ID" \in ActivityObjections(itinerary)
      BY OneCheck
    <3>2. PICK i \in 1..(k - 1) : acts[i].id = x.id
      BY <2>1, <3>1, IdentifiersRead
    <3>3. acts[i] # Malformed /\ x # Malformed
      <4>1. Passed(ActivityFault(acts[i], itinerary.horizon))
        BY <2>1 DEF ActivitiesPassed
      <4>2. \A y : Passed(ActivityFault(y, itinerary.horizon)) => y # Malformed
        <5> TAKE y
        <5>1. Passed(ActivityFault(y, itinerary.horizon))
                 => Passed(Blame(y = Malformed, "INVALID_TYPE"))
          BY Chain DEF ActivityFault
        <5> QED  BY <5>1, OneCheck
      <4> QED  BY <3>1, <4>1, <4>2
    <3>4. i \in DOMAIN acts /\ k \in DOMAIN acts /\ i < k  BY <2>1, <2>2
    <3>5. Twins(acts, LAMBDA y, z : y # Malformed /\ z # Malformed /\ y.id = z.id)
      BY <3>2, <3>3, <3>4 DEF Twins
    <3> QED  BY <3>5 DEF ActivityObjections, Blame
  <2>5. Just(ActivityFault(x, itinerary.horizon) ?? c, ActivityObjections(itinerary))
    <3> HIDE DEF c
    <3> QED  BY <2>3, <2>4, Chain
  <2>6. result' \in ActivityObjections(itinerary)
    BY <2>1, <2>5 DEF Just
  <2> QED  BY <2>1, <2>6 DEF Objections, ??
<1>3. CASE CheckTransfer
  <2> DEFINE trs == itinerary.transfers
             t == trs[k]
  <2>1. /\ pc = "transfers" /\ k <= Len(trs) /\ k \in Nat \ {0}
        /\ itinerary \in Itinerary /\ itinerary.horizon \in Nat
        /\ trs \in Seq(Transfer \cup {Malformed})
        /\ HeaderObjections(itinerary) = {} /\ ActivityObjections(itinerary) = {}
        /\ TransfersPassed(k - 1)
        /\ result' \in TransferFault(t, itinerary.horizon) ?? PairFault(t)
    BY <1>3 DEF CheckTransfer, Fail, ReadInv, Typed, HeaderRead, Unobjected
  <2>2. t \in Range(trs)
    BY <2>1 DEF Range
  <2>3. Just(TransferFault(t, itinerary.horizon), TransferObjections(itinerary))
    BY <2>1, <2>2, TransferObjected
  <2>4. \A i \in 1..(k - 1) : trs[i] # Malformed
    BY <2>1, PassedTransfer DEF TransfersPassed
  <2>5. Passed(TransferFault(t, itinerary.horizon))
           => Just(PairFault(t), TransferObjections(itinerary))
    BY <2>1, <2>4, PairObjected
  <2>6. result' \in TransferObjections(itinerary)
    BY <2>1, <2>3, <2>5, Chain DEF Just
  <2> QED  BY <2>1, <2>6 DEF Objections, ??
<1> QED  BY <1>1, <1>2, <1>3

(* A refusal as cyclic is one.                                             *)
LEMMA CycleRefusal ==
  ASSUME ReadInv, ReadInv', Ordering, Unobjected, FinishOrdering, pc' = "done"
  PROVE  result' \in Objections(itinerary)
<1>1. result' = "DEPENDENCY_CYCLE" /\ itinerary' = itinerary /\ pc = "ordering"
  BY DEF FinishOrdering, Fail, OrderingFault, Blame
<1>2. HasCycle(IdsOf(itinerary), EdgesOf(itinerary))
  BY <1>1, CycleVerdict DEF Verdicts, CycleVerdictIsJust
<1>3. /\ HeaderObjections(itinerary) = {} /\ ActivityObjections(itinerary) = {}
      /\ TransferObjections(itinerary) = {}
  BY <1>1 DEF Unobjected, Late
<1> QED  BY <1>1, <1>2, <1>3 DEF Objections, ??, Blame

(* A refusal as infeasible by the forward pass is one.                     *)
LEMMA DeadlineRefusal ==
  ASSUME ReadInv, Ordering, Forward, Forward', Unobjected, FinishActivity, pc' = "done"
  PROVE  result' \in Objections(itinerary)
<1>1. /\ pc = "relax" /\ result' = "INFEASIBLE_DEADLINE"
      /\ \A start \in AllSchedules :
            InSchedule(start) => ~MeetsDeadlines(itinerary, MinDurations(itinerary), start)
  BY InfeasibleRefusal
<1>2. itinerary.horizon \in Nat
  BY <1>1 DEF ReadInv, HeaderRead
<1>3. [IdsOf(itinerary) -> 0..itinerary.horizon] \subseteq AllSchedules
  BY <1>2 DEF AllSchedules
<1>4. ~IsSchedulable(itinerary, MinDurations(itinerary))
  BY <1>1, <1>3 DEF IsSchedulable, InSchedule
<1>5. /\ HeaderObjections(itinerary) = {} /\ ActivityObjections(itinerary) = {}
      /\ TransferObjections(itinerary) = {}
      /\ ~HasCycle(IdsOf(itinerary), EdgesOf(itinerary))
  BY <1>1 DEF Unobjected, Late
<1> QED  BY <1>1, <1>4, <1>5 DEF Objections, ??, Blame

(* What is accepted has nothing to object to ...                           *)
LEMMA AcceptedUnobjected ==
  ASSUME ReadInv, Ordering, Forward, Unobjected, Return
  PROVE  Objections(itinerary) = {}
<1> DEFINE dur   == MinDurations(itinerary)
           start == [a \in Ids |-> earliestFinish[a] - dur[a]]
<1>1. /\ pc = "start" /\ k > Len(order) /\ result' = "ACCEPTED"
      /\ UNCHANGED <<itinerary, order, earliestFinish, activityById>>
      /\ Ids' = Ids
  BY DEF Return, timing, Ids
<1>2. RespectsPrecedence(itinerary, dur, start) /\ MeetsDeadlines(itinerary, dur, start)
  BY <1>1, AcceptedVerdict DEF Verdicts, EarliestScheduleIsAttained
<1>3. /\ itinerary.horizon \in Nat /\ itinerary \in Itinerary
      /\ IdsOf(itinerary) = Ids /\ dur = [a \in Ids |-> activityById[a].min]
      /\ \A a \in Ids : ActivityOf(itinerary, a) = activityById[a]
      /\ itinerary.activities \in Seq(Activity \cup {Malformed})
      /\ ActivitiesRead(Len(itinerary.activities))
  BY <1>1, GraphOfInput DEF ReadInv, HeaderRead, Reading, Late
<1>4. DOMAIN earliestFinish = Ids /\ \A a \in Ids : earliestFinish[a] \in Nat
  <2>1. /\ k \in Nat /\ order \in Seq(Ids) /\ IsInjective(order)
        /\ Len(order) = Cardinality(Ids)
    BY <1>1 DEF Ordering, Late, ReadInv, Typed
  <2>2. k - 1 = Len(order)  BY <1>1, <2>1 DEF Forward
  <2>3. Range(order) = Ids  BY <2>1, FullOrder
  <2>4. DOMAIN earliestFinish = {order[i] : i \in DOMAIN order}
    BY <1>1, <2>1, <2>2 DEF Forward
  <2> QED  BY <2>3, <2>4 DEF Forward, Range
<1>5. ASSUME NEW a \in Ids PROVE start[a] \in 0..itinerary.horizon
  <2> DEFINE x == activityById[a]
  <2>1. /\ start[a] >= x.release /\ start[a] + dur[a] <= x.deadline
        /\ dur[a] = x.min /\ start[a] = earliestFinish[a] - dur[a]
    BY <1>2, <1>3 DEF RespectsPrecedence, MeetsDeadlines
  <2>2. x \in CheckedActivity  BY DEF ReadInv, Typed
  <2>3. x.deadline <= itinerary.horizon
    <3>1. PICK i \in 1..Len(itinerary.activities) : itinerary.activities[i] = x
      BY <1>3 DEF ActivitiesRead
    <3>2. x \in Range(itinerary.activities)  BY <1>3, <3>1 DEF Range
    <3>3. x \in Range(itinerary.activities) \ {Malformed}
      <4>1. Range(itinerary.activities) =
               {y \in Range(itinerary.activities) \ {Malformed} :
                  \A f \in {"release", "min", "max", "deadline"} : y[f] # Malformed}
        <5>1. ActivityObjections(itinerary) = {}  BY <1>1 DEF Unobjected, Late
        <5> QED  BY <5>1 DEF ActivityObjections, Blame
      <4> QED  BY <3>2, <4>1
    <3>4. ~Outside(x.deadline, 1, itinerary.horizon)
      <4>1. ActivityObjections(itinerary) = {}  BY <1>1 DEF Unobjected, Late
      <4> QED  BY <3>3, <4>1 DEF ActivityObjections, Blame
    <3> QED  BY <2>2, <3>4, MalformedAssumption DEF Outside, CheckedActivity
  <2>4. earliestFinish[a] \in Nat  BY <1>4
  <2> HIDE DEF x, start, dur
  <2> QED  BY <1>3, <2>1, <2>2, <2>3, <2>4 DEF CheckedActivity
<1>6. start \in [IdsOf(itinerary) -> 0..itinerary.horizon]
  BY <1>3, <1>5
<1>7. IsSchedulable(itinerary, dur)
  BY <1>2, <1>6 DEF IsSchedulable
<1>8. /\ HeaderObjections(itinerary) = {} /\ ActivityObjections(itinerary) = {}
      /\ TransferObjections(itinerary) = {}
      /\ ~HasCycle(IdsOf(itinerary), EdgesOf(itinerary))
  BY <1>1 DEF Unobjected, Late
<1> HIDE DEF dur
<1> QED  BY <1>7, <1>8 DEF Objections, ??, Blame, dur

(* ... and comes back in the least topological order.                      *)
LEMMA AcceptedLeast ==
  ASSUME ReadInv, Ordering, Forward, Unobjected, Return
  PROVE  /\ order \in Bijection(1..Cardinality(IdsOf(itinerary)), IdsOf(itinerary))
         /\ IsLeastOrder(order, IdsOf(itinerary), EdgesOf(itinerary))
<1>1. /\ pc = "start" /\ result' = "ACCEPTED"
      /\ UNCHANGED <<itinerary, order, activityById>>
  BY DEF Return, timing
<1>2. IsTopological(order, IdsOf(itinerary), EdgesOf(itinerary))
  BY <1>1, AcceptedVerdict DEF Verdicts, AcceptedOrderIsTopological
<1>3. /\ IdsOf(itinerary) = Ids /\ EdgesOf(itinerary) = pairs
      /\ TransfersRead(Len(itinerary.transfers))
  BY <1>1, GraphOfInput DEF ReadInv, Reading, Late
<1>4. /\ order \in Seq(Ids) /\ IsInjective(order) /\ Len(order) = Cardinality(Ids)
      /\ Ids \subseteq Nat /\ Len(order) \in Nat /\ DOMAIN order = 1..Cardinality(Ids)
      /\ \A i \in DOMAIN order : LeastAt(i)
  BY <1>1 DEF ReadInv, Typed, Ordering, Unobjected, Late
<1>5. Range(order) = Ids  BY <1>4, FullOrder
<1>6. order \in Bijection(1..Cardinality(Ids), Ids)
  <2>1. order \in [1..Cardinality(Ids) -> Ids]  BY <1>4
  <2>2. order \in Injection(1..Cardinality(Ids), Ids)
    BY <1>4, <2>1 DEF Injection, IsInjective
  <2>3. order \in Surjection(1..Cardinality(Ids), Ids)
    BY <1>5, <2>1 DEF Surjection, Range
  <2> QED  BY <2>2, <2>3 DEF Bijection
<1>7. ASSUME NEW other \in Bijection(1..Cardinality(Ids), Ids),
             IsTopological(other, Ids, pairs), LexBefore(other, order)
      PROVE  FALSE
  <2>1. /\ other \in [1..Cardinality(Ids) -> Ids]
        /\ IsInjective(other) /\ Range(other) = Ids
    BY <1>7 DEF Bijection, Injection, IsInjective, Surjection, Range
  <2>2. PICK i \in 1..Cardinality(Ids) :
           other[i] < order[i] /\ \A m \in 1..(i - 1) : other[m] = order[m]
    BY <1>7, <2>1 DEF LexBefore
  <2> DEFINE a == other[i]
  <2>3. a \in Ids /\ i \in DOMAIN other /\ i \in DOMAIN order  BY <1>4, <2>1
  <2>4. ASSUME NEW m \in 1..(i - 1) PROVE order[m] # a
    <3>1. m \in DOMAIN other /\ m # i  BY <2>1, <1>4
    <3> QED  BY <2>1, <2>2, <2>3, <3>1 DEF IsInjective
  <2>5. ASSUME NEW p \in Ids, a \in successors[p]
        PROVE  \E m \in 1..(i - 1) : order[m] = p
    <3>1. <<p, a>> \in pairs  BY <1>3, <2>3, <2>5 DEF TransfersRead
    <3>2. PICK m \in DOMAIN other : other[m] = p  BY <2>1, <2>5 DEF Range
    <3>3. m < i  BY <1>7, <2>3, <3>1, <3>2 DEF IsTopological
    <3>4. m \in 1..(i - 1)  BY <1>4, <2>1, <3>2, <3>3
    <3> QED  BY <2>2, <3>2, <3>4
  <2>6. order[i] <= a
    BY <1>4, <2>3, <2>4, <2>5 DEF LeastAt
  <2>7. order[i] \in Nat /\ a \in Nat
    <3>1. order[i] \in Ids  BY <1>4, <2>3
    <3> QED  BY <1>4, <2>3, <3>1
  <2> QED  BY <2>2, <2>6, <2>7
<1> QED
  BY <1>2, <1>3, <1>6, <1>7 DEF IsLeastOrder

(* Every step of the function is the decision of the contract, or changes  *)
(* nothing a caller sees.                                                  *)
LEMMA KeepsContract ==
  ASSUME IInv, IInv', Unobjected, [Next]_vars
  PROVE  Contract!Decide \/ UNCHANGED <<itinerary, Verdict>>
<1>1. itinerary' = itinerary
  BY DEF Next, vars, CheckHeader, CheckActivity, StartTransfers, CheckTransfer, StartOrdering,
         PopReady, FinishOrdering, StartActivity, RelaxTransfer, FinishActivity, Return
<1>2. CASE UNCHANGED vars
  BY <1>2 DEF vars, Verdict, Shown
<1>3. CASE Next /\ pc' # "done"
  <2>1. pc # "done"
    BY <1>3 DEF Next, CheckHeader, CheckActivity, StartTransfers, CheckTransfer, StartOrdering,
           PopReady, FinishOrdering, StartActivity, RelaxTransfer, FinishActivity, Return
  <2>2. result = "PENDING" /\ result' = "PENDING"
    BY <1>3, <2>1 DEF IInv, ReadInv, Typed
  <2> QED  BY <1>1, <2>2 DEF Verdict, Shown
<1>4. CASE Next /\ pc' = "done"
  <2>1. result = "PENDING"
    <3>1. pc # "done"
      BY <1>4 DEF Next, CheckHeader, CheckActivity, StartTransfers, CheckTransfer, StartOrdering,
             PopReady, FinishOrdering, StartActivity, RelaxTransfer, FinishActivity, Return
    <3> QED  BY <3>1 DEF IInv, ReadInv, Typed
  <2>2. CASE Return
    <3>1. Objections(itinerary) = {}
      BY <2>2, AcceptedUnobjected DEF IInv
    <3>2. Contract!Verdicts(itinerary) =
             [code: {"ACCEPTED"},
              order: {p \in Bijection(1..Cardinality(IdsOf(itinerary)), IdsOf(itinerary)) :
                         IsLeastOrder(p, IdsOf(itinerary), EdgesOf(itinerary))}]
      BY <3>1, SameVerdicts
    <3>3. Verdict' = [code |-> "ACCEPTED", order |-> order]
      BY <2>2 DEF Return, Verdict, Shown
    <3>4. Verdict' \in Contract!Verdicts(itinerary)
      BY <2>2, <3>2, <3>3, AcceptedLeast DEF IInv
    <3>5. result' = "ACCEPTED"  BY <2>2 DEF Return
    <3> QED
      BY <1>1, <2>1, <3>4, <3>5 DEF Contract!Decide, Contract!Pending, Verdict, Shown
  <2>3. CASE ~Return
    <3>1. \/ CheckHeader \/ CheckActivity \/ CheckTransfer \/ FinishOrdering \/ FinishActivity
      BY <1>4, <2>3 DEF Next, StartTransfers, StartOrdering, PopReady, StartActivity,
                RelaxTransfer, IInv, ReadInv, Typed
    <3>2. result' \in Objections(itinerary)
      BY <1>4, <3>1, ReadRefusal, CycleRefusal, DeadlineRefusal DEF IInv
    <3>3. result' \in Codes
      <4>1. result' \in ReadCodes \cup {"DEPENDENCY_CYCLE", "INFEASIBLE_DEADLINE"}
        <5>1. CASE CheckHeader
          BY <1>4, <5>1, HeaderCodes DEF CheckHeader, Fail
        <5>2. CASE CheckActivity
          <6>1. (ActivityFault(itinerary.activities[k], itinerary.horizon) ??
                 Blame(itinerary.activities[k].id \in Ids, "DUPLICATE_ACTIVITY_ID"))
                    \in SUBSET ReadCodes
            BY ActivityCodes, EitherCode DEF Blame, ReadCodes, Codes
          <6> QED  BY <1>4, <5>2, <6>1 DEF CheckActivity, Fail, IInv, ReadInv, Typed
        <5>3. CASE CheckTransfer
          <6>1. (TransferFault(itinerary.transfers[k], itinerary.horizon) ??
                 PairFault(itinerary.transfers[k])) \in SUBSET ReadCodes
            BY TransferCodes, EitherCode
          <6> QED  BY <1>4, <5>3, <6>1 DEF CheckTransfer, Fail, IInv, ReadInv, Typed
        <5>4. CASE FinishOrdering
          BY <1>4, <5>4 DEF FinishOrdering, Fail, OrderingFault, Blame
        <5>5. CASE FinishActivity
          BY <1>4, <5>5 DEF FinishActivity, Fail, DeadlineFault, Blame
        <5> QED  BY <3>1, <5>1, <5>2, <5>3, <5>4, <5>5
      <4> QED  BY <4>1 DEF ReadCodes, Codes
    <3> QED  BY <1>1, <2>1, <3>2, <3>3, RefusalKept
  <2> QED  BY <2>2, <2>3
<1> QED  BY <1>2, <1>3, <1>4

(* validate_itinerary keeps its contract for every input and every limit:  *)
(* one visible step, the verdict the contract allows.  That the call ends  *)
(* at all is the other half of ImplementsContract.                         *)
THEOREM KeepsContractSafely == Spec => Contract!SafeSpec
<1>1. Init => Contract!Init /\ Unobjected
  BY DEF Init, Contract!Init, Contract!Pending, Unobjected, Late
<1>2. IInv /\ IInv' /\ Unobjected /\ [Next]_vars
         => [Contract!Decide]_<<itinerary, Verdict>> /\ Unobjected'
  BY KeepsContract, UnobjectedStep DEF IInv
<1> QED
  BY <1>1, <1>2, InvariantHolds, PTL DEF Spec, Contract!SafeSpec, Verdict, Shown
=============================================================================
