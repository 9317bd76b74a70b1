--------------------------- MODULE QuotaLedgerProofs ---------------------------
(***************************************************************************)
(* QuotaLedger for every set of requests and runners, every history of     *)
(* limits, failures, disconnections, repeated executions and crashes: the  *)
(* row covers what is owed, and the charges stay within the daily limit,   *)
(* up to the slides of reservations that were settled twice; when nothing  *)
(* disturbs the ledger, none is; and as long as writes do not fail, what   *)
(* is owed remains in the hands of somebody who settles it.                *)
(***************************************************************************)
EXTENDS QuotaLedger, FiniteSetTheorems, TLAPS

-----------------------------------------------------------------------------
(* The two stores decide alike.                                            *)

(* The JSON store's comparison with the slides remaining and the WHERE     *)
(* clause of the SQL stores accept the same reservations, for any row and  *)
(* any limit, provided the reservation is of at least one slide.           *)
THEOREM GuardsAgree ==
  ASSUME NEW r \in Requests, NEW seen \in Int, data \in Data
  PROVE  Remaining(seen) >= SlidesOf[r] <=> data.used + data.reserved + SlidesOf[r] <= seen
BY QuotaLedgerAssumption DEF Remaining, NonNegative, Data

-----------------------------------------------------------------------------
(* Counting the slides owed.                                               *)

LEMMA SlidesForFinite ==
  ASSUME NEW O \in SUBSET Requests
  PROVE  IsFiniteSet(SlidesFor(O)) /\ Cardinality(SlidesFor(O)) \in Nat
<1> DEFINE f == [r \in O |-> {r} \X (1..SlidesOf[r])]
           S == {{r} \X (1..SlidesOf[r]) : r \in O}
<1>1. IsFiniteSet(O)
  BY QuotaLedgerAssumption, FS_Subset
<1>2. f \in Surjection(O, S)
  BY DEF Surjection
<1>3. IsFiniteSet(S)
  BY <1>1, <1>2, FS_Surjection
<1>4. ASSUME NEW r \in O PROVE IsFiniteSet({r} \X (1..SlidesOf[r]))
  <2>1. SlidesOf[r] \in Int
    BY QuotaLedgerAssumption
  <2>2. IsFiniteSet(1..SlidesOf[r])
    BY <2>1, FS_Interval
  <2>3. IsFiniteSet({r})
    BY FS_Singleton
  <2> QED BY <2>2, <2>3, FS_Product
<1>5. \A T \in S : IsFiniteSet(T)
  BY <1>4
<1>6. IsFiniteSet(UNION S)
  BY <1>3, <1>5, FS_UNION
<1> QED BY <1>6, FS_CardinalityType DEF SlidesFor

(* One more request owes its slides on top.                                *)
LEMMA SlidesForMore ==
  ASSUME NEW O \in SUBSET Requests, NEW r \in Requests, r \notin O
  PROVE  Cardinality(SlidesFor(O \cup {r})) = Cardinality(SlidesFor(O)) + SlidesOf[r]
<1> DEFINE P == {r} \X (1..SlidesOf[r])
<1>1. SlidesOf[r] \in Nat /\ SlidesOf[r] > 0
  BY QuotaLedgerAssumption
<1>2. IsFiniteSet(1..SlidesOf[r]) /\ Cardinality(1..SlidesOf[r]) = SlidesOf[r]
  <2>1. 1 \in Int /\ SlidesOf[r] \in Int
    BY <1>1
  <2>2. /\ IsFiniteSet(1..SlidesOf[r])
        /\ Cardinality(1..SlidesOf[r]) = IF 1 > SlidesOf[r] THEN 0 ELSE SlidesOf[r] - 1 + 1
    BY <2>1, FS_Interval
  <2> QED BY <1>1, <2>2
<1>3. IsFiniteSet({r}) /\ Cardinality({r}) = 1
  BY FS_Singleton
<1>4. IsFiniteSet(P) /\ Cardinality(P) = SlidesOf[r]
  <2>1. IsFiniteSet(P) /\ Cardinality(P) = Cardinality({r}) * Cardinality(1..SlidesOf[r])
    BY <1>2, <1>3, FS_Product
  <2>2. 1 * SlidesOf[r] = SlidesOf[r]
    BY <1>1
  <2> QED BY <1>2, <1>3, <2>1, <2>2
<1>5. SlidesFor(O \cup {r}) = SlidesFor(O) \cup P
  BY DEF SlidesFor
<1>6. SlidesFor(O) \cap P = {}
  BY DEF SlidesFor
<1>7. IsFiniteSet(SlidesFor(O)) /\ Cardinality(SlidesFor(O)) \in Nat
  BY SlidesForFinite
<1> HIDE DEF P
<1>8. Cardinality(SlidesFor(O) \cup P)
        = Cardinality(SlidesFor(O)) + Cardinality(P) - Cardinality({})
  BY <1>4, <1>6, <1>7, FS_Union
<1>9. Cardinality({}) = 0
  BY FS_EmptySet
<1>10. Cardinality(SlidesFor(O \cup {r})) = Cardinality(SlidesFor(O) \cup P)
  BY <1>5, Zenon
<1> QED BY <1>1, <1>4, <1>7, <1>8, <1>9, <1>10

LEMMA SlidesForLess ==
  ASSUME NEW O \in SUBSET Requests, NEW r \in O
  PROVE  Cardinality(SlidesFor(O \ {r})) = Cardinality(SlidesFor(O)) - SlidesOf[r]
<1>1. O = (O \ {r}) \cup {r}
  OBVIOUS
<1>2. Cardinality(SlidesFor(O)) = Cardinality(SlidesFor(O \ {r})) + SlidesOf[r]
  BY <1>1, SlidesForMore
<1>3. Cardinality(SlidesFor(O \ {r})) \in Nat /\ SlidesOf[r] \in Nat
  BY SlidesForFinite, QuotaLedgerAssumption
<1> QED BY <1>2, <1>3

-----------------------------------------------------------------------------
(* What one state of the row must satisfy, and each operation keeps.       *)

Balanced(d) == ReservationsCovered(d) /\ ChargesBounded(d) /\ d.reserved <= Owed(d)

LEMMA OwedType ==
  ASSUME NEW d \in Data
  PROVE  Owed(d) \in Nat
BY SlidesForFinite DEF Data, Owed

(* Taking a reservation off the row, the clamp at zero included, whether   *)
(* or not it is still there.                                               *)
LEMMA SettleBalances ==
  ASSUME highest \in Nat, data \in Data, Balanced(data), NEW r \in Requests,
         NEW n \in Nat, n <= SlidesOf[r],
         NEW d \in Data,
         d.used = data.used + n,
         d.reserved = NonNegative(data.reserved - SlidesOf[r]),
         d.owing = data.owing \ {r},
         d.extra = IF r \in data.owing THEN data.extra ELSE data.extra + SlidesOf[r]
  PROVE  Balanced(d)
<1> USE DEF Balanced, ReservationsCovered, ChargesBounded
<1>1. /\ SlidesOf[r] \in Nat /\ Owed(data) \in Nat /\ Owed(d) \in Nat
      /\ data.used \in Nat /\ data.reserved \in Nat /\ data.extra \in Nat
      /\ data.owing \in SUBSET Requests
  BY OwedType, QuotaLedgerAssumption DEF Data
<1>2. CASE r \in data.owing
  <2>1. Owed(d) = Owed(data) - SlidesOf[r]
    BY <1>1, <1>2, SlidesForLess DEF Owed
  <2> QED BY <1>1, <1>2, <2>1 DEF NonNegative
<1>3. CASE r \notin data.owing
  <2>1. d.owing = data.owing
    BY <1>3
  <2>2. Owed(d) = Owed(data)
    BY <2>1 DEF Owed
  <2> QED BY <1>1, <1>3, <2>2 DEF NonNegative
<1> QED BY <1>2, <1>3

LEMMA CommitBalances ==
  ASSUME highest \in Nat, data \in Data, Balanced(data), NEW r \in Requests,
         NEW n \in Nat, n <= SlidesOf[r]
  PROVE  Committed(r, n) \in Data /\ Balanced(Committed(r, n))
<1>1. /\ SlidesOf[r] \in Nat /\ data.used \in Nat /\ data.extra \in Nat
      /\ data.owing \ {r} \in SUBSET Requests
      /\ NonNegative(data.reserved - SlidesOf[r]) \in Nat
      /\ data.extra + SlidesOf[r] \in Nat
      /\ (IF r \in data.owing THEN data.extra ELSE data.extra + SlidesOf[r]) \in Nat
  BY QuotaLedgerAssumption DEF Data, NonNegative
<1>2. Committed(r, n) \in Data
  <2>1. data.used + n \in Nat
    BY <1>1
  <2> QED BY <1>1, <2>1 DEF Committed, Data
<1>3. /\ Committed(r, n).used = data.used + n
      /\ Committed(r, n).reserved = NonNegative(data.reserved - SlidesOf[r])
      /\ Committed(r, n).owing = data.owing \ {r}
      /\ Committed(r, n).extra = IF r \in data.owing THEN data.extra
                                 ELSE data.extra + SlidesOf[r]
  BY DEF Committed, Data
<1> HIDE DEF Committed
<1> QED BY <1>2, <1>3, SettleBalances

LEMMA ReleaseBalances ==
  ASSUME highest \in Nat, data \in Data, Balanced(data), NEW r \in Requests
  PROVE  Released(r) \in Data /\ Balanced(Released(r))
<1>1. /\ SlidesOf[r] \in Nat /\ data.used \in Nat /\ data.extra \in Nat
      /\ data.owing \ {r} \in SUBSET Requests
      /\ NonNegative(data.reserved - SlidesOf[r]) \in Nat
      /\ data.extra + SlidesOf[r] \in Nat
      /\ (IF r \in data.owing THEN data.extra ELSE data.extra + SlidesOf[r]) \in Nat
  BY QuotaLedgerAssumption DEF Data, NonNegative
<1>2. Released(r) \in Data
  BY <1>1 DEF Released, Data
<1>3. /\ Released(r).used = data.used + 0
      /\ Released(r).reserved = NonNegative(data.reserved - SlidesOf[r])
      /\ Released(r).owing = data.owing \ {r}
      /\ Released(r).extra = IF r \in data.owing THEN data.extra
                             ELSE data.extra + SlidesOf[r]
  BY DEF Released, Data
<1> QED BY <1>1, <1>2, <1>3, SettleBalances

(* A reservation that passed the guard.                                    *)
LEMMA ReserveBalances ==
  ASSUME highest \in Nat, data \in Data, Balanced(data), NEW r \in Requests,
         r \notin data.owing,
         NEW seen \in Nat, seen <= highest, MayReserve(r, seen)
  PROVE  Reserved(r) \in Data /\ Balanced(Reserved(r))
<1>1. /\ SlidesOf[r] \in Nat /\ Owed(data) \in Nat
      /\ data.used \in Nat /\ data.reserved \in Nat /\ data.extra \in Nat
      /\ data.owing \in SUBSET Requests
  BY OwedType, QuotaLedgerAssumption DEF Data
<1>2. data.used + data.reserved + SlidesOf[r] <= seen
  BY GuardsAgree DEF MayReserve
<1>3. Reserved(r) \in Data
  <2>1. data.owing \cup {r} \in SUBSET Requests /\ data.reserved + SlidesOf[r] \in Nat
    BY <1>1
  <2> QED BY <2>1 DEF Reserved, Data
<1>4. /\ Reserved(r).used = data.used
      /\ Reserved(r).reserved = data.reserved + SlidesOf[r]
      /\ Reserved(r).owing = data.owing \cup {r}
      /\ Reserved(r).extra = data.extra
  BY DEF Reserved, Data
<1>5. Owed(Reserved(r)) = Owed(data) + SlidesOf[r]
  BY <1>1, <1>4, SlidesForMore DEF Owed
<1> QED BY <1>1, <1>2, <1>3, <1>4, <1>5 DEF Balanced, ReservationsCovered, ChargesBounded

LEMMA JobBalances ==
  ASSUME data \in Data, Balanced(data), NEW r \in JobRequests,
         NEW status \in {"none", "open", "closed"}
  PROVE  WithJob(r, status) \in Data /\ Balanced(WithJob(r, status))
<1>1. WithJob(r, status) \in Data
  BY DEF WithJob, Data
<1>2. /\ WithJob(r, status).used = data.used
      /\ WithJob(r, status).reserved = data.reserved
      /\ WithJob(r, status).owing = data.owing
      /\ WithJob(r, status).extra = data.extra
  BY DEF WithJob, Data
<1> QED BY <1>1, <1>2 DEF Balanced, ReservationsCovered, ChargesBounded, Owed

-----------------------------------------------------------------------------
(* The inductive invariant.                                                *)

LedgerInv ==
  /\ TypeOK
  /\ LimitsSeen
  /\ FreshOweNothing
  /\ Balanced(data) /\ Balanced(disk)

(* A write keeps what the old and the new row have in common.              *)
LEMMA WriteKeeps ==
  ASSUME LedgerInv, highest' = highest, NEW new \in Data, Balanced(new),
         NEW o, Written(new, o)
  PROVE  /\ data' \in Data /\ disk' \in Data
         /\ Balanced(data)' /\ Balanced(disk)'
         /\ \A r \in Requests : r \notin data.owing /\ r \notin disk.owing /\ r \notin new.owing
                                => r \notin data'.owing /\ r \notin disk'.owing
<1>1. data' = data \/ data' = new
  BY DEF Written
<1>2. disk' = disk \/ disk' = new
  BY DEF Written
<1>3. Balanced(new) /\ Balanced(data) /\ Balanced(disk)
  BY DEF LedgerInv
<1>4. Balanced(data)' /\ Balanced(disk)'
  BY <1>1, <1>2, <1>3 DEF Balanced, ReservationsCovered, ChargesBounded, Owed
<1> QED BY <1>1, <1>2, <1>4 DEF LedgerInv, TypeOK

(* The row, when a step does not touch it.                                 *)
LEMMA RowUntouched ==
  ASSUME LedgerInv, UNCHANGED <<data, disk, highest>>
  PROVE  /\ data' \in Data /\ disk' \in Data
         /\ Balanced(data)' /\ Balanced(disk)'
BY DEF LedgerInv, TypeOK, Balanced, ReservationsCovered, ChargesBounded, Owed

LEMMA LedgerInit == Init => LedgerInv
<1> SUFFICES ASSUME Init PROVE LedgerInv
  OBVIOUS
<1>1. EmptyData \in Data
  BY DEF EmptyData, Data
<1>2. IdleRun \in [pc : RunPC, req : Requests, slides : Nat]
  BY QuotaLedgerAssumption DEF IdleRun, RunPC
<1>3. NewRequest \in [pc : RequestPC, seen : Nat, slides : Nat]
  BY DEF NewRequest, RequestPC
<1>4. TypeOK
  BY <1>1, <1>2, <1>3, QuotaLedgerAssumption DEF Init, TypeOK, NewRequest, IdleRun
<1>5. highest \in Nat
  BY QuotaLedgerAssumption DEF Init
<1>6. LimitsSeen
  BY <1>5 DEF Init, LimitsSeen, NewRequest
<1>7. FreshOweNothing
  BY DEF Init, FreshOweNothing, EmptyData
<1>8. SlidesFor({}) = {}
  BY DEF SlidesFor
<1>9. Owed(EmptyData) = 0
  BY <1>8, FS_EmptySet DEF Owed, EmptyData
<1>10. Balanced(EmptyData)
  BY <1>5, <1>9 DEF Balanced, ReservationsCovered, ChargesBounded, EmptyData
<1> QED BY <1>4, <1>6, <1>7, <1>10 DEF Init, LedgerInv

(* A step of request r: what is left to show of it.                        *)
LEMMA RequestMoves ==
  ASSUME LedgerInv, NEW r \in Requests,
         NEW st \in [pc : RequestPC, seen : Nat, slides : Nat],
         st.slides <= SlidesOf[r], st.seen <= highest,
         st.pc \in {"enqueue", "send", "reject"} => r \in JobRequests,
         rq' = [rq EXCEPT ![r] = st],
         \/ st.pc \notin {"new", "reserve"}
         \/ rq[r].pc \in {"new", "reserve"} /\ UNCHANGED <<data, disk>>,
         data' \in Data, disk' \in Data, Balanced(data)', Balanced(disk)',
         \A q \in Requests \ {r} : q \notin data.owing /\ q \notin disk.owing
                                   => q \notin data'.owing /\ q \notin disk'.owing,
         UNCHANGED <<store, gone, run, runs, crashes, abandoned>>
  PROVE  LedgerInv'
<1> USE DEF LedgerInv
<1>1. rq'[r] = st /\ \A q \in Requests : q # r => rq'[q] = rq[q]
  BY DEF TypeOK
<1>2. rq' \in [Requests -> [pc : RequestPC, seen : Nat, slides : Nat]]
  BY DEF TypeOK
<1>3. \A q \in Requests : /\ rq'[q].slides <= SlidesOf[q]
                         /\ rq'[q].pc \in {"enqueue", "send", "reject"} => q \in JobRequests
  BY <1>1 DEF TypeOK
<1>4. TypeOK'
  BY <1>2, <1>3 DEF TypeOK, store
<1>5. LimitsSeen'
  BY <1>1 DEF LimitsSeen, store
<1>6. FreshOweNothing'
  <2> SUFFICES ASSUME NEW q \in Requests, rq'[q].pc \in {"new", "reserve"}
               PROVE  q \notin data'.owing /\ q \notin disk'.owing
    BY DEF FreshOweNothing
  <2>1. CASE q = r
    BY <1>1, <2>1 DEF FreshOweNothing
  <2>2. CASE q # r
    BY <1>1, <2>2 DEF FreshOweNothing
  <2> QED BY <2>1, <2>2
<1> QED BY <1>4, <1>5, <1>6

LEMMA RequestKeeps ==
  ASSUME LedgerInv, NEW r \in Requests, RequestStep(r)
  PROVE  LedgerInv'
<1> DEFINE State == [pc : RequestPC, seen : Nat, slides : Nat]
<1>1. /\ data \in Data /\ disk \in Data /\ highest \in Nat /\ limit \in Nat
      /\ Balanced(data) /\ Balanced(disk)
      /\ rq[r] \in State /\ rq[r].slides <= SlidesOf[r] /\ rq[r].seen <= highest
      /\ limit <= highest
      /\ SlidesOf[r] \in Nat
  BY QuotaLedgerAssumption DEF LedgerInv, TypeOK, LimitsSeen
<1>2. ASSUME NEW pc \in RequestPC, SetRequest(r, pc)
      PROVE  /\ rq' = [rq EXCEPT ![r] = [rq[r] EXCEPT !.pc = pc]]
             /\ [rq[r] EXCEPT !.pc = pc] \in State
             /\ [rq[r] EXCEPT !.pc = pc].pc = pc
             /\ [rq[r] EXCEPT !.pc = pc].slides <= SlidesOf[r]
             /\ [rq[r] EXCEPT !.pc = pc].seen <= highest
  BY <1>1, <1>2 DEF SetRequest
<1>3. ASSUME NEW pc \in RequestPC \ {"new", "reserve"}, SetRequest(r, pc),
             pc \in {"enqueue", "send", "reject"} => r \in JobRequests,
             UNCHANGED <<store, data, disk, gone, run, runs, crashes, abandoned>>
      PROVE  LedgerInv'
  <2>1. data' \in Data /\ disk' \in Data /\ Balanced(data)' /\ Balanced(disk)'
    BY <1>3, RowUntouched DEF store
  <2> QED BY <1>2, <1>3, <2>1, RequestMoves
<1>4. ASSUME NEW pc \in RequestPC \ {"new", "reserve"}, SetRequest(r, pc),
             pc \in {"enqueue", "send", "reject"} => r \in JobRequests,
             NEW new \in Data, NEW o, Written(new, o), Balanced(new),
             new.owing \subseteq data.owing \cup {r},
             UNCHANGED <<store, gone, run, runs, crashes, abandoned>>
      PROVE  LedgerInv'
  <2>1. /\ data' \in Data /\ disk' \in Data /\ Balanced(data)' /\ Balanced(disk)'
        /\ \A q \in Requests : q \notin data.owing /\ q \notin disk.owing /\ q \notin new.owing
                               => q \notin data'.owing /\ q \notin disk'.owing
    BY <1>4, WriteKeeps DEF store
  <2>2. \A q \in Requests \ {r} : q \notin data.owing /\ q \notin disk.owing
                                 => q \notin data'.owing /\ q \notin disk'.owing
    BY <1>4, <2>1
  <2> QED BY <1>2, <1>4, <2>1, <2>2, RequestMoves
<1>5. CASE ReadLimit(r)
  <2> DEFINE st == [rq[r] EXCEPT !.pc = "reserve", !.seen = limit]
  <2>1. st \in State /\ st.pc = "reserve" /\ st.slides <= SlidesOf[r] /\ st.seen <= highest
    BY <1>1 DEF RequestPC
  <2>2. rq' = [rq EXCEPT ![r] = st] /\ rq[r].pc = "new"
    BY <1>5 DEF ReadLimit
  <2>3. data' \in Data /\ disk' \in Data /\ Balanced(data)' /\ Balanced(disk)'
    BY <1>5, RowUntouched DEF ReadLimit, store
  <2>4. UNCHANGED <<store, data, disk, gone, run, runs, crashes, abandoned>>
    BY <1>5 DEF ReadLimit
  <2> HIDE DEF st
  <2> QED BY <2>1, <2>2, <2>3, <2>4, RequestMoves
<1>6. CASE ReserveDailyQuota(r)
  <2> DEFINE seen == IF backend = "sql" THEN rq[r].seen ELSE limit
  <2>1. seen \in Nat /\ seen <= highest
    BY <1>1
  <2>2. CASE ~MayReserve(r, seen)
    <3>1. SetRequest(r, "ended")
          /\ UNCHANGED <<store, data, disk, gone, run, runs, crashes, abandoned>>
      BY <1>6, <2>2 DEF ReserveDailyQuota
    <3> QED BY <1>3, <3>1 DEF RequestPC
  <2>3. CASE MayReserve(r, seen)
    <3>1. r \notin data.owing
      BY <1>6 DEF ReserveDailyQuota, LedgerInv, FreshOweNothing
    <3>2. Reserved(r) \in Data /\ Balanced(Reserved(r))
      BY <1>1, <2>1, <2>3, <3>1, ReserveBalances
    <3>3. Reserved(r).owing \subseteq data.owing \cup {r}
      BY <1>1 DEF Reserved, Data
    <3>4. PICK o \in Outcomes(r \in gone) :
            /\ Written(Reserved(r), o)
            /\ SetRequest(r, IF o = "ok" THEN Reservee(r) ELSE "ended")
      BY <1>6, <2>3 DEF ReserveDailyQuota
    <3>5. /\ (IF o = "ok" THEN Reservee(r) ELSE "ended") \in RequestPC \ {"new", "reserve"}
          /\ (IF o = "ok" THEN Reservee(r) ELSE "ended") \in {"enqueue", "send", "reject"}
               => r \in JobRequests
      BY DEF Reservee, RequestPC, Requests
    <3>6. UNCHANGED <<store, gone, run, runs, crashes, abandoned>>
      BY <1>6 DEF ReserveDailyQuota
    <3> QED BY <1>4, <3>2, <3>3, <3>4, <3>5, <3>6
  <2> QED BY <2>2, <2>3
<1>7. CASE SyncWork(r)
  <2>1. CASE SetRequest(r, "release")
    BY <1>3, <1>7, <2>1 DEF SyncWork, RequestPC
  <2>2. ASSUME NEW n \in 0..SlidesOf[r],
               rq' = [rq EXCEPT ![r] = [rq[r] EXCEPT !.pc = "commit", !.slides = n]]
        PROVE  LedgerInv'
    <3> DEFINE st == [rq[r] EXCEPT !.pc = "commit", !.slides = n]
    <3>1. st \in State /\ st.pc = "commit" /\ st.slides <= SlidesOf[r] /\ st.seen <= highest
      <4>1. n \in Nat /\ n <= SlidesOf[r]
        BY <1>1
      <4>2. "commit" \in RequestPC
        BY DEF RequestPC
      <4>3. st \in State
        BY <1>1, <4>1, <4>2
      <4>4. st.pc = "commit" /\ st.slides = n /\ st.seen = rq[r].seen
        BY <1>1
      <4> QED BY <1>1, <4>1, <4>3, <4>4
    <3>2. data' \in Data /\ disk' \in Data /\ Balanced(data)' /\ Balanced(disk)'
      BY <1>7, RowUntouched DEF SyncWork, store
    <3>3. UNCHANGED <<store, data, disk, gone, run, runs, crashes, abandoned>>
      BY <1>7 DEF SyncWork
    <3>4. rq' = [rq EXCEPT ![r] = st]
      BY <2>2
    <3> HIDE DEF st
    <3> QED BY <3>1, <3>2, <3>3, <3>4, RequestMoves
  <2> QED BY <1>7, <2>1, <2>2 DEF SyncWork
<1>8. CASE SyncCommit(r)
  <2> DEFINE new == Committed(r, rq[r].slides)
  <2>1. new \in Data /\ Balanced(new)
    BY <1>1, CommitBalances
  <2>2. new.owing \subseteq data.owing \cup {r}
    BY <1>1 DEF Committed, Data
  <2>3. PICK o \in Outcomes(r \in gone) :
          Written(new, o) /\ SetRequest(r, IF o = "ok" THEN "reply" ELSE "release")
    BY <1>8 DEF SyncCommit
  <2>4. /\ (IF o = "ok" THEN "reply" ELSE "release") \in RequestPC \ {"new", "reserve"}
        /\ (IF o = "ok" THEN "reply" ELSE "release") \notin {"enqueue", "send", "reject"}
    BY DEF RequestPC
  <2>5. UNCHANGED <<store, gone, run, runs, crashes, abandoned>>
    BY <1>8 DEF SyncCommit
  <2> HIDE DEF new
  <2> QED BY <1>4, <2>1, <2>2, <2>3, <2>4, <2>5
<1>9. CASE SyncReply(r)
  BY <1>3, <1>9 DEF SyncReply, RequestPC
<1>10. CASE Release(r)
  <2>1. Released(r) \in Data /\ Balanced(Released(r))
    BY <1>1, ReleaseBalances
  <2>2. Released(r).owing \subseteq data.owing \cup {r}
    BY <1>1 DEF Released, Data
  <2>3. PICK o \in Outcomes(r \in gone) : Written(Released(r), o)
    BY <1>10 DEF Release
  <2>4. SetRequest(r, "ended") /\ UNCHANGED <<store, gone, run, runs, crashes, abandoned>>
    BY <1>10 DEF Release
  <2> QED BY <1>4, <2>1, <2>2, <2>3, <2>4 DEF RequestPC
<1>11. CASE EnqueuePersist(r) \/ EnqueueReject(r)
  <2>1. PICK status \in {"open", "closed"}, o \in Outcomes(FALSE), pc \in {"send", "release"} :
          Written(WithJob(r, status), o) /\ SetRequest(r, pc)
    BY <1>11 DEF EnqueuePersist, EnqueueReject
  <2>2. data.owing = WithJob(r, status).owing
    BY <1>1 DEF WithJob, Data
  <2>3. r \in JobRequests
    BY <1>11 DEF EnqueuePersist, EnqueueReject, LedgerInv, TypeOK
  <2>4. WithJob(r, status) \in Data /\ Balanced(WithJob(r, status))
    BY <1>1, <2>3, JobBalances
  <2>5. UNCHANGED <<store, gone, run, runs, crashes, abandoned>>
    BY <1>11 DEF EnqueuePersist, EnqueueReject
  <2> QED BY <1>4, <2>1, <2>2, <2>3, <2>4, <2>5 DEF RequestPC
<1>12. CASE EnqueueSend(r)
  <2>1. r \in JobRequests
    BY <1>12 DEF EnqueueSend, LedgerInv, TypeOK
  <2> QED BY <1>3, <1>12, <2>1 DEF EnqueueSend, RequestPC
<1> QED BY <1>5, <1>6, <1>7, <1>8, <1>9, <1>10, <1>11, <1>12 DEF RequestStep

(* A step of an execution, which touches no request and no limit.          *)
LEMMA RunMoves ==
  ASSUME LedgerInv, NEW x \in Runners,
         NEW st \in [pc : RunPC, req : Requests, slides : Nat],
         st.pc # "idle" => st.req \in JobRequests /\ st.slides <= SlidesOf[st.req],
         run' = [run EXCEPT ![x] = st],
         runs' \in 0..MaxRuns,
         data' \in Data, disk' \in Data, Balanced(data)', Balanced(disk)',
         \A q \in Requests : q \notin data.owing /\ q \notin disk.owing
                             => q \notin data'.owing /\ q \notin disk'.owing,
         UNCHANGED <<store, rq, gone, crashes, abandoned>>
  PROVE  LedgerInv'
<1> USE DEF LedgerInv
<1>1. run' \in [Runners -> [pc : RunPC, req : Requests, slides : Nat]]
  BY DEF TypeOK
<1>2. \A y \in Runners : run'[y].pc # "idle" => /\ run'[y].req \in JobRequests
                                                /\ run'[y].slides <= SlidesOf[run'[y].req]
  BY DEF TypeOK
<1>3. TypeOK'
  BY <1>1, <1>2 DEF TypeOK, store
<1>4. LimitsSeen'
  BY DEF LimitsSeen, store
<1>5. FreshOweNothing'
  BY DEF FreshOweNothing
<1> QED BY <1>3, <1>4, <1>5

LEMMA RunKeeps ==
  ASSUME LedgerInv, NEW x \in Runners, RunStep(x)
  PROVE  LedgerInv'
<1> DEFINE State == [pc : RunPC, req : Requests, slides : Nat]
           Typed(st) == /\ st \in State
                        /\ st.pc # "idle" => /\ st.req \in JobRequests
                                             /\ st.slides <= SlidesOf[st.req]
           r == run[x].req
<1>1. /\ data \in Data /\ highest \in Nat /\ Balanced(data)
      /\ Typed(run[x]) /\ r \in Requests /\ SlidesOf[r] \in Nat /\ run[x].slides \in Nat
      /\ runs \in 0..MaxRuns /\ MaxRuns \in Nat
      /\ JobRequests \subseteq Requests
  BY QuotaLedgerAssumption DEF LedgerInv, TypeOK, Requests
<1>2. ASSUME NEW pc \in RunPC, SetRun(x, pc), run[x].pc # "idle"
      PROVE  /\ run' = [run EXCEPT ![x] = [run[x] EXCEPT !.pc = pc]]
             /\ Typed([run[x] EXCEPT !.pc = pc])
  BY <1>1, <1>2 DEF SetRun
<1>3. ASSUME NEW st, Typed(st), run' = [run EXCEPT ![x] = st], runs' \in 0..MaxRuns,
             UNCHANGED <<store, data, disk, rq, gone, crashes, abandoned>>
      PROVE  LedgerInv'
  <2>1. data' \in Data /\ disk' \in Data /\ Balanced(data)' /\ Balanced(disk)'
    BY <1>3, RowUntouched DEF store
  <2>2. \A q \in Requests : q \notin data.owing /\ q \notin disk.owing
                            => q \notin data'.owing /\ q \notin disk'.owing
    BY <1>3
  <2> QED BY <1>3, <2>1, <2>2, RunMoves
<1>4. ASSUME NEW st, Typed(st), run' = [run EXCEPT ![x] = st],
             NEW new \in Data, NEW o, Written(new, o), Balanced(new),
             new.owing \subseteq data.owing,
             UNCHANGED <<store, rq, gone, runs, crashes, abandoned>>
      PROVE  LedgerInv'
  <2>1. /\ data' \in Data /\ disk' \in Data /\ Balanced(data)' /\ Balanced(disk)'
        /\ \A q \in Requests : q \notin data.owing /\ q \notin disk.owing /\ q \notin new.owing
                               => q \notin data'.owing /\ q \notin disk'.owing
    BY <1>4, WriteKeeps DEF store
  <2>2. \A q \in Requests : q \notin data.owing /\ q \notin disk.owing
                            => q \notin data'.owing /\ q \notin disk'.owing
    BY <1>4, <2>1
  <2>3. runs' \in 0..MaxRuns
    BY <1>1, <1>4
  <2> QED BY <1>4, <2>1, <2>2, <2>3, RunMoves
<1>5. CASE RunStart(x)
  <2>1. PICK q \in JobRequests :
          run' = [run EXCEPT ![x] = [pc |-> "work", req |-> q, slides |-> 0]]
    BY <1>5 DEF RunStart
  <2>2. Typed([pc |-> "work", req |-> q, slides |-> 0])
    BY <1>1, <2>1, QuotaLedgerAssumption DEF RunPC
  <2>3. runs' \in 0..MaxRuns
    BY <1>1, <1>5 DEF RunStart
  <2>4. UNCHANGED <<store, data, disk, rq, gone, crashes, abandoned>>
    BY <1>5 DEF RunStart
  <2> HIDE DEF Typed
  <2> QED BY <1>3, <2>1, <2>2, <2>3, <2>4
<1>6. CASE RunWork(x)
  <2>1. UNCHANGED <<store, data, disk, rq, gone, runs, crashes, abandoned>> /\ run[x].pc # "idle"
    BY <1>6 DEF RunWork
  <2>2. CASE SetRun(x, "release") \/ SetRun(x, "finish")
    <3>1. "release" \in RunPC /\ "finish" \in RunPC
      BY DEF RunPC
    <3> HIDE DEF Typed
    <3> QED BY <1>1, <1>2, <1>3, <2>1, <2>2, <3>1
  <2>3. ASSUME NEW n \in 1..SlidesOf[r],
               run' = [run EXCEPT ![x] = [run[x] EXCEPT !.pc = "commit", !.slides = n]]
        PROVE  LedgerInv'
    <3> DEFINE st == [run[x] EXCEPT !.pc = "commit", !.slides = n]
    <3>1. n \in Nat /\ n <= SlidesOf[r] /\ "commit" \in RunPC
      BY <1>1 DEF RunPC
    <3>2. st \in State /\ st.req = r /\ st.slides = n
      BY <1>1, <3>1
    <3>3. Typed(st)
      BY <1>1, <2>1, <3>1, <3>2
    <3>4. run' = [run EXCEPT ![x] = st]
      BY <2>3
    <3> HIDE DEF st, Typed
    <3> QED BY <1>1, <1>3, <2>1, <3>3, <3>4
  <2> QED BY <1>6, <2>2, <2>3 DEF RunWork
<1>7. CASE RunCommit(x)
  <2> DEFINE new == Committed(r, run[x].slides)
  <2>1. run[x].pc # "idle" /\ UNCHANGED <<store, rq, gone, runs, crashes, abandoned>>
    BY <1>7 DEF RunCommit
  <2>2. new \in Data /\ Balanced(new)
    BY <1>1, <2>1, CommitBalances
  <2>3. new.owing \subseteq data.owing
    BY <1>1 DEF Committed, Data
  <2>4. PICK o \in Outcomes(FALSE) :
          Written(new, o) /\ SetRun(x, IF o = "ok" THEN "reply" ELSE "release")
    BY <1>7 DEF RunCommit
  <2>5. (IF o = "ok" THEN "reply" ELSE "release") \in RunPC
    BY DEF RunPC
  <2> HIDE DEF new, Typed
  <2> QED BY <1>2, <1>4, <2>1, <2>2, <2>3, <2>4, <2>5
<1>8. CASE RunReply(x)
  <2>1. UNCHANGED <<store, data, disk, rq, gone, runs, crashes, abandoned>> /\ run[x].pc # "idle"
    BY <1>8 DEF RunReply
  <2>2. PICK pc \in {"finish", "release"} : SetRun(x, pc)
    BY <1>8 DEF RunReply
  <2>3. pc \in RunPC
    BY DEF RunPC
  <2> HIDE DEF Typed
  <2> QED BY <1>1, <1>2, <1>3, <2>1, <2>2, <2>3
<1>9. CASE RunRelease(x)
  <2>1. run[x].pc # "idle" /\ UNCHANGED <<store, rq, gone, runs, crashes, abandoned>>
        /\ SetRun(x, "finish")
    BY <1>9 DEF RunRelease
  <2>2. Released(r) \in Data /\ Balanced(Released(r))
    BY <1>1, ReleaseBalances
  <2>3. Released(r).owing \subseteq data.owing
    BY <1>1 DEF Released, Data
  <2>4. PICK o \in Outcomes(FALSE) : Written(Released(r), o)
    BY <1>9 DEF RunRelease
  <2>5. "finish" \in RunPC
    BY DEF RunPC
  <2> HIDE DEF Typed
  <2> QED BY <1>2, <1>4, <2>1, <2>2, <2>3, <2>4, <2>5
<1>10. CASE RunFinish(x)
  <2>1. run[x].pc # "idle" /\ UNCHANGED <<store, rq, gone, runs, crashes, abandoned>>
        /\ SetRun(x, "idle")
    BY <1>10 DEF RunFinish
  <2>2. WithJob(r, "closed") \in Data /\ Balanced(WithJob(r, "closed"))
    BY <1>1, <2>1, JobBalances
  <2>3. WithJob(r, "closed").owing \subseteq data.owing
    BY <1>1 DEF WithJob, Data
  <2>4. PICK o \in Outcomes(FALSE) : Written(WithJob(r, "closed"), o)
    BY <1>10 DEF RunFinish
  <2>5. "idle" \in RunPC
    BY DEF RunPC
  <2> HIDE DEF Typed
  <2> QED BY <1>2, <1>4, <2>1, <2>2, <2>3, <2>4, <2>5
<1> QED BY <1>5, <1>6, <1>7, <1>8, <1>9, <1>10 DEF RunStep

LEMMA ReopenKeeps ==
  ASSUME LedgerInv, NEW r \in JobRequests, Reopen(r)
  PROVE  LedgerInv'
<1>1. /\ r \in Requests /\ data \in Data /\ Balanced(data)
      /\ UNCHANGED <<store, rq, gone, run, runs, crashes, abandoned>>
  BY DEF LedgerInv, TypeOK, Requests, Reopen, threads
<1>2. WithJob(r, "open") \in Data /\ Balanced(WithJob(r, "open"))
  BY <1>1, JobBalances
<1>3. WithJob(r, "open").owing = data.owing
  BY <1>1 DEF WithJob, Data
<1>4. Written(WithJob(r, "open"), "ok")
  BY DEF Reopen
<1>5. /\ data' \in Data /\ disk' \in Data /\ Balanced(data)' /\ Balanced(disk)'
      /\ \A q \in Requests : q \notin data.owing /\ q \notin disk.owing
                             => q \notin data'.owing /\ q \notin disk'.owing
  BY <1>1, <1>2, <1>3, <1>4, WriteKeeps DEF store
<1>6. TypeOK' /\ LimitsSeen' /\ FreshOweNothing'
  BY <1>1, <1>5 DEF LedgerInv, TypeOK, LimitsSeen, FreshOweNothing, store
<1> QED BY <1>5, <1>6 DEF LedgerInv

(* A lower limit takes nothing back: the history keeps the highest.        *)
LEMMA SetLimitKeeps ==
  ASSUME LedgerInv, SetLimit
  PROVE  LedgerInv'
<1>1. /\ data \in Data /\ disk \in Data /\ Balanced(data) /\ Balanced(disk)
      /\ highest \in Nat /\ limit' \in Limits /\ limit' \in Nat
      /\ highest' \in Limits /\ highest' \in Nat
      /\ highest <= highest' /\ limit' <= highest'
      /\ UNCHANGED <<backend, data, disk, rq, gone, run, runs, crashes, abandoned>>
  BY QuotaLedgerAssumption DEF LedgerInv, TypeOK, SetLimit, threads
<1>2. ASSUME NEW d \in Data, Balanced(d)
      PROVE  d.used + Owed(d) <= highest' + d.extra
  <2>1. d.used \in Nat /\ Owed(d) \in Nat /\ d.extra \in Nat
    BY OwedType DEF Data
  <2> QED BY <1>1, <1>2, <2>1 DEF Balanced, ChargesBounded
<1>3. Balanced(data)' /\ Balanced(disk)'
  BY <1>1, <1>2 DEF Balanced, ReservationsCovered, ChargesBounded, Owed
<1>4. LimitsSeen'
  <2>1. \A r \in Requests : rq[r].seen \in Nat /\ rq[r].seen <= highest
    BY DEF LedgerInv, TypeOK, LimitsSeen
  <2> QED BY <1>1, <2>1 DEF LimitsSeen
<1>5. TypeOK' /\ FreshOweNothing'
  BY <1>1 DEF LedgerInv, TypeOK, FreshOweNothing
<1> QED BY <1>3, <1>4, <1>5 DEF LedgerInv

LEMMA ClientLeavesKeeps ==
  ASSUME LedgerInv, NEW r \in Requests, ClientLeaves(r)
  PROVE  LedgerInv'
<1>1. UNCHANGED <<store, data, disk, rq, run, runs, crashes>>
      /\ gone' \subseteq Requests /\ abandoned' \subseteq Requests
  BY DEF LedgerInv, TypeOK, ClientLeaves
<1>2. Balanced(data)' /\ Balanced(disk)'
  BY <1>1, RowUntouched DEF store
<1>3. TypeOK' /\ LimitsSeen' /\ FreshOweNothing'
  BY <1>1 DEF LedgerInv, TypeOK, LimitsSeen, FreshOweNothing, store
<1> QED BY <1>2, <1>3 DEF LedgerInv

(* What is on disk is balanced, so a restart finds a balanced row.         *)
LEMMA CrashKeeps ==
  ASSUME LedgerInv, Crash
  PROVE  LedgerInv'
<1> DEFINE underWay == {r \in Requests : rq[r].pc \notin {"new", "ended"}}
<1>1. /\ data' = disk /\ disk' = disk
      /\ UNCHANGED <<store, gone, runs>>
      /\ run' = [x \in Runners |-> IdleRun]
      /\ crashes < MaxCrashes /\ crashes' = crashes + 1
      /\ abandoned' = abandoned \cup underWay
  BY DEF Crash
<1>2. rq' = [r \in Requests |-> IF r \in underWay THEN [rq[r] EXCEPT !.pc = "ended"] ELSE rq[r]]
  BY DEF Crash
<1>3. Balanced(data)' /\ Balanced(disk)'
  BY <1>1 DEF LedgerInv, Balanced, ReservationsCovered, ChargesBounded, Owed, store
<1>4. ASSUME NEW r \in Requests
      PROVE  /\ rq'[r] \in [pc : RequestPC, seen : Nat, slides : Nat]
             /\ rq'[r].seen = rq[r].seen /\ rq'[r].slides = rq[r].slides
             /\ rq'[r].pc = rq[r].pc \/ rq'[r].pc = "ended"
  <2>1. rq[r] \in [pc : RequestPC, seen : Nat, slides : Nat] /\ "ended" \in RequestPC
    BY DEF LedgerInv, TypeOK, RequestPC
  <2>2. rq'[r] = IF r \in underWay THEN [rq[r] EXCEPT !.pc = "ended"] ELSE rq[r]
    BY <1>2
  <2> HIDE DEF underWay
  <2> QED BY <2>1, <2>2
<1>5. rq' \in [Requests -> [pc : RequestPC, seen : Nat, slides : Nat]]
  <2> HIDE DEF underWay
  <2>1. rq' = [r \in Requests |-> rq'[r]]
    BY <1>2
  <2> QED BY <1>4, <2>1
<1>6. run' \in [Runners -> [pc : RunPC, req : Requests, slides : Nat]]
      /\ \A x \in Runners : run'[x].pc = "idle"
  <2>1. IdleRun \in [pc : RunPC, req : Requests, slides : Nat] /\ IdleRun.pc = "idle"
    BY QuotaLedgerAssumption DEF IdleRun, RunPC
  <2> QED BY <1>1, <2>1
<1>7. TypeOK'
  <2>1. \A r \in Requests : /\ rq'[r].slides <= SlidesOf[r]
                            /\ rq'[r].pc \in {"enqueue", "send", "reject"} => r \in JobRequests
    BY <1>4 DEF LedgerInv, TypeOK
  <2>2. crashes' \in 0..MaxCrashes
    BY <1>1, QuotaLedgerAssumption DEF LedgerInv, TypeOK
  <2>3. /\ backend' \in Backends /\ limit' \in Limits /\ highest' \in Limits
        /\ data' \in Data /\ disk' \in Data /\ runs' \in 0..MaxRuns
        /\ gone' \subseteq Requests /\ abandoned' \subseteq Requests
    BY <1>1 DEF LedgerInv, TypeOK, store
  <2>4. \A x \in Runners : run'[x].pc # "idle" => /\ run'[x].req \in JobRequests
                                                  /\ run'[x].slides <= SlidesOf[run'[x].req]
    BY <1>6
  <2> QED BY <1>5, <1>6, <2>1, <2>2, <2>3, <2>4 DEF TypeOK
<1>8. LimitsSeen'
  BY <1>1, <1>4 DEF LedgerInv, LimitsSeen, store
<1>9. FreshOweNothing'
  BY <1>1, <1>4 DEF LedgerInv, FreshOweNothing
<1> QED BY <1>3, <1>7, <1>8, <1>9 DEF LedgerInv

LEMMA LedgerNext == LedgerInv /\ [Next]_vars => LedgerInv'
<1> SUFFICES ASSUME LedgerInv, [Next]_vars PROVE LedgerInv'
  OBVIOUS
<1>1. CASE UNCHANGED vars
  <2>1. UNCHANGED <<backend, limit, data, disk, rq, gone, run, runs, crashes, highest, abandoned>>
    BY <1>1 DEF vars
  <2>2. Balanced(data)' /\ Balanced(disk)'
    BY <2>1, RowUntouched
  <2>3. TypeOK' /\ LimitsSeen' /\ FreshOweNothing'
    BY <2>1 DEF LedgerInv, TypeOK, LimitsSeen, FreshOweNothing
  <2> QED BY <2>2, <2>3 DEF LedgerInv
<1>2. CASE Next
  BY <1>2, RequestKeeps, RunKeeps, ReopenKeeps, SetLimitKeeps, ClientLeavesKeeps, CrashKeeps
     DEF Next
<1> QED BY <1>1, <1>2

LEMMA LedgerInvariant == Spec => []LedgerInv
BY LedgerInit, LedgerNext, PTL DEF Spec

-----------------------------------------------------------------------------
(* The results.                                                            *)

(* Every variable keeps its type: no operation, failed or not, makes the   *)
(* used or reserved column of daily_usage negative, and an execution       *)
(* charges no more slides than its job reserved.                           *)
THEOREM LedgerTypeCorrect == Spec => []TypeOK
<1>1. LedgerInv => TypeOK
  BY DEF LedgerInv
<1> QED BY <1>1, LedgerInvariant, PTL

(* The slides owed to requests under way stay reserved, and what was       *)
(* charged and is owed stays within the highest daily limit there has      *)
(* been, up to the slides that were settled twice; for both kinds of       *)
(* store, in memory and on disk.                                           *)
THEOREM LedgerHolds == Spec => []LedgerOK
<1>1. LedgerInv => LedgerOK
  BY DEF LedgerInv, LedgerOK, Balanced
<1> QED BY <1>1, LedgerInvariant, PTL

(* No slide is reserved in nobody's name: CommitDailyQuota and             *)
(* ReleaseDailyQuota take off the row all that ReserveDailyQuota put there.*)
THEOREM NothingIsPhantom == Spec => []NothingPhantom
<1>1. LedgerInv => NothingPhantom
  BY DEF LedgerInv, NothingPhantom, Balanced
<1> QED BY <1>1, LedgerInvariant, PTL

(* Where no reservation is ever settled a second time the daily limit      *)
(* holds outright: the ledger itself never lets the used slides past the   *)
(* highest limit.                                                          *)
THEOREM LimitHoldsUnlessSettledTwice == Spec => [](data.extra = 0 => DailyLimitHolds)
<1>1. LedgerInv => (data.extra = 0 => DailyLimitHolds)
  <2> SUFFICES ASSUME LedgerInv, data.extra = 0 PROVE data.used <= highest
    BY DEF DailyLimitHolds
  <2>1. data \in Data /\ highest \in Nat /\ ChargesBounded(data)
    BY QuotaLedgerAssumption DEF LedgerInv, TypeOK, Balanced
  <2>2. Owed(data) \in Nat /\ data.used \in Nat
    BY <2>1, OwedType DEF Data
  <2> QED BY <2>1, <2>2 DEF ChargesBounded
<1> QED BY <1>1, LedgerInvariant, PTL

-----------------------------------------------------------------------------
(* What an undisturbed ledger does.  Section 4 of the README shows four    *)
(* ways to settle a reservation twice or never; what follows is that there *)
(* is no other.  While no operation of the store fails, the queue has      *)
(* room, no finished record is reopened and the process does not die, a    *)
(* reservation is in the row exactly from its reservation to its one       *)
(* settlement, whoever of the request and the executions of its job makes  *)
(* it.                                                                     *)

Undisturbed == ~Failures /\ ~QueueMayFill /\ ~Reopens /\ MaxCrashes = 0

(* The SQL stores have, besides, a client that stays: a context that is    *)
(* done between the commit and the read that follows it settles twice.     *)
Calm == backend = "json" \/ gone = {}

(* Request r still has to settle its reservation, or its job has to.       *)
Unsettled(r) ==
  IF r \in SyncRequests THEN rq[r].pc \in {"work", "commit", "release"}
  ELSE \/ rq[r].pc = "enqueue"
       \/ /\ data.job[r] = "open"
          /\ \A x \in Runners : run[x].req = r => run[x].pc \notin {"reply", "finish"}

JobInOrder(r) ==
  /\ rq[r].pc \in {"new", "reserve", "enqueue"} => data.job[r] = "none"
  /\ rq[r].pc \in {"new", "reserve", "enqueue", "send", "ended"}

(* A runner executes an open job, which no other one executes.             *)
RunInOrder(x) ==
  run[x].pc # "idle" =>
    /\ data.job[run[x].req] = "open"
    /\ \A y \in Runners : run[y].pc # "idle" /\ run[y].req = run[x].req => y = x

OwesWhatIsUnsettled == \A r \in Requests : r \in data.owing <=> Unsettled(r)

SettledOnce ==
  /\ data.extra = 0
  /\ OwesWhatIsUnsettled
  /\ \A r \in JobRequests : JobInOrder(r)
  /\ \A x \in Runners : RunInOrder(x)

LEMMA SettledInit == Init => SettledOnce
<1> SUFFICES ASSUME Init PROVE SettledOnce
  OBVIOUS
<1>1. /\ data.extra = 0 /\ data.owing = {}
      /\ \A r \in JobRequests : data.job[r] = "none"
      /\ \A r \in Requests : rq[r].pc = "new"
      /\ \A x \in Runners : run[x].pc = "idle"
  BY DEF Init, EmptyData, NewRequest, IdleRun
<1>2. OwesWhatIsUnsettled
  BY <1>1 DEF OwesWhatIsUnsettled, Unsettled, Requests
<1>3. \A r \in JobRequests : JobInOrder(r)
  BY <1>1 DEF JobInOrder, Requests
<1>4. \A x \in Runners : RunInOrder(x)
  BY <1>1 DEF RunInOrder
<1> QED BY <1>1, <1>2, <1>3, <1>4 DEF SettledOnce

(* A step of request r concerns its own reservation and job only.          *)
LEMMA RequestSettles ==
  ASSUME LedgerInv, SettledOnce, NEW r \in Requests,
         run' = run,
         \A q \in Requests : q # r => rq'[q] = rq[q],
         \A q \in Requests : q # r => (q \in data'.owing <=> q \in data.owing),
         \A q \in JobRequests : q # r => data'.job[q] = data.job[q],
         r \in JobRequests /\ data.job[r] = "open" => data'.job[r] = "open",
         data'.extra = 0,
         r \in data'.owing <=> Unsettled(r)',
         r \in JobRequests => JobInOrder(r)'
  PROVE  SettledOnce'
<1>1. OwesWhatIsUnsettled'
  <2> SUFFICES ASSUME NEW q \in Requests PROVE q \in data'.owing <=> Unsettled(q)'
    BY DEF OwesWhatIsUnsettled
  <2>1. CASE q = r
    BY <2>1
  <2>2. CASE q # r
    <3>1. Unsettled(q)' <=> Unsettled(q)
      BY <2>2 DEF Unsettled, Requests
    <3>2. q \in data.owing <=> Unsettled(q)
      BY DEF SettledOnce, OwesWhatIsUnsettled
    <3> QED BY <2>2, <3>1, <3>2
  <2> QED BY <2>1, <2>2
<1>2. \A q \in JobRequests : JobInOrder(q)'
  BY DEF SettledOnce, JobInOrder, Requests
<1>3. \A x \in Runners : RunInOrder(x)'
  <2> SUFFICES ASSUME NEW x \in Runners, run[x].pc # "idle"
               PROVE  data'.job[run[x].req] = "open"
    BY DEF SettledOnce, RunInOrder
  <2>1. run[x].req \in JobRequests /\ data.job[run[x].req] = "open"
    BY DEF LedgerInv, TypeOK, SettledOnce, RunInOrder
  <2> QED BY <2>1
<1> QED BY <1>1, <1>2, <1>3 DEF SettledOnce

(* Undisturbed, a write succeeds, in memory and on disk.                   *)
LEMMA WritesSucceed ==
  ASSUME Undisturbed, Calm, LedgerInv, NEW r, NEW new,
         NEW o \in Outcomes(FALSE) \cup Outcomes(r \in gone), Written(new, o)
  PROVE  o = "ok" /\ data' = new
<1>1. o = "ok"
  BY DEF Undisturbed, Calm, Outcomes
<1> QED BY <1>1 DEF Written

(* The row after each operation, as far as settling it matters.            *)
LEMMA RowAfter ==
  ASSUME data \in Data, data.extra = 0, NEW r \in Requests
  PROVE  /\ Reserved(r).owing = data.owing \cup {r} /\ Reserved(r).extra = 0
         /\ Reserved(r).job = data.job
         /\ \A n : /\ Committed(r, n).owing = data.owing \ {r}
                   /\ Committed(r, n).job = data.job
                   /\ r \in data.owing => Committed(r, n).extra = 0
         /\ Released(r).owing = data.owing \ {r} /\ Released(r).job = data.job
         /\ r \in data.owing => Released(r).extra = 0
         /\ \A status : /\ WithJob(r, status).owing = data.owing
                        /\ WithJob(r, status).extra = 0
                        /\ WithJob(r, status).job = [data.job EXCEPT ![r] = status]
BY DEF Data, Reserved, Committed, Released, WithJob

LEMMA RequestStepSettles ==
  ASSUME Undisturbed, Calm, LedgerInv, SettledOnce, NEW r \in Requests, RequestStep(r)
  PROVE  SettledOnce'
<1>1. /\ data \in Data /\ data.extra = 0
      /\ data.job \in [JobRequests -> {"none", "open", "closed"}]
      /\ rq \in [Requests -> [pc : RequestPC, seen : Nat, slides : Nat]]
      /\ r \in data.owing <=> Unsettled(r)
      /\ r \in JobRequests => JobInOrder(r)
      /\ r \in SyncRequests <=> r \notin JobRequests
      /\ rq[r].pc \in {"enqueue", "send", "reject"} => r \in JobRequests
  BY QuotaLedgerAssumption
     DEF LedgerInv, TypeOK, Data, SettledOnce, OwesWhatIsUnsettled, Requests
<1>2. ASSUME NEW pc, SetRequest(r, pc)
      PROVE  rq'[r].pc = pc /\ \A q \in Requests : q # r => rq'[q] = rq[q]
  BY <1>1, <1>2 DEF SetRequest
<1>3. run' = run
  BY DEF RequestStep, ReadLimit, ReserveDailyQuota, SyncWork, SyncCommit, SyncReply, Release,
         EnqueuePersist, EnqueueSend, EnqueueReject
(* No row is written and the request is as far from settled as before.     *)
<1>4. ASSUME data' = data, \A q \in Requests : q # r => rq'[q] = rq[q],
             Unsettled(r)' <=> Unsettled(r), r \in JobRequests => JobInOrder(r)'
      PROVE  SettledOnce'
  BY <1>1, <1>3, <1>4, RequestSettles
<1>5. CASE ReadLimit(r)
  <2>1. /\ data' = data /\ rq[r].pc = "new" /\ rq'[r].pc = "reserve"
        /\ \A q \in Requests : q # r => rq'[q] = rq[q]
    BY <1>1, <1>5 DEF ReadLimit
  <2>2. Unsettled(r)' <=> Unsettled(r)
    BY <1>3, <2>1 DEF Unsettled
  <2>3. r \in JobRequests => JobInOrder(r)'
    BY <1>1, <2>1 DEF JobInOrder
  <2> QED BY <1>4, <2>1, <2>2, <2>3
<1>6. CASE ReserveDailyQuota(r)
  <2> DEFINE seen == IF backend = "sql" THEN rq[r].seen ELSE limit
  <2>1. rq[r].pc \in {"new", "reserve"} /\ ~Unsettled(r)
    BY <1>1, <1>6 DEF ReserveDailyQuota, Unsettled, JobInOrder
  <2>2. CASE ~MayReserve(r, seen)
    <3>1. SetRequest(r, "ended") /\ data' = data
      BY <1>6, <2>2 DEF ReserveDailyQuota
    <3>2. ~Unsettled(r)'
      BY <1>1, <1>2, <1>3, <2>1, <3>1 DEF Unsettled, JobInOrder
    <3>3. r \in JobRequests => JobInOrder(r)'
      BY <1>1, <1>2, <2>1, <3>1 DEF JobInOrder
    <3> QED BY <1>2, <1>4, <2>1, <3>1, <3>2, <3>3
  <2>3. CASE MayReserve(r, seen)
    <3>1. PICK o \in Outcomes(r \in gone) :
            /\ Written(Reserved(r), o)
            /\ SetRequest(r, IF o = "ok" THEN Reservee(r) ELSE "ended")
      BY <1>6, <2>3 DEF ReserveDailyQuota
    <3>2. o = "ok" /\ data' = Reserved(r)
      BY <3>1, WritesSucceed
    <3>3. data'.owing = data.owing \cup {r} /\ data'.extra = 0 /\ data'.job = data.job
      BY <1>1, <3>2, RowAfter
    <3>4. SetRequest(r, Reservee(r))
      BY <3>1, <3>2
    <3>5. Unsettled(r)'
      BY <1>1, <1>2, <3>4 DEF Unsettled, Reservee
    <3>6. r \in JobRequests => JobInOrder(r)'
      BY <1>1, <1>2, <2>1, <3>3, <3>4 DEF JobInOrder, Reservee
    <3> QED BY <1>2, <1>3, <3>3, <3>4, <3>5, <3>6, RequestSettles
  <2> QED BY <2>2, <2>3
<1>7. CASE SyncWork(r)
  <2>1. /\ data' = data /\ rq[r].pc = "work" /\ rq'[r].pc \in {"release", "commit"}
        /\ \A q \in Requests : q # r => rq'[q] = rq[q]
    BY <1>1, <1>7 DEF SyncWork, SetRequest
  <2>2. r \in SyncRequests
    BY <1>1, <2>1 DEF JobInOrder
  <2>3. Unsettled(r)' <=> Unsettled(r)
    BY <2>1, <2>2 DEF Unsettled
  <2> QED BY <1>1, <1>4, <2>1, <2>2, <2>3
<1>8. CASE SyncCommit(r) \/ Release(r)
  <2>1. rq[r].pc \in {"commit", "release"}
    BY <1>8 DEF SyncCommit, Release
  <2>2. r \in SyncRequests
    BY <1>1, <2>1 DEF JobInOrder
  <2>3. r \in data.owing
    BY <1>1, <2>1, <2>2 DEF Unsettled
  <2>4. /\ data' = Released(r) \/ data' = Committed(r, rq[r].slides)
        /\ SetRequest(r, "reply") \/ SetRequest(r, "ended")
    <3>1. CASE SyncCommit(r)
      <4>1. PICK o \in Outcomes(r \in gone) :
              /\ Written(Committed(r, rq[r].slides), o)
              /\ SetRequest(r, IF o = "ok" THEN "reply" ELSE "release")
        BY <3>1 DEF SyncCommit
      <4>2. o = "ok" /\ data' = Committed(r, rq[r].slides)
        BY <4>1, WritesSucceed
      <4> QED BY <4>1, <4>2
    <3>2. CASE Release(r)
      <4>1. PICK o \in Outcomes(r \in gone) : Written(Released(r), o)
        BY <3>2 DEF Release
      <4>2. data' = Released(r)
        BY <4>1, WritesSucceed
      <4> QED BY <3>2, <4>2 DEF Release
    <3> QED BY <1>8, <3>1, <3>2
  <2>5. data'.owing = data.owing \ {r} /\ data'.extra = 0 /\ data'.job = data.job
    BY <1>1, <2>3, <2>4, RowAfter
  <2>6. rq'[r].pc \in {"reply", "ended"} /\ \A q \in Requests : q # r => rq'[q] = rq[q]
    BY <1>2, <2>4
  <2>7. ~Unsettled(r)'
    BY <2>2, <2>6 DEF Unsettled
  <2> QED BY <1>1, <1>3, <2>2, <2>5, <2>6, <2>7, RequestSettles
(* The read that follows the commit succeeds, so nothing is released.      *)
<1>9. CASE SyncReply(r)
  <2>1. rq[r].pc = "reply" /\ data' = data
    BY <1>9 DEF SyncReply
  <2>2. ~Failures /\ ~ReadLost(r)
    BY DEF Undisturbed, Calm, ReadLost
  <2>3. SetRequest(r, "ended")
    BY <1>9, <2>2 DEF SyncReply
  <2>4. r \in SyncRequests
    BY <1>1, <2>1 DEF JobInOrder
  <2>5. Unsettled(r)' <=> Unsettled(r)
    BY <1>2, <2>1, <2>3, <2>4 DEF Unsettled
  <2> QED BY <1>1, <1>2, <1>4, <2>1, <2>3, <2>4, <2>5
(* The reservation passes from the request to the job it creates.          *)
<1>10. CASE EnqueuePersist(r)
  <2>1. PICK o \in Outcomes(FALSE) :
          /\ Written(WithJob(r, "open"), o)
          /\ SetRequest(r, IF o = "ok" THEN "send" ELSE "release")
    BY <1>10 DEF EnqueuePersist
  <2>2. o = "ok" /\ data' = WithJob(r, "open")
    BY <2>1, WritesSucceed
  <2>3. rq[r].pc = "enqueue" /\ r \in JobRequests /\ SetRequest(r, "send")
    BY <1>1, <1>10, <2>1, <2>2 DEF EnqueuePersist
  <2>4. data.job[r] = "none" /\ r \in data.owing
    BY <1>1, <2>3 DEF JobInOrder, Unsettled
  <2>5. /\ data'.owing = data.owing /\ data'.extra = 0
        /\ data'.job = [data.job EXCEPT ![r] = "open"]
    BY <1>1, <2>2, RowAfter
  <2>6. data'.job[r] = "open" /\ \A q \in JobRequests : q # r => data'.job[q] = data.job[q]
    BY <1>1, <2>3, <2>5
  <2>7. ASSUME NEW x \in Runners, run[x].req = r PROVE run[x].pc \notin {"reply", "finish"}
    BY <2>4, <2>7 DEF SettledOnce, RunInOrder
  <2>8. Unsettled(r)'
    BY <1>1, <1>3, <2>3, <2>6, <2>7 DEF Unsettled
  <2>9. JobInOrder(r)'
    BY <1>2, <2>3 DEF JobInOrder
  <2> QED BY <1>2, <1>3, <2>3, <2>4, <2>5, <2>6, <2>8, <2>9, RequestSettles
<1>11. CASE EnqueueSend(r)
  <2>1. data' = data /\ rq[r].pc = "send" /\ SetRequest(r, "ended")
    BY <1>11 DEF EnqueueSend, Undisturbed
  <2>2. r \in JobRequests
    BY <1>1, <2>1
  <2>3. Unsettled(r)' <=> Unsettled(r)
    BY <1>1, <1>2, <1>3, <2>1, <2>2 DEF Unsettled
  <2>4. JobInOrder(r)'
    BY <1>2, <2>1 DEF JobInOrder
  <2> QED BY <1>2, <1>4, <2>1, <2>3, <2>4
<1>12. CASE EnqueueReject(r)
  BY <1>1, <1>12 DEF EnqueueReject, JobInOrder
<1> QED BY <1>5, <1>6, <1>7, <1>8, <1>9, <1>10, <1>11, <1>12 DEF RequestStep

(* A step of runner x concerns the reservation of the job it executes.     *)
LEMMA RunSettles ==
  ASSUME LedgerInv, SettledOnce, NEW x \in Runners, NEW r \in JobRequests,
         rq' = rq,
         run'[x].req = r,
         run[x].pc # "idle" => run[x].req = r,
         \A y \in Runners : y # x => run'[y] = run[y],
         \A y \in Runners \ {x} : run[y].pc # "idle" => run[y].req # r,
         \A q \in Requests : q # r => (q \in data'.owing <=> q \in data.owing),
         \A q \in JobRequests : q # r => data'.job[q] = data.job[q],
         data'.extra = 0,
         data.job[r] = "open",
         run'[x].pc # "idle" => data'.job[r] = "open",
         data'.job[r] # "none",
         r \in data'.owing <=> /\ data'.job[r] = "open"
                               /\ run'[x].pc \notin {"reply", "finish"}
  PROVE  SettledOnce'
<1>1. rq[r].pc \in {"send", "ended"} /\ r \notin SyncRequests /\ r \in Requests
  BY QuotaLedgerAssumption DEF SettledOnce, JobInOrder, Requests
<1>2. OwesWhatIsUnsettled'
  <2> SUFFICES ASSUME NEW q \in Requests PROVE q \in data'.owing <=> Unsettled(q)'
    BY DEF OwesWhatIsUnsettled
  <2>1. CASE q = r
    <3>1. \A y \in Runners \ {x} : run'[y].req = r => run'[y].pc = "idle"
      OBVIOUS
    <3> QED BY <1>1, <2>1, <3>1 DEF Unsettled
  <2>2. CASE q # r
    <3>1. q \in data.owing <=> Unsettled(q)
      BY DEF SettledOnce, OwesWhatIsUnsettled
    <3>2. \A y \in Runners : /\ run'[y].req = q /\ run'[y].pc \in {"reply", "finish"}
                                <=> run[y].req = q /\ run[y].pc \in {"reply", "finish"}
      BY <2>2
    <3>3. Unsettled(q)' <=> Unsettled(q)
      <4>1. CASE q \in SyncRequests
        BY <4>1 DEF Unsettled
      <4>2. CASE q \notin SyncRequests
        <5>1. data'.job[q] = data.job[q]
          BY <2>2, <4>2 DEF Requests
        <5>2. /\ Unsettled(q) <=> rq[q].pc = "enqueue"
                   \/ (data.job[q] = "open"
                       /\ ~\E y \in Runners : run[y].req = q /\ run[y].pc \in {"reply", "finish"})
              /\ Unsettled(q)' <=> rq[q].pc = "enqueue"
                   \/ (data'.job[q] = "open"
                       /\ ~\E y \in Runners : run'[y].req = q /\ run'[y].pc \in {"reply", "finish"})
          BY <4>2 DEF Unsettled
        <5> QED BY <3>2, <5>1, <5>2
      <4> QED BY <4>1, <4>2
    <3> QED BY <2>2, <3>1, <3>3
  <2> QED BY <2>1, <2>2
<1>3. \A q \in JobRequests : JobInOrder(q)'
  <2> SUFFICES ASSUME NEW q \in JobRequests PROVE JobInOrder(q)'
    OBVIOUS
  <2>1. JobInOrder(q)
    BY DEF SettledOnce
  <2>2. CASE q = r
    BY <1>1, <2>2 DEF JobInOrder
  <2>3. CASE q # r
    BY <2>1, <2>3 DEF JobInOrder
  <2> QED BY <2>2, <2>3
<1>4. ASSUME NEW y \in Runners PROVE RunInOrder(y)'
  <2>1. CASE y = x
    BY <2>1 DEF RunInOrder
  <2>2. CASE y # x
    <3> SUFFICES ASSUME run[y].pc # "idle"
                 PROVE  /\ data'.job[run[y].req] = "open"
                        /\ \A z \in Runners : run'[z].pc # "idle" /\ run'[z].req = run[y].req
                                              => z = y
      BY <2>2 DEF RunInOrder
    <3>1. run[y].req \in JobRequests /\ run[y].req # r /\ RunInOrder(y)
      BY <2>2 DEF LedgerInv, TypeOK, SettledOnce
    <3> QED BY <2>2, <3>1 DEF RunInOrder
  <2> QED BY <2>1, <2>2
<1> QED BY <1>2, <1>3, <1>4 DEF SettledOnce

LEMMA RunStepSettles ==
  ASSUME Undisturbed, Calm, LedgerInv, SettledOnce, NEW x \in Runners, RunStep(x)
  PROVE  SettledOnce'
<1> DEFINE r == run[x].req
<1>1. /\ data \in Data /\ data.extra = 0
      /\ data.job \in [JobRequests -> {"none", "open", "closed"}]
      /\ run \in [Runners -> [pc : RunPC, req : Requests, slides : Nat]]
      /\ RunInOrder(x)
      /\ rq' = rq
  BY DEF LedgerInv, TypeOK, Data, SettledOnce, RunStep, RunStart, RunWork, RunCommit, RunReply,
         RunRelease, RunFinish
<1>2. ASSUME NEW pc, SetRun(x, pc)
      PROVE  /\ run'[x].pc = pc /\ run'[x].req = r
             /\ \A y \in Runners : y # x => run'[y] = run[y]
  BY <1>1, <1>2 DEF SetRun
<1>3. CASE RunStart(x)
  <2>1. PICK q \in JobRequests :
          /\ data.job[q] = "open"
          /\ Reopens \/ \A y \in Runners : run[y].pc = "idle" \/ run[y].req # q
          /\ run' = [run EXCEPT ![x] = [pc |-> "work", req |-> q, slides |-> 0]]
    BY <1>3 DEF RunStart
  <2>2. data' = data /\ run[x].pc = "idle"
    BY <1>3 DEF RunStart
  <2>3. \A y \in Runners : run[y].pc # "idle" => run[y].req # q
    BY <2>1 DEF Undisturbed
  <2>4. /\ run'[x].req = q /\ run'[x].pc = "work"
        /\ \A y \in Runners : y # x => run'[y] = run[y]
    BY <1>1, <2>1
  <2>5. q \in Requests /\ q \notin SyncRequests
    BY QuotaLedgerAssumption DEF Requests
  <2>6. q \in data.owing
    <3>1. \A y \in Runners : run[y].req = q => run[y].pc \notin {"reply", "finish"}
      BY <2>3
    <3> QED BY <2>1, <2>5, <3>1 DEF SettledOnce, OwesWhatIsUnsettled, Unsettled
  <2> QED BY <1>1, <2>1, <2>2, <2>3, <2>4, <2>6, RunSettles
<1>4. CASE ~RunStart(x)
  <2>1. run[x].pc # "idle"
    BY <1>4 DEF RunStep, RunWork, RunCommit, RunReply, RunRelease, RunFinish
  <2>2. /\ r \in JobRequests /\ r \in Requests /\ r \notin SyncRequests
        /\ data.job[r] = "open"
        /\ \A y \in Runners \ {x} : run[y].pc # "idle" => run[y].req # r
    BY <1>1, <2>1, QuotaLedgerAssumption DEF LedgerInv, TypeOK, RunInOrder, Requests
  <2>3. r \in data.owing <=> run[x].pc \notin {"reply", "finish"}
    <3>1. rq[r].pc # "enqueue"
      BY <2>2 DEF SettledOnce, JobInOrder
    <3>2. \A y \in Runners \ {x} : run[y].req = r => run[y].pc = "idle"
      BY <2>2
    <3> QED BY <2>2, <3>1, <3>2 DEF SettledOnce, OwesWhatIsUnsettled, Unsettled
  <2> HIDE DEF r
  <2>4. ASSUME NEW pc, run'[x].pc = pc, run'[x].req = r,
               \A y \in Runners : y # x => run'[y] = run[y],
               pc # "idle", data'.job = data.job, data'.extra = 0,
               \A q \in Requests : q # r => (q \in data'.owing <=> q \in data.owing),
               r \in data'.owing <=> pc \notin {"reply", "finish"}
        PROVE  SettledOnce'
    BY <1>1, <2>2, <2>4, RunSettles DEF r
  <2>5. CASE RunWork(x)
    <3>1. /\ data' = data /\ run[x].pc = "work" /\ run'[x].pc \in {"release", "commit"}
          /\ run'[x].req = r /\ \A y \in Runners : y # x => run'[y] = run[y]
      BY <1>1, <2>5 DEF RunWork, SetRun, Undisturbed, r
    <3> QED BY <1>1, <2>3, <2>4, <3>1
  <2>6. CASE RunCommit(x) \/ RunRelease(x)
    <3>1. run[x].pc \in {"commit", "release"} /\ r \in data.owing
      BY <2>3, <2>6 DEF RunCommit, RunRelease
    <3>2. /\ data' = Released(r) \/ data' = Committed(r, run[x].slides)
          /\ SetRun(x, "reply") \/ SetRun(x, "finish")
      <4>1. CASE RunCommit(x)
        <5>1. PICK o \in Outcomes(FALSE) :
                /\ Written(Committed(r, run[x].slides), o)
                /\ SetRun(x, IF o = "ok" THEN "reply" ELSE "release")
          BY <4>1 DEF RunCommit, r
        <5>2. o = "ok" /\ data' = Committed(r, run[x].slides)
          BY <5>1, WritesSucceed
        <5> QED BY <5>1, <5>2
      <4>2. CASE RunRelease(x)
        <5>1. PICK o \in Outcomes(FALSE) : Written(Released(r), o)
          BY <4>2 DEF RunRelease, r
        <5>2. data' = Released(r)
          BY <5>1, WritesSucceed
        <5> QED BY <4>2, <5>2 DEF RunRelease
      <4> QED BY <2>6, <4>1, <4>2
    <3>3. data'.owing = data.owing \ {r} /\ data'.extra = 0 /\ data'.job = data.job
      BY <1>1, <2>2, <3>1, <3>2, RowAfter
    <3>4. /\ run'[x].pc \in {"reply", "finish"} /\ run'[x].req = r
          /\ \A y \in Runners : y # x => run'[y] = run[y]
      BY <1>2, <3>2 DEF r
    <3> QED BY <2>4, <3>3, <3>4
  <2>7. CASE RunReply(x)
    <3>1. data' = data /\ run[x].pc = "reply" /\ SetRun(x, "finish")
      BY <2>7 DEF RunReply, Undisturbed
    <3>2. /\ run'[x].pc = "finish" /\ run'[x].req = r
          /\ \A y \in Runners : y # x => run'[y] = run[y]
      BY <1>2, <3>1 DEF r
    <3> QED BY <1>1, <2>3, <2>4, <3>1, <3>2
  <2>8. CASE RunFinish(x)
    <3>1. PICK o \in Outcomes(FALSE) : Written(WithJob(r, "closed"), o)
      BY <2>8 DEF RunFinish, r
    <3>2. data' = WithJob(r, "closed")
      BY <3>1, WritesSucceed
    <3>3. /\ data'.owing = data.owing /\ data'.extra = 0
          /\ data'.job = [data.job EXCEPT ![r] = "closed"]
      BY <1>1, <2>2, <3>2, RowAfter
    <3>4. /\ data'.job[r] = "closed"
          /\ \A q \in JobRequests : q # r => data'.job[q] = data.job[q]
      BY <1>1, <2>2, <3>3
    <3>5. run[x].pc = "finish" /\ SetRun(x, "idle")
      BY <2>8 DEF RunFinish
    <3>6. /\ run'[x].pc = "idle" /\ run'[x].req = r
          /\ \A y \in Runners : y # x => run'[y] = run[y]
      BY <1>2, <3>5 DEF r
    <3>7. r \notin data'.owing
      BY <2>3, <3>3, <3>5
    <3> QED BY <1>1, <2>2, <3>3, <3>4, <3>6, <3>7, RunSettles DEF r
  <2> QED BY <1>4, <2>5, <2>6, <2>7, <2>8 DEF RunStep
<1> QED BY <1>3, <1>4

LEMMA SettledNext ==
  ASSUME Undisturbed
  PROVE  LedgerInv /\ (Calm => SettledOnce) /\ [Next]_vars => (Calm => SettledOnce)'
<1> SUFFICES ASSUME LedgerInv, Calm => SettledOnce, [Next]_vars, Calm' PROVE SettledOnce'
  OBVIOUS
<1>1. backend' = backend /\ gone \subseteq gone'
  BY DEF Next, vars, RequestStep, ReadLimit, ReserveDailyQuota, SyncWork, SyncCommit, SyncReply,
         Release, EnqueuePersist, EnqueueSend, EnqueueReject, ClientLeaves, Reopen, RunStep,
         RunStart, RunWork, RunCommit, RunReply, RunRelease, RunFinish, SetLimit, Crash, store,
         threads
<1>2. Calm /\ SettledOnce
  BY <1>1 DEF Calm
<1>3. ASSUME UNCHANGED <<data, rq, run>> PROVE SettledOnce'
  BY <1>2, <1>3 DEF SettledOnce, OwesWhatIsUnsettled, Unsettled, JobInOrder, RunInOrder
<1>4. CASE UNCHANGED vars
  BY <1>3, <1>4 DEF vars
<1>5. ASSUME NEW r \in Requests, RequestStep(r) PROVE SettledOnce'
  BY <1>2, <1>5, RequestStepSettles
<1>6. ASSUME NEW r \in Requests, ClientLeaves(r) PROVE SettledOnce'
  BY <1>3, <1>6 DEF ClientLeaves
<1>7. ASSUME NEW r \in JobRequests, Reopen(r) PROVE SettledOnce'
  BY <1>7 DEF Reopen, Undisturbed
<1>8. ASSUME NEW x \in Runners, RunStep(x) PROVE SettledOnce'
  BY <1>2, <1>8, RunStepSettles
<1>9. CASE SetLimit
  BY <1>3, <1>9 DEF SetLimit, threads
<1>10. CASE Crash
  BY <1>10 DEF Crash, Undisturbed, LedgerInv, TypeOK
<1> QED BY <1>4, <1>5, <1>6, <1>7, <1>8, <1>9, <1>10 DEF Next

(* Undisturbed, and with a SQL store while no client has left, every       *)
(* reservation is settled exactly once: it is in the row from              *)
(* ReserveDailyQuota until the request, or the execution of its job,       *)
(* commits or releases it, and none is settled that is not in it.          *)
THEOREM EverySettlementIsTheOnly ==
  ASSUME Undisturbed
  PROVE  Spec => [](Calm => OwesWhatIsUnsettled /\ data.extra = 0)
<1>1. Init => (Calm => SettledOnce)
  BY SettledInit
<1>2. LedgerInv /\ (Calm => SettledOnce) /\ [Next]_vars => (Calm => SettledOnce)'
  BY SettledNext
<1>3. (Calm => SettledOnce) => (Calm => OwesWhatIsUnsettled /\ data.extra = 0)
  BY DEF SettledOnce
<1> QED BY <1>1, <1>2, <1>3, LedgerInvariant, PTL DEF Spec

(* What rules.go:20 and handlers.go:206 say holds as long as the ledger is *)
(* undisturbed: the used slides stay within the highest daily limit, and   *)
(* no request that has ended still has its reservation in the row.         *)
THEOREM UndisturbedLedgerHolds ==
  ASSUME Undisturbed
  PROVE  Spec => [](Calm => DailyLimitHolds /\ EndedHoldNothing)
<1>1. OwesWhatIsUnsettled => EndedHoldNothing
  BY DEF OwesWhatIsUnsettled, Unsettled, EndedHoldNothing, Requests
<1> QED BY <1>1, EverySettlementIsTheOnly, LimitHoldsUnlessSettledTwice, PTL

-----------------------------------------------------------------------------
(* What the liveness properties of the ledger rest on.  JobsSettle and     *)
(* RequestsSettle say that a reservation is settled in the end; here, that *)
(* there always is somebody left to settle it, unless its client left or   *)
(* the process died.  Only that the store's operations do not fail is      *)
(* assumed: the queue may be full, records may be reopened and executed by *)
(* several runners, clients may leave and the process may die at any point.*)

(* Request r settles its reservation later on, or its job is going to be   *)
(* executed.                                                               *)
Pursued(r) ==
  \/ rq[r].pc \in {"work", "commit", "release", "enqueue", "send", "reject"}
  \/ r \in JobRequests /\ data.job[r] = "open"

OwedIsPursued == \A r \in data.owing : Pursued(r) \/ r \in abandoned

(* No step takes a job out of the hands of the runners, by closing its     *)
(* record, while its reservation is in the row and its request is over.    *)
OpenWhileOwed ==
  [][\A r \in JobRequests :
       data.job[r] = "open" /\ rq[r].pc = "ended" /\ r \in data.owing => data'.job[r] = "open"]_vars

RequestFits(r) ==
  /\ r \in data.owing => Pursued(r) \/ r \in abandoned
  /\ rq[r].pc = "reply" => r \notin data.owing
  /\ rq[r].pc \in {"new", "reserve"} /\ r \in JobRequests => data.job[r] = "none"
  /\ rq[r].pc = "send" /\ r \in JobRequests /\ r \in data.owing => data.job[r] = "open"

(* An execution past its commit or release has left nothing owed, not even *)
(* when another execution of the same job settled before it.               *)
RunFits(x) ==
  /\ run[x].pc # "idle" => data.job[run[x].req] # "none"
  /\ run[x].pc \in {"reply", "finish"} => run[x].req \notin data.owing

Pursuit ==
  /\ disk = data /\ gone \subseteq abandoned
  /\ \A r \in Requests : RequestFits(r)
  /\ \A x \in Runners : RunFits(x)

LEMMA PursuitInit == Init => Pursuit
<1> SUFFICES ASSUME Init PROVE Pursuit
  OBVIOUS
<1>1. /\ data.owing = {} /\ disk = data /\ gone = {}
      /\ \A r \in JobRequests : data.job[r] = "none"
      /\ \A r \in Requests : rq[r].pc = "new"
      /\ \A x \in Runners : run[x].pc = "idle"
  BY DEF Init, EmptyData, NewRequest, IdleRun
<1> QED BY <1>1 DEF Pursuit, RequestFits, RunFits

(* A write succeeds, unless the client whose request it is has left; then  *)
(* it may be lost.                                                         *)
LEMMA LostWithItsClient ==
  ASSUME ~Failures, NEW r
  PROVE  /\ Outcomes(FALSE) = {"ok"}
         /\ Outcomes(r \in gone) = {"ok"} \/ (Outcomes(r \in gone) = {"lost"} /\ r \in gone)
<1>1. Outcomes(FALSE) = {"ok"}
  BY DEF Outcomes
<1>2. r \notin gone => Outcomes(r \in gone) = {"ok"}
  BY DEF Outcomes
<1>3. Outcomes(r \in gone) = {"ok"} \/ Outcomes(r \in gone) = {"lost"}
  BY DEF Outcomes
<1> QED BY <1>1, <1>2, <1>3

LEMMA WritesBothRows ==
  ASSUME Pursuit, NEW new, NEW o, Written(new, o)
  PROVE  /\ o = "ok" => disk' = data' /\ data' = new
         /\ o = "lost" => disk' = data' /\ data' = data
BY DEF Written, Pursuit

LEMMA RequestPursues ==
  ASSUME LedgerInv, Pursuit, NEW r \in Requests,
         UNCHANGED <<run, gone, abandoned>>, disk' = data',
         \A q \in Requests : q # r => rq'[q] = rq[q],
         \A q \in Requests : q # r => (q \in data'.owing <=> q \in data.owing),
         \A q \in JobRequests : q # r => data'.job[q] = data.job[q],
         r \in JobRequests /\ data.job[r] # "none" =>
           data'.job[r] # "none" /\ (r \in data'.owing => r \in data.owing),
         RequestFits(r)'
  PROVE  Pursuit'
<1>1. ASSUME NEW q \in Requests PROVE RequestFits(q)'
  <2>1. CASE q # r
    BY <2>1 DEF Pursuit, RequestFits, Pursued
  <2> QED BY <2>1
<1>2. ASSUME NEW x \in Runners PROVE RunFits(x)'
  <2> SUFFICES ASSUME run[x].pc # "idle"
               PROVE  /\ data'.job[run[x].req] # "none"
                      /\ run[x].pc \in {"reply", "finish"} => run[x].req \notin data'.owing
    BY DEF RunFits
  <2>1. /\ run[x].req \in JobRequests /\ run[x].req \in Requests
        /\ data.job[run[x].req] # "none"
        /\ run[x].pc \in {"reply", "finish"} => run[x].req \notin data.owing
    BY DEF LedgerInv, TypeOK, Pursuit, RunFits
  <2> QED BY <2>1
<1> QED BY <1>1, <1>2 DEF Pursuit

LEMMA RequestStepPursues ==
  ASSUME ~Failures, LedgerInv, Pursuit, NEW r \in Requests, RequestStep(r)
  PROVE  Pursuit'
<1>1. /\ data \in Data /\ disk = data
      /\ data.job \in [JobRequests -> {"none", "open", "closed"}]
      /\ rq \in [Requests -> [pc : RequestPC, seen : Nat, slides : Nat]]
      /\ RequestFits(r)
      /\ rq[r].pc \in {"enqueue", "send", "reject"} => r \in JobRequests
  BY DEF LedgerInv, TypeOK, Data, Pursuit
<1>2. ASSUME NEW pc, SetRequest(r, pc)
      PROVE  rq'[r].pc = pc /\ \A q \in Requests : q # r => rq'[q] = rq[q]
  BY <1>1, <1>2 DEF SetRequest
<1>3. UNCHANGED <<run, gone, abandoned>>
  BY DEF RequestStep, ReadLimit, ReserveDailyQuota, SyncWork, SyncCommit, SyncReply, Release,
         EnqueuePersist, EnqueueSend, EnqueueReject
<1>4. ASSUME NEW pc, UNCHANGED <<data, disk>>, rq'[r].pc = pc,
             \A q \in Requests : q # r => rq'[q] = rq[q],
             \/ pc \in {"work", "commit", "release", "reject"}
             \/ pc = "ended" /\ (r \in data.owing => Pursued(r)' \/ r \in abandoned)
             \/ pc = "reserve" /\ rq[r].pc = "new"
      PROVE  Pursuit'
  <2>1. RequestFits(r)'
    BY <1>1, <1>3, <1>4 DEF RequestFits, Pursued
  <2> QED BY <1>1, <1>3, <1>4, <2>1, RequestPursues
<1>5. CASE ReadLimit(r)
  <2>1. /\ UNCHANGED <<data, disk>> /\ rq[r].pc = "new" /\ rq'[r].pc = "reserve"
        /\ \A q \in Requests : q # r => rq'[q] = rq[q]
    BY <1>1, <1>5 DEF ReadLimit
  <2> QED BY <1>4, <2>1
<1>6. CASE ReserveDailyQuota(r)
  <2> DEFINE seen == IF backend = "sql" THEN rq[r].seen ELSE limit
  <2>1. rq[r].pc \in {"new", "reserve"} /\ r \notin data.owing
    BY <1>6 DEF ReserveDailyQuota, LedgerInv, FreshOweNothing
  <2>2. CASE ~MayReserve(r, seen)
    <3>1. SetRequest(r, "ended") /\ UNCHANGED <<data, disk>>
      BY <1>6, <2>2 DEF ReserveDailyQuota
    <3> QED BY <1>2, <1>4, <2>1, <3>1
  <2>3. CASE MayReserve(r, seen)
    <3>1. PICK o \in Outcomes(r \in gone) :
            /\ Written(Reserved(r), o)
            /\ SetRequest(r, IF o = "ok" THEN Reservee(r) ELSE "ended")
      BY <1>6, <2>3 DEF ReserveDailyQuota
    <3>2. /\ disk' = data'
          /\ o = "ok" => data' = Reserved(r)
          /\ o # "ok" => data' = data
      <4>1. o = "ok" \/ o = "lost"
        BY LostWithItsClient
      <4> QED BY <3>1, <4>1, WritesBothRows
    <3>3. CASE o # "ok"
      BY <1>1, <1>2, <1>4, <2>1, <3>1, <3>2, <3>3
    <3>4. CASE o = "ok"
      <4>1. data'.owing = data.owing \cup {r} /\ data'.job = data.job
        BY <1>1, <3>2, <3>4 DEF Reserved, Data
      <4>2. SetRequest(r, Reservee(r)) /\ Reservee(r) \in {"work", "enqueue"}
        BY <3>1, <3>4 DEF Reservee
      <4>3. RequestFits(r)'
        BY <1>2, <4>2 DEF RequestFits, Pursued
      <4>4. r \in JobRequests => data.job[r] = "none"
        BY <1>1, <2>1 DEF RequestFits
      <4> QED BY <1>2, <1>3, <3>2, <4>1, <4>2, <4>3, <4>4, RequestPursues
    <3> QED BY <3>3, <3>4
  <2> QED BY <2>2, <2>3
<1>7. CASE SyncWork(r)
  <2>1. data' = data /\ disk' = disk
    BY <1>7 DEF SyncWork
  <2>2. CASE SetRequest(r, "release")
    BY <1>2, <1>4, <2>1, <2>2
  <2>3. CASE ~SetRequest(r, "release")
    <3>1. PICK n : rq' = [rq EXCEPT ![r] = [@ EXCEPT !.pc = "commit", !.slides = n]]
      BY <1>7, <2>3 DEF SyncWork
    <3>2. rq'[r].pc = "commit" /\ \A q \in Requests : q # r => rq'[q] = rq[q]
      BY <1>1, <3>1
    <3> QED BY <1>4, <2>1, <3>2
  <2> QED BY <2>2, <2>3
(* A settlement that is lost leaves the request abandoned.                 *)
<1>8. CASE SyncCommit(r) \/ Release(r)
  <2>1. PICK o \in Outcomes(r \in gone), pc \in {"reply", "release", "ended"} :
          /\ Written(Committed(r, rq[r].slides), o) \/ Written(Released(r), o)
          /\ SetRequest(r, pc)
          /\ o # "ok" => pc \in {"release", "ended"}
    BY <1>8 DEF SyncCommit, Release
  <2>2. o = "ok" \/ (o = "lost" /\ r \in gone)
    BY LostWithItsClient
  <2>3. /\ disk' = data'
        /\ o = "ok" => data' = Committed(r, rq[r].slides) \/ data' = Released(r)
        /\ o # "ok" => data' = data /\ r \in abandoned
    BY <2>1, <2>2, WritesBothRows DEF Pursuit
  <2>4. CASE o # "ok"
    BY <1>1, <1>2, <1>4, <2>1, <2>3, <2>4
  <2>5. CASE o = "ok"
    <3>1. data'.owing = data.owing \ {r} /\ data'.job = data.job
      BY <1>1, <2>3, <2>5 DEF Committed, Released, Data
    <3>2. RequestFits(r)'
      BY <1>2, <2>1, <3>1 DEF RequestFits
    <3> QED BY <1>2, <1>3, <2>1, <2>3, <3>1, <3>2, RequestPursues
  <2> QED BY <2>4, <2>5
<1>9. CASE SyncReply(r)
  <2>1. /\ rq[r].pc = "reply" /\ UNCHANGED <<data, disk>>
        /\ SetRequest(r, "ended") \/ SetRequest(r, "release")
    BY <1>9 DEF SyncReply
  <2>2. r \notin data.owing
    BY <1>1, <2>1 DEF RequestFits
  <2> QED BY <1>2, <1>4, <2>1, <2>2
<1>10. CASE EnqueuePersist(r) \/ EnqueueReject(r)
  <2>1. PICK status \in {"open", "closed"}, o \in Outcomes(FALSE), pc \in {"send", "release"} :
          /\ Written(WithJob(r, status), o) /\ SetRequest(r, pc)
          /\ o = "ok" /\ pc = "send" => status = "open"
    BY <1>10 DEF EnqueuePersist, EnqueueReject
  <2>2. disk' = data' /\ data' = WithJob(r, status) /\ o = "ok" /\ r \in JobRequests
    <3>1. r \in JobRequests
      BY <1>1, <1>10 DEF EnqueuePersist, EnqueueReject
    <3>2. o = "ok"
      BY LostWithItsClient
    <3> QED BY <2>1, <3>1, <3>2, WritesBothRows
  <2>3. data'.owing = data.owing /\ data'.job = [data.job EXCEPT ![r] = status]
    BY <1>1, <2>2 DEF WithJob, Data
  <2>4. data'.job[r] = status /\ \A q \in JobRequests : q # r => data'.job[q] = data.job[q]
    BY <1>1, <2>2, <2>3
  <2>5. RequestFits(r)'
    BY <1>2, <2>1, <2>2, <2>4 DEF RequestFits, Pursued
  <2> QED BY <1>2, <1>3, <2>1, <2>2, <2>3, <2>4, <2>5, RequestPursues
<1>11. CASE EnqueueSend(r)
  <2>1. /\ rq[r].pc = "send" /\ UNCHANGED <<data, disk>>
        /\ SetRequest(r, "ended") \/ SetRequest(r, "reject")
    BY <1>11 DEF EnqueueSend
  <2>2. r \in data.owing => r \in JobRequests /\ data.job[r] = "open"
    BY <1>1, <2>1 DEF RequestFits
  <2> QED BY <1>2, <1>4, <2>1, <2>2 DEF Pursued
<1> QED BY <1>5, <1>6, <1>7, <1>8, <1>9, <1>10, <1>11 DEF RequestStep

LEMMA RunPursues ==
  ASSUME Pursuit, NEW x \in Runners, NEW r \in JobRequests,
         UNCHANGED <<rq, gone, abandoned>>, disk' = data',
         run'[x].req = r, \A y \in Runners : y # x => run'[y] = run[y],
         \A q \in Requests : q \in data'.owing => q \in data.owing,
         \A q \in JobRequests : q # r => data'.job[q] = data.job[q],
         data.job[r] # "none", data'.job[r] # "none",
         data'.job[r] = data.job[r] \/ r \notin data'.owing,
         run'[x].pc \in {"reply", "finish"} => r \notin data'.owing
  PROVE  LedgerInv => Pursuit'
<1> SUFFICES ASSUME LedgerInv PROVE Pursuit'
  OBVIOUS
<1>1. ASSUME NEW q \in Requests PROVE RequestFits(q)'
  <2>1. RequestFits(q)
    BY DEF Pursuit
  <2>2. CASE q = r
    BY <2>1, <2>2 DEF RequestFits, Pursued
  <2>3. CASE q # r
    BY <2>1, <2>3 DEF RequestFits, Pursued
  <2> QED BY <2>2, <2>3
<1>2. ASSUME NEW y \in Runners PROVE RunFits(y)'
  <2>1. CASE y = x
    BY <2>1 DEF RunFits
  <2>2. CASE y # x
    <3> SUFFICES ASSUME run[y].pc # "idle"
                 PROVE  /\ data'.job[run[y].req] # "none"
                        /\ run[y].pc \in {"reply", "finish"} => run[y].req \notin data'.owing
      BY <2>2 DEF RunFits
    <3>1. /\ run[y].req \in JobRequests /\ run[y].req \in Requests
          /\ data.job[run[y].req] # "none"
          /\ run[y].pc \in {"reply", "finish"} => run[y].req \notin data.owing
      BY DEF LedgerInv, TypeOK, Pursuit, RunFits
    <3> QED BY <3>1
  <2> QED BY <2>1, <2>2
<1> QED BY <1>1, <1>2 DEF Pursuit

LEMMA RunStepPursues ==
  ASSUME ~Failures, LedgerInv, Pursuit, NEW x \in Runners, RunStep(x)
  PROVE  Pursuit'
<1>1. /\ data \in Data /\ disk = data
      /\ data.job \in [JobRequests -> {"none", "open", "closed"}]
      /\ run \in [Runners -> [pc : RunPC, req : Requests, slides : Nat]]
      /\ RunFits(x)
      /\ UNCHANGED <<rq, gone, abandoned>>
  BY DEF LedgerInv, TypeOK, Data, Pursuit, RunStep, RunStart, RunWork, RunCommit, RunReply,
         RunRelease, RunFinish
<1>2. ASSUME NEW pc, SetRun(x, pc)
      PROVE  /\ run'[x].pc = pc /\ run'[x].req = run[x].req
             /\ \A y \in Runners : y # x => run'[y] = run[y]
  BY <1>1, <1>2 DEF SetRun
<1>3. CASE RunStart(x)
  <2>1. PICK q \in JobRequests :
          /\ data.job[q] = "open" /\ UNCHANGED <<data, disk>>
          /\ run' = [run EXCEPT ![x] = [pc |-> "work", req |-> q, slides |-> 0]]
    BY <1>3 DEF RunStart
  <2>2. /\ run'[x].req = q /\ run'[x].pc = "work"
        /\ \A y \in Runners : y # x => run'[y] = run[y]
    BY <1>1, <2>1
  <2> QED BY <1>1, <2>1, <2>2, RunPursues
<1>4. CASE ~RunStart(x)
  <2>1. PICK r : r = run[x].req
    OBVIOUS
  <2>2. run[x].pc # "idle"
    BY <1>4 DEF RunStep, RunWork, RunCommit, RunReply, RunRelease, RunFinish
  <2>3. r \in JobRequests /\ r \in Requests /\ data.job[r] # "none"
    BY <1>1, <2>1, <2>2 DEF LedgerInv, TypeOK, RunFits
  <2>4. ASSUME run'[x].req = r, \A y \in Runners : y # x => run'[y] = run[y], disk' = data',
               data'.job = data.job, data'.owing = data.owing \/ data'.owing = data.owing \ {r},
               run'[x].pc \in {"reply", "finish"} => r \notin data'.owing
        PROVE  Pursuit'
    BY <1>1, <2>3, <2>4, RunPursues
  <2>5. CASE RunWork(x)
    <3>1. data' = data /\ disk' = data'
      BY <1>1, <2>5 DEF RunWork
    <3>2. CASE SetRun(x, "release")
      BY <1>2, <2>1, <2>4, <3>1, <3>2
    <3>3. CASE ~SetRun(x, "release")
      <4>1. PICK n : run' = [run EXCEPT ![x] = [@ EXCEPT !.pc = "commit", !.slides = n]]
        BY <2>5, <3>3 DEF RunWork
      <4>2. /\ run'[x].pc = "commit" /\ run'[x].req = r
            /\ \A y \in Runners : y # x => run'[y] = run[y]
        BY <1>1, <2>1, <4>1
      <4> QED BY <2>4, <3>1, <4>2
    <3> QED BY <3>2, <3>3
  <2>6. CASE RunCommit(x) \/ RunRelease(x)
    <3>1. PICK o \in Outcomes(FALSE), pc \in {"reply", "release", "finish"} :
            /\ Written(Committed(r, run[x].slides), o) \/ Written(Released(r), o)
            /\ SetRun(x, pc)
      BY <2>1, <2>6 DEF RunCommit, RunRelease
    <3>2. disk' = data' /\ (data' = Committed(r, run[x].slides) \/ data' = Released(r))
      BY <3>1, LostWithItsClient, WritesBothRows
    <3>3. data'.owing = data.owing \ {r} /\ data'.job = data.job
      BY <1>1, <3>2 DEF Committed, Released, Data
    <3> QED BY <1>2, <2>1, <2>4, <3>1, <3>2, <3>3
  <2>7. CASE RunReply(x)
    <3>1. run[x].pc = "reply" /\ UNCHANGED <<data, disk>> /\ SetRun(x, "finish")
      BY <2>7 DEF RunReply
    <3>2. r \notin data.owing
      BY <1>1, <2>1, <3>1 DEF RunFits
    <3> QED BY <1>1, <1>2, <2>1, <2>4, <3>1, <3>2
  <2>8. CASE RunFinish(x)
    <3>1. PICK o \in Outcomes(FALSE) : Written(WithJob(r, "closed"), o)
      BY <2>1, <2>8 DEF RunFinish
    <3>2. disk' = data' /\ data' = WithJob(r, "closed")
      BY <3>1, LostWithItsClient, WritesBothRows
    <3>3. /\ data'.owing = data.owing /\ data'.job = [data.job EXCEPT ![r] = "closed"]
      BY <1>1, <3>2 DEF WithJob, Data
    <3>4. /\ data'.job[r] = "closed"
          /\ \A q \in JobRequests : q # r => data'.job[q] = data.job[q]
      BY <1>1, <2>3, <3>3
    <3>5. run[x].pc = "finish" /\ SetRun(x, "idle")
      BY <2>8 DEF RunFinish
    <3>6. r \notin data'.owing
      BY <1>1, <2>1, <3>3, <3>5 DEF RunFits
    <3> QED BY <1>1, <1>2, <2>1, <2>3, <3>2, <3>3, <3>4, <3>5, <3>6, RunPursues
  <2> QED BY <1>4, <2>5, <2>6, <2>7, <2>8 DEF RunStep
<1> QED BY <1>3, <1>4

(* A crash abandons every request under way; what the store has of the     *)
(* jobs is what it had.                                                    *)
LEMMA CrashPursues ==
  ASSUME LedgerInv, Pursuit, Crash
  PROVE  Pursuit'
<1> DEFINE underWay == {r \in Requests : rq[r].pc \notin {"new", "ended"}}
<1>1. /\ data' = data /\ disk' = data' /\ gone' = gone /\ abandoned' = abandoned \cup underWay
      /\ \A x \in Runners : run'[x] = IdleRun
  BY DEF Crash, Pursuit
<1>2. rq' = [r \in Requests |-> IF r \in underWay THEN [rq[r] EXCEPT !.pc = "ended"] ELSE rq[r]]
  BY DEF Crash
<1>3. ASSUME NEW r \in Requests
      PROVE  \/ r \in underWay /\ rq'[r].pc = "ended"
             \/ r \notin underWay /\ rq'[r] = rq[r]
  <2>1. rq[r] \in [pc : RequestPC, seen : Nat, slides : Nat]
    BY DEF LedgerInv, TypeOK
  <2>2. rq'[r] = IF r \in underWay THEN [rq[r] EXCEPT !.pc = "ended"] ELSE rq[r]
    BY <1>2
  <2> HIDE DEF underWay
  <2> QED BY <2>1, <2>2
<1>4. ASSUME NEW r \in Requests PROVE RequestFits(r)'
  <2>1. RequestFits(r)
    BY DEF Pursuit
  <2>2. CASE r \in underWay
    BY <1>1, <1>3, <2>2 DEF RequestFits
  <2>3. CASE r \notin underWay
    BY <1>1, <1>3, <2>1, <2>3 DEF RequestFits, Pursued
  <2> QED BY <2>2, <2>3
<1>5. ASSUME NEW x \in Runners PROVE RunFits(x)'
  <2>1. IdleRun.pc = "idle"
    BY DEF IdleRun
  <2>2. run'[x].pc = "idle"
    BY <1>1, <2>1
  <2> QED BY <2>2 DEF RunFits
<1> QED BY <1>1, <1>4, <1>5 DEF Pursuit

LEMMA PursuitNext ==
  ASSUME ~Failures
  PROVE  LedgerInv /\ Pursuit /\ [Next]_vars => Pursuit'
<1> SUFFICES ASSUME LedgerInv, Pursuit, [Next]_vars PROVE Pursuit'
  OBVIOUS
<1>1. ASSUME UNCHANGED <<data, disk, rq, run>>, abandoned \subseteq abandoned',
             gone' \subseteq abandoned'
      PROVE  Pursuit'
  BY <1>1 DEF Pursuit, RequestFits, Pursued, RunFits
<1>2. CASE UNCHANGED vars
  BY <1>1, <1>2 DEF vars, Pursuit
<1>3. ASSUME NEW r \in Requests, RequestStep(r) PROVE Pursuit'
  BY <1>3, RequestStepPursues
<1>4. ASSUME NEW r \in Requests, ClientLeaves(r) PROVE Pursuit'
  BY <1>1, <1>4 DEF ClientLeaves, Pursuit
<1>5. ASSUME NEW r \in JobRequests, Reopen(r) PROVE Pursuit'
  <2>1. /\ data' = WithJob(r, "open") /\ disk' = data' /\ data.job[r] = "closed"
        /\ UNCHANGED <<rq, gone, run, abandoned>> /\ data \in Data
    BY <1>5 DEF Reopen, Written, threads, LedgerInv, TypeOK
  <2>2. /\ data'.owing = data.owing /\ data'.job[r] = "open"
        /\ \A q \in JobRequests : q # r => data'.job[q] = data.job[q]
    BY <2>1 DEF WithJob, Data
  <2>3. ASSUME NEW q \in Requests PROVE RequestFits(q)'
    <3>1. RequestFits(q)
      BY DEF Pursuit
    <3>2. CASE q = r
      BY <2>1, <2>2, <3>1, <3>2 DEF RequestFits, Pursued
    <3>3. CASE q # r
      BY <2>1, <2>2, <3>1, <3>3 DEF RequestFits, Pursued
    <3> QED BY <3>2, <3>3
  <2>4. ASSUME NEW x \in Runners PROVE RunFits(x)'
    <3>1. RunFits(x) /\ (run[x].pc # "idle" => run[x].req \in JobRequests)
      BY DEF Pursuit, LedgerInv, TypeOK
    <3> QED BY <2>1, <2>2, <3>1 DEF RunFits
  <2> QED BY <2>1, <2>3, <2>4 DEF Pursuit
<1>6. ASSUME NEW x \in Runners, RunStep(x) PROVE Pursuit'
  BY <1>6, RunStepPursues
<1>7. CASE SetLimit
  BY <1>1, <1>7 DEF SetLimit, threads, Pursuit
<1>8. CASE Crash
  BY <1>8, CrashPursues
<1> QED BY <1>2, <1>3, <1>4, <1>5, <1>6, <1>7, <1>8 DEF Next

(* As long as the store's operations do not fail, no reservation is left   *)
(* in the row in nobody's hands: the request that made it has yet to       *)
(* settle it, its job is open, or its client left or the process died      *)
(* under it.  A job's reservation outlives all of these with its record:   *)
(* the safety core of JobsSettle and RequestsSettle.                       *)
THEOREM OwedReservationsArePursued ==
  ASSUME ~Failures
  PROVE  Spec => []OwedIsPursued
<1>1. LedgerInv /\ Pursuit => OwedIsPursued
  BY DEF LedgerInv, TypeOK, Data, Pursuit, RequestFits, OwedIsPursued
<1>2. LedgerInv /\ Pursuit /\ [Next]_vars => Pursuit'
  BY PursuitNext
<1> QED BY <1>1, <1>2, PursuitInit, LedgerInvariant, PTL DEF Spec

LEMMA JobStaysOpen ==
  ASSUME ~Failures, LedgerInv, Pursuit, [Next]_vars, NEW r \in JobRequests,
         data.job[r] = "open", rq[r].pc = "ended", r \in data.owing
  PROVE  data'.job[r] = "open"
<1> USE DEF Requests
<1>1. data \in Data /\ data.job \in [JobRequests -> {"none", "open", "closed"}] /\ disk = data
  BY DEF LedgerInv, TypeOK, Data, Pursuit
<1>2. ASSUME NEW new, NEW o, Written(new, o), new.job[r] = "open"
      PROVE  data'.job[r] = "open"
  BY <1>2 DEF Written
<1>3. ASSUME NEW q \in JobRequests, NEW status, q # r \/ status = "open"
      PROVE  WithJob(q, status).job[r] = "open"
  <2>1. WithJob(q, status).job = [data.job EXCEPT ![q] = status]
    BY <1>1 DEF WithJob, Data
  <2> QED BY <1>1, <1>3, <2>1
<1>4. ASSUME NEW q \in Requests, NEW n
      PROVE  /\ Reserved(q).job[r] = "open" /\ Released(q).job[r] = "open"
             /\ Committed(q, n).job[r] = "open"
  BY <1>1 DEF Reserved, Released, Committed, Data
<1>5. CASE UNCHANGED vars
  BY <1>5 DEF vars
<1>6. ASSUME NEW q \in Requests, RequestStep(q) PROVE data'.job[r] = "open"
  <2>1. q # r
    BY <1>6 DEF RequestStep, ReadLimit, ReserveDailyQuota, SyncWork, SyncCommit, SyncReply,
                Release, EnqueuePersist, EnqueueSend, EnqueueReject
  <2>2. CASE data' = data
    BY <2>2
  <2>3. CASE data' # data /\ (EnqueuePersist(q) \/ EnqueueReject(q))
    <3>1. q \in JobRequests
      BY <2>3 DEF EnqueuePersist, EnqueueReject, LedgerInv, TypeOK
    <3> QED BY <1>2, <1>3, <2>1, <2>3, <3>1 DEF EnqueuePersist, EnqueueReject
  <2>4. CASE ReserveDailyQuota(q) /\ data' # data
    BY <1>2, <1>4, <2>4 DEF ReserveDailyQuota
  <2>5. CASE SyncCommit(q) \/ Release(q)
    BY <1>2, <1>4, <2>5 DEF SyncCommit, Release
  <2>6. CASE ReadLimit(q) \/ SyncWork(q) \/ SyncReply(q) \/ EnqueueSend(q)
    BY <2>6 DEF ReadLimit, SyncWork, SyncReply, EnqueueSend
  <2> QED BY <1>6, <2>2, <2>3, <2>4, <2>5, <2>6 DEF RequestStep
<1>7. ASSUME NEW x \in Runners, RunStep(x) PROVE data'.job[r] = "open"
  <2>1. CASE RunFinish(x)
    <3>1. run[x].pc = "finish" /\ run[x].req \in JobRequests
      BY <2>1 DEF RunFinish, LedgerInv, TypeOK
    <3>2. run[x].req # r
      BY <3>1 DEF Pursuit, RunFits
    <3> QED BY <1>2, <1>3, <2>1, <3>1, <3>2 DEF RunFinish
  <2>2. CASE RunCommit(x) \/ RunRelease(x)
    <3>1. run[x].req \in Requests
      BY DEF LedgerInv, TypeOK
    <3> QED BY <1>2, <1>4, <2>2, <3>1 DEF RunCommit, RunRelease
  <2>3. CASE RunStart(x) \/ RunWork(x) \/ RunReply(x)
    BY <2>3 DEF RunStart, RunWork, RunReply
  <2> QED BY <1>7, <2>1, <2>2, <2>3 DEF RunStep
<1>8. ASSUME NEW q \in JobRequests, Reopen(q) PROVE data'.job[r] = "open"
  BY <1>2, <1>3, <1>8 DEF Reopen
<1>9. CASE (\E q \in Requests : ClientLeaves(q)) \/ SetLimit \/ Crash
  BY <1>1, <1>9 DEF ClientLeaves, SetLimit, Crash
<1> QED BY <1>5, <1>6, <1>7, <1>8, <1>9 DEF Next

(* As long as the store's operations do not fail, the record of a job      *)
(* whose reservation is in the row is not closed, neither by the execution *)
(* that ends, nor by another one of the same job, nor by a restart: until  *)
(* it has settled, the manager has the job to execute.                     *)
THEOREM OwedJobsStayOpen ==
  ASSUME ~Failures
  PROVE  Spec => OpenWhileOwed
<1>1. LedgerInv /\ Pursuit /\ [Next]_vars =>
        [\A r \in JobRequests :
           data.job[r] = "open" /\ rq[r].pc = "ended" /\ r \in data.owing
             => data'.job[r] = "open"]_vars
  BY JobStaysOpen
<1>2. LedgerInv /\ Pursuit /\ [Next]_vars => Pursuit'
  BY PursuitNext
<1> QED BY <1>1, <1>2, PursuitInit, LedgerInvariant, PTL DEF Spec, OpenWhileOwed

=============================================================================
