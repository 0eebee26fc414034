---------------------- MODULE CounterReservationProofs ----------------------
(***************************************************************************)
(* Proofs about CounterReservation, for every reservation size, low-water  *)
(* mark, counter width and set of link keys.                               *)
(***************************************************************************)
EXTENDS CounterReservation, TLAPS

\* Arithmetic facts about the constants, in the form the provers need.
LEMMA Constants ==
    /\ Reservation \in Nat /\ Reservation > 0 /\ LowWater \in Nat
    /\ MaxCounter \in Nat /\ Reservation <= MaxCounter
    /\ Counters \subseteq Int
    /\ \A c \in Int : c \in Counters <=> 0 <= c /\ c <= MaxCounter
BY NumbersAssumption DEF Counters

\* Both records the node can be delivered with are well typed.
LEMMA InitialRecords == EmptyRecord \in Records /\ LegacyRecord \in Records
BY Constants DEF EmptyRecord, LegacyRecord, Records, Models, Networks

\* Whether or not a commit succeeds, flash holds a well-typed record.
LEMMA StoreType ==
    ASSUME flash \in Records, NEW rec \in Records, NEW ok \in BOOLEAN,
           Store(rec, ok)
    PROVE  flash' \in Records
BY DEF Store

\* The fields of a well-typed state, one by one.
LEMMA FieldTypes ==
    ASSUME TypeOK
    PROVE  /\ flash \in Records
           /\ flash.gLimit \in Counters /\ flash.tLimit \in Counters
           /\ flash.model \in Models /\ flash.commissioned \in BOOLEAN
           /\ flash.tclk \in Keys \cup {NoKey, LegacyKey}
           /\ nib \in [counter : Counters, limit : Counters]
           /\ nib.counter \in Counters /\ nib.limit \in Counters
           /\ entry \in [key : Keys \cup {NoKey}, out : Counters, limit : Counters]
           /\ entry.key \in Keys \cup {NoKey}
           /\ entry.out \in Counters /\ entry.limit \in Counters
           /\ nwkTop \in Counters
BY DEF TypeOK, Records

\* Reserving a block never leaves the counter range, nor does a maximum.
LEMMA ReserveType ==
    ASSUME NEW c \in Counters
    PROVE  /\ CanReserve(c) => c + Reservation \in Counters
           /\ \A d \in Counters : MaxOf(c, d) \in Counters
BY Constants DEF CanReserve, MaxOf

\* Changing some fields of a record keeps its type.
LEMMA RecordUpdate ==
    ASSUME NEW r \in Records, NEW g \in Counters, NEW t \in Counters,
           NEW k \in Keys \cup {NoKey, LegacyKey}
    PROVE  /\ [r EXCEPT !.gLimit = g, !.tLimit = t] \in Records
           /\ [r EXCEPT !.tclk = k, !.tLimit = t] \in Records
           /\ [r EXCEPT !.gLimit = g, !.tLimit = t, !.tclk = k] \in Records
BY DEF Records

\* So does marking it commissioned.
LEMMA CommissionedType ==
    ASSUME NEW r \in Records
    PROVE  [r EXCEPT !.commissioned = TRUE] \in Records
BY DEF Records

\* The record a commissioning reservation writes.
LEMMA ReservedRecordType ==
    ASSUME TypeOK, NEW m \in Networks, CanReserve(MaxOf(nib.counter, flash.gLimit))
    PROVE  /\ ReservedRecord(m) \in Records
           /\ [ReservedRecord(m) EXCEPT !.commissioned = TRUE] \in Records
<1>1. MaxOf(nib.counter, flash.gLimit) + Reservation \in Counters
  BY FieldTypes, ReserveType
<1>2. ReservedRecord(m) \in Records
  BY <1>1, FieldTypes, Constants DEF ReservedRecord, Records, Models
<1>3. QED
  BY <1>2, CommissionedType

\* One step of any action keeps every variable in its type.
LEMMA TypeStep ==
    ASSUME TypeOK, Next
    PROVE  TypeOK'
<1> USE FieldTypes, Constants
<1> DEFINE NibType == [counter : Counters, limit : Counters]
           EntryType == [key : Keys \cup {NoKey}, out : Counters, limit : Counters]
<1>a. ResetNib \in NibType /\ NoEntry \in EntryType /\ FloorNib \in NibType
  BY DEF ResetNib, NoEntry, FloorNib
<1>b. ResetRecord \in Records
  BY InitialRecords, RecordUpdate DEF ResetRecord
<1>1. CASE BootFresh
  BY <1>1 DEF BootFresh, TypeOK
<1>2. CASE CandidateFails
  BY <1>2, <1>a DEF CandidateFails, TypeOK
<1>3. ASSUME NEW ok \in BOOLEAN, Restore(ok)
      PROVE  TypeOK'
  <2> DEFINE t == flash.tLimit
             tNew == IF ReservesTclk(flash) THEN t + Reservation ELSE t
             rec == [flash EXCEPT !.gLimit = flash.gLimit + Reservation,
                                  !.tLimit = tNew]
  <2>1. flash.gLimit + Reservation \in Counters /\ tNew \in Counters
    BY <1>3, ReserveType DEF Restore
  <2>2. rec \in Records
    BY <2>1, RecordUpdate
  <2>3. Store(rec, ok)
    BY <1>3 DEF Restore
  <2>4. flash' \in Records
    BY <2>2, <2>3, StoreType
  <2>5. nib' \in NibType /\ entry' \in EntryType
    BY <1>3, <2>1 DEF Restore
  <2>6. QED
    BY <1>3, <2>4, <2>5 DEF Restore, TypeOK
<1>4. ASSUME NEW ok \in BOOLEAN, IdentityReset(ok)
      PROVE  TypeOK'
  BY <1>4, <1>b, StoreType DEF IdentityReset, TypeOK
<1>5. ASSUME NEW ok \in BOOLEAN, NEW m \in Networks, ReserveNetwork(m, ok)
      PROVE  TypeOK'
  <2>1. flash' \in Records
    BY <1>5, ReservedRecordType, StoreType DEF ReserveNetwork
  <2>2. nib' \in NibType
    <3>1. /\ MaxOf(nib.counter, flash.gLimit) \in Counters
          /\ MaxOf(nib.counter, flash.gLimit) + Reservation \in Counters
      BY <1>5, ReserveType DEF ReserveNetwork
    <3>2. QED
      BY <1>5, <1>a, <3>1 DEF ReserveNetwork
  <2>3. QED
    BY <1>5, <2>1, <2>2 DEF ReserveNetwork, TypeOK, Models
<1>6. ASSUME NEW ok \in BOOLEAN, CommitDistributed(ok)
      PROVE  TypeOK'
  <2>1. flash' \in Records
    BY <1>6, CommissionedType, StoreType DEF CommitDistributed
  <2>2. QED
    BY <1>6, <2>1, <1>a DEF CommitDistributed, TypeOK, Models
<1>7. ASSUME NEW ok \in BOOLEAN, ReserveTclk(ok)
      PROVE  TypeOK'
  <2> DEFINE cur == MaxOf(entry.out, flash.tLimit)
  <2>1. cur \in Counters /\ cur + Reservation \in Counters
    BY <1>7, ReserveType DEF ReserveTclk
  <2>2. flash' \in Records
    <3>1. [flash EXCEPT !.tclk = entry.key, !.tLimit = cur + Reservation] \in Records
      BY <2>1, RecordUpdate
    <3>2. QED
      BY <1>7, <3>1, StoreType DEF ReserveTclk
  <2>3. entry' \in EntryType
    BY <1>7, <2>1, <1>a DEF ReserveTclk, AbandonJoin
  <2>4. QED
    BY <1>7, <1>a, <2>2, <2>3 DEF ReserveTclk, AbandonJoin, TypeOK, Models
<1>8. ASSUME NEW ok \in BOOLEAN, CommitNetwork(ok)
      PROVE  TypeOK'
  <2>1. flash' \in Records
    BY <1>8, CommissionedType, StoreType DEF CommitNetwork
  <2>2. QED
    BY <1>8, <2>1, <1>a DEF CommitNetwork, AbandonJoin, TypeOK, Models
<1>9. ASSUME NEW ok \in BOOLEAN, Refresh(ok)
      PROVE  TypeOK'
  <2> DEFINE cur == IF Adopts THEN MaxOf(entry.out, flash.tLimit) ELSE entry.out
             tBase == IF Adopts THEN cur + Reservation ELSE entry.limit
             maintained == flash.model = "central" /\ entry.key # NoKey
             gNew == IF nib.limit - nib.counter <= LowWater
                     THEN nib.limit + Reservation ELSE nib.limit
             tNew == IF maintained /\ tBase - cur <= LowWater
                     THEN tBase + Reservation ELSE tBase
             rec == [flash EXCEPT !.gLimit = gNew,
                                  !.tLimit = IF maintained THEN tNew ELSE @,
                                  !.tclk = IF maintained THEN entry.key ELSE @]
  <2>1. cur \in Counters
    BY ReserveType
  <2>2. gNew \in Counters /\ tNew \in Counters
    BY <1>9, <2>1 DEF Refresh
  <2>3. rec \in Records
    <3>1. rec = [flash EXCEPT !.gLimit = gNew,
                              !.tLimit = IF maintained THEN tNew ELSE flash.tLimit,
                              !.tclk = IF maintained THEN entry.key ELSE flash.tclk]
      OBVIOUS
    <3>2. QED
      BY <2>2, <3>1, RecordUpdate
  <2>4. Store(rec, ok)
    BY <1>9 DEF Refresh
  <2>5. flash' \in Records
    BY <2>3, <2>4, StoreType
  <2>6. nib' \in NibType /\ entry' \in EntryType
    BY <1>9, <2>1, <2>2 DEF Refresh
  <2>7. QED
    BY <1>9, <2>5, <2>6 DEF Refresh, TypeOK
<1>10. ASSUME NEW ok \in BOOLEAN, TrustCenterRejoin(ok)
       PROVE  TypeOK'
  <2> DEFINE g == MaxOf(nib.counter, flash.gLimit)
             t == flash.tLimit
             legacy == flash.tclk = LegacyKey
             tNew == IF legacy THEN t + Reservation ELSE t
             kNew == IF legacy THEN DefaultKey ELSE flash.tclk
  <2>1. g \in Counters /\ g + Reservation \in Counters /\ tNew \in Counters
    BY <1>10, ReserveType DEF TrustCenterRejoin
  <2>2. legacy => t + Reservation \in Counters
    BY <2>1
  <2>3. flash' \in Records
    <3>1. [flash EXCEPT !.gLimit = g + Reservation, !.tLimit = tNew,
                        !.tclk = kNew] \in Records
      BY <2>1, RecordUpdate DEF Keys
    <3>2. QED
      BY <1>10, <3>1, StoreType DEF TrustCenterRejoin
  <2>4. nib' \in NibType /\ entry' \in EntryType
    BY <1>10, <2>1, <2>2 DEF TrustCenterRejoin, Keys
  <2>5. QED
    BY <1>10, <2>3, <2>4 DEF TrustCenterRejoin, TypeOK
<1>11. ASSUME NEW ok \in BOOLEAN, FactoryReset(ok)
       PROVE  TypeOK'
  BY <1>11, <1>a, <1>b, StoreType DEF FactoryReset, TypeOK, Models
<1>12. ASSUME NEW failed \in {"none", "reserve", "commit"}, CommitPreR21(failed)
       PROVE  TypeOK'
  <2> DEFINE first == [flash EXCEPT !.tclk = DefaultKey,
                                    !.tLimit = flash.tLimit + Reservation]
  <2>1. flash.tLimit + Reservation \in Counters
    BY <1>12, ReserveType DEF CommitPreR21
  <2>2. first \in Records /\ [first EXCEPT !.commissioned = TRUE] \in Records
    <3>1. first \in Records
      BY <2>1, RecordUpdate DEF Keys
    <3>2. QED
      BY <3>1, CommissionedType
  <2>3. flash' \in Records
    BY <1>12, <2>2 DEF CommitPreR21
  <2>4. entry' \in EntryType
    BY <1>12, <1>a, <2>1 DEF CommitPreR21, AbandonJoin, Keys
  <2>5. QED
    BY <1>12, <1>a, <2>3, <2>4 DEF CommitPreR21, AbandonJoin, TypeOK, Models
<1>13. ASSUME NEW failed \in {"none", "reserve", "commit"},
              NEW m \in Networks, FormNetwork(m, failed)
       PROVE  TypeOK'
  <2>1. flash' \in Records
    BY <1>13, ReservedRecordType DEF FormNetwork
  <2>2. nib' \in NibType
    <3>1. /\ MaxOf(nib.counter, flash.gLimit) \in Counters
          /\ MaxOf(nib.counter, flash.gLimit) + Reservation \in Counters
      BY <1>13, ReserveType DEF FormNetwork
    <3>2. QED
      BY <1>13, <1>a, <3>1 DEF FormNetwork
  <2>3. QED
    BY <1>13, <2>1, <2>2 DEF FormNetwork, TypeOK, Models
<1>14. ASSUME NEW k \in DeviceKeys, TransportKey(k)
       PROVE  TypeOK'
  BY <1>14 DEF TransportKey, TypeOK, Keys
<1>15. ASSUME NEW k \in DeviceKeys \cup {NoKey}, ClearUnconfirmed(k)
       PROVE  TypeOK'
  BY <1>15, <1>a DEF ClearUnconfirmed, TypeOK, Keys
<1>16. CASE ExchangeFails
  BY <1>16, <1>a DEF ExchangeFails, AbandonJoin, TypeOK, Models
<1>17. CASE AbandonUncommitted
  BY <1>17, <1>a DEF AbandonUncommitted, TypeOK, Models
<1>18. CASE SendNwk
  <2>1. nib.counter + 1 \in Counters
    BY <1>18 DEF SendNwk, NwkReady
  <2>2. nib' \in NibType /\ nwkTop' \in Counters
    BY <1>18, <2>1, ReserveType DEF SendNwk
  <2>3. QED
    BY <1>18, <2>1, <2>2 DEF SendNwk, TypeOK
<1>19. CASE SendDefaultKey
  <2>1. nib.counter + 1 \in Counters
    BY <1>19 DEF SendDefaultKey, NwkReady
  <2>2. nib' \in NibType /\ nwkTop' \in Counters
    BY <1>19, <2>1, ReserveType DEF SendDefaultKey
  <2>3. QED
    BY <1>19, <2>1, <2>2 DEF SendDefaultKey, TypeOK, Keys
<1>20. CASE SendTclk
  <2>1. entry.out + 1 \in Counters /\ entry.key \in Keys
    BY <1>20 DEF SendTclk, TclkReady
  <2>2. QED
    BY <1>20, <2>1 DEF SendTclk, TypeOK
<1>21. CASE PowerCut
  BY <1>21, <1>a DEF PowerCut, TypeOK, Models
<1>22. QED
  BY <1>1, <1>2, <1>3, <1>4, <1>5, <1>6, <1>7, <1>8, <1>9, <1>10, <1>11,
     <1>12, <1>13, <1>14, <1>15, <1>16, <1>17, <1>18, <1>19, <1>20, <1>21
     DEF Next

\* Type correctness: in particular every reserved limit fits the counter width,
\* so no reservation wraps (checked_add refuses it first).
THEOREM TypeCorrect == Spec => []TypeOK
<1>1. Init => TypeOK
  BY Constants, InitialRecords, KeysAssumption
     DEF Init, TypeOK, ResetNib, NoEntry, Models
<1>2. TypeOK /\ [Next]_vars => TypeOK'
  <2>1. CASE Next
    BY <2>1, TypeStep
  <2>2. CASE UNCHANGED vars
    BY <2>2 DEF vars, TypeOK
  <2>3. QED
    BY <2>1, <2>2
<1>3. QED
  BY <1>1, <1>2, PTL DEF Spec

-----------------------------------------------------------------------------
(* The NWK counter space.                                                  *)

\* Why NwkNonceFresh holds: the durable limit bounds every counter ever drawn
\* and both halves of the live block, so whichever action installs a new block
\* starts it at or above that bound.
NwkInv ==
    /\ nwkTop <= flash.gLimit
    /\ nib.counter <= flash.gLimit /\ nib.limit <= flash.gLimit
    /\ NwkReady => nib.counter >= nwkTop

\* After a commit flash holds the old or the new record, and the new one if
\* the commit reported success.
LEMMA StoreOutcome ==
    ASSUME NEW rec, NEW ok \in BOOLEAN, Store(rec, ok)
    PROVE  flash' \in {flash, rec} /\ (ok => flash' = rec)
BY DEF Store

\* The counters of a well-typed state are integers.
IntState ==
    /\ flash.gLimit \in Int /\ flash.tLimit \in Int
    /\ nib.counter \in Int /\ nib.limit \in Int
    /\ entry.out \in Int /\ entry.limit \in Int
    /\ nwkTop \in Int
    /\ nib = [counter |-> nib.counter, limit |-> nib.limit]
    /\ flash.gLimit >= 0 /\ flash.tLimit >= 0

\* A well-typed state gives the provers those facts, before and after a step.
LEMMA IntTypes == (TypeOK => IntState) /\ (TypeOK' => IntState')
<1>1. TypeOK => IntState
  BY Constants DEF TypeOK, IntState, Records, Counters
<1>2. TypeOK' => IntState'
  BY Constants DEF TypeOK, IntState, Records, Counters
<1>3. QED
  BY <1>1, <1>2

\* Every step keeps NwkInv and never lowers the durable NWK limit.
LEMMA NwkStep ==
    ASSUME TypeOK, TypeOK', NwkInv, Next
    PROVE  NwkInv' /\ flash'.gLimit >= flash.gLimit
<1> USE IntTypes, Constants DEF IntState
<1> DEFINE cur == MaxOf(nib.counter, flash.gLimit)
           Goal == NwkInv' /\ flash'.gLimit >= flash.gLimit
<1>a. cur = flash.gLimit
  BY DEF NwkInv, MaxOf
<1>b. ASSUME flash'.gLimit >= flash.gLimit,
             nib' = ResetNib \/ nib' = FloorNib \/ nib' = nib,
             nwkTop' = nwkTop
      PROVE  Goal
  BY <1>b DEF NwkInv, NwkReady, ResetNib, FloorNib
<1>c. ASSUME flash'.gLimit >= flash.gLimit + Reservation,
             nib' = [counter |-> cur, limit |-> cur + Reservation],
             nwkTop' = nwkTop
      PROVE  Goal
  BY <1>a, <1>c DEF NwkInv, NwkReady
<1>1. CASE BootFresh
  BY <1>1, <1>b DEF BootFresh
<1>2. CASE CandidateFails
  BY <1>2, <1>b DEF CandidateFails
<1>d. ResetRecord.gLimit = flash.gLimit
  BY DEF ResetRecord, EmptyRecord
<1>e. ASSUME NEW m \in Networks
      PROVE  /\ ReservedRecord(m).gLimit = flash.gLimit + Reservation
             /\ [ReservedRecord(m) EXCEPT !.commissioned = TRUE].gLimit
                  = flash.gLimit + Reservation
  BY <1>a DEF ReservedRecord
<1>3. ASSUME NEW ok \in BOOLEAN, Restore(ok)
      PROVE  Goal
  <2>1. PICK t : Store([flash EXCEPT !.gLimit = flash.gLimit + Reservation,
                                     !.tLimit = t], ok)
    BY <1>3 DEF Restore
  <2>2. /\ flash'.gLimit \in {flash.gLimit, flash.gLimit + Reservation}
        /\ ok => flash'.gLimit = flash.gLimit + Reservation
    BY <2>1, FieldTypes DEF Store, Records
  <2>3. /\ nwkTop' = nwkTop
        /\ ok => nib' = [counter |-> flash.gLimit, limit |-> flash.gLimit + Reservation]
        /\ ~ok => nib' = nib
    BY <1>3 DEF Restore
  <2>4. QED
    BY <1>a, <1>b, <1>c, <2>2, <2>3
<1>4. ASSUME NEW ok \in BOOLEAN, IdentityReset(ok)
      PROVE  Goal
  BY <1>4, <1>b, <1>d, StoreOutcome DEF IdentityReset
<1>5. ASSUME NEW ok \in BOOLEAN, NEW m \in Networks, ReserveNetwork(m, ok)
      PROVE  Goal
  <2>1. flash' \in {flash, ReservedRecord(m)} /\ (ok => flash' = ReservedRecord(m))
    BY <1>5, StoreOutcome DEF ReserveNetwork
  <2>2. /\ flash'.gLimit \in {flash.gLimit, flash.gLimit + Reservation}
        /\ ok => flash'.gLimit = flash.gLimit + Reservation
    BY <1>e, <2>1
  <2>3. /\ nwkTop' = nwkTop
        /\ ok => nib' = [counter |-> cur, limit |-> cur + Reservation]
        /\ ~ok => nib' = ResetNib
    BY <1>5 DEF ReserveNetwork
  <2>4. QED
    BY <1>b, <1>c, <2>2, <2>3
<1>6. ASSUME NEW ok \in BOOLEAN, CommitDistributed(ok)
      PROVE  Goal
  <2>1. flash'.gLimit = flash.gLimit
    BY <1>6, StoreOutcome, FieldTypes DEF CommitDistributed, Records
  <2>2. nwkTop' = nwkTop /\ (nib' = nib \/ nib' = ResetNib)
    BY <1>6 DEF CommitDistributed
  <2>3. QED
    BY <1>b, <2>1, <2>2
<1>7. ASSUME NEW ok \in BOOLEAN, ReserveTclk(ok)
      PROVE  Goal
  <2>1. PICK k, t : Store([flash EXCEPT !.tclk = k, !.tLimit = t], ok)
    BY <1>7 DEF ReserveTclk
  <2>2. flash'.gLimit = flash.gLimit
    BY <2>1, FieldTypes DEF Store, Records
  <2>3. nwkTop' = nwkTop /\ (nib' = nib \/ nib' = ResetNib)
    BY <1>7 DEF ReserveTclk, AbandonJoin
  <2>4. QED
    BY <1>b, <2>2, <2>3
<1>8. ASSUME NEW ok \in BOOLEAN, CommitNetwork(ok)
      PROVE  Goal
  <2>1. flash'.gLimit = flash.gLimit
    BY <1>8, StoreOutcome, FieldTypes DEF CommitNetwork, Records
  <2>2. nwkTop' = nwkTop /\ (nib' = nib \/ nib' = ResetNib)
    BY <1>8 DEF CommitNetwork, AbandonJoin
  <2>3. QED
    BY <1>b, <2>1, <2>2
<1>9. ASSUME NEW ok \in BOOLEAN, Refresh(ok)
      PROVE  Goal
  <2> DEFINE gNew == IF nib.limit - nib.counter <= LowWater
                     THEN nib.limit + Reservation ELSE nib.limit
  <2>1. PICK t, k : Store([flash EXCEPT !.gLimit = gNew, !.tLimit = t,
                                        !.tclk = k], ok)
    BY <1>9 DEF Refresh
  <2>2. /\ flash'.gLimit \in {flash.gLimit, gNew}
        /\ ok => flash'.gLimit = gNew
    BY <2>1, FieldTypes DEF Store, Records
  <2>3. /\ nib.limit = flash.gLimit /\ nib.counter <= nib.limit
        /\ nwkTop' = nwkTop
        /\ ok => nib' = [nib EXCEPT !.limit = gNew]
        /\ ~ok => nib' = nib
    BY <1>9 DEF Refresh, RefreshAccepts
  <2>4. gNew >= flash.gLimit /\ gNew \in Int
    BY <2>3
  <2>5. CASE ok
    <3>1. nib'.counter = nib.counter /\ nib'.limit = gNew
      BY <2>3, <2>5
    <3>2. nib.counter >= nwkTop
      BY <2>3 DEF NwkInv, NwkReady
    <3>3. QED
      BY <2>2, <2>3, <2>4, <2>5, <3>1, <3>2 DEF NwkInv, NwkReady, Goal
  <2>6. CASE ~ok
    BY <1>b, <2>2, <2>3, <2>4, <2>6
  <2>7. QED
    BY <2>5, <2>6
<1>10. ASSUME NEW ok \in BOOLEAN, TrustCenterRejoin(ok)
       PROVE  Goal
  <2>1. PICK t, k : Store([flash EXCEPT !.gLimit = cur + Reservation,
                                        !.tLimit = t, !.tclk = k], ok)
    BY <1>10 DEF TrustCenterRejoin
  <2>2. /\ flash'.gLimit \in {flash.gLimit, cur + Reservation}
        /\ ok => flash'.gLimit = cur + Reservation
    BY <2>1, FieldTypes DEF Store, Records
  <2>3. /\ nwkTop' = nwkTop
        /\ ok => nib' = [counter |-> cur, limit |-> cur + Reservation]
        /\ ~ok => nib' = nib
    BY <1>10 DEF TrustCenterRejoin
  <2>4. QED
    BY <1>a, <1>b, <1>c, <2>2, <2>3
<1>11. ASSUME NEW ok \in BOOLEAN, FactoryReset(ok)
       PROVE  Goal
  BY <1>11, <1>b, <1>d, StoreOutcome DEF FactoryReset
<1>12. ASSUME NEW failed \in {"none", "reserve", "commit"}, CommitPreR21(failed)
       PROVE  Goal
  <2> DEFINE first == [flash EXCEPT !.tclk = DefaultKey,
                                    !.tLimit = flash.tLimit + Reservation]
  <2>1. flash' \in {flash, first, [first EXCEPT !.commissioned = TRUE]}
    BY <1>12 DEF CommitPreR21
  <2>2. flash'.gLimit = flash.gLimit
    BY <2>1, FieldTypes DEF Records
  <2>3. nwkTop' = nwkTop /\ (nib' = nib \/ nib' = ResetNib)
    BY <1>12 DEF CommitPreR21, AbandonJoin
  <2>4. QED
    BY <1>b, <2>2, <2>3
<1>13. ASSUME NEW failed \in {"none", "reserve", "commit"},
              NEW m \in Networks, FormNetwork(m, failed)
       PROVE  Goal
  <2> DEFINE second == [ReservedRecord(m) EXCEPT !.commissioned = TRUE]
  <2>1. /\ flash' \in {flash, ReservedRecord(m), second}
        /\ failed = "none" => flash' = second
    BY <1>13 DEF FormNetwork
  <2>2. /\ flash'.gLimit \in {flash.gLimit, flash.gLimit + Reservation}
        /\ failed = "none" => flash'.gLimit = flash.gLimit + Reservation
    BY <1>e, <2>1
  <2>3. /\ nwkTop' = nwkTop
        /\ failed = "none" => nib' = [counter |-> cur, limit |-> cur + Reservation]
        /\ failed # "none" => nib' = ResetNib
    BY <1>13 DEF FormNetwork
  <2>4. QED
    BY <1>b, <1>c, <2>2, <2>3
<1>14. ASSUME NEW k \in DeviceKeys, TransportKey(k)
       PROVE  Goal
  BY <1>14, <1>b DEF TransportKey
<1>15. ASSUME NEW k \in DeviceKeys \cup {NoKey}, ClearUnconfirmed(k)
       PROVE  Goal
  BY <1>15, <1>b DEF ClearUnconfirmed
<1>16. CASE ExchangeFails
  BY <1>16, <1>b DEF ExchangeFails, AbandonJoin
<1>17. CASE AbandonUncommitted
  BY <1>17, <1>b DEF AbandonUncommitted
<1>18. CASE SendNwk \/ SendDefaultKey
  <2>1. /\ NwkReady /\ flash' = flash
        /\ nib' = [nib EXCEPT !.counter = @ + 1]
        /\ nwkTop' = IF nwkTop > nib.counter THEN nwkTop ELSE nib.counter + 1
    BY <1>18 DEF SendNwk, SendDefaultKey
  <2>2. nib'.counter = nib.counter + 1 /\ nib'.limit = nib.limit
    BY <2>1
  <2>3. QED
    BY <2>1, <2>2 DEF NwkInv, NwkReady, Goal
<1>19. CASE SendTclk
  BY <1>19, <1>b DEF SendTclk
<1>20. CASE PowerCut
  BY <1>20, <1>b DEF PowerCut
<1>21. Goal
  BY <1>1, <1>2, <1>3, <1>4, <1>5, <1>6, <1>7, <1>8, <1>9, <1>10, <1>11,
     <1>12, <1>13, <1>14, <1>15, <1>16, <1>17, <1>18, <1>19, <1>20 DEF Next
<1>22. QED
  BY <1>21 DEF Goal

\* NwkInv holds in every reachable state, whatever commits fail.
LEMMA NwkInvariant == Spec => [](TypeOK /\ NwkInv)
<1>1. Init => NwkInv
  BY Constants DEF Init, NwkInv, NwkReady, EmptyRecord, LegacyRecord, ResetNib
<1>2. TypeOK /\ NwkInv /\ [Next]_vars => NwkInv'
  <2>1. CASE Next
    BY <2>1, NwkStep, TypeStep
  <2>2. CASE UNCHANGED vars
    BY <2>2 DEF vars, NwkInv, NwkReady
  <2>3. QED
    BY <2>1, <2>2
<1>3. QED
  BY <1>1, <1>2, TypeCorrect, PTL DEF Spec

\* No NWK nonce is ever reused: for every reservation size and counter width,
\* any number of resets, failed commits and power cuts.
THEOREM NwkNonceNeverReused == Spec => []NwkNonceFresh
<1>1. NwkInv => NwkNonceFresh
  BY DEF NwkInv, NwkNonceFresh
<1>2. QED
  BY <1>1, NwkInvariant, PTL

\* Every NWK counter drawn so far is below the limit a restart would find in
\* flash, whichever commits failed on the way.
THEOREM NwkWriteAhead == Spec => []NwkReservedAhead
<1>1. NwkInv => NwkReservedAhead
  BY DEF NwkInv, NwkReservedAhead
<1>2. QED
  BY <1>1, NwkInvariant, PTL

\* No commit lowers the durable NWK limit: refresh_security_state and the
\* reservations compute the new limit from a live value that NwkInv bounds.
THEOREM NwkLimitMonotone == Spec => NwkLimitNeverShrinks
<1>1. TypeOK /\ NwkInv /\ [Next]_vars => [flash'.gLimit >= flash.gLimit]_vars
  BY TypeStep, NwkStep
<1>2. QED
  BY <1>1, NwkInvariant, PTL DEF Spec, NwkLimitNeverShrinks

-----------------------------------------------------------------------------
(* The space of the unique Trust Center link keys, without the             *)
(* distributed-security feature.                                           *)

\* One space for all unique keys: whatever key was used, its counters are
\* below the durable limit, and below the next counter of a ready entry.
TclkInv ==
    /\ \A u \in apsUsed : u[1] \in DeviceKeys => u[2] < flash.tLimit
    /\ TclkReady =>
         /\ entry.limit <= flash.tLimit
         /\ \A u \in apsUsed : u[1] \in DeviceKeys => u[2] < entry.out

UsedTyped == \A u \in apsUsed : u[1] \in Keys /\ u[2] \in Int

\* Every step of a node built without distributed security keeps TclkInv.
LEMMA TclkStep ==
    ASSUME TypeOK, TypeOK', TclkInv, Next, ~DistributedSecurity
    PROVE  TclkInv'
<1> USE IntTypes, Constants DEF IntState
<1>u. UsedTyped
  BY DEF TypeOK, UsedTyped, Counters
<1>b. ASSUME flash'.tLimit >= flash.tLimit, apsUsed' = apsUsed,
             \/ entry' = NoEntry \/ entry' = entry
             \/ entry.key # NoKey /\ entry'.out = entry.out /\ entry'.limit = entry.limit
      PROVE  TclkInv'
  BY <1>b, <1>u DEF TclkInv, TclkReady, NoEntry, UsedTyped
<1>c. ASSUME flash'.tLimit >= flash.tLimit, apsUsed' = apsUsed,
             entry'.out >= flash.tLimit, entry'.limit <= flash'.tLimit
      PROVE  TclkInv'
  BY <1>c, <1>u DEF TclkInv, TclkReady, UsedTyped
<1>1. CASE BootFresh
  BY <1>1, <1>b DEF BootFresh
<1>2. CASE CandidateFails
  BY <1>2, <1>b DEF CandidateFails
<1>3. ASSUME NEW ok \in BOOLEAN, Restore(ok)
      PROVE  TclkInv'
  <2> DEFINE t == flash.tLimit
             tNew == IF ReservesTclk(flash) THEN t + Reservation ELSE t
  <2>1. PICK g : Store([flash EXCEPT !.gLimit = g, !.tLimit = tNew], ok)
    BY <1>3 DEF Restore
  <2>2. flash'.tLimit \in {t, tNew} /\ (ok => flash'.tLimit = tNew)
    BY <2>1, FieldTypes DEF Store, Records
  <2>3. /\ apsUsed' = apsUsed
        /\ entry' = entry \/ (ok /\ entry'.out = t /\ entry'.limit = tNew)
    BY <1>3 DEF Restore
  <2>4. QED
    BY <1>b, <1>c, <2>2, <2>3
<1>d. ResetRecord.tLimit = flash.tLimit
  BY DEF ResetRecord, EmptyRecord
<1>4. ASSUME NEW ok \in BOOLEAN, IdentityReset(ok)
      PROVE  TclkInv'
  BY <1>4, <1>b, <1>d, StoreOutcome DEF IdentityReset
<1>5. ASSUME NEW ok \in BOOLEAN, NEW m \in Networks, ReserveNetwork(m, ok)
      PROVE  TclkInv'
  <2>1. ReservedRecord(m).tLimit = flash.tLimit
    BY <1>5 DEF ReserveNetwork, ReservedRecord
  <2>2. flash'.tLimit = flash.tLimit
    BY <1>5, <2>1, StoreOutcome DEF ReserveNetwork
  <2>3. QED
    BY <1>5, <1>b, <2>2 DEF ReserveNetwork
<1>6. ASSUME NEW ok \in BOOLEAN, CommitDistributed(ok)
      PROVE  TclkInv'
  <2>1. flash'.tLimit = flash.tLimit
    BY <1>6, StoreOutcome, FieldTypes DEF CommitDistributed, Records
  <2>2. QED
    BY <1>6, <1>b, <2>1 DEF CommitDistributed
<1>7. ASSUME NEW ok \in BOOLEAN, ReserveTclk(ok)
      PROVE  TclkInv'
  <2> DEFINE cur == MaxOf(entry.out, flash.tLimit)
  <2>1. PICK k : Store([flash EXCEPT !.tclk = k, !.tLimit = cur + Reservation], ok)
    BY <1>7 DEF ReserveTclk
  <2>2. /\ flash'.tLimit \in {flash.tLimit, cur + Reservation}
        /\ ok => flash'.tLimit = cur + Reservation
    BY <2>1, FieldTypes DEF Store, Records
  <2>3. /\ apsUsed' = apsUsed
        /\ ok => entry' = [entry EXCEPT !.out = cur, !.limit = cur + Reservation]
        /\ ~ok => entry' = NoEntry
    BY <1>7 DEF ReserveTclk, AbandonJoin
  <2>4. ok => entry'.out = cur /\ entry'.limit = cur + Reservation
    BY <2>3, FieldTypes
  <2>5. cur \in Int /\ cur >= flash.tLimit
    BY DEF MaxOf
  <2>6. QED
    BY <1>b, <1>c, <2>2, <2>3, <2>4, <2>5
<1>8. ASSUME NEW ok \in BOOLEAN, CommitNetwork(ok)
      PROVE  TclkInv'
  <2>1. flash'.tLimit = flash.tLimit
    BY <1>8, StoreOutcome, FieldTypes DEF CommitNetwork, Records
  <2>2. apsUsed' = apsUsed /\ (entry' = entry \/ entry' = NoEntry)
    BY <1>8 DEF CommitNetwork, AbandonJoin
  <2>3. QED
    BY <1>b, <2>1, <2>2
<1>9. ASSUME NEW ok \in BOOLEAN, Refresh(ok)
      PROVE  TclkInv'
  <2> DEFINE cur == IF Adopts THEN MaxOf(entry.out, flash.tLimit) ELSE entry.out
             tBase == IF Adopts THEN cur + Reservation ELSE entry.limit
             maintained == flash.model = "central" /\ entry.key # NoKey
             tNew == IF maintained /\ tBase - cur <= LowWater
                     THEN tBase + Reservation ELSE tBase
             tRec == IF maintained THEN tNew ELSE flash.tLimit
  <2>1. PICK g, k : Store([flash EXCEPT !.gLimit = g, !.tLimit = tRec,
                                        !.tclk = k], ok)
    BY <1>9 DEF Refresh
  <2>2. /\ flash'.tLimit \in {flash.tLimit, tRec}
        /\ ok => flash'.tLimit = tRec
    BY <2>1, FieldTypes DEF Store, Records
  <2>3. /\ apsUsed' = apsUsed
        /\ ok /\ maintained => entry' = [entry EXCEPT !.out = cur, !.limit = tNew]
        /\ ~(ok /\ maintained) => entry' = entry
    BY <1>9 DEF Refresh
  <2>4. ok /\ maintained => entry'.out = cur /\ entry'.limit = tNew
    BY <2>3, FieldTypes
  <2>5. maintained /\ ~Adopts =>
           entry.limit = flash.tLimit /\ entry.out <= entry.limit
    BY <1>9, FieldTypes DEF Refresh, RefreshAccepts, Adopts
  <2>6. cur \in Int /\ tBase \in Int /\ tNew \in Int
    BY DEF MaxOf
  <2>7. CASE ~maintained
    BY <1>b, <2>2, <2>3, <2>7
  <2>8. CASE maintained /\ Adopts
    <3>1. cur >= flash.tLimit /\ tNew >= flash.tLimit
      BY <2>8 DEF MaxOf
    <3>2. QED
      BY <1>b, <1>c, <2>2, <2>3, <2>4, <2>6, <2>8, <3>1
  <2>9. CASE maintained /\ ~Adopts
    <3>1. tNew >= flash.tLimit /\ cur = entry.out
      BY <2>5, <2>9
    <3>2. flash'.tLimit >= flash.tLimit
      BY <2>2, <2>6, <2>9, <3>1
    <3>3. CASE ok
      <4>1. entry'.out = entry.out /\ entry'.limit = flash'.tLimit
        BY <2>2, <2>4, <2>9, <3>1, <3>3
      <4>2. CASE entry.out < entry.limit
        BY <1>u, <2>3, <2>9, <3>2, <4>1, <4>2 DEF TclkInv, TclkReady, UsedTyped
      <4>3. CASE entry.out = flash.tLimit
        BY <1>c, <2>3, <3>2, <4>1, <4>3
      <4>4. QED
        BY <2>5, <2>9, <4>2, <4>3
    <3>4. CASE ~ok
      BY <1>b, <2>3, <3>2, <3>4
    <3>5. QED
      BY <3>3, <3>4
  <2>10. QED
    BY <2>7, <2>8, <2>9
<1>10. ASSUME NEW ok \in BOOLEAN, TrustCenterRejoin(ok)
       PROVE  TclkInv'
  <2> DEFINE t == flash.tLimit
             legacy == flash.tclk = LegacyKey
             tNew == IF legacy THEN t + Reservation ELSE t
  <2>1. PICK g, k : Store([flash EXCEPT !.gLimit = g, !.tLimit = tNew,
                                        !.tclk = k], ok)
    BY <1>10 DEF TrustCenterRejoin
  <2>2. flash'.tLimit \in {t, tNew} /\ (ok => flash'.tLimit = tNew)
    BY <2>1, FieldTypes DEF Store, Records
  <2>3. /\ apsUsed' = apsUsed
        /\ entry' = entry
           \/ (ok /\ legacy /\ entry'.out = t /\ entry'.limit = t + Reservation)
    BY <1>10 DEF TrustCenterRejoin
  <2>4. QED
    BY <1>b, <1>c, <2>2, <2>3
<1>11. ASSUME NEW ok \in BOOLEAN, FactoryReset(ok)
       PROVE  TclkInv'
  BY <1>11, <1>b, <1>d, StoreOutcome DEF FactoryReset
<1>12. ASSUME NEW failed \in {"none", "reserve", "commit"}, CommitPreR21(failed)
       PROVE  TclkInv'
  <2> DEFINE new == flash.tLimit + Reservation
             first == [flash EXCEPT !.tclk = DefaultKey, !.tLimit = new]
             second == [first EXCEPT !.commissioned = TRUE]
  <2>1. flash' \in {flash, first, second} /\ (failed = "none" => flash' = second)
    BY <1>12 DEF CommitPreR21
  <2>2. /\ flash'.tLimit \in {flash.tLimit, new}
        /\ failed = "none" => flash'.tLimit = new
    BY <2>1, FieldTypes DEF Records
  <2>3. /\ apsUsed' = apsUsed
        /\ failed = "none" => entry'.out = flash.tLimit /\ entry'.limit = new
        /\ failed # "none" => entry' = NoEntry
    BY <1>12 DEF CommitPreR21, AbandonJoin
  <2>4. QED
    BY <1>b, <1>c, <2>2, <2>3
<1>13. ASSUME NEW failed \in {"none", "reserve", "commit"},
              NEW m \in Networks, FormNetwork(m, failed)
       PROVE  TclkInv'
  <2>1. flash' \in {flash, ReservedRecord(m),
                    [ReservedRecord(m) EXCEPT !.commissioned = TRUE]}
    BY <1>13 DEF FormNetwork
  <2>2. m = "coord"
    BY <1>13 DEF FormNetwork
  <2>3. flash'.tLimit = flash.tLimit
    BY <2>1, <2>2 DEF ReservedRecord
  <2>4. QED
    BY <1>13, <1>b, <2>3 DEF FormNetwork
<1>14. ASSUME NEW k \in DeviceKeys, TransportKey(k)
       PROVE  TclkInv'
  <2>1. CASE entry.key = k
    BY <1>14, <1>b, <2>1 DEF TransportKey
  <2>2. CASE entry.key # k
    <3>1. flash' = flash /\ apsUsed' = apsUsed /\ entry'.out = entry'.limit
      BY <1>14, <2>2 DEF TransportKey
    <3>2. QED
      BY <3>1 DEF TclkInv, TclkReady
  <2>3. QED
    BY <2>1, <2>2
<1>15. ASSUME NEW k \in DeviceKeys \cup {NoKey}, ClearUnconfirmed(k)
       PROVE  TclkInv'
  <2>1. flash' = flash /\ apsUsed' = apsUsed /\ entry.key \in DeviceKeys
    BY <1>15 DEF ClearUnconfirmed
  <2>2. \/ entry' = NoEntry
        \/ entry'.out = entry.out /\ entry'.limit = entry.limit
    BY <1>15, FieldTypes DEF ClearUnconfirmed
  <2>3. entry.key # NoKey
    BY <2>1, KeysAssumption DEF Keys
  <2>4. QED
    BY <1>b, <2>1, <2>2, <2>3
<1>16. CASE ExchangeFails
  BY <1>16, <1>b DEF ExchangeFails, AbandonJoin
<1>17. CASE AbandonUncommitted
  BY <1>17, <1>b DEF AbandonUncommitted
<1>18. CASE SendNwk
  BY <1>18, <1>b DEF SendNwk
<1>19. CASE SendDefaultKey
  <2>1. /\ flash' = flash /\ entry' = entry /\ entry.key = NoKey
        /\ apsUsed' = apsUsed \cup {<<DefaultKey, nib.counter>>}
    BY <1>19 DEF SendDefaultKey
  <2>2. QED
    BY <2>1, KeysAssumption DEF TclkInv, TclkReady
<1>20. CASE SendTclk
  <2>1. /\ TclkReady /\ flash' = flash
        /\ apsUsed' = apsUsed \cup {<<entry.key, entry.out>>}
        /\ entry'.out = entry.out + 1 /\ entry'.limit = entry.limit
    BY <1>20, FieldTypes DEF SendTclk
  <2>2. \A u \in apsUsed' : u[1] \in DeviceKeys => u[2] < entry.out + 1
    BY <1>u, <2>1 DEF TclkInv, UsedTyped
  <2>3. entry.out + 1 <= flash.tLimit
    BY <2>1 DEF TclkInv, TclkReady
  <2>4. \A u \in apsUsed' : u[2] \in Int
    BY <1>u, <2>1 DEF UsedTyped
  <2>5. QED
    BY <2>1, <2>2, <2>3, <2>4 DEF TclkInv
<1>21. CASE PowerCut
  BY <1>21, <1>b DEF PowerCut
<1>22. QED
  BY <1>1, <1>2, <1>3, <1>4, <1>5, <1>6, <1>7, <1>8, <1>9, <1>10, <1>11,
     <1>12, <1>13, <1>14, <1>15, <1>16, <1>17, <1>18, <1>19, <1>20, <1>21 DEF Next

\* Without the distributed-security feature no nonce of a unique Trust Center
\* link key is reused, also when the Trust Center issues a key again after a
\* factory reset, an abandoned exchange or a power cut.  (With the feature it
\* is false: see the run DistributedTclk.)
THEOREM TclkCounterSafe == ~DistributedSecurity => (Spec => []TclkNonceFresh)
<1> SUFFICES ASSUME ~DistributedSecurity
             PROVE  Spec => []TclkNonceFresh
  OBVIOUS
<1>1. Init => TclkInv
  BY DEF Init, TclkInv, TclkReady, NoEntry
<1>2. TypeOK /\ TclkInv /\ [Next]_vars => TclkInv'
  <2>1. CASE Next
    BY <2>1, TclkStep, TypeStep
  <2>2. CASE UNCHANGED vars
    BY <2>2 DEF vars, TclkInv, TclkReady
  <2>3. QED
    BY <2>1, <2>2
<1>3. TypeOK /\ TclkInv => TclkNonceFresh
  <2> SUFFICES ASSUME TypeOK, TclkInv, TclkReady, entry.key \in DeviceKeys,
                      <<entry.key, entry.out>> \in apsUsed
               PROVE  FALSE
    BY DEF TclkNonceFresh
  <2>1. entry.out < entry.out
    BY DEF TclkInv
  <2>2. QED
    BY <2>1, IntTypes DEF IntState
<1>4. QED
  BY <1>1, <1>2, <1>3, TypeCorrect, PTL DEF Spec
-----------------------------------------------------------------------------
(* The record in flash can always be restored.                             *)

\* What RecordRestorable says of one record, and why it stays true: a record
\* with a network has a reserved block, only a build with distributed security
\* writes a distributed one, and neither kind of record ever gets a key.
SoundRecord(r) ==
    /\ r.commissioned =>
         /\ r.model # "none"
         /\ r.model = "central" => r.tclk # NoKey
    /\ r.model # "none" => r.gLimit # 0
    /\ r.tclk # NoKey => r.model \notin {"dist", "coord"} /\ r.tLimit # 0
    /\ r.tclk = LegacyKey => r.commissioned
    /\ r.model = "dist" => r.tLimit = 0 /\ DistributedSecurity

\* A node that is joining a network did not form one.
RestorableInv ==
    /\ SoundRecord(flash)
    /\ phase = "joining" => flash.model # "coord"

\* Moving the limits of a sound record up keeps it sound.
LEMMA SoundLimits ==
    ASSUME NEW r \in Records, SoundRecord(r),
           NEW g \in Counters, g >= r.gLimit, NEW t \in Counters,
           t = r.tLimit \/ (t # 0 /\ r.model # "dist")
    PROVE  SoundRecord([r EXCEPT !.gLimit = g, !.tLimit = t])
BY Constants DEF Records, SoundRecord

\* So does installing a link key with its reserved block, outside distributed
\* networks and networks this node formed,
LEMMA SoundKey ==
    ASSUME NEW r \in Records, SoundRecord(r), r.model \in {"none", "central"},
           NEW k \in Keys, NEW t \in Counters, t # 0
    PROVE  SoundRecord([r EXCEPT !.tclk = k, !.tLimit = t])
BY Constants, KeysAssumption DEF Records, SoundRecord

\* also together with a new NWK block,
LEMMA SoundKeyAndLimits ==
    ASSUME NEW r \in Records, SoundRecord(r), r.model \in {"none", "central"},
           NEW g \in Counters, g >= r.gLimit,
           NEW k \in Keys, NEW t \in Counters, t # 0
    PROVE  SoundRecord([r EXCEPT !.gLimit = g, !.tLimit = t, !.tclk = k])
BY Constants, KeysAssumption DEF Records, SoundRecord

\* and committing a network, if a centralized one has its link key.
LEMMA SoundCommit ==
    ASSUME NEW r \in Records, SoundRecord(r), r.model # "none",
           r.model = "central" => r.tclk # NoKey
    PROVE  SoundRecord([r EXCEPT !.commissioned = TRUE])
BY Constants, KeysAssumption DEF Records, SoundRecord

\* So are the records that start a network and the one a reset leaves.
LEMMA SoundStarts ==
    ASSUME TypeOK, NEW m \in Networks,
           m = "dist" => DistributedSecurity
    PROVE  /\ SoundRecord(ResetRecord)
           /\ SoundRecord(ReservedRecord(m))
           /\ m # "central" =>
                SoundRecord([ReservedRecord(m) EXCEPT !.commissioned = TRUE])
<1> USE Constants, KeysAssumption, FieldTypes
<1>1. SoundRecord(ResetRecord)
  BY DEF SoundRecord, ResetRecord, EmptyRecord
<1>2. MaxOf(nib.counter, flash.gLimit) + Reservation # 0
  BY IntTypes DEF MaxOf, IntState
<1>3. SoundRecord(ReservedRecord(m))
  BY <1>2 DEF SoundRecord, ReservedRecord, Networks
<1>4. m # "central" =>
        SoundRecord([ReservedRecord(m) EXCEPT !.commissioned = TRUE])
  BY <1>2 DEF SoundRecord, ReservedRecord, Networks
<1>5. QED
  BY <1>1, <1>3, <1>4

\* Every step keeps a sound record in flash, also when its commit fails.
LEMMA RestorableStep ==
    ASSUME TypeOK, TypeOK', NwkInv, RestorableInv, Next
    PROVE  RestorableInv'
<1> USE FieldTypes, IntTypes, Constants DEF IntState
<1>a. ASSUME NEW rec, flash' \in {flash, rec}, SoundRecord(rec),
             phase' = "joining" => flash'.model # "coord"
      PROVE  RestorableInv'
  <2>1. SoundRecord(flash')
    BY <1>a DEF RestorableInv
  <2>2. QED
    BY <1>a, <2>1 DEF RestorableInv, SoundRecord
<1>b. ASSUME flash' = flash, phase' # "joining" \/ phase' = phase
      PROVE  RestorableInv'
  BY <1>b DEF RestorableInv, SoundRecord
<1>c. SoundRecord(ResetRecord) /\ ResetRecord.model = "none"
  BY SoundStarts DEF ResetRecord, EmptyRecord, Networks
<1>d. ASSUME NEW c \in Counters, CanReserve(c)
      PROVE  c + Reservation \in Counters /\ c + Reservation # 0
  BY <1>d, ReserveType
<1>e. SoundRecord(flash) /\ (phase = "joining" => flash.model # "coord")
  BY DEF RestorableInv
<1>1. CASE BootFresh \/ CandidateFails \/ ExchangeFails \/ AbandonUncommitted
           \/ SendNwk \/ SendDefaultKey \/ SendTclk \/ PowerCut
  BY <1>1, <1>b DEF BootFresh, CandidateFails, ExchangeFails, AbandonJoin,
     AbandonUncommitted, SendNwk, SendDefaultKey, SendTclk, PowerCut
<1>2. ASSUME NEW ok \in BOOLEAN, Restore(ok)
      PROVE  RestorableInv'
  <2> DEFINE tNew == IF ReservesTclk(flash) THEN flash.tLimit + Reservation
                     ELSE flash.tLimit
             rec == [flash EXCEPT !.gLimit = flash.gLimit + Reservation,
                                  !.tLimit = tNew]
  <2>1. flash' \in {flash, rec} /\ phase' # "joining"
    BY <1>2, StoreOutcome DEF Restore
  <2>2. /\ flash.gLimit + Reservation \in Counters /\ tNew \in Counters
        /\ flash.gLimit + Reservation >= flash.gLimit
    BY <1>2, <1>d DEF Restore
  <2>3. tNew = flash.tLimit \/ (tNew # 0 /\ flash.model # "dist")
    BY <1>2, <1>d, <1>e DEF Restore, ReservesTclk, SoundRecord
  <2> HIDE DEF tNew
  <2>4. SoundRecord(rec)
    BY <1>e, <2>2, <2>3, SoundLimits
  <2>5. QED
    BY <1>a, <2>1, <2>4
<1>3. ASSUME NEW ok \in BOOLEAN, IdentityReset(ok) \/ FactoryReset(ok)
      PROVE  RestorableInv'
  <2>1. flash' \in {flash, ResetRecord} /\ (phase' = phase \/ phase' = "idle")
    BY <1>3, StoreOutcome DEF IdentityReset, FactoryReset
  <2>2. QED
    BY <1>a, <1>c, <1>e, <2>1
<1>4. ASSUME NEW ok \in BOOLEAN, NEW m \in Networks, ReserveNetwork(m, ok)
      PROVE  RestorableInv'
  <2>1. /\ flash' \in {flash, ReservedRecord(m)}
        /\ phase' = "joining" => flash' = ReservedRecord(m)
        /\ m = "central" \/ (m = "dist" /\ DistributedSecurity)
    BY <1>4, StoreOutcome DEF ReserveNetwork
  <2>2. SoundRecord(ReservedRecord(m)) /\ ReservedRecord(m).model = m
    BY <2>1, SoundStarts DEF ReservedRecord
  <2>3. QED
    BY <1>a, <2>1, <2>2
<1>5. ASSUME NEW ok \in BOOLEAN, CommitDistributed(ok) \/ CommitNetwork(ok)
      PROVE  RestorableInv'
  <2> DEFINE rec == [flash EXCEPT !.commissioned = TRUE]
  <2>1. /\ flash' \in {flash, rec} /\ phase' # "joining"
        /\ flash.model = "dist" \/ (flash.model = "central" /\ flash.tclk \in Keys)
    BY <1>5, StoreOutcome DEF CommitDistributed, CommitNetwork, AbandonJoin
  <2>2. SoundRecord(rec)
    BY <1>e, <2>1, SoundCommit, KeysAssumption
  <2> HIDE DEF rec
  <2>3. QED
    BY <1>a, <2>1, <2>2
<1>6. ASSUME NEW ok \in BOOLEAN, ReserveTclk(ok)
      PROVE  RestorableInv'
  <2> DEFINE t == MaxOf(entry.out, flash.tLimit) + Reservation
             rec == [flash EXCEPT !.tclk = entry.key, !.tLimit = t]
  <2>1. /\ flash' \in {flash, rec} /\ phase = "joining" /\ entry.key \in Keys
        /\ flash.model # "dist"
    BY <1>6, StoreOutcome DEF ReserveTclk, Keys
  <2>2. t \in Counters /\ t # 0
    BY <1>6, <1>d, ReserveType DEF ReserveTclk
  <2>3. flash.model \in {"none", "central"}
    BY <1>e, <2>1 DEF Models, Networks
  <2>4. SoundRecord(rec)
    BY <1>e, <2>1, <2>2, <2>3, SoundKey
  <2>5. flash'.model = flash.model
    BY <2>1 DEF Records
  <2>6. QED
    BY <1>a, <2>1, <2>3, <2>4, <2>5
<1>7. ASSUME NEW ok \in BOOLEAN, Refresh(ok)
      PROVE  RestorableInv'
  <2> DEFINE cur == IF Adopts THEN MaxOf(entry.out, flash.tLimit) ELSE entry.out
             tBase == IF Adopts THEN cur + Reservation ELSE entry.limit
             maintained == flash.model = "central" /\ entry.key # NoKey
             gNew == IF nib.limit - nib.counter <= LowWater
                     THEN nib.limit + Reservation ELSE nib.limit
             tNew == IF maintained /\ tBase - cur <= LowWater
                     THEN tBase + Reservation ELSE tBase
             t == IF maintained THEN tNew ELSE flash.tLimit
             k == IF maintained THEN entry.key ELSE flash.tclk
             rec == [flash EXCEPT !.gLimit = gNew, !.tLimit = t, !.tclk = k]
  <2>1. /\ flash' \in {flash, rec} /\ phase' = "up" /\ RefreshAccepts
        /\ gNew <= MaxCounter /\ tNew <= MaxCounter
    BY <1>7, StoreOutcome DEF Refresh
  <2>2. gNew \in Counters /\ gNew >= flash.gLimit
    BY <2>1 DEF RefreshAccepts
  <2>3. CASE maintained
    <3>1. entry.key \in Keys
      BY <2>3
    <3>2. Adopts => tBase > 0
      BY DEF MaxOf
    <3>3. ~Adopts => entry.key = flash.tclk
      BY <2>3 DEF Adopts
    <3>4. ~Adopts => tBase = flash.tLimit /\ flash.tLimit # 0
      BY <1>e, <2>1, <2>3, <3>1, <3>3 DEF RefreshAccepts, SoundRecord
    <3>5. tNew \in Counters /\ tNew # 0
      BY <2>1, <3>2, <3>4 DEF MaxOf
    <3>6. SoundRecord([flash EXCEPT !.gLimit = gNew, !.tLimit = tNew,
                                    !.tclk = entry.key])
      BY <1>e, <2>2, <2>3, <3>1, <3>5, SoundKeyAndLimits
    <3>7. QED
      BY <1>a, <2>1, <2>3, <3>6
  <2>4. CASE ~maintained
    <3>1. SoundRecord([flash EXCEPT !.gLimit = gNew, !.tLimit = flash.tLimit])
      BY <1>e, <2>2, SoundLimits
    <3>2. rec = [flash EXCEPT !.gLimit = gNew, !.tLimit = flash.tLimit]
      BY <2>4 DEF Records
    <3>3. QED
      BY <1>a, <2>1, <3>1, <3>2
  <2>5. QED
    BY <2>3, <2>4
<1>8. ASSUME NEW ok \in BOOLEAN, TrustCenterRejoin(ok)
      PROVE  RestorableInv'
  <2> DEFINE g == MaxOf(nib.counter, flash.gLimit) + Reservation
             legacy == flash.tclk = LegacyKey
             t == IF legacy THEN flash.tLimit + Reservation ELSE flash.tLimit
             k == IF legacy THEN DefaultKey ELSE flash.tclk
             rec == [flash EXCEPT !.gLimit = g, !.tLimit = t, !.tclk = k]
  <2>1. /\ flash' \in {flash, rec} /\ phase' = "up" /\ flash.model = "central"
        /\ flash.commissioned
    BY <1>8, StoreOutcome DEF TrustCenterRejoin
  <2>2. /\ g \in Counters /\ g >= flash.gLimit
        /\ legacy => t \in Counters
    BY <1>8, <1>d, ReserveType DEF TrustCenterRejoin, MaxOf
  <2>3. flash.tclk # NoKey /\ flash.tLimit # 0
    BY <1>e, <2>1 DEF SoundRecord
  <2>4. k \in Keys /\ t \in Counters /\ t # 0
    BY <1>d, <2>2, <2>3, <1>8 DEF Keys, TrustCenterRejoin
  <2>5. SoundRecord(rec)
    BY <1>e, <2>1, <2>2, <2>4, SoundKeyAndLimits
  <2>6. QED
    BY <1>a, <2>1, <2>5
<1>9. ASSUME NEW failed \in {"none", "reserve", "commit"}, CommitPreR21(failed)
      PROVE  RestorableInv'
  <2> DEFINE t == flash.tLimit + Reservation
             first == [flash EXCEPT !.tclk = DefaultKey, !.tLimit = t]
             second == [first EXCEPT !.commissioned = TRUE]
  <2>1. /\ flash' \in {flash, first, second} /\ phase' # "joining"
        /\ flash.model = "central" /\ CanReserve(flash.tLimit)
    BY <1>9 DEF CommitPreR21, AbandonJoin
  <2>2. t \in Counters /\ t # 0
    BY <1>d, <2>1
  <2>3. SoundRecord(first) /\ first \in Records
    <3>1. DefaultKey \in Keys
      BY DEF Keys
    <3>2. SoundRecord(first)
      BY <1>e, <2>1, <2>2, <3>1, SoundKey
    <3>3. first \in Records
      BY <2>2, <3>1, RecordUpdate
    <3>4. QED
      BY <3>2, <3>3
  <2>4. first.model = "central" /\ first.tclk = DefaultKey
    BY <2>1 DEF Records
  <2>5. SoundRecord(second)
    BY <2>3, <2>4, SoundCommit, KeysAssumption DEF Keys
  <2>6. QED
    BY <1>a, <2>1, <2>3, <2>5
<1>10. ASSUME NEW failed \in {"none", "reserve", "commit"},
              NEW m \in Networks, FormNetwork(m, failed)
       PROVE  RestorableInv'
  <2> DEFINE second == [ReservedRecord(m) EXCEPT !.commissioned = TRUE]
  <2>1. /\ flash' \in {flash, ReservedRecord(m), second} /\ phase' # "joining"
        /\ m = "coord" \/ (m = "dist" /\ DistributedSecurity)
    BY <1>10 DEF FormNetwork
  <2>2. SoundRecord(ReservedRecord(m)) /\ SoundRecord(second)
    BY <2>1, SoundStarts
  <2> HIDE DEF second
  <2>3. CASE flash' \in {flash, second}
    BY <1>a, <2>1, <2>2, <2>3
  <2>4. CASE flash' \in {flash, ReservedRecord(m)}
    BY <1>a, <2>1, <2>2, <2>4
  <2>5. QED
    BY <2>1, <2>3, <2>4
<1>11. ASSUME NEW k, TransportKey(k) \/ ClearUnconfirmed(k)
       PROVE  RestorableInv'
  BY <1>11, <1>b DEF TransportKey, ClearUnconfirmed
<1>12. QED
  BY <1>1, <1>2, <1>3, <1>4, <1>5, <1>6, <1>7, <1>8, <1>9, <1>10, <1>11 DEF Next

\* Whatever sequence of commissioning, key changes, rejoins, resets, failed
\* commits and power cuts led here, validate accepts the record at the next boot.
THEOREM RecordAlwaysRestorable == Spec => []RecordRestorable
<1>1. Init => RestorableInv
  BY Constants, KeysAssumption
     DEF Init, RestorableInv, SoundRecord, EmptyRecord, LegacyRecord
<1>2. TypeOK /\ NwkInv /\ RestorableInv /\ [Next]_vars => RestorableInv'
  <2>1. CASE Next
    BY <2>1, RestorableStep, TypeStep
  <2>2. CASE UNCHANGED vars
    BY <2>2 DEF vars, RestorableInv, SoundRecord
  <2>3. QED
    BY <2>1, <2>2
<1>3. RestorableInv => RecordRestorable
  BY DEF RestorableInv, SoundRecord, RecordRestorable
<1>4. QED
  BY <1>1, <1>2, <1>3, NwkInvariant, PTL DEF Spec
=============================================================================
