------------------------- MODULE CounterReservation -------------------------
(***************************************************************************)
(* Outgoing frame-counter reservations of one node, across commissioning,  *)
(* operation, failed commits, power cuts and factory resets.               *)
(*                                                                         *)
(* A CCM* nonce is (source IEEE address, frame counter), so a node must    *)
(* never encrypt two frames with the same key and the same counter.  The   *)
(* node never writes a counter per frame: it durably reserves a block      *)
(* ("limit") ahead, sends only below that limit, and after every restart   *)
(* starts from the limit it finds in flash.  There are two counter spaces: *)
(* the NWK one (also used by the well-known default link key) and the one  *)
(* of the unique Trust Center link key (TCLK).                             *)
(*                                                                         *)
(* The durable record is one variable that a commit replaces atomically;   *)
(* SecurityJournal models how the flash journal provides that.  A commit   *)
(* that reports an error may or may not have become durable.               *)
(***************************************************************************)
EXTENDS Integers

CONSTANTS
    DeviceKeys,          \* unique TCLKs a Trust Center may issue to this node
    DefaultKey,          \* the well-known ZigBeeAlliance09 link key
    NoKey,               \* no Trust Center link key
    LegacyKey,           \* record flag legacy_default_tclk (no unique key)
    Reservation,         \* FRAME_COUNTER_RESERVATION_SIZE (0x400)
    LowWater,            \* LOW_WATER of refresh_security_state (32)
    MaxCounter,          \* u32::MAX, where checked_add fails
    DistributedSecurity  \* cargo feature "distributed-security"

Keys == DeviceKeys \cup {DefaultKey}

ASSUME KeysAssumption ==
    /\ DefaultKey \notin DeviceKeys
    /\ NoKey \notin Keys /\ LegacyKey \notin Keys /\ NoKey # LegacyKey
ASSUME NumbersAssumption ==
    /\ Reservation \in Nat /\ LowWater \in Nat /\ MaxCounter \in Nat
    /\ LowWater < Reservation /\ Reservation <= MaxCounter
ASSUME FeatureAssumption == DistributedSecurity \in BOOLEAN

VARIABLES
    flash,    \* the durable PersistentSecurityState
    nib,      \* NIB outgoing_frame_counter and its limit
    entry,    \* APS key-table entry of the Trust Center
    phase,    \* "off", "idle", "joining" or "up"
    live,     \* security model of the network the running stack is on
    nwkTop,   \* history: one past the highest NWK-space counter drawn
    apsUsed   \* history: <<link key, counter>> pairs used for APS security

vars == <<flash, nib, entry, phase, live, nwkTop, apsUsed>>

Counters == 0 .. MaxCounter
Networks == {"central", "dist", "coord"}
Models == Networks \cup {"none"}

\* The part of PersistentSecurityState that the reservations depend on.
Records == [commissioned : BOOLEAN, model : Models, gLimit : Counters,
            tLimit : Counters, tclk : Keys \cup {NoKey, LegacyKey}]

EmptyRecord == [commissioned |-> FALSE, model |-> "none",
                gLimit |-> 0, tLimit |-> 0, tclk |-> NoKey]

\* A record migrated from the legacy log: both limits are floored above
\* everything the legacy image can have sent, and there is no unique key.
LegacyRecord == [commissioned |-> TRUE, model |-> "central",
                 gLimit |-> Reservation, tLimit |-> Reservation,
                 tclk |-> LegacyKey]

NoEntry == [key |-> NoKey, out |-> 0, limit |-> 0]
ResetNib == [counter |-> 0, limit |-> 0]

\* Mutant: the stored limit is ignored.
MaxOfIgnoresStored(a, b) == a

MaxOf(a, b) == IF a >= b THEN a ELSE b

\* The outcome of SecurityStateStore::store: on success the record is durable,
\* on failure the old or the new one is.
Store(rec, ok) == IF ok THEN flash' = rec ELSE flash' \in {flash, rec}

\* Mutant: the addition is not checked.
CanReserveUnchecked(c) == TRUE

CanReserve(c) == c + Reservation <= MaxCounter

Init ==
    /\ flash \in {EmptyRecord, LegacyRecord}
    /\ nib = ResetNib
    /\ entry = NoEntry
    /\ phase = "off"
    /\ live = "none"
    /\ nwkTop = 0
    /\ apsUsed = {}

-----------------------------------------------------------------------------
(* Power-up.                                                               *)

\* load_commissioned_security_state returned None: nothing to restore.
BootFresh ==
    /\ phase = "off" /\ ~flash.commissioned
    /\ phase' = "idle"
    /\ UNCHANGED <<flash, nib, entry, live, nwkTop, apsUsed>>

ReservesTclk(rec) ==
    /\ rec.model # "coord"
    /\ DistributedSecurity => rec.tclk # NoKey

\* restore_steering_security_state, restore_coordinator_security_state and
\* restore_distributed_network_security_state: take the stored limit as the
\* next counter, make the extended limit durable, then install both.
Restore(ok) ==
    LET g == flash.gLimit
        t == flash.tLimit
        tNew == IF ReservesTclk(flash) THEN t + Reservation ELSE t
    IN
    /\ phase = "off" /\ flash.commissioned
    /\ CanReserve(g)
    /\ ReservesTclk(flash) => CanReserve(t)
    /\ Store([flash EXCEPT !.gLimit = g + Reservation, !.tLimit = tNew], ok)
    /\ IF ok
       THEN /\ phase' = "up" /\ live' = flash.model
            /\ nib' = [counter |-> g, limit |-> g + Reservation]
            /\ entry' = IF flash.tclk \in Keys
                        THEN [key |-> flash.tclk, out |-> t, limit |-> tNew]
                        ELSE entry
       ELSE UNCHANGED <<phase, live, nib, entry>>
    /\ UNCHANGED <<nwkTop, apsUsed>>

\* Mutant: a reset that forgets the NWK limit.
ResetRecordForgetsNwk == [EmptyRecord EXCEPT !.tLimit = flash.tLimit]

\* factory_reset_security_state: an empty record that keeps both limits.
ResetRecord == [EmptyRecord EXCEPT !.gLimit = flash.gLimit,
                                   !.tLimit = flash.tLimit]

\* reset_security_state_if_identity_changed, before the node is started.
IdentityReset(ok) ==
    /\ phase = "off"
    /\ Store(ResetRecord, ok)
    /\ UNCHANGED <<nib, entry, phase, live, nwkTop, apsUsed>>

-----------------------------------------------------------------------------
(* Commissioning.                                                          *)

\* Mutants: the reserved block is not recorded; the old link key is kept.
ReservedRecordNoBlock(m) ==
    [commissioned |-> FALSE, model |-> m,
     gLimit |-> MaxOf(nib.counter, flash.gLimit),
     tLimit |-> IF m = "dist" THEN 0 ELSE flash.tLimit, tclk |-> NoKey]
ReservedRecordKeepsKey(m) ==
    [commissioned |-> FALSE, model |-> m,
     gLimit |-> MaxOf(nib.counter, flash.gLimit) + Reservation,
     tLimit |-> IF m = "dist" THEN 0 ELSE flash.tLimit, tclk |-> flash.tclk]

\* The record reserve_network_security writes for a network of kind m.
ReservedRecord(m) ==
    LET cur == MaxOf(nib.counter, flash.gLimit) IN
    [commissioned |-> FALSE, model |-> m, gLimit |-> cur + Reservation,
     tLimit |-> IF m = "dist" THEN 0 ELSE flash.tLimit, tclk |-> NoKey]

\* The network key arrived: reserve before the first secured frame.
ReserveNetwork(m, ok) ==
    LET cur == MaxOf(nib.counter, flash.gLimit) IN
    /\ phase = "idle"
    /\ m = "central" \/ (m = "dist" /\ DistributedSecurity)
    /\ CanReserve(cur)
    /\ Store(ReservedRecord(m), ok)
    /\ IF ok THEN /\ phase' = "joining" /\ live' = m
                  /\ nib' = [counter |-> cur, limit |-> cur + Reservation]
             ELSE /\ UNCHANGED <<phase, live>>
                  /\ nib' = ResetNib
    /\ UNCHANGED <<entry, nwkTop, apsUsed>>

\* A candidate parent delivered no network key: nlme_reset, try the next one.
CandidateFails ==
    /\ phase = "idle"
    /\ nib' = ResetNib
    /\ UNCHANGED <<flash, entry, phase, live, nwkTop, apsUsed>>

\* leave_after_initial_commissioning_failure, reached from every failure of
\* the exchange: the NIB is rebuilt, the Trust Center entry removed.
AbandonJoin == /\ phase' = "idle" /\ live' = "none"
               /\ nib' = ResetNib
               /\ entry' = NoEntry

\* commit_distributed_network, at the end of distributed steering.
CommitDistributed(ok) ==
    /\ phase = "joining" /\ live = "dist" /\ flash.model = "dist"
    /\ Store([flash EXCEPT !.commissioned = TRUE], ok)
    /\ IF ok THEN phase' = "up" /\ UNCHANGED <<live, nib>>
             ELSE phase' = "idle" /\ live' = "none" /\ nib' = ResetNib
    /\ UNCHANGED <<entry, nwkTop, apsUsed>>

\* commit_formed_network: two commits, reservation first; the counter block is
\* installed only after both.  `failed` names the commit that failed.
FormNetwork(m, failed) ==
    LET cur == MaxOf(nib.counter, flash.gLimit)
        first == ReservedRecord(m)
        second == [first EXCEPT !.commissioned = TRUE]
    IN
    /\ phase = "idle"
    /\ m = "coord" \/ (m = "dist" /\ DistributedSecurity)
    /\ CanReserve(cur)
    /\ flash' \in CASE failed = "none" -> {second}
                    [] failed = "reserve" -> {flash, first}
                    [] failed = "commit" -> {first, second}
    /\ IF failed = "none"
       THEN /\ phase' = "up" /\ live' = m
            /\ nib' = [counter |-> cur, limit |-> cur + Reservation]
       ELSE /\ UNCHANGED <<phase, live>>
            /\ nib' = ResetNib
    /\ UNCHANGED <<entry, nwkTop, apsUsed>>

\* handle_transport_key, key type 4: a repeated key keeps its counters, a new
\* one starts at the NWK counter with nothing reserved.
TransportKey(k) ==
    /\ phase \in {"joining", "up"} /\ live = "central"
    /\ entry' = IF entry.key = k
                THEN entry
                ELSE [key |-> k, out |-> nib.counter, limit |-> nib.counter]
    /\ UNCHANGED <<flash, nib, phase, live, nwkTop, apsUsed>>

\* The exchange found a replacement key: reserve_trust_center_link_key.
ReserveTclk(ok) ==
    LET cur == MaxOf(entry.out, flash.tLimit) IN
    /\ phase = "joining" /\ flash.model # "dist"
    /\ entry.key \in DeviceKeys
    /\ CanReserve(cur)
    /\ Store([flash EXCEPT !.tclk = entry.key, !.tLimit = cur + Reservation], ok)
    /\ IF ok THEN /\ entry' = [entry EXCEPT !.out = cur,
                                            !.limit = cur + Reservation]
                  /\ UNCHANGED <<phase, live, nib>>
             ELSE AbandonJoin
    /\ UNCHANGED <<nwkTop, apsUsed>>

\* clear_unconfirmed_tc_link_key: drop the key, or put the join key back
\* under the same counters.
ClearUnconfirmed(join) ==
    /\ phase = "joining" /\ entry.key \in DeviceKeys
    /\ entry' = IF join = NoKey THEN NoEntry ELSE [entry EXCEPT !.key = join]
    /\ UNCHANGED <<flash, nib, phase, live, nwkTop, apsUsed>>

\* finalize_tclk_success: commit_network accepts only the reserved key.
CommitNetwork(ok) ==
    /\ phase = "joining" /\ flash.model = "central"
    /\ flash.tclk \in Keys /\ flash.tclk = entry.key
    /\ entry.out <= flash.tLimit
    /\ Store([flash EXCEPT !.commissioned = TRUE], ok)
    /\ IF ok THEN phase' = "up" /\ UNCHANGED <<live, nib, entry>> ELSE AbandonJoin
    /\ UNCHANGED <<nwkTop, apsUsed>>

\* finalize_pre_r21: the default key becomes the TCLK, with a TCLK-space
\* reservation, and the network is committed.
CommitPreR21(failed) ==
    LET cur == flash.tLimit
        first == [flash EXCEPT !.tclk = DefaultKey, !.tLimit = cur + Reservation]
        second == [first EXCEPT !.commissioned = TRUE]
    IN
    /\ phase = "joining" /\ live = "central" /\ flash.model = "central"
    /\ CanReserve(cur)
    /\ flash' \in CASE failed = "none" -> {second}
                    [] failed = "reserve" -> {flash, first}
                    [] failed = "commit" -> {first, second}
    /\ IF failed = "none"
       THEN /\ phase' = "up"
            /\ entry' = [key |-> DefaultKey, out |-> cur,
                         limit |-> cur + Reservation]
            /\ UNCHANGED <<live, nib>>
       ELSE AbandonJoin
    /\ UNCHANGED <<nwkTop, apsUsed>>

\* finalize_exchange_failure: deadline, exhausted budget or a refused commit.
ExchangeFails ==
    /\ phase = "joining"
    /\ AbandonJoin
    /\ UNCHANGED <<flash, nwkTop, apsUsed>>

\* factory_reset_stack and abandon_uncommitted_commissioning keep the counter
\* reached so far as an exhausted reservation.
FloorNib == [counter |-> nib.counter, limit |-> nib.counter]

AbandonUncommitted ==
    /\ phase = "joining"
    /\ phase' = "idle" /\ live' = "none"
    /\ nib' = FloorNib /\ entry' = NoEntry
    /\ UNCHANGED <<flash, nwkTop, apsUsed>>

-----------------------------------------------------------------------------
(* Operation.                                                              *)

\* Nib::next_frame_counter.
NwkReady == nib.counter < nib.limit
\* ApsSecurity::next_frame_counter.
TclkReady == entry.key # NoKey /\ entry.out < entry.limit

\* A NWK-secured frame.
SendNwk ==
    /\ phase \in {"joining", "up"} /\ NwkReady
    /\ nib' = [nib EXCEPT !.counter = @ + 1]
    /\ nwkTop' = IF nwkTop > nib.counter THEN nwkTop ELSE nib.counter + 1
    /\ UNCHANGED <<flash, entry, phase, live, apsUsed>>

\* A frame secured with the default link key draws from the NWK space.
SendDefaultKey ==
    /\ phase \in {"joining", "up"} /\ live = "central"
    /\ entry.key = NoKey /\ NwkReady
    /\ nib' = [nib EXCEPT !.counter = @ + 1]
    /\ nwkTop' = IF nwkTop > nib.counter THEN nwkTop ELSE nib.counter + 1
    /\ apsUsed' = apsUsed \cup {<<DefaultKey, nib.counter>>}
    /\ UNCHANGED <<flash, entry, phase, live>>

\* A frame secured with the Trust Center entry.
SendTclk ==
    /\ phase \in {"joining", "up"} /\ TclkReady
    /\ entry' = [entry EXCEPT !.out = @ + 1]
    /\ apsUsed' = apsUsed \cup {<<entry.key, entry.out>>}
    /\ UNCHANGED <<flash, nib, phase, live, nwkTop>>

\* The checks after which refresh_security_state goes on; otherwise it
\* returns Corrupt and changes nothing.
RefreshAccepts ==
    /\ flash.commissioned
    /\ nib.counter <= nib.limit /\ nib.limit = flash.gLimit
    /\ flash.tclk \in Keys =>
         /\ entry.key # NoKey
         /\ entry.key = flash.tclk =>
              entry.out <= entry.limit /\ entry.limit = flash.tLimit

\* The Trust Center key changed since the last commit: adopt it.
Adopts == flash.model = "central" /\ entry.key # NoKey /\ entry.key # flash.tclk

\* refresh_security_state: adopt a new TCLK, extend whatever is at the low
\* water mark, commit, and only then move the live limits.
Refresh(ok) ==
    LET cur == IF Adopts THEN MaxOf(entry.out, flash.tLimit) ELSE entry.out
        tBase == IF Adopts THEN cur + Reservation ELSE entry.limit
        maintained == flash.model = "central" /\ entry.key # NoKey
        gNew == IF nib.limit - nib.counter <= LowWater
                THEN nib.limit + Reservation ELSE nib.limit
        tNew == IF maintained /\ tBase - cur <= LowWater
                THEN tBase + Reservation ELSE tBase
        rec == [flash EXCEPT !.gLimit = gNew,
                             !.tLimit = IF maintained THEN tNew ELSE @,
                             !.tclk = IF maintained THEN entry.key ELSE @]
    IN
    /\ phase = "up" /\ RefreshAccepts
    /\ rec # flash
    /\ gNew <= MaxCounter /\ tNew <= MaxCounter
    /\ Store(rec, ok)
    /\ IF ok
       THEN /\ nib' = [nib EXCEPT !.limit = gNew]
            /\ entry' = IF maintained
                        THEN [entry EXCEPT !.out = cur, !.limit = tNew]
                        ELSE entry
       ELSE UNCHANGED <<nib, entry>>
    /\ UNCHANGED <<phase, live, nwkTop, apsUsed>>

\* persist_trust_center_rejoin_network: the rejoined network key gets a new
\* NWK block; a legacy record takes the default key as its TCLK.  A failure
\* reinstalls the counters from before the attempt.
TrustCenterRejoin(ok) ==
    LET g == MaxOf(nib.counter, flash.gLimit)
        t == flash.tLimit
        legacy == flash.tclk = LegacyKey
    IN
    /\ phase = "up" /\ flash.commissioned /\ flash.model = "central"
    /\ flash.tclk \in Keys => flash.tclk = entry.key /\ entry.out <= flash.tLimit
    /\ CanReserve(g)
    /\ legacy => CanReserve(t)
    /\ Store([flash EXCEPT !.gLimit = g + Reservation,
                           !.tLimit = IF legacy THEN t + Reservation ELSE t,
                           !.tclk = IF legacy THEN DefaultKey ELSE @], ok)
    /\ IF ok
       THEN /\ nib' = [counter |-> g, limit |-> g + Reservation]
            /\ entry' = IF legacy
                        THEN [key |-> DefaultKey, out |-> t,
                              limit |-> t + Reservation]
                        ELSE entry
       ELSE UNCHANGED <<nib, entry>>
    /\ UNCHANGED <<phase, live, nwkTop, apsUsed>>

\* factory_reset_with_security_store: the record first, then the stack.
FactoryReset(ok) ==
    /\ phase # "off"
    /\ Store(ResetRecord, ok)
    /\ IF ok THEN /\ phase' = "idle" /\ live' = "none"
                  /\ nib' = FloorNib /\ entry' = NoEntry
             ELSE UNCHANGED <<phase, live, nib, entry>>
    /\ UNCHANGED <<nwkTop, apsUsed>>

\* Power cut: everything outside flash is lost.
PowerCut ==
    /\ phase # "off"
    /\ phase' = "off" /\ live' = "none"
    /\ nib' = ResetNib /\ entry' = NoEntry
    /\ UNCHANGED <<flash, nwkTop, apsUsed>>

Next ==
    \/ BootFresh \/ CandidateFails
    \/ \E ok \in BOOLEAN :
         \/ Restore(ok) \/ IdentityReset(ok)
         \/ \E m \in Networks : ReserveNetwork(m, ok)
         \/ CommitDistributed(ok)
         \/ ReserveTclk(ok) \/ CommitNetwork(ok)
         \/ Refresh(ok) \/ TrustCenterRejoin(ok) \/ FactoryReset(ok)
    \/ \E failed \in {"none", "reserve", "commit"} :
         \/ CommitPreR21(failed)
         \/ \E m \in Networks : FormNetwork(m, failed)
    \/ \E k \in DeviceKeys : TransportKey(k)
    \/ \E k \in DeviceKeys \cup {NoKey} : ClearUnconfirmed(k)
    \/ ExchangeFails \/ AbandonUncommitted
    \/ SendNwk \/ SendDefaultKey \/ SendTclk
    \/ PowerCut

Spec == Init /\ [][Next]_vars

-----------------------------------------------------------------------------
(* Properties.                                                             *)

\* The type invariant: the record, the live counters, their limits and the
\* phase stay in range; in particular no reservation passes u32::MAX, where
\* checked_add of reserve_from and of refresh_security_state refuses.
TypeOK ==
    /\ flash \in Records
    /\ nib \in [counter : Counters, limit : Counters]
    /\ entry \in [key : Keys \cup {NoKey}, out : Counters, limit : Counters]
    /\ phase \in {"off", "idle", "joining", "up"}
    /\ live \in Models
    /\ nwkTop \in Counters
    /\ apsUsed \subseteq (Keys \X Counters)

\* The NWK counter only ever moves up: whatever commits failed, wherever power
\* was cut and however often the node was reset, the counter
\* Nib::next_frame_counter is about to hand out is above every one it handed
\* out before, so no nonce is reused and no neighbor drops it as a replay.
NwkNonceFresh == NwkReady => nib.counter >= nwkTop

\* Write-ahead: every counter drawn so far is below the durable limit, so the
\* restart that takes that limit as its next counter cannot reuse one.
NwkReservedAhead == nwkTop <= flash.gLimit

\* The counter ApsSecurity::next_frame_counter is about to hand out for a
\* unique Trust Center link key was never used with that key, also when the
\* Trust Center issues the same key again after a reset.
TclkNonceFresh ==
    TclkReady /\ entry.key \in DeviceKeys => <<entry.key, entry.out>> \notin apsUsed

\* No sequence of operations leaves a record in flash that
\* PersistentSecurityState::validate refuses at the next boot.
RecordRestorable ==
    /\ flash.commissioned =>
         /\ flash.model # "none" /\ flash.gLimit # 0
         /\ flash.model = "central" => flash.tclk # NoKey
    /\ flash.tclk # NoKey => flash.model \notin {"dist", "coord"} /\ flash.tLimit # 0
    /\ flash.tclk = LegacyKey => flash.commissioned
    /\ flash.model = "dist" => flash.tLimit = 0

\* No commit, not even a factory reset or a change of identity, lowers the
\* durable NWK limit.
NwkLimitNeverShrinks == [][flash'.gLimit >= flash.gLimit]_vars
=============================================================================
