------------------------- MODULE TrustCenterDevices -------------------------
(***************************************************************************)
(* The Trust Center's per-device transactions: the durable database and its *)
(* executor (zigbee-runtime/trust_center_runtime.rs, trust_center_store.rs),*)
(* the policy table in RAM (zigbee-bdb/trust_center.rs) and the order in    *)
(* which apps/router/app.rs drives them.  Admission, link-key replacement,  *)
(* Confirm-Key, application keys, removal and revocation are here; the      *)
(* network-key rotation is NetworkKeyRotation.                              *)
(*                                                                          *)
(* A handler is a function of a working record that holds the database, the *)
(* RAM state and the faults chosen for the call: which of its stores fails  *)
(* and which devices no frame reaches.  An error other than a transport     *)
(* error ends the step; CoordinatorApp::run then resets the device.  Frame  *)
(* counters, short addresses and table capacity are left out.               *)
(***************************************************************************)
EXTENDS Naturals, Sequences, SequencesExt, FiniteSetsExt

CONSTANTS
    Devices,      \* devices other than the Trust Center
    AllowRejoins, \* trust_center_allow_rejoins
    JoinTimeout,  \* bdbTrustCenterNodeJoinTimeout in ticks
    MaxKeys,      \* bound: generated link keys
    MaxAppKeys,   \* bound: application-key requests
    MaxInputs,    \* bound: received commands
    MaxFaults     \* bound: failed stores, failed transmissions and resets

ASSUME TrustCenterAssumption ==
    /\ IsFiniteSet(Devices) /\ {"tc", "none"} \cap Devices = {}
    /\ AllowRejoins \in BOOLEAN
    /\ JoinTimeout \in Nat \ {0}
    /\ {MaxKeys, MaxAppKeys, MaxInputs, MaxFaults} \subseteq Nat

VARIABLES
    db,       \* the last record of the Trust Center journal, and its copy in RAM
    table,    \* TrustCenterTable
    delivery, \* pending_delivery, the one command handed to the NWK layer
    attempts, \* initial_key_attempts of the last tick
    children, \* devices in the coordinator's own neighbor table
    up,       \* the restore barrier is open
    fault,    \* error of the last step, "none" if it succeeded
    keys,     \* history: number of generated link keys
    knows,    \* history: link keys transported to each device
    proved,   \* history: keys each device proved with Verify-Key
    inputs, apps, faults, \* history: inputs and faults so far
    clock     \* history: parity of the polls on which a second elapsed

vars == <<db, table, delivery, attempts, children, up, fault, keys, knows, proved, inputs, apps, faults, clock>>

TC == "tc"
Parents == {TC} \cup Devices
NoKey == 0
DefaultKey == 1                     \* DEFAULT_TC_LINK_KEY
Generated == 2..(MaxKeys + 1)
NoDelivery == [kind |-> "none", address |-> "none", via |-> "none"]
NoApp == [initiator |-> "none", responder |-> "none", to_initiator |-> FALSE, to_responder |-> FALSE]
AppKinds == {"AppInitiator", "AppResponder"}

\* PersistentTrustCenterDevice and TrustCenterDevice.
Unknown == [known |-> FALSE, parent |-> "none", key |-> NoKey, verified |-> FALSE, timeout |-> 0,
            network_key_pending |-> FALSE, pending_link_key |-> NoKey, transported |-> FALSE,
            confirm_key_pending |-> "none", removal_pending |-> FALSE]
Inactive == [active |-> FALSE, parent |-> "none", key |-> NoKey, verified |-> FALSE, timeout |-> 0,
             pending |-> NoKey]
Provisioned(key) == [Inactive EXCEPT !.active = TRUE, !.key = key]

Admitted(t) == t.active /\ t.timeout = 0 /\ t.parent # "none"      \* has_completed_admission
InApp(a, d) == d \in {a.initiator, a.responder}
Rejected(D, d) == \E i \in DOMAIN D.removals : D.removals[i].device = d

\* PersistentTrustCenterState::validate.
Valid(D) ==
    /\ \A i \in DOMAIN D.removals : ~D.dev[D.removals[i].device].known
    /\ D.app # NoApp => D.dev[D.app.initiator].known /\ D.dev[D.app.responder].known

-----------------------------------------------------------------------------
(* The working record. *)

\* f(w) unless w already failed.
Then(w, f(_)) == IF w.err = "none" THEN f(w) ELSE w
Fail(w, error) == [w EXCEPT !.err = error]
\* store and publish: the database in RAM follows the journal.
Store(w, D) ==
    IF ~Valid(D) THEN Fail(w, "corrupt")
    ELSE IF w.bad = 1 THEN [w EXCEPT !.err = "store", !.bad = 0]
    ELSE [w EXCEPT !.db = D, !.bad = IF @ = 0 THEN 0 ELSE @ - 1]
PutDevice(w, d, r) == Store(w, [w.db EXCEPT !.dev[d] = r])
\* checkpoint_live_counters after a transmission: only counters change.
Checkpoint(w) == Store(w, w.db)

Delivering(w, kind, d) == w.delivery.kind = kind /\ w.delivery.address = d
Progress(w, kind, d) ==
    IF w.delivery = NoDelivery THEN "Ready"
    ELSE IF Delivering(w, kind, d) THEN "Submitted" ELSE "Busy"
\* start_delivery; via, the device the command was sent to, is history.
Start(w, kind, d, via) == [w EXCEPT !.delivery = [kind |-> kind, address |-> d, via |-> via]]
Cancel(w) == [w EXCEPT !.delivery = NoDelivery]

\* A frame to device d: a failed transmission is deferred, not an error.
Reached(w, d) == d \notin w.deaf

-----------------------------------------------------------------------------
(* Removal and revocation. *)

\* Mutant: the command handed to the NWK layer for the device is not cancelled.
MutStageRemoval(w, d, parent) ==
    Store(w, [w.db EXCEPT
                !.dev[d] = [@ EXCEPT !.parent = parent, !.network_key_pending = FALSE,
                              !.pending_link_key = NoKey, !.transported = FALSE,
                              !.confirm_key_pending = "none", !.removal_pending = TRUE],
                !.app = IF InApp(@, d) THEN NoApp ELSE @])
StageRemoval(w, d, parent) ==
    LET a == w.db.app
        D == [w.db EXCEPT
                !.dev[d] = [@ EXCEPT !.parent = parent, !.network_key_pending = FALSE,
                              !.pending_link_key = NoKey, !.transported = FALSE,
                              !.confirm_key_pending = "none", !.removal_pending = TRUE],
                !.app = IF InApp(a, d) THEN NoApp ELSE @]
        mine == /\ w.delivery.kind # "Remove"
                /\ \/ w.delivery.address = d
                   \/ InApp(a, d) /\ w.delivery.kind \in AppKinds
    IN  Then(Store(w, D), LAMBDA v : IF mine THEN Cancel(v) ELSE v)

\* send_remote_remove_device with start_delivery and the checkpoint after it.
RemoteRemove(w, parent, d) ==
    IF parent \notin Devices \/ ~w.db.dev[parent].known THEN Fail(w, "policy")
    ELSE IF ~Reached(w, parent) THEN w
    ELSE Checkpoint(Start(w, "Remove", d, parent))

ResumeRemoval(w, d) ==
    LET s == w.db.dev[d]
    IN  IF ~s.removal_pending \/ w.tombstone = d THEN w
        ELSE IF s.parent = TC THEN (IF d \in children THEN w ELSE [w EXCEPT !.tombstone = d])
        ELSE CASE Progress(w, "Remove", d) = "Busy" -> w
               [] Progress(w, "Remove", d) = "Submitted" -> [w EXCEPT !.tombstone = d]
               [] OTHER -> RemoteRemove(w, s.parent, d)

\* stage_unknown_removal: one intent per device, the latest parent wins.
StageUnknownRemoval(w, parent, d) ==
    LET new  == [device |-> d, parent |-> parent]
        rest == w.db.removals
        next == IF Rejected(w.db, d)
                THEN [i \in DOMAIN rest |-> IF rest[i].device = d THEN new ELSE rest[i]]
                ELSE Append(rest, new)
    IN  IF new \in Range(rest) THEN w
        ELSE IF w.db.dev[d].known THEN Fail(w, "corrupt")
        ELSE Then(Store(w, [w.db EXCEPT !.removals = next]),
                  LAMBDA v : IF Delivering(v, "Remove", d) THEN Cancel(v) ELSE v)

\* Mutant: the rejection is sent through a parent that was revoked.
MutResumeUnknownRemoval(w) ==
    IF w.db.removals = <<>> \/ w.tombstone # "none" THEN w
    ELSE LET p == Head(w.db.removals)
         IN  IF p.parent = TC
             THEN (IF p.device \in children THEN w ELSE [w EXCEPT !.tombstone = p.device])
             ELSE CASE Progress(w, "Remove", p.device) = "Busy" -> w
                    [] Progress(w, "Remove", p.device) = "Submitted" -> [w EXCEPT !.tombstone = p.device]
                    [] OTHER -> RemoteRemove(w, p.parent, p.device)
ResumeUnknownRemoval(w) ==
    IF w.db.removals = <<>> \/ w.tombstone # "none" THEN w
    ELSE LET p == Head(w.db.removals)
         IN  IF p.parent = TC
             THEN (IF p.device \in children THEN w ELSE [w EXCEPT !.tombstone = p.device])
             ELSE IF ~w.table[p.parent].active THEN [w EXCEPT !.tombstone = p.device]
             ELSE CASE Progress(w, "Remove", p.device) = "Busy" -> w
                    [] Progress(w, "Remove", p.device) = "Submitted" -> [w EXCEPT !.tombstone = p.device]
                    [] OTHER -> RemoteRemove(w, p.parent, p.device)

\* swap_remove: the last intent takes the place of the removed one.
WithoutRemoval(rs, d) ==
    IF \A i \in DOMAIN rs : rs[i].device # d THEN rs
    ELSE LET i == CHOOSE j \in DOMAIN rs : rs[j].device = d
         IN  [j \in 1..(Len(rs) - 1) |-> IF j = i THEN rs[Len(rs)] ELSE rs[j]]

\* revoke.
Revoke(w, d) ==
    LET a == w.db.app
        D == [w.db EXCEPT !.dev[d] = Unknown, !.removals = WithoutRemoval(@, d),
                          !.app = IF InApp(a, d) THEN NoApp ELSE @]
        stale(v) == \/ v.delivery.address = d
                    \/ v.delivery.kind = "Remove"
                         /\ [device |-> v.delivery.address, parent |-> d] \in Range(v.db.removals)
                    \/ InApp(a, d) /\ v.delivery.kind \in AppKinds
    IN  Then(IF D = w.db THEN w ELSE Store(w, D),
             LAMBDA v : [v EXCEPT !.delivery = IF stale(v) THEN NoDelivery ELSE @,
                                  !.table[d] = Inactive, !.attempts = @ \ {d}])

\* service_trust_center_replay_retirements: the replay records of the device
\* are tombstoned, which may fail, and the revocation is completed.
Retire(w) ==
    IF w.tombstone = "none" THEN w
    ELSE IF w.bad = 1 THEN [w EXCEPT !.err = "store", !.bad = 0]
    ELSE Then(Revoke([w EXCEPT !.bad = IF @ = 0 THEN 0 ELSE @ - 1], w.tombstone),
              LAMBDA v : [v EXCEPT !.tombstone = "none"])

-----------------------------------------------------------------------------
(* Key transports. *)

ResumeNetworkKey(w, d) ==
    LET s == w.db.dev[d]
    IN  IF ~s.network_key_pending \/ d \in w.attempts THEN w
        ELSE IF s.parent # TC /\ ~(s.parent \in Devices /\ w.db.dev[s.parent].known) THEN Fail(w, "policy")
        ELSE IF ~Reached(w, d) THEN w
        ELSE Then(Checkpoint(w), LAMBDA v : [v EXCEPT !.attempts = @ \cup {d}])

\* complete_initial_network_key.
CompleteNetworkKey(w, d) ==
    Then(IF w.db.dev[d].network_key_pending
         THEN PutDevice(w, d, [w.db.dev[d] EXCEPT !.network_key_pending = FALSE]) ELSE w,
         LAMBDA v : [v EXCEPT !.attempts = @ \ {d}])

StageLinkKey(w, d) ==
    LET s == w.db.dev[d]
    IN  IF ~s.known THEN Fail(w, "policy")
        ELSE IF s.pending_link_key # NoKey THEN PutDevice(w, d, [s EXCEPT !.transported = FALSE])
        ELSE Then(PutDevice(w, d, [s EXCEPT !.pending_link_key = w.keys + 2, !.transported = FALSE]),
                  LAMBDA v : [v EXCEPT !.keys = @ + 1])

ResumeLinkKey(w, d) ==
    LET s == w.db.dev[d]
    IN  IF s.pending_link_key = NoKey \/ s.transported \/ ~Reached(w, d) THEN w
        ELSE IF ~w.table[d].active THEN Fail(w, "policy")
        ELSE PutDevice([w EXCEPT !.table[d].pending = s.pending_link_key,
                                 !.table[d].timeout = JoinTimeout,
                                 !.heard = @ \cup {<<d, s.pending_link_key>>}],
                       d, [s EXCEPT !.transported = TRUE])

ResumeConfirmKey(w, d) ==
    LET s == w.db.dev[d]
    IN  CASE Progress(w, "Confirm", d) = "Busy" -> w
          [] Progress(w, "Confirm", d) = "Submitted" ->
               Then(PutDevice(w, d, [s EXCEPT !.confirm_key_pending = "none"]), Cancel)
          [] OTHER -> IF Reached(w, d) THEN Checkpoint(Start(w, "Confirm", d, d)) ELSE w

\* resume_application_link_key for one end of the pair: done says whether the
\* next end may be served.
ResumeAppEnd(w, kind, d, delivered, db_done) ==
    IF delivered THEN [w |-> w, done |-> TRUE]
    ELSE CASE Progress(w, kind, d) = "Busy" -> [w |-> w, done |-> FALSE]
           [] Progress(w, kind, d) = "Submitted" ->
                [w |-> Then(Store(w, db_done), Cancel), done |-> w.bad # 1]
           [] OTHER -> [w |-> IF ~w.db.dev[d].known THEN Fail(w, "policy")
                              ELSE IF Reached(w, d) THEN Checkpoint(Start(w, kind, d, d)) ELSE w,
                        done |-> FALSE]
ResumeAppKey(w) ==
    IF w.db.app = NoApp THEN w
    ELSE LET a == w.db.app
             i == ResumeAppEnd(w, "AppInitiator", a.initiator, a.to_initiator,
                               [w.db EXCEPT !.app.to_initiator = TRUE])
             r == ResumeAppEnd(i.w, "AppResponder", a.responder, a.to_responder,
                               [i.w.db EXCEPT !.app.to_responder = TRUE])
         IN  IF ~i.done THEN i.w
             ELSE IF ~r.done THEN r.w
             ELSE Store(r.w, [r.w.db EXCEPT !.app = NoApp])

StageAppKey(w, i, r) ==
    IF w.db.app = NoApp
    THEN IF {i, r} \subseteq {d \in Devices : w.db.dev[d].known} /\ i # r
         THEN Store(w, [w.db EXCEPT !.app = [NoApp EXCEPT !.initiator = i, !.responder = r]])
         ELSE Fail(w, "corrupt")
    ELSE IF w.db.app.initiator = i /\ w.db.app.responder = r THEN w
    ELSE Fail(w, "policy")

-----------------------------------------------------------------------------
(* The executor. *)

\* The list each loop of resume_pending walks, and what it does for one entry.
Listed(list, D, d) ==
    LET s == D.dev[d]
        open == s.known /\ ~s.removal_pending
    IN  CASE list = "removal" -> s.removal_pending
          [] list = "network" -> open /\ s.network_key_pending
          [] list = "link" -> open /\ s.pending_link_key # NoKey
          [] list = "confirm" -> open /\ s.confirm_key_pending # "none"
Resume(list, w, d) ==
    CASE list = "removal" -> ResumeRemoval(w, d)
      [] list = "network" -> ResumeNetworkKey(w, d)
      [] list = "link" -> ResumeLinkKey(w, d)
      [] list = "confirm" -> ResumeConfirmKey(w, d)
\* One loop: the entries listed in D are served in turn until one fails.
Each(list, D, w, order) ==
    LET served[n \in 0..Len(order)] ==
            IF n = 0 THEN w
            ELSE Then(served[n - 1],
                      LAMBDA v : IF Listed(list, D, order[n]) THEN Resume(list, v, order[n]) ELSE v)
    IN  served[Len(order)]

\* resume_pending: all lists are taken before the first entry is served.
ResumePending(w, order, confirm) ==
    LET a == Each("removal", w.db, w, order)
        b == Then(a, ResumeUnknownRemoval)
        c == Each("network", w.db, b, order)
        e == Each("link", w.db, c, order)
        f == IF confirm THEN Each("confirm", w.db, e, order) ELSE e
    IN  Then(f, ResumeAppKey)

\* The database record of a device takes over the policy table's.
Mirrored(s, t) == [s EXCEPT !.known = TRUE, !.parent = t.parent, !.key = t.key,
                            !.verified = t.verified, !.timeout = t.timeout]
\* restore_policy_device_from_state.
Restored(s) ==
    IF ~s.known THEN Inactive
    ELSE [active |-> TRUE, parent |-> s.parent, key |-> s.key, verified |-> s.verified,
          timeout |-> IF s.pending_link_key = NoKey THEN s.timeout ELSE Max({s.timeout, 1}),
          pending |-> s.pending_link_key]

\* Mutant: the policy table keeps a change the journal refused.
MutUpsert(w, d, nkp) ==
    PutDevice(w, d, [Mirrored(w.db.dev[d], w.table[d]) EXCEPT !.network_key_pending = @ \/ nkp])
Upsert(w, d, nkp) ==
    LET s == w.db.dev[d]
        m == Mirrored(s, w.table[d])
        n == IF s.known /\ s.key # w.table[d].key
             THEN [m EXCEPT !.pending_link_key = NoKey, !.transported = FALSE, !.confirm_key_pending = "none"]
             ELSE m
        v == PutDevice(w, d, [n EXCEPT !.network_key_pending = @ \/ nkp])
    IN  IF v.err # "none" THEN [v EXCEPT !.table[d] = Restored(v.db.dev[d])]
        ELSE IF nkp THEN [v EXCEPT !.attempts = @ \ {d}] ELSE v

\* discard_abandoned_link_keys.
DiscardAbandoned(w) ==
    LET gone == {d \in Devices : LET s == w.db.dev[d] t == w.table[d] IN
                   /\ t.active /\ t.verified /\ t.pending = NoKey
                   /\ s.known /\ s.confirm_key_pending = "none"
                   /\ s.pending_link_key # NoKey /\ s.transported /\ s.pending_link_key # t.key}
        D == [w.db EXCEPT !.dev = [d \in Devices |->
                IF d \in gone THEN [Mirrored(@[d], w.table[d]) EXCEPT !.pending_link_key = NoKey,
                                                                       !.transported = FALSE]
                ELSE @[d]]]
    IN  IF gone = {} THEN w ELSE Store(w, D)

CheckpointTable(w) ==
    LET D == [w.db EXCEPT !.dev = [d \in Devices |->
                LET s == @[d] t == w.table[d] IN
                IF ~s.known \/ ~t.active THEN s
                ELSE IF s.pending_link_key = NoKey THEN Mirrored(s, t)
                ELSE [s EXCEPT !.parent = t.parent, !.timeout = t.timeout]]]
    IN  IF D = w.db THEN w ELSE Store(w, D)

\* execute_action for a rejected or departed device.
RemoveDevice(w, d, parent) ==
    IF w.db.dev[d].known
    THEN Then(StageRemoval(w, d, parent), LAMBDA v : ResumeRemoval(v, d))
    ELSE Then(StageUnknownRemoval(w, parent, d), ResumeUnknownRemoval)
RevokeDevice(w, d) ==
    Then(IF w.db.dev[d].known THEN StageRemoval(w, d, w.db.dev[d].parent) ELSE w,
         LAMBDA v : [v EXCEPT !.tombstone = d])

-----------------------------------------------------------------------------
(* The policy table and the received commands. *)

\* TrustCenterTable::tick by one tick: devices are served in table order and
\* the first one whose exchange expired ends the call.
TickEntry(r, d) ==
    LET t == r.table[d]
        running == t.active /\ ((t.timeout # 0 /\ ~t.verified) \/ t.pending # NoKey)
    IN  IF r.expired # "none" \/ ~running THEN r
        ELSE IF t.timeout > 1 THEN [r EXCEPT !.table[d].timeout = @ - 1]
        ELSE IF t.verified THEN [r EXCEPT !.table[d].timeout = 0, !.table[d].pending = NoKey]
        ELSE [r EXCEPT !.table[d] = [@ EXCEPT !.active = FALSE, !.pending = NoKey, !.timeout = 0],
                       !.expired = d]
TickTable(w, order) ==
    LET ticked[n \in 0..Len(order)] ==
            IF n = 0 THEN [table |-> w.table, expired |-> "none"]
            ELSE TickEntry(ticked[n - 1], order[n])
    IN  ticked[Len(order)]

Tick(w, order) ==
    LET r == TickTable(w, order)
        v == [w EXCEPT !.table = r.table, !.attempts = {}]
        x == IF r.expired = "none" THEN v
             ELSE RemoveDevice(v, r.expired, r.table[r.expired].parent)
    IN  Then(Then(x, DiscardAbandoned), CheckpointTable)

\* update_location, creating the entry with the default key.
Located(t, parent, timeout) ==
    [(IF t.active THEN t ELSE Provisioned(DefaultKey)) EXCEPT !.parent = parent, !.timeout = timeout]

Admit(w, d, p) ==
    LET t == w.table[d]
        update == ~(t.active /\ t.verified) \/ t.pending # NoKey
        v == [w EXCEPT !.table[d] = Located(t, p, IF update THEN JoinTimeout ELSE 0)]
    IN  Then(Upsert(v, d, TRUE), LAMBDA x : ResumeNetworkKey(x, d))

SecuredRejoin(w, d, p) ==
    LET t == w.table[d]
        timeout == IF t.active /\ t.timeout # 0 THEN t.timeout
                   ELSE IF ~Admitted(t) /\ ~(t.active /\ t.verified) THEN JoinTimeout ELSE 0
    IN  IF Admitted(t) \/ AllowRejoins
        THEN Upsert([w EXCEPT !.table[d] = Located(t, p, timeout)], d, FALSE)
        ELSE RemoveDevice(w, d, p)

\* Mutant: a device whose rejection is still queued may be admitted.
MutUpdateDevice(w, status, d, p) ==
    IF p # TC /\ ~w.table[p].active THEN w
    ELSE Then(CASE status = "Left" -> RevokeDevice(w, d)
                [] status = "Join" -> Admit(w, d, p)
                [] status = "TcRejoin" -> w
                [] status = "Rejoin" -> SecuredRejoin(w, d, p),
              CheckpointTable)
UpdateDevice(w, status, d, p) ==
    LET t == w.table[d]
    IN  IF p # TC /\ ~w.table[p].active THEN w
        ELSE IF status = "Left" /\ t.active /\ t.parent # "none" /\ t.parent # p THEN w
        ELSE IF status # "Left" /\ Rejected(w.db, d)
        THEN Then(StageUnknownRemoval(w, p, d), ResumeUnknownRemoval)
        ELSE Then(CASE status = "Left" -> RevokeDevice(w, d)
                    [] status = "Join" -> Admit(w, d, p)
                    [] status = "TcRejoin" -> IF Admitted(t) \/ AllowRejoins THEN Admit(w, d, p) ELSE w
                    [] status = "Rejoin" -> SecuredRejoin(w, d, p),
                  CheckpointTable)

RequestTclk(w, d) ==
    LET serve(v) == Then(StageLinkKey(v, d), LAMBDA x : ResumeLinkKey(x, d))
    IN  IF w.db.dev[d].known /\ w.db.dev[d].pending_link_key # NoKey THEN serve(w)
        ELSE IF w.table[d].active THEN serve(w) ELSE w

RequestAppKey(w, i, r) ==
    IF w.table[i].active /\ w.table[r].active
    THEN Then(StageAppKey(w, i, r), ResumeAppKey) ELSE w

\* Mutant: any transported key is committed, whichever the device proved.
MutVerifyKey(w, d, k) ==
    LET t == w.table[d]
        v == [w EXCEPT !.table[d] = [@ EXCEPT !.key = t.pending, !.verified = TRUE, !.timeout = 0, !.pending = NoKey]]
        s == Mirrored(w.db.dev[d], v.table[d])
    IN  IF ~t.active \/ t.pending = NoKey THEN w
        ELSE PutDevice(v, d, [s EXCEPT !.pending_link_key = NoKey, !.transported = FALSE,
                                !.confirm_key_pending = "success", !.network_key_pending = FALSE])
\* handle_verify_key with commit_and_stage_confirm_key: the device proves k.
VerifyKey(w, d, k) ==
    LET t == w.table[d]
        s == w.db.dev[d]
        target == IF t.pending # NoKey THEN t.pending ELSE t.key
        ok == k = target
        v == IF ok /\ t.pending # NoKey
             THEN [w EXCEPT !.table[d] = [@ EXCEPT !.key = target, !.verified = TRUE, !.timeout = 0,
                                            !.pending = NoKey]]
             ELSE w
        status == IF ok THEN "success" ELSE "failure"
        refused == ok /\ IF s.pending_link_key # NoKey
                         THEN ~s.transported \/ target # s.pending_link_key
                         ELSE s.key # target \/ ~v.table[d].verified
        n == IF ok THEN [Mirrored(s, v.table[d]) EXCEPT !.pending_link_key = NoKey, !.transported = FALSE,
                                                         !.network_key_pending = FALSE]
             ELSE s
        x == PutDevice(v, d, [n EXCEPT !.confirm_key_pending = status])
        y == IF s.confirm_key_pending \notin {"none", status}
                /\ Delivering(x, "Confirm", d) THEN Cancel(x) ELSE x
    IN  IF ~t.active \/ (t.pending = NoKey /\ ~t.verified) THEN w
        ELSE IF ~s.known \/ refused THEN Fail(v, "policy")
        ELSE IF x.err # "none" THEN [x EXCEPT !.table[d] = Restored(w.db.dev[d])]
        ELSE IF ok THEN [y EXCEPT !.attempts = @ \ {d}] ELSE y

\* handle_device_announce.
DeviceAnnounce(w, d) ==
    IF ~w.db.dev[d].known \/ w.db.dev[d].removal_pending THEN w ELSE CompleteNetworkKey(w, d)

ProvisionLinkKey(w, d) ==
    LET t == w.table[d]
        e == IF t.active THEN [t EXCEPT !.key = w.keys + 2, !.verified = FALSE, !.timeout = 0, !.pending = NoKey]
             ELSE Provisioned(w.keys + 2)
    IN  Then(Upsert([w EXCEPT !.table[d] = e], d, FALSE), LAMBDA v : [v EXCEPT !.keys = @ + 1])

-----------------------------------------------------------------------------
(* The application's step. *)

Working(bad, deaf) ==
    [db |-> db, table |-> table, delivery |-> delivery, attempts |-> attempts, keys |-> keys,
     tombstone |-> "none", heard |-> {}, bad |-> bad, deaf |-> deaf, err |-> "none"]

\* What a call leaves behind: the database, and the RAM state unless it failed.
Commit(w) ==
    /\ w.bad = 0                       \* the chosen failure happened
    /\ db' = w.db
    /\ keys' = w.keys
    /\ knows' = [d \in Devices |-> knows[d] \cup {h[2] : h \in {x \in w.heard : x[1] = d}}]
Keep(w) ==
    table' = w.table /\ delivery' = w.delivery /\ attempts' = w.attempts /\ up' = TRUE /\ fault' = "none"
Lose(error) ==
    /\ table' = [d \in Devices |-> Inactive]
    /\ delivery' = NoDelivery /\ attempts' = {} /\ up' = FALSE /\ fault' = error
\* CoordinatorApp::run: an error is fatal and resets the coordinator.
Finish(w) ==
    /\ Commit(w)
    /\ IF w.err = "none" THEN Keep(w) ELSE Lose(w.err)
    /\ faults' = faults + (IF w.err = "store" \/ w.deaf # {} THEN 1 ELSE 0)

\* The faults a call may meet: one failed store, or devices out of reach.
NoFault == <<0, {}>>
Faults ==
    {NoFault} \cup (IF faults = MaxFaults THEN {}
                    ELSE {<<bad, {}>> : bad \in 1..5} \cup {<<0, deaf>> : deaf \in SUBSET Devices})
Orders == SetToSeqs(Devices)

\* A received command, with the retirements app.rs runs after it.
Input(w) == inputs' = inputs + 1 /\ Finish(Then(w, Retire)) /\ UNCHANGED clock

ReceiveUpdateDevice(d, p, status, f) ==
    /\ up /\ d # p
    /\ children' = CASE p # TC -> children
                     [] status = "Left" -> children \ {d}
                     [] OTHER -> children \cup {d}
    /\ Input(UpdateDevice(Working(f[1], f[2]), status, d, p))
    /\ UNCHANGED <<proved, apps>>

ReceiveRequestKey(d, f) ==
    /\ up /\ keys < MaxKeys
    /\ Input(Then(CompleteNetworkKey(Working(f[1], f[2]), d), LAMBDA w : RequestTclk(w, d)))
    /\ UNCHANGED <<children, proved, apps>>

ReceiveRequestAppKey(i, r, f) ==
    /\ up /\ i # r /\ apps < MaxAppKeys
    /\ apps' = apps + 1
    /\ Input(Then(CompleteNetworkKey(Working(f[1], f[2]), i), LAMBDA w : RequestAppKey(w, i, r)))
    /\ UNCHANGED <<children, proved>>

\* k is a key the device was given, or NoKey for a hash of none of them.
ReceiveVerifyKey(d, k, f) ==
    /\ up /\ k \in knows[d] \cup {NoKey}
    /\ proved' = [proved EXCEPT ![d] = @ \cup ({k} \ {NoKey})]
    /\ Input(VerifyKey(Working(f[1], f[2]), d, k))
    /\ UNCHANGED <<children, apps>>

ReceiveAnnounce(d, f) ==
    /\ up /\ db.dev[d].network_key_pending
    /\ Input(DeviceAnnounce(Working(f[1], f[2]), d))
    /\ UNCHANGED <<children, proved, apps>>

\* Before the device joins, as the API asks; an error goes to the caller.
Provision(d, bad) ==
    /\ up /\ ~db.dev[d].known /\ keys < MaxKeys
    /\ inputs < MaxInputs /\ inputs' = inputs + 1 /\ UNCHANGED clock
    /\ LET w == ProvisionLinkKey(Working(bad, {}), d) IN Commit(w) /\ Keep(w)
    /\ faults' = faults + bad /\ faults' <= MaxFaults
    /\ UNCHANGED <<children, proved, apps>>

Poll(order, ticks, f) ==
    /\ up
    /\ LET w == ResumePending(Working(f[1], f[2]), order, TRUE)
       IN  Finish(Then(Then(w, LAMBDA v : IF ticks THEN Tick(v, order) ELSE v), Retire))
    /\ clock' = IF ticks THEN 1 - clock ELSE clock
    /\ UNCHANGED <<children, proved, inputs, apps>>

\* restore_before_replay and resume_after_replay_restore.
Initialize(order, f) ==
    /\ ~up
    /\ LET w == [Working(f[1], f[2]) EXCEPT !.table = [d \in Devices |-> Restored(db.dev[d])]]
           v == Then(Checkpoint(w), LAMBDA x : ResumePending(x, order, FALSE))
       IN  Finish(Then(v, Retire))
    /\ clock' = 1 - clock
    /\ UNCHANGED <<children, proved, inputs, apps>>

Reset ==
    /\ up /\ faults < MaxFaults
    /\ faults' = faults + 1
    /\ Lose("none")
    /\ UNCHANGED <<db, children, keys, knows, proved, inputs, apps, clock>>

\* The child journal carries out the removal of a local child, or the child
\* leaves by itself.
ChildGone(d) ==
    /\ d \in children
    /\ children' = children \ {d}
    /\ UNCHANGED <<db, table, delivery, attempts, up, fault, keys, knows, proved, inputs, apps, faults, clock>>

Init ==
    /\ db = [dev |-> [d \in Devices |-> Unknown], removals |-> <<>>, app |-> NoApp]
    /\ table = [d \in Devices |-> Inactive]
    /\ delivery = NoDelivery
    /\ attempts = {}
    /\ children = {}
    /\ up = TRUE
    /\ fault = "none"
    /\ keys = 0
    /\ knows = [d \in Devices |-> {}]
    /\ proved = [d \in Devices |-> {}]
    /\ inputs = 0 /\ apps = 0 /\ faults = 0 /\ clock = 0

Receive(d, f) ==
    \/ \E p \in Parents, status \in {"Join", "Rejoin", "TcRejoin", "Left"} :
         ReceiveUpdateDevice(d, p, status, f)
    \/ ReceiveRequestKey(d, f)
    \/ \E r \in Devices : ReceiveRequestAppKey(d, r, f)
    \/ \E k \in Generated \cup {NoKey} : ReceiveVerifyKey(d, k, f)
    \/ ReceiveAnnounce(d, f)

Next ==
    \/ inputs < MaxInputs /\ \E d \in Devices, f \in Faults : Receive(d, f)
    \/ \E order \in Orders, f \in Faults :
         Initialize(order, f) \/ \E ticks \in BOOLEAN : Poll(order, ticks, f)
    \/ \E d \in Devices : ChildGone(d) \/ \E bad \in 0..1 : Provision(d, bad)
    \/ Reset

Spec == Init /\ [][Next]_vars

\* The event loop keeps polling and time passes, or the barrier is retried;
\* the child journal removes a local child whose removal is staged
\* (stage_pending_trust_center_child_removal).
FairSpec ==
    /\ Spec
    /\ []<>(clock = 0) /\ []<>(clock = 1)
    /\ \A d \in Devices : WF_vars(ChildGone(d) /\ (db.dev[d].removal_pending \/ Rejected(db, d)))

-----------------------------------------------------------------------------
(* Properties. *)

\* The one delivery slot always belongs to a transaction that is still in the
\* database: stage_removal, revoke and commit_and_stage_confirm_key cancel it
\* with the transaction.  A slot nobody owns would leave every other
\* transaction Busy until the next reset.
DeliveryOwned ==
    LET d == delivery.address IN
    /\ delivery.kind = "Remove" => db.dev[d].removal_pending \/ Rejected(db, d)
    /\ delivery.kind = "Confirm" => db.dev[d].confirm_key_pending # "none"
    /\ delivery.kind = "AppInitiator" => db.app.initiator = d /\ ~db.app.to_initiator
    /\ delivery.kind = "AppResponder" => db.app.responder = d /\ ~db.app.to_responder

\* The database holds a key as verified only if the device itself proved that
\* very key, across retries of Request-Key, failed stores and resets.
ReplacementProved ==
    \A d \in Devices : db.dev[d].verified => db.dev[d].key \in proved[d]

\* A reset at any point changes no policy decision: what the RAM table holds
\* for a device that is not being removed is what a restore would put there,
\* also after a journal write was refused (restore_policy_device_from_state).
ResetKeepsPolicy ==
    \A d \in Devices :
      up /\ ~db.dev[d].removal_pending =>
        LET t == table[d]  r == Restored(db.dev[d]) IN
        /\ t.active = r.active
        /\ t.active => /\ <<t.parent, t.key, t.verified>> = <<r.parent, r.key, r.verified>>
                       /\ t.pending \in {NoKey, r.pending}

\* No sequence of commands, faults and resets makes the executor present a
\* record that PersistentTrustCenterState::validate refuses: a device is never
\* admitted while its rejection is still in the removal queue, and an
\* application key never outlives one of its two devices.  (Provisioning a key
\* for a device whose rejection is queued is refused too, but to the caller.)
RecordAlwaysValid == fault # "corrupt"

\* A durable transaction whose parent is neither the coordinator nor a device
\* of the database: resume_removal and resume_network_key fail on it.
Orphaned(d) ==
    /\ db.dev[d].removal_pending \/ db.dev[d].network_key_pending
    /\ db.dev[d].parent # TC
    /\ db.dev[d].parent \in Devices => ~db.dev[db.dev[d].parent].known
Orphan == \E d \in Devices : Orphaned(d)

\* What has_pending_transactions reports for d, but for the network key that
\* waits for the device.
Unsettled(d) ==
    \/ Rejected(db, d)
    \/ db.dev[d].removal_pending
    \/ db.dev[d].pending_link_key # NoKey
    \/ db.dev[d].confirm_key_pending # "none"
    \/ InApp(db.app, d)

\* Every removal, rejection, key replacement, Confirm-Key and application key
\* comes to its end, whatever was in the one delivery slot and wherever a reset
\* cut it, unless an orphaned transaction stops the executor.
TransactionsSettle == \A d \in Devices : Unsettled(d) ~> (~Unsettled(d) \/ Orphan)

\* docs/book/src/advanced/coordinator-router.md: "Protocol rejection is not a
\* fatal error".
ProtocolRejectionNotFatal == fault # "policy"
=============================================================================
