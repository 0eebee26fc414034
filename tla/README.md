# zigbee-rs: TLA+ models, model checking and proofs

zigbee-rs is a `no_std` Zigbee PRO R22 / BDB 3.0.1 stack in Rust. This
directory models the parts of it whose correctness depends on orders of events
that unit tests hardly reach: power cuts between two flash writes, answers that
arrive after a timeout, lost and repeated frames, failures between two commits,
long sequences of joins, key updates and resets. Models are TLA+; TLC checks them on small instances; TLAPS proves
every safety property of the passing runs for every value of the constants.

`PROJECT.json` is the machine-readable index: components, runs, the mutants that
show each property is sensitive to the code, the map from definitions to source
lines, hazards, findings and theorems.

## 1. The system

An application (`apps/`, `examples/`) owns a `ZigbeeNode` of `zigbee-runtime`,
which drives, top down, BDB commissioning, ZCL and ZDO, APS, NWK and a MAC. The
stack is single-threaded and asynchronous: one event loop receives frames, ticks
timers and advances state machines one step per tick. Concurrency therefore means
the order of ticks, received frames, storage results and power cuts. Durable state
is behind a few store traits, each implemented over NOR flash by an append journal.

| component | state | operations | what is hard, and what makes it correct |
|---|---|---|---|
| Outgoing counter reservations (`runtime/security_store.rs`, `runtime/lib.rs`, `nwk/nib.rs`, `aps/security.rs`) | durable limits of the NWK and the TCLK counter space, live counters and limits | reserve, commit, restore, refresh, rejoin, abandon, factory reset | commits that fail or are cut; resets followed by the same keys. No (key, counter) pair is used twice; the record always restores |
| Security journal (`runtime/security_journal.rs`) | two flash sectors, RAM caches | load, store, append, tombstone, retain | a cut at every single flash write, marginal commit words, full sectors. Each call is atomic; caches agree with flash |
| Unique TCLK exchange (`bdb/tclk_exchange.rs`, `bdb/steering.rs`) | stage, three budgets, timers, baselines, a ZDO slot | one step per tick; answers processed between steps | late and unasked answers, clock wrap, storage failures. Only a confirmed key is committed; no slot leaks; it ends |
| Network steering and formation (`bdb/steering.rs`, `formation.rs`, `state_machine.rs`) | candidates, parents, BDB attributes | scan, join a candidate, formation, post-join | retry across candidates, half-finished joins leave nothing behind |
| NWK key set and replay table (`nwk/security.rs`) | an active and a staged or previous key, a floor per sender and key sequence, a transmit fence | stage, activate, restore; admit a frame, defer it, commit its floor | keys switch and neighbours change between admission and commit; table full; no accepted replay |
| NWK data service and routing (`nwk/nlde.rs`, `routing.rs`, `indirect.rs`) | broadcast transactions, route and discovery tables, indirect queue | send, relay, discover, poll | duplicates, expiry, tables at their limit; no relay loop; a polled frame is delivered once |
| NWK management, conflicts (`nwk/nlme.rs`, `neighbor.rs`, `conflict.rs`) | neighbor table, addresses | join, rejoin, leave, ageing, conflict resolution | two requests in flight; an address is owned by one child |
| APS data service (`aps/apsde.rs`) | pending acks, duplicate table | send with ack, retry | lost, duplicated and reordered frames and acks; a message is delivered at most once |
| APS fragmentation (`aps/fragment.rs`, `fragment_tx.rs`) | transmit window of the originator, reassembly sessions and completed transactions of the receiver | start, retransmit, acknowledge, reassemble, expire | lost and repeated blocks and acks, a restarted originator, a commit that fails after the block was stored; an ASDU is handed up whole and once, every request is confirmed |
| ZDO (`zdo/`) | pending-response slots, descriptors | requests, handlers, parent announcement | a slot reused under a late response |
| Trust Center, devices (`bdb/trust_center.rs`, `runtime/trust_center_runtime.rs`, `trust_center_store.rs`, `apps/router/src/app.rs`) | durable database, policy table in RAM, one delivery slot | admit, issue and verify link keys, confirm, application keys, remove, revoke | one slot for all commands, a journal write that is refused, a reset at any step, a device that moves behind another parent. Only a proved key is committed; RAM and journal agree; every transaction ends |
| Trust Center, network key (the same, with `runtime/network_key_forwarding.rs`) | the rotation record, the key slots and their snapshot, the fan-out to sleepy children | prepare, distribute, wait, switch, activate | two journals and several transmissions, a reset between any two; a peer that switches first. One key per sequence number, no switch before everyone was served, every rotation ends |
| Other stores (`runtime/child_store.rs`, `aps_table_store.rs`, `reporting_store.rs`, `log_nv.rs`) | flash records | append, compact | as the security journal |
| Finding and binding, Touchlink (`bdb/`) | procedure state | sequential requests with timeouts | a late answer taken for another request's |
| OTA client (`runtime/ota*.rs`, `zcl/clusters/ota.rs`) | offset, image state | query, block, pause, activate | lost blocks, restart mid-download |
| ZCL dispatch, clusters | attributes, reporting timers | read, write, configure, report | reporting intervals; poll control check-in |
| Soft MAC (`mac/soft_mac.rs`) | PIB, sequence number, pending transactions | CSMA, ack, poll | an ack of another frame; pending bit |
| MAC backends, HALs, crypto, boards, bootloaders, applications | - | - | hardware access, pure computation or product wiring: not modelled |

Components interact by calls down the layers and by return values and events up;
three exceptions matter for the models. The APS layer keeps layer-wide handshake
counters and a key table that the exchange reads between its own steps. And the
durable record is read, changed and written by BDB (through a `SecurityPersistence`
object) as well as by the runtime. On a coordinator the application alternates the Trust Center's
steps with the node's own polls, and resets the device when a step returns an error that is no transport error.

## 2. The models

### CounterReservation, CounterReservationProofs

A CCM* nonce is the source address and a frame counter, so a node must never use
one counter twice with one key. The node does not write each counter: it reserves
a block durably and starts from the durable limit after every restart.

| variable | code |
|---|---|
| `flash` | the durable `PersistentSecurityState`: commissioned, kind of network, `global_counter_limit`, `tclk_counter_limit`, stored TCLK |
| `nib` | `Nib::outgoing_frame_counter` and its limit |
| `entry` | the Trust Center's `ApsLinkKeyEntry` |
| `phase`, `live` | power off, no network, joining, operating; kind of the network in use |
| `nwkTop`, `apsUsed` | history: counters used |

Each action is a whole operation: boot with or without a record, the reservation
when the network key arrives, formation (two commits), Transport-Key, the TCLK
reservation and commit, the pre-R21 path, every way to give a join up, sending under
the three kinds of key, `refresh_security_state`, the Trust Center rejoin, factory and
identity reset, and a power cut at any time. A commit is atomic here (the journal
model shows why that is right), and one that reports an error may nevertheless have
become durable. Addresses, staged keys, timeouts and encodings are left out; a
migrated legacy record is one of the initial states.

### SecurityJournal, SecurityJournalProofs and DurableStore

`DurableStore` is what the journal promises: one durable value (the state and the
replay floors), replaced in a single step or not at all. `SecurityJournal` is
the journal down to single flash writes: a call decides where to write from what the code
scans (`newest`, `find_erased_run`, `find_replay_append_position`), then performs its writes one
at a time; each may complete, fail or be cut off, leaving the old content, the new
content or a slot that does not decode.

| variable | code |
|---|---|
| `flash` | the two sectors, slot by slot: erased, undecodable, a state record, a record whose commit word did not verify, or a replay slot with its header, number of entries and floors |
| `ram` | `scanned`, `cached`, `replay_generation`, `cached_replay` |
| `op` | the call under way: whether it still has to erase, the slot of its record, the replay slot it writes, the domains whose entries are left, what it will have made durable |
| `boot` | what a boot would read, recomputed with the scan functions after every write |
| `ackedLimit`, `doubt` | history: the largest reservation of a completed generation; whether a commit word was ever left unverified |

A list of replay entries is abstracted to the highest floor of each domain, which is all `merge_replay` keeps, and the order in which a snapshot
writes its domains is open. The refinement mapping is `durable <- boot`, `pending <-` the value the running call wants to store and `late <-` the
states whose commit word failed verification: such a word may read back as committed later (`MarginalSettles`), and the abstract store says so (`Surface`).

Two statements are exactly as strong as the code allows, which only the proof brought out. `ackedLimit` counts reservations that a
completed *generation* carries: an append completes on top of whatever record is current, also one that settled late, and another late record of the same generation
may then replace it. And the upper bound of `DurableStore!Commit` (a floor is at most the larger of the old and the requested one) holds only while no commit
word was left unverified: with enough faults, floors of a failed attempt in the same sector are read with a later generation of the same number.

Not modelled: the product role tag, and record formats of earlier versions. The number
of domains is bounded by the cache capacity. Of the two reservations of a record one is kept, so that `resolve_duplicate_generation` has none to merge into the
chosen copy: what becomes of the TCLK limit of two records with one generation is not covered.

### TclkExchange, TclkExchangeProofs

The stage machine of a joining node: delay, Node Descriptor probe, Request-Key,
Verify-Key, Confirm-Key, with a transmission budget per message, a backoff, response
windows and one overall deadline on a wrapping clock. `Step` is one call of
`advance_tclk_exchange`; each `Step...` disjunct is one arm of `step_tclk_exchange` with
everything it calls (reservation, commit, release of the ZDO slot, leave). Between steps
the APS and ZDO handlers run (`Deliver...`), time passes (`Tick`) and the join may be
abandoned. The Trust Center is external: it may send a key unasked, answer late, never or
repeatedly, and it does not hand out again a key it replaced. The APS statistics are
compared with a baseline only, so they are two flags. A `SecurityPersistence` is
always supplied, as the runtime with a store does; the storeless variant is left out.

### NwkSecurity, NwkSecurityProofs, NwkReplayProofs

The network keys and the incoming replay table of one node, in both builds (`router`, chosen initially), with the table size of each.

| variable | code |
|---|---|
| `sec` | `NwkSecurity`: the two key slots, `staged_key_sequence`, `activation_pending` (`fence`), `frame_counter_table`, `previous_key_replay_sealed` |
| `pending` | `pending_lifecycle_replay`: the frame whose floor waits, and for what; `moved` says that it changed what its sender is to the node |
| `saved` | the keys of the durable record |
| `parents`, `lookedUp`, `parent`, `children`, `joining` | neighbour relationships; the entry `NeighborTable::parent()` finds; `nib.parent_address` |
| `heard`, `adopted` | history: counters recorded; the active key came from received traffic |

A received frame is a transaction of several steps, and the state may change between any two of them.
`Receive` is the receive path of `nlde.rs` after authentication: admission, activation of a staged key the frame
was secured with, classification, the effect on neighbours, and the commit of the floor or its deferral.
`TransportKey` and `SwitchKey` are the APS handlers of a deferred data frame. `Persist`, `PersistFails` and `PersistChild`
are the snapshot and the child journal, after which `complete_lifecycle_persistence` commits the floor. Rejoins
(`SecureRejoin`, `TcRejoin` and its three endings), ageing, children, leaving and reboots run in between. A frame is any
sender, key and counter at any time, so a recorded frame heard again is always among them.

Abstractions. The order of the table only decides which of several eligible floors is given up, so any one is.
Silence is counted in ticks up to the stale timeout. The module allows keys with equal sequence numbers and different material; the runs give every key its own.
Transport-Key and Switch-Key are authenticated; the Trust Center is external. A device attached to this node is not
asked to be its parent. The security snapshot that opens every receive and rejoin either succeeds or the operation does
not happen. `retire_previous_network_key` has no caller outside tests.
`heard` is reset where the documentation says a floor is given up; reclaiming a floor of the previous
key does not reset it, because the seal is there to make that safe. Two further resets are not documented and are among the
disagreements below: the previous key installed again by a failed rejoin, and a sealed previous key staged again.

### ApsFragmentation, ApsFragmentationProofs

Originators with the windowed transmitter, one receiver with its reassembly sessions, and the frames between them.

| variable | code |
|---|---|
| `fragment_tx`, `aps_counter` | `FragmentTxSession` and the APS counter of each originator |
| `entries` | the reassembly sessions of `fragment.rs` |
| `dup_table`, `pending_ack` | the receiver's completed fragmented transactions, and the acknowledgement the MAC refused |
| `net` | blocks and acknowledgements in the air, delivered in any order |
| `sent`, `outcome`, `accepted`, `mixed`, `restarted`, `crowded`, `late`, `expired` | history: requests and their confirms, ASDUs handed up, and the exceptions the properties make: a restart, a displaced duplicate entry, a block that arrived after an acknowledgement wait, a session that expired |

`ReceiveFragment` is the whole receive path of one block: duplicate lookup, insertion, acknowledgement, hand-up and the
commit of its side effects, which may fail and is then taken back (`abort_data_persistence`). Frames are lost and repeated, the
acknowledgement timer fires early, an originator restarts and reuses its APS counters, and other traffic displaces
duplicate entries. Time is counted in acknowledgement waits. Payloads are the number of the ASDU they belong to, so a mixture of two is visible.

### TrustCenterDevices, TrustCenterDevicesProofs

The per-device transactions of a Trust Center. `db` is the last durable record (and its copy in RAM), `table` the policy table, `delivery`
the one command handed to the NWK layer, `children` the coordinator's own children. A handler is a function of a working record; `Then` stops
at the first error, as `?` does. Each action is one call from `apps/router/src/app.rs`: the handler of a received command (Update-Device,
Request-Key, Verify-Key), `poll` with everything it resumes, a confirm, provisioning, the restore barrier and a reset.
For each call the model chooses which store fails and which devices no frame reaches. Abstractions: the policy allows joins and asks for link-key
updates, any device may ask for an application key with any partner, install codes are not required; a failed store is taken as not durable;
frame counters, short addresses and capacity are left out.

### NetworkKeyRotation, NetworkKeyRotationProofs

The rotation of the network key. `tc` is the record in the Trust Center journal, `sec` the snapshot in the security journal, `live` the key slots, `fwd` and
`intent` the fan-out to sleepy children, `clocks` the timers. A step of the application is cut at each durable write and transmission (`pc`), and a
reset may fall between any two. Keys carry the generation of their sequence number and an id, so two keys under one number are
told apart. Peers join, leave and announce their role at any time; a packet of a peer that already switched may activate the staged key. A failed
write is such a reset, except in a request of the product, which gets the error back.
Broadcast and unicast rotations are in one model (`Methods`).

## 3. Runs

| run | cfg | checks |
|---|---|---|
| Counters | MCCounterReservation | NWK nonce freshness, write-ahead, restorable record, monotone limit, across centralized and distributed networks |
| DistributedTclk | MCDistributedTclk | *violated*: `TclkNonceFresh` with distributed networks |
| Journal | MCSecurityJournal | NOR discipline, cache agreement, durability, refinement of `DurableStore`, with interrupted, failing and marginal writes |
| StaleSnapshot | MCStaleSnapshot | *violated*: exact agreement of cached and durable replay floors |
| Tclk | MCTclkExchange | committed keys are confirmed, ZDO slot ownership, no resend of an answered Verify-Key, every armed exchange ends |
| Replay | MCNwkSecurity | both builds, three keys across the sequence wrap: no replay accepted, room promised at admission is there at the commit, strangers leave the slots of parent and children, the parent is always heard, an adopted key is stored before use |
| Fragmentation | MCApsFragmentation | SUCCESS only for ASDUs accepted or expired, whole and, within two faults, once; every request confirmed, every session ends |
| FragmentLoss | MCFragmentLoss | *violated*: one lost block is recovered |
| TrustCenter | MCTrustCenterDevices | the delivery slot has an owner, verified keys are proved, a reset changes no decision, no invalid record is written, every transaction settles |
| TrustCenterRejection | MCTrustCenterRejection | *violated*: a protocol rejection is not fatal |
| Rotation | MCNetworkKeyRotation | two rotations: record and key agree, one key per sequence number, no switch before children and routers were served, no use before the switch, every rotation ends |
| RotationStuck | MCRotationStuck | *violated*: a torn preparation is resumed |

The violated ones state what a comment in the code or the book promises; the entry under
`findings` in `PROJECT.json` quotes it and says what the trace does.
Briefly: joining a distributed network zeroes the TCLK reservation; a failed store leaves a snapshot
that the next store of the same generation number picks up; the acknowledgement timer repeats the first open block although the last one was
lost; a denied rejoin of a provisioned device writes a removal whose parent does not exist, which every start then fails on; and
a unicast rotation refused for an unknown role leaves its staged key behind, which every start fails on as well.

Smaller disagreements with comments came up on the way and have no run of their own. They are the reason for the
hypotheses of some properties:

* A pre-R21 commit moves the well-known key to the TCLK counter space, where it may repeat counters it used from the NWK space.
  `TclkNonceFresh` is about unique keys only.
* Each replacement key refills a budget that the exchange deadline counts once, so the deadline may fall inside a response window.
* A Transport-Key that arrives after the reservation changes the key that is verified; `commit_network` then refuses it.
* A confirmation that arrives after the Verify-Key budget was refilled is not consumed, and the key it confirmed is dropped for a replacement,
  although `steering.rs` (3051) says that a confirmed key is never removed there.
* With marginal commit words, a floor appended to the old generation after a failed store is gone when the failed record settles, and of
  two sectors with equal records the first wins, with the floors it has. `Surface` in `DurableStore` allows both; `ReservationSurvives` holds nevertheless.
* A Leave of the parent of an end device, or the frame that makes a provisional child a child, changes what the sender is between admission and
  the deferred commit, and a full table may then refuse the floor. `SettledIsRecordable` excludes these frames.
* After a rejoin to another parent `NeighborTable::parent()` may still find the former one, and a full table then refuses the current
  parent. `FirstParentAdmitted` is about devices with one Parent entry.
* A failed Trust Center rejoin installs the stored keys over the live ones and drops the floors of an unchanged previous key; `nv-storage.md` (77)
  says that floors go only with their key.
* When the key of a Trust Center rejoin cannot be stored it stays installed as the previous key of a router. Delivered again it is
  staged: its floors are no longer room for others, and a seal on it no longer counts, although `security.rs` (159) says a reclaimed source is never
  admitted again. `NoSilentReplay`, `SettledIsRecordable` and `RoomForKin` make this exception (`HeardStaging`, `StagedHasFloors`).
* A first block outside the window of an unknown session leaves an active session without a block until it expires.
* An originator that restarts reuses APS counters: its blocks may join a session, or meet a duplicate entry, from before the restart. The fragmentation
  properties except it, and duplicate entries displaced by other traffic.
* A session that expires forgets blocks it has acknowledged. If copies of the others arrive later than the receive timeout and the originator still waits, its window is
  completed and it confirms SUCCESS (`expired` in `ConfirmedIsAccepted`, section 4).
* A duplicate entry lives two acknowledgement waits (`apsDuplicateRejectionTimeout`). Copies of every block of an ASDU that arrive after it has gone
  are an ASDU of their own to the receiver, which hands it up again; `AcceptedOnce` excepts originators with a block that late (`late`).
* A transaction whose remote parent is no longer known stops the Trust Center's `poll` with an error at every step (`Orphan`).
* A second application-key request for another pair while one is pending, and a Verify-Key for a transport that failed to be staged again, are
  errors that reset the coordinator. A Verify-Key repeated right after its Confirm-Key was submitted is swallowed. A known device whose removal
  is pending can rejoin and is sent the network key.
* A broadcast rotation whose key was activated by a peer's traffic in the instant before the phase was written and a reset cut it finds no staged key at
  every start (`Wedged`).

**Bounds.** *Counters*: blocks of 2 with low water 1 and a counter space up to 6
give three consecutive blocks, so exhaustion, refresh and a restart from each block all
occur; two unique keys allow replacement and re-issue. The violation uses 14
to show that exhaustion plays no part. *Journal*: three slots of two entries and two domains
hold a record with its snapshot, an append and force a rollover; generation numbers up to 2 (the next one is refused, as at `u32::MAX`) and two
faults allow a rollover, a failed attempt, a retry and a fault in the retry. *Exchange*: two attempts per
message (the attribute asks for 3 and is clamped); the clock is armed two units before it wraps; two keys and two exchanges allow a key to be
replaced and an answer of the first exchange to reach the second. One message in flight is enough
because delivery takes any time and senders repeat. `MaxLag = 0` says that a due step is taken before the clock moves on: the
runtime advances the exchange on every tick, and answers still arrive between the expiry and the step. *Replay*: a table of two floors (three on the end device, where a frame may
carry the key that removes its own key and its floor is then recorded under a sequence no longer installed; the real tables have
64 and 16) is smaller than the number of senders times installed keys, so every admission competes; key sequences 7, 0, 1
modulo 8 wrap as 255, 0, 1 do; three keys let an update displace the previous key. A router hears one
counter value (`RouterCounter`), so that every second frame of a sender is a replay; the end device hears two, so
that floors are raised as well, by code both builds share. *Fragmentation*: an ASDU of four blocks in windows of three and one of two blocks: a full
window with a block between the first and the last, a short last window and a second transaction; two faults hit a block and its acknowledgement or two tries of one; one restart. *TrustCenter*:
two devices, each of which may be the other's parent; four commands and one fault (a failed store, a failed
transmission or a reset). *Rotation*: two peers, one sleepy child, two generated keys, so that a second rotation meets what the
first left; three faults; the forwarding window is longer than the propagation delay, as in the code.

**Deadlock** is checked for the counter, journal, replay, Trust Center and rotation models. An exchange ends and the
model of it stops after `MaxExchanges`, and the originators stop after `MaxSends`, so these configurations switch it off.

**Fairness.** *Tclk*: weak fairness of `Step` and `Tick`; the runtime's loop calls
`advance_commissioning...` on every tick and the microsecond clock is hardware. *Fragmentation*: `Tick`, the maintenance calls on both sides (`ServiceFragmentTx`,
`ExpireSessions`), and every frame in the air arrives or is lost in the end. *TrustCenter*: the event loop keeps polling and seconds keep elapsing (`clock` takes both values for ever), and the child journal
removes a local child whose removal is staged. *Rotation*: the application finishes its steps and polls again, and time passes (strong, because
a step in progress disables it). Nothing is assumed of peers, the network or the store; faults are bounded.

**Symmetry** is used over interchangeable keys, senders and domains, in runs without liveness properties.

## 4. Proofs

`CounterReservationProofs` proves, for any sets of keys, block size, low-water mark and largest counter
that satisfy the named assumptions of `CounterReservation`:

* `TypeCorrect`: `Spec => []TypeOK`; every reservation stays within the counter width.
* `NwkNonceNeverReused`: `Spec => []NwkNonceFresh`, and `NwkWriteAhead`: `Spec => []NwkReservedAhead`. Neither is inductive: a
  restart takes the durable limit as its next counter, so the live counter *and* the live limit must both be
  at or below it, also after an abandoned join or a failed commit, when the live block is exhausted or zero.
  `NwkInv` adds exactly this.
* `RecordAlwaysRestorable`: `Spec => []RecordRestorable`. A reservation writes the record that is in flash with new limits, so the
  invariant must say which record a live network, a join in progress and a reset leave there.
* `NwkLimitMonotone`: `Spec => NwkLimitNeverShrinks`, from the same invariant: `refresh_security_state` replaces
  the durable limit by a function of the live one, and needs to know they agree.
* `TclkCounterSafe`: without distributed security, `Spec => []TclkNonceFresh`. `TclkInv` says that every counter
  used with any unique key is below the durable TCLK limit, and, while the entry may send, below its next counter. The
  assumption is needed: DistributedTclk is the counterexample without it.

`NwkSecurityProofs` proves, for any sets of senders and keys, any sequence numbers, capacity and bounds, and both builds:

* `SecurityTypeCorrect`: `Spec => []TypeOK`; the lemmas before it say what each operation on the key set and the table leaves alone.
* `AdoptedKeyStored`: `Spec => []AdoptedKeyDurable`. The property is not inductive. A frame that waits for the child journal
  has its snapshot stored already, and the fence falls without another store: `KeyInv` says that the live key is then the stored one. And a
  refresh must not store a record without a key: `KeyInv` says that a node without an active key has no second key and no waiting frame,
  so that nothing can be received.

`NwkReplayProofs` builds on it and proves, again for both builds and every value of the constants:

* `NoFrameAcceptedAgain`: `Spec => []NoSilentReplay`. `ReplayInv` says that under an installed key every sender that was heard has a floor at or above its
  counters or is refused for lack of room, and that the sequences of the installed keys differ: a key that comes back under another key's sequence would find
  the wrong floors. `TableInv` says that there is one floor per domain and that every floor is of an installed key, except while a frame that
  carried the key which displaced its own still waits.
* `ParentAlwaysAdmitted`: `LeafFloors > 2 => (Spec => []FirstParentAdmitted)`; the code has 16. `NeighborInv` and `SizeInv` say who the node's relatives are and
  that the table never exceeds its capacity; then a full table holds a floor of somebody else, which can be evicted.
* `HandledFrameRecorded`: `Spec => []SettledIsRecordable`. `SettledInv` follows the room a frame found on admission through everything that may
  happen until its commit.
* `KinKeepTheirRoom`: `Spec => RoomForKin`, an action property. `RoomClaimed` turns the code's arithmetic into one set: the room beyond the reservations is the
  capacity less the slots that are claimed, those of the floors the router would not give up (`Kept`) and one for each parent and child. `RoomInv` says that while a
  newcomer's frame waits, fewer slots are claimed than there are: admission counts exactly that (`FreshRoom`), and no switched key, key command or evicted child adds a claim
  (`SameTableKept`, `RestageKept`, `PutSecondKept`, `EvictKept`). Recording the floor then adds one claim (`RecordedRoom`). A frame that stages a key which has floors may claim them, unless
  they are stale; the property excludes the case only if such a floor is left at the commit, so the invariant asks that all of them can still be given up (`StagedGivenUp`).

`TclkExchangeProofs` proves, for any number of keys, attempts and exchanges and any clock width:

* `TypeCorrect`, `CommitsOnlyConfirmed` (`CommittedKeyConfirmed`), `SlotNeverLeaks` (`SlotOwnedWhileAwaiting`) and the action property
  `NoVerifyAfterConfirm` (`AnsweredVerifyNotResent`). The invariant ties each stage to what the exchange has sent and received (`StageInv`, `Slot`), says that
  every key in the air or in the table was issued (`IssuedInv`), and orders the keys by the time they were issued (`OrderInv`): a confirmation of an earlier key
  is told from one of the present key only because keys are never issued in another order.

`ApsFragmentationProofs` proves, for any originators, sessions, sizes, window, retries and faults:

* `SuccessMeansAccepted`: `Spec => []ConfirmedIsAccepted`. The invariant says that an APS counter stands for one ASDU until its originator restarts
  (`Numbered`, `FramesOK`), that a counter has one session (`OnePerCounter`), which is complete only when its ASDU was handed up (`SessionOK`), and that each block
  the originator counts as acknowledged, or an acknowledgement in the air names inside its window, is in that session, was handed up, or
  was in a session that expired (`AckedHeld`, `AcksOK`). When all are acknowledged the session is complete. The attempt to prove the property without `expired` failed for a good reason, and TLC
  then found the counterexample (three blocks in one window): the receiver's session expires after it acknowledged blocks 0 and 2, late copies of blocks 1 and 2 open a new
  one, its acknowledgement completes the originator's window, and SUCCESS is confirmed for an ASDU that was never handed up. It takes a copy that is late by the whole
  receive timeout; the property names the exception.
* `NeverMixed`: `Spec => []AcceptedIsWhole`, from the same invariant.
* `HandedUpOnce`: `Spec => []AcceptedOnce`. The retries of a window span three waits and the duplicate entry lives two, so the entry alone does not
  give this; what does is which blocks the timer repeats. `OnceInv` follows one block of each ASDU (`KeyBlock`): block 0 of an ASDU of several windows, the last block of one
  that fits a window. No session completes without it, and once the ASDU was handed up it is never sent again: an ASDU of several windows was completed only after the originator
  left its first window (`WindowLeft`), and every acknowledgement within a single window covers the last block (`AcksCover`), so that the timer, which repeats the lowest
  open block, never reaches it (`TxShaped`). `KeyBlockSpent` and `KeyBlockGone` say that a copy in the air after the hand-up meets the duplicate entry, and that no session that is open
  then holds the block. There is no bound on faults. `late` is needed: without it and with four faults TLC delays copies of both windows past the duplicate entry and finds a second hand-up.

`NetworkKeyRotationProofs` proves, for any peers, children, update methods, window, delays and bounds:

* `TypeCorrect`, `RecordHasItsKey` (`KeyBehindRecord`), `OneKeyDistributed` (`OneKeyPerSequence`), `ActiveKeySurvives` (`ActiveIsDurable`),
  `SwitchPrecedesUse` (`SwitchedBeforeUse`), `FanoutCoversRotation` (`FanoutArmed`), `RoutersGetTheKey` (`RoutersServed`),
  and the action properties `WindowThenSwitch` (`WindowBeforeSwitch`) and `SequenceIsMonotone` (the durable generation moves forward by one at a time).
* All follow from `Invariance`: `Spec => []IInv`, a conjunction of five parts. `Core` says where each label of a step can be, which keys the two
  journals and the slots then hold, and how the record's target relates to them; no property is inductive without it, because every one speaks of
  a moment in the middle of a step. `Fanout` ties the fan-out to the durable intent. `Air` says that every transported key is the installed one of its
  generation or older, which is why taking a preparation up again cannot send another. `Served` says that the marks of delivery belong to this rotation. `Paced`
  says that the wait never runs ahead of the fan-out, although both restart: it needs the code's own relation of the two delays.
  Its only assumption on the timing is that the cool-down is not longer than the update period.

`TrustCenterDevicesProofs` proves, for any finite set of devices and any bounds:

* `DeliveryAlwaysOwned` (`DeliveryOwned`), `ReplacementsProved` (`ReplacementProved`), `ResetsKeepPolicy` (`ResetKeepsPolicy`) and
  `RecordsAlwaysValid` (`RecordAlwaysValid`), all from `Invariance`: `Spec => []IInv`.
* A handler is a function of a working record, so the argument is about working records. `Sane` says of one, whatever its outcome, that its database passes
  `validate`, the slot is owned and verified keys are proved, in the journal and in the table; `Good` adds that no record was refused and, while
  nothing failed, that table and journal agree. There is one lemma per handler: it takes a `Good` record to a `Good` one. In between the two may differ for one device (`Agreed` with an exception), as in
  `upsert`, `handle_verify_key` and the expiry of a timer; each of them ends with a store or with the entry restored.
* `DeliveryOwned` is not inductive: admitting a device again may clear its Confirm-Key intent, and only because no Confirm-Key is in the slot of
  a device that is being removed is the slot not orphaned (`Owned`). That the removal of a device implies its record (`DbOK`) is what makes a tick safe whose device expired.
* The loops of `resume_pending` and `tick` are recursive functions over the order of the devices. `EachRuns` and `TickRuns` show that they are well defined, from a
  set form of induction on numbers (`Induct`, a consequence of the library's minimum principle for well-founded relations); the
  loop invariants then follow entry by entry. The Confirm-Key loop needs that no device is listed twice.

`SecurityJournalProofs` proves, for any geometry in which one generation fits a sector, any domains, states and bounds and any number of faults:

* `JournalTyped` (`TypeOK`), `JournalWritesErased` (`WritesErasedFlash`), `JournalCachesDurable` (`CacheIsDurable`), `JournalReservationSurvives`
  (`ReservationSurvives`) and `JournalRefinesStore` (`RefinesDurableStore`), from `JournalInvariant`: `Spec => []IInv`.
* The invariant is about the newest record `N` of the flash. No slot carries a generation beyond the next one (`GenerationsBounded`), so the record a call writes is
  newer than every other. The call under way (`CallHolds`) has room for the entries left (`Room` counts them against the erased slots behind the current one), writes the next
  generation, and erases only the sector that `N` is not in. The floors of domains already written are in flash, and the floors of the others at most what it is about to make durable, so
  that its last write is the commit point and no earlier one shows. What failed attempts at the next generation left in the sector is no more than what is durable (`LeftoversBounded`), unless a commit word was in doubt.
  And an unverified record of the next generation has a reservation at least as large as any acknowledged one (`AckedHolds`): none of the properties is inductive without these.
* The scans come first. `newest` is a recursive function over the slots of a sector; `ScanRuns` shows it well defined, again from `Induct`, and the lemmas after it say
  what it returns: a record that is there (`Witnessed`) and that no other record beats (`Dominates`); that it is unchanged by writes that are no records (`NewestSame`), by a partial erase of the other
  sector (`NewestErased`; with two records of one generation the result depends on the order of the scan, so this needs that the shortened scan stays behind and catches up), that a
  record of the next generation wins (`NewestWritten`), and what a settling record can do (`NewestSettled`).
* One lemma per kind of write says what it leaves when it succeeds (`EraseWritten`, `HeaderWritten`, `EntryWritten`, `RecordWritten`) and when it does not (`EraseInterrupted` to
  `RecordInterrupted`): either the durable value is the old one (`Aborts`) or the call's (`Commits`). Both the invariant and the refinement use only these.

Each step lemma has one case per action. In `CounterReservationProofs`, `StoreOutcome` is the only fact about storage they use: after a commit
flash holds the old or the new record, and the new one if success was reported. `SecurityJournalProofs` shows that of the journal.

Only model-checked: liveness, which the prover does not support.

`TclkNonceFresh` and the monotone generation are proved and have no passing run of their own.

## 5. Plan

1. Counter reservations, with proofs. *Done.*
2. Security journal and the store it implements. *Done, with proofs; role tags and domains beyond the cache capacity are open.*
3. Unique TCLK exchange. *Done, with proofs.*
4. NWK key set and incoming replay table. *Done, with proofs; next the APS floors that are committed before delivery.*
5. APS fragmentation over a lossy, duplicating, reordering channel. *Done, with proofs; next acknowledgement, retry and duplicate rejection of unfragmented data.*
6. Trust Center: devices and network-key rotation. *Done, with proofs; next their composition with `TclkExchange` in place of its external Trust Center.*
7. NWK broadcast transactions, route discovery, indirect queue, neighbor ageing, conflicts.
8. The remaining stores as variants of the journal; OTA; ZDO slots; reporting and poll control; steering's candidate loop.

## 6. Left out, and why

MAC backends and HALs talk to radios whose behaviour is outside the repository. Cryptography is pure computation
with test vectors, abstracted to "opens under the same key". Boards, products, bootloaders and applications wire the
stack to hardware or products. Frame encodings and logging are left out everywhere. Components marked `not_modelled` with
"planned" in `PROJECT.json` are the subject of steps 7 and 8.
