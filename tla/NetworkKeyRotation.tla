------------------------- MODULE NetworkKeyRotation -------------------------
(***************************************************************************)
(* The rotation of the network key by the Trust Center: the transaction in  *)
(* the Trust Center journal (zigbee-runtime/trust_center_runtime.rs), the   *)
(* key slots of the NWK layer and their snapshot in the security journal,   *)
(* the fan-out to sleepy children (network_key_forwarding.rs) and the order *)
(* in which apps/router/app.rs drives them.                                 *)
(*                                                                          *)
(* A step of the application is cut at its durable writes and its           *)
(* transmissions; pc says where it is, and a reset may fall in between.  A  *)
(* write that fails is fatal, so it is such a reset, except in a request of *)
(* the product, which gets the error back.  Keys are numbered by the        *)
(* generation their sequence number stands for (the octet on air is its     *)
(* remainder by 256; installed keys are one apart) and by an id, which      *)
(* tells two keys of one generation apart.                                  *)
(***************************************************************************)
EXTENDS Naturals, FiniteSets

CONSTANTS
    Peers,       \* admitted devices of the Trust Center database
    Kids,        \* sleepy devices that may be children of the coordinator
    Methods,     \* values trust_center_network_key_update_method takes
    Propagation, \* NETWORK_KEY_PROPAGATION_DELAY_US in ticks
    Window,      \* network_key_forwarding_window_us in ticks
    Cooldown,    \* broadcast_delivery_time in ticks
    Period,      \* trust_center_network_key_update_period in ticks, 0: never
    MaxKeys,     \* bound: generated network keys
    MaxInputs,   \* bound: joins, leaves, announcements and child changes
    MaxFaults    \* bound: resets, failed writes and failed transmissions

ASSUME RotationAssumption ==
    /\ IsFiniteSet(Peers) /\ IsFiniteSet(Kids)
    /\ Methods \subseteq {"Broadcast", "Unicast"}
    /\ {Propagation, Window, Cooldown, Period, MaxKeys, MaxInputs, MaxFaults} \subseteq Nat
    /\ Period # 0 => Cooldown <= Period   \* seconds against minutes

VARIABLES
    tc,     \* Trust Center journal: phase, method, target, served, roles
    sec,    \* security journal: active, second, kind of second, fwd
    live,   \* key slots in RAM: active, second, kind
    fwd,    \* ParentNetworkKeyForwarding and the queued updates
    intent, \* network_key_forwarding_intent is set
    kids,   \* sleepy children in the neighbor table
    clocks, \* time since the update, since the wait began, left to cool down
    pc,     \* where the application's step is
    forced, \* the step is a request of the product
    fault,  \* the last error that was not a failed write
    made,   \* history: number of generated keys
    air,    \* history: network keys that were transported
    switched, \* history: generations named in a Switch-Key
    given,  \* history: what was unicast to each router
    late,   \* history: peers that joined or changed role since the commit
    inputs, faults

durable == <<tc, sec>>
ram     == <<live, fwd, intent, clocks, forced>>
history == <<made, air, switched, given, late>>
bounds  == <<inputs, faults>>
vars    == <<durable, ram, kids, pc, fault, history, bounds>>

Keys  == [gen : Nat, id : Nat]
NoKey == [gen |-> 0, id |-> 0]
First == [gen |-> 1, id |-> 0]
Phases == {"None", "Distributing", "WaitingForPropagation", "Switching", "Activating"}
Kinds  == {"none", "staged", "previous"}
Roles  == {"absent", "unknown", "router", "end"}
Labels == {"down", "idle", "rotate", "service", "prepared", "staged", "armed", "complete"}

\* NetworkKeyRotation with the peers it concerns; NwkSecurity's two key slots;
\* what PersistentSecurityState keeps of them; ParentNetworkKeyForwarding.
Records == [phase : Phases, method : {"Broadcast", "Unicast"}, target : Nat,
            served : SUBSET Peers, roles : [Peers -> Roles]]
Slots   == [active : Keys, second : Keys, kind : Kinds]
Snapshots == [active : Keys, second : Keys, kind : Kinds, fwd : BOOLEAN]
Fanouts == [key : Keys, age : 0..Window, queue : SUBSET (Kids \X Keys), got : SUBSET Kids]

Later(a, b) == IF a > b THEN a ELSE b
Grace == Later(Propagation, Window)
Clocks == [elapsed : 0..Period, waited : 0..Grace, cooling : 0..Cooldown]

-----------------------------------------------------------------------------
(* The key slots and the security snapshot. *)

\* stage_network_key of the next generation; activate_network_key of a staged one.
Staged(l, key) == [l EXCEPT !.second = key, !.kind = "staged"]
Activated(l) == [active |-> l.second, second |-> l.active, kind |-> "previous"]
\* The key the children are to learn: staged_key, else active_key.
Current(l) == IF l.kind = "staged" THEN l.second ELSE l.active
\* A staged key of the next generation is installed.
Prepared == live.kind = "staged" /\ live.second.gen = live.active.gen + 1

\* Mutant: the intent is dropped whenever the record's active key changes.
MutSnapshot(s, l, asked) ==
    [active |-> l.active, second |-> l.second, kind |-> l.kind,
     fwd |-> asked \/ (s.fwd /\ l.active = s.active)]
\* refresh_security_state: a forwarding intent outlives the activation of its
\* own key and nothing else.
Snapshot(s, l, asked) ==
    LET same == IF s.kind = "previous" THEN l.kind # "staged" /\ l.active = s.active
                ELSE Current(l) = s.second
    IN  [active |-> l.active, second |-> l.second, kind |-> l.kind,
         fwd |-> IF asked THEN l.kind = "staged" ELSE s.fwd /\ same /\ l.kind # "none"]

\* record_parent_network_key_snapshot.
Idle == [key |-> NoKey, age |-> 0, queue |-> {}, got |-> {}]
Armed(f, s) ==
    LET target == IF s.fwd /\ s.kind # "none"
                  THEN (IF s.kind = "previous" THEN s.active ELSE s.second) ELSE NoKey
    IN  IF target = NoKey THEN Idle
        ELSE IF f.key = target THEN f ELSE [Idle EXCEPT !.key = target]

\* A commit of the RAM state to the security journal.
Refresh(l, asked) ==
    /\ sec' = Snapshot(sec, l, asked)
    /\ fwd' = Armed(fwd, Snapshot(sec, l, asked))
    /\ intent' = FALSE

\* prune_network_key_forwarding: what may still be queued or polled.
Open(f, l) == f.key # NoKey /\ f.key = Current(l) /\ f.age < Window /\ ~intent
Pruned(f, l) == IF Open(f, l) THEN f ELSE [f EXCEPT !.queue = {}]

-----------------------------------------------------------------------------
(* The rotation transaction. *)

RouterListIncomplete == \E p \in Peers : tc.roles[p] = "unknown"
Orphaned == tc.phase = "None" /\ Prepared
Due == Period # 0 /\ tc.phase = "None" /\ clocks.elapsed >= Period /\ made < MaxKeys
HasPeers == kids # {} \/ \E p \in Peers : tc.roles[p] # "absent"
Unserved == {p \in Peers : tc.roles[p] = "router" /\ p \notin tc.served}
TargetKey == IF live.active.gen = tc.target THEN live.active ELSE live.second

\* A reset: RAM is lost (it is shown as the next restore finds it).
Installed(s) == [active |-> s.active, second |-> s.second, kind |-> s.kind]
Stopped == [elapsed |-> 0, waited |-> 0, cooling |-> 0]
Reset ==
    /\ pc' = "down"
    /\ live' = Installed(sec) /\ fwd' = Idle /\ intent' = FALSE /\ clocks' = Stopped
    /\ forced' = FALSE
    /\ UNCHANGED <<durable, kids>>
Goto(label) == pc' = label /\ fault' = "none"
Failure == faults < MaxFaults /\ faults' = faults + 1 /\ UNCHANGED inputs

\* prepare_network_key_rotation, in RAM.  A periodic update is never due while
\* the last switch cools down.
Prepare ==
    /\ IF Prepared THEN UNCHANGED <<live, made>>
       ELSE /\ made < MaxKeys /\ clocks.cooling = 0
            /\ made' = made + 1
            /\ live' = Staged(live, [gen |-> live.active.gen + 1, id |-> made + 1])
    /\ Goto("prepared")
    /\ UNCHANGED <<durable, fwd, intent, clocks, kids, air, switched, given, late, bounds>>

\* Mutant: a rotation in progress is not noticed.
MutRequest ==
    /\ pc = "idle"
    /\ forced' = TRUE
    /\ made < MaxKeys
    /\ made' = made + 1
    /\ live' = Staged(live, [gen |-> live.active.gen + 1, id |-> made + 1])
    /\ Goto("prepared")
    /\ UNCHANGED <<durable, fwd, intent, clocks, kids, air, switched, given, late, bounds>>
\* request_network_key_rotation; while the last switch cools down the product
\* gets an error and nothing happens.
Request ==
    /\ pc = "idle" /\ tc.phase = "None"
    /\ forced' = TRUE
    /\ Prepare
\* service_network_key_rotation: due, or a preparation without a record.
Begin ==
    /\ pc = "service" /\ tc.phase = "None" /\ (Due \/ Orphaned)
    /\ Prepare
    /\ UNCHANGED forced

\* Mutant: the record is written before the key it names.
MutCheckpointStaged ==
    /\ pc = "prepared"
    /\ Goto("staged")
    /\ UNCHANGED <<durable, ram, kids, history, bounds>>
\* checkpoint_security and the tombstones of the displaced key.
CheckpointStaged ==
    /\ pc = "prepared"
    /\ Refresh(live, intent)
    /\ Goto("staged")
    /\ UNCHANGED <<tc, live, clocks, forced, kids, history, bounds>>

\* begin_network_key_forwarding of a broadcast rotation.
BeginForwarding ==
    /\ pc = "staged" /\ "Broadcast" \in Methods
    /\ Refresh(live, TRUE)
    /\ Goto("armed")
    /\ UNCHANGED <<tc, live, clocks, forced, kids, history, bounds>>

\* commit_network_key_rotation.
Commit(method) ==
    /\ pc = (IF method = "Broadcast" THEN "armed" ELSE "staged")
    /\ ~(method = "Unicast" /\ RouterListIncomplete)
    /\ tc' = [tc EXCEPT !.phase = "Distributing", !.method = method, !.target = live.active.gen + 1]
    /\ clocks' = [elapsed |-> 0, waited |-> 0, cooling |-> Cooldown]
    /\ late' = {}
    /\ forced' = FALSE
    /\ Goto("idle")
    /\ UNCHANGED <<sec, live, fwd, intent, kids, made, air, switched, given, bounds>>
CommitRefused ==
    /\ pc = "staged" /\ "Unicast" \in Methods /\ RouterListIncomplete
    /\ fault' = "RouterListIncomplete"
    /\ IF forced
       THEN pc' = "idle" /\ forced' = FALSE /\ UNCHANGED <<durable, live, fwd, intent, clocks, kids>>
       ELSE Reset
    /\ UNCHANGED <<history, bounds>>

\* A write of the product's request fails: it gets the error, RAM keeps what
\* was prepared, and a forwarding intent waits for the next snapshot.
RequestFails ==
    /\ forced /\ pc \in {"prepared", "staged", "armed"}
    /\ Failure
    /\ forced' = FALSE
    /\ intent' \in {intent} \cup (IF pc = "staged" /\ "Broadcast" \in Methods THEN {TRUE} ELSE {})
    /\ Goto("idle")
    /\ UNCHANGED <<durable, live, fwd, clocks, kids, history>>

-----------------------------------------------------------------------------
(* resume_network_key_rotation. *)

SetPhase(phase) == tc' = [tc EXCEPT !.phase = phase]
\* The write after a transmission, which may be cut off by a reset.
Then(written, next) ==
    \/ written /\ Goto(next) /\ UNCHANGED <<sec, ram, kids, bounds>>
    \/ Failure /\ Reset /\ fault' = "none"
Rotating(phase) == pc = "rotate" /\ tc.phase = phase

Distribute ==
    /\ Rotating("Distributing") /\ tc.method = "Broadcast"
    /\ air' = air \cup {TargetKey}
    /\ Then(SetPhase("WaitingForPropagation"), "rotate")
    /\ UNCHANGED <<made, switched, given, late>>
DistributeTo(p) ==
    /\ Rotating("Distributing") /\ tc.method = "Unicast" /\ p \in Unserved
    /\ air' = air \cup {TargetKey}
    /\ given' = [given EXCEPT ![p] = @ \cup {TargetKey.gen}]
    /\ Then(tc' = [tc EXCEPT !.served = @ \cup {p}], "service")
    /\ UNCHANGED <<made, switched, late>>
DistributeDone ==
    /\ Rotating("Distributing") /\ tc.method = "Unicast" /\ Unserved = {}
    /\ SetPhase("WaitingForPropagation")
    /\ UNCHANGED <<sec, ram, kids, pc, fault, history, bounds>>

\* Mutant: the forwarding window is not waited for.
MutWaitOver ==
    /\ Rotating("WaitingForPropagation")
    /\ HasPeers => clocks.waited >= Propagation
    /\ SetPhase("Switching")
    /\ UNCHANGED <<sec, ram, kids, pc, fault, history, bounds>>
WaitOver ==
    /\ Rotating("WaitingForPropagation")
    /\ HasPeers => clocks.waited >= Grace
    /\ SetPhase("Switching")
    /\ UNCHANGED <<sec, ram, kids, pc, fault, history, bounds>>
WaitMore ==
    /\ Rotating("WaitingForPropagation")
    /\ HasPeers /\ clocks.waited < Grace
    /\ Goto("service")
    /\ UNCHANGED <<durable, ram, kids, history, bounds>>

Switch ==
    /\ Rotating("Switching")
    /\ switched' = switched \cup {tc.target}
    /\ Then(SetPhase("Activating"), "rotate")
    /\ UNCHANGED <<made, air, given, late>>

\* Mutant: the phase advances although the Switch-Key could not be sent.
MutDefer ==
    /\ \/ Rotating("Distributing") /\ (tc.method = "Broadcast" \/ Unserved # {}) /\ UNCHANGED tc
       \/ Rotating("Switching") /\ SetPhase("Activating")
    /\ Failure
    /\ Goto("service")
    /\ UNCHANGED <<sec, ram, kids, history>>
\* A transport error is deferred to the next poll.
Defer ==
    /\ \/ Rotating("Distributing") /\ (tc.method = "Broadcast" \/ Unserved # {})
       \/ Rotating("Switching")
    /\ Failure
    /\ Goto("service")
    /\ UNCHANGED <<durable, ram, kids, history>>
Resumed ==
    /\ pc = "rotate" /\ tc.phase \in {"None", "Activating"}
    /\ Goto("service")
    /\ UNCHANGED <<durable, ram, kids, history, bounds>>

-----------------------------------------------------------------------------
(* service_network_key_rotation. *)

\* Mutant: the switch is not checkpointed.
MutActivate ==
    /\ pc = "service" /\ tc.phase = "Activating"
    /\ live' = IF live.active.gen = tc.target THEN live ELSE Activated(live)
    /\ Goto("complete")
    /\ UNCHANGED <<durable, fwd, intent, clocks, forced, kids, history, bounds>>
\* activate_pending_network_key and the checkpoint of its result.
Activate ==
    /\ pc = "service" /\ tc.phase = "Activating"
    /\ IF live.active.gen = tc.target THEN UNCHANGED <<live, sec, fwd, intent>>
       ELSE /\ live.kind = "staged" /\ live.second.gen = tc.target
            /\ live' = Activated(live)
            /\ Refresh(Activated(live), intent)
    /\ Goto("complete")
    /\ UNCHANGED <<tc, clocks, forced, kids, history, bounds>>

\* Mutant: the routers served by this rotation stay marked.
MutComplete ==
    /\ pc = "complete"
    /\ Refresh(live, intent)
    /\ tc' = [tc EXCEPT !.phase = "None"]
    /\ clocks' = [clocks EXCEPT !.elapsed = 0]
    /\ forced' = FALSE
    /\ Goto("idle")
    /\ UNCHANGED <<live, kids, history, bounds>>
\* complete_network_key_rotation.
Complete ==
    /\ pc = "complete"
    /\ Refresh(live, intent)
    /\ tc' = [tc EXCEPT !.phase = "None", !.served = {}]
    /\ clocks' = [clocks EXCEPT !.elapsed = 0]
    /\ forced' = FALSE
    /\ Goto("idle")
    /\ UNCHANGED <<live, kids, history, bounds>>
Serviced ==
    /\ pc = "service" /\ tc.phase # "Activating" /\ ~Due /\ ~Orphaned
    /\ Goto("idle")
    /\ UNCHANGED <<durable, ram, kids, history, bounds>>

-----------------------------------------------------------------------------
(* The coordinator between two steps. *)

Input == pc = "idle" /\ inputs < MaxInputs /\ inputs' = inputs + 1 /\ UNCHANGED faults

\* The step of the core refreshes the security state; poll follows.
Poll ==
    /\ pc = "idle"
    /\ Refresh(live, intent)
    /\ Goto("rotate")
    /\ UNCHANGED <<tc, live, clocks, forced, kids, history, bounds>>

\* Mutant: one too many.
MutUp(n, bound) == IF n <= bound THEN n + 1 ELSE n
Up(n, bound) == IF n < bound THEN n + 1 ELSE n
Aged(f) == [f EXCEPT !.age = IF f.key = NoKey THEN 0 ELSE Up(f.age, Window)]
Tick ==
    /\ pc = "idle"
    /\ clocks' = [elapsed |-> IF tc.phase = "None" THEN Up(clocks.elapsed, Period) ELSE clocks.elapsed,
                  waited  |-> IF tc.phase = "WaitingForPropagation" THEN Up(clocks.waited, Grace) ELSE 0,
                  cooling |-> IF clocks.cooling = 0 THEN 0 ELSE clocks.cooling - 1]
    /\ fwd' = Pruned(Aged(fwd), live)
    /\ UNCHANGED <<durable, live, intent, forced, kids, pc, fault, history, bounds>>

\* service_network_key_forwarding queues one child.
Forward(c) ==
    /\ pc = "idle" /\ c \in kids \ fwd.got
    /\ Open(fwd, live) /\ \A q \in fwd.queue : q[1] # c
    /\ fwd' = [fwd EXCEPT !.queue = @ \cup {<<c, Current(live)>>}]
    /\ UNCHANGED <<durable, live, intent, clocks, forced, kids, pc, fault, history, bounds>>
\* The child polls: complete_child_network_key_forwarding; or its indirect
\* transaction expires.
ChildPoll(q, taken) ==
    /\ pc = "idle" /\ q \in Pruned(fwd, live).queue
    /\ fwd' = [fwd EXCEPT !.queue = @ \ {q}, !.got = IF taken THEN @ \cup {q[1]} ELSE @]
    /\ air' = IF taken THEN air \cup {q[2]} ELSE air
    /\ UNCHANGED <<durable, live, intent, clocks, forced, kids, pc, fault, made, switched, given, late, bounds>>
\* A changed child table clears the delivery bits; evict_child drops the frames
\* queued for the child.
ChildChange(c) ==
    /\ Input
    /\ kids' = IF c \in kids THEN kids \ {c} ELSE kids \cup {c}
    /\ fwd' = [fwd EXCEPT !.got = {}, !.queue = {q \in @ : q[1] # c}]
    /\ UNCHANGED <<durable, live, intent, clocks, forced, pc, fault, history>>

\* activate_received_network_key: a peer already uses the staged key.  The
\* transmit fence keeps the activation unobservable until it is committed.
ReceiveNewKey ==
    /\ pc = "idle" /\ live.kind = "staged"
    /\ live.second \in air /\ live.second.gen \in switched
    /\ live' = Activated(live)
    /\ Refresh(Activated(live), intent)
    /\ UNCHANGED <<tc, clocks, forced, kids, pc, fault, history, bounds>>

\* upsert_table_device on admission: the role is not known until the device
\* announces itself, and a mark of delivery stays.
Join(p) ==
    /\ Input
    /\ tc' = [tc EXCEPT !.roles[p] = "unknown"]
    /\ late' = late \cup {p}
    /\ UNCHANGED <<sec, ram, kids, pc, fault, made, air, switched, given>>
Leave(p) ==
    /\ Input /\ tc.roles[p] # "absent"
    /\ tc' = [tc EXCEPT !.roles[p] = "absent", !.served = @ \ {p}]
    /\ UNCHANGED <<sec, ram, kids, pc, fault, history>>
\* handle_device_announce.
Announce(p, role) ==
    /\ Input /\ tc.roles[p] \notin {"absent", role}
    /\ tc' = [tc EXCEPT !.roles[p] = role]
    /\ late' = late \cup {p}
    /\ UNCHANGED <<sec, ram, kids, pc, fault, made, air, switched, given>>

Crash ==
    /\ pc # "down"
    /\ Failure /\ Reset /\ fault' = "none"
    /\ UNCHANGED history

\* Mutant: a staged key is expected of an activation, too.
MutBoot ==
    /\ pc = "down"
    /\ live' = Installed(sec)
    /\ clocks' = [Stopped EXCEPT !.cooling = IF sec.kind = "none" THEN 0 ELSE Cooldown]
    /\ intent' = FALSE
    /\ LET broadcast == tc.method = "Broadcast" /\ tc.phase # "None"
           s == IF broadcast THEN [sec EXCEPT !.fwd = TRUE] ELSE sec
       IN  IF broadcast /\ sec.kind # "staged"
           THEN fault' = "NetworkKeyRotationNotPrepared" /\ fwd' = Idle /\ UNCHANGED <<sec, pc>>
           ELSE sec' = s /\ fwd' = Armed(Idle, s) /\ Goto("rotate")
    /\ forced' = FALSE
    /\ UNCHANGED <<tc, kids, history, bounds>>
\* The restore, and initialize_with_security_store up to the resumed rotation.
Boot ==
    /\ pc = "down"
    /\ live' = Installed(sec)
    /\ clocks' = [Stopped EXCEPT !.cooling = IF sec.kind = "none" THEN 0 ELSE Cooldown]
    /\ intent' = FALSE
    /\ LET broadcast == tc.method = "Broadcast" /\ tc.phase \notin {"None", "Activating"}
           s == IF broadcast THEN [sec EXCEPT !.fwd = TRUE] ELSE sec
       IN  IF broadcast /\ sec.kind # "staged"
           THEN fault' = "NetworkKeyRotationNotPrepared" /\ fwd' = Idle /\ UNCHANGED <<sec, pc>>
           ELSE sec' = s /\ fwd' = Armed(Idle, s) /\ Goto("rotate")
    /\ forced' = FALSE
    /\ UNCHANGED <<tc, kids, history, bounds>>

-----------------------------------------------------------------------------
\* A network at rest, with some routers in it.
Init ==
    /\ \E routers \in SUBSET Peers :
         tc = [phase |-> "None", method |-> "Broadcast", target |-> 0, served |-> {},
               roles |-> [p \in Peers |-> IF p \in routers THEN "router" ELSE "absent"]]
    /\ sec = [active |-> First, second |-> NoKey, kind |-> "none", fwd |-> FALSE]
    /\ live = [active |-> First, second |-> NoKey, kind |-> "none"]
    /\ fwd = Idle /\ intent = FALSE /\ kids = {}
    /\ clocks = Stopped
    /\ pc = "idle" /\ forced = FALSE /\ fault = "none"
    /\ made = 0 /\ air = {} /\ switched = {}
    /\ given = [p \in Peers |-> {}] /\ late = {}
    /\ inputs = 0 /\ faults = 0

\* The steps of a call in progress, with the restart after a reset.
Work ==
    \/ Begin \/ CheckpointStaged \/ BeginForwarding
    \/ \E m \in Methods : Commit(m)
    \/ CommitRefused \/ RequestFails
    \/ Distribute \/ DistributeDone \/ WaitOver \/ WaitMore \/ Switch \/ Defer \/ Resumed
    \/ \E p \in Peers : DistributeTo(p)
    \/ Activate \/ Complete \/ Serviced \/ Boot

Next ==
    \/ Work \/ Request \/ Poll \/ Tick \/ ReceiveNewKey \/ Crash
    \/ \E c \in Kids : Forward(c) \/ ChildChange(c)
    \/ \E q \in fwd.queue, taken \in BOOLEAN : ChildPoll(q, taken)
    \/ \E p \in Peers : Join(p) \/ Leave(p) \/ \E role \in {"router", "end"} : Announce(p, role)

Spec == Init /\ [][Next]_vars

\* The event loop finishes every call, polls again, and time passes.
FairSpec == Spec /\ WF_vars(Work) /\ WF_vars(Poll) /\ SF_vars(Tick)

-----------------------------------------------------------------------------
(* Properties. *)

\* The clocks and the age of the fan-out never pass the bound they are
\* compared with, and every variable keeps its shape.
TypeOK ==
    /\ tc \in Records /\ sec \in Snapshots /\ live \in Slots /\ fwd \in Fanouts
    /\ clocks \in Clocks /\ pc \in Labels
    /\ kids \subseteq Kids /\ intent \in BOOLEAN /\ forced \in BOOLEAN
    /\ air \subseteq Keys /\ switched \subseteq Nat /\ late \subseteq Peers
    /\ given \in [Peers -> SUBSET Nat]
    /\ made \in Nat /\ inputs \in Nat /\ faults \in Nat

\* The two journals agree whenever power may fail: the key of a recorded
\* rotation is in the security journal, staged as the next generation, or
\* active once Switch-Key may have been sent.
KeyBehindRecord ==
    tc.phase # "None" =>
      \/ sec.kind = "staged" /\ sec.second.gen = tc.target /\ tc.target = sec.active.gen + 1
      \/ sec.active.gen = tc.target /\ tc.phase \in {"Switching", "Activating"}

\* No generation is ever distributed with two different keys, however often
\* the preparation is cut off and taken up again: devices that were told
\* before and after a reset end up with the same key.
OneKeyPerSequence ==
    \A k1, k2 \in air : k1.gen = k2.gen => k1 = k2

\* The active key is durable before anything is sent under it, so no reset
\* takes the coordinator back to a key its peers have left.
ActiveIsDurable == live.active = sec.active

\* The coordinator uses a key only after it named it in a Switch-Key, even if
\* transmissions fail and a peer's traffic activates the key first.
SwitchedBeforeUse == live.active.gen > 1 => live.active.gen \in switched

\* During a broadcast rotation the coordinator's own sleepy children are
\* offered the key being distributed, across resets and through its activation.
FanoutArmed ==
    tc.phase # "None" /\ tc.method = "Broadcast" /\ pc # "down" =>
      fwd.key.gen = tc.target

\* A unicast rotation does not switch before every router that was admitted
\* when it was recorded was sent this very key.
RoutersServed ==
    tc.phase \in {"Switching", "Activating"} /\ tc.method = "Unicast" =>
      \A p \in Peers \ late : tc.roles[p] = "router" => tc.target \in given[p]

\* A broadcast rotation goes on to Switch-Key only when the forwarding window
\* of the coordinator's children is over, although a reset restarts both.
WindowBeforeSwitch ==
    [][tc.phase = "WaitingForPropagation" /\ tc'.phase = "Switching"
         /\ tc.method = "Broadcast" /\ kids # {} => fwd.age >= Window]_vars

\* The durable generation of the active key moves by one at a time, and only
\* forward.
SequenceAdvances == [][sec'.active.gen \in {sec.active.gen, sec.active.gen + 1}]_vars

\* A record whose key was activated by a peer's traffic before the phase was
\* written: begin_network_key_forwarding finds no staged key at every start.
Wedged ==
    /\ pc = "down" /\ tc.method = "Broadcast" /\ tc.phase \notin {"None", "Activating"}
    /\ sec.kind # "staged"

\* Every recorded rotation is completed, wherever resets cut it, unless it is
\* wedged.
RotationEnds == tc.phase # "None" ~> (tc.phase = "None" \/ Wedged)

\* docs/book/src/advanced/security.md: "A staged security key whose Trust
\* Center intent was torn is recognized and resumed".
StagedKeyResumed == sec.kind = "staged" /\ tc.phase = "None" ~> tc.phase # "None"
=============================================================================
