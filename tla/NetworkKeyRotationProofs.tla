---------------------- MODULE NetworkKeyRotationProofs ----------------------
(***************************************************************************)
(* Proofs about NetworkKeyRotation, for every set of peers and children,    *)
(* every delay and every number of keys, inputs and faults.  The inductive  *)
(* invariant relates the key slots in RAM, their snapshot, the rotation     *)
(* record and where the call in progress is; the keys on the air and the    *)
(* fan-out are then bounded by it.                                          *)
(***************************************************************************)
EXTENDS NetworkKeyRotation, TLAPS

\* The second slot is one generation ahead when staged, one behind otherwise.
Shape(s) ==
    /\ s.active.gen >= 1
    /\ s.kind = "staged" => s.second.gen = s.active.gen + 1
    /\ s.kind = "previous" => s.second.gen + 1 = s.active.gen
\* RAM runs ahead of the snapshot only with a key that was just prepared.
Installation ==
    /\ Shape(sec) /\ Shape(live)
    /\ live.active = sec.active
    /\ sec.kind = "staged" \/ tc.phase # "None" => live.second = sec.second /\ live.kind = sec.kind
\* Where the call in progress is, and what it has done by then.
Control ==
    /\ pc \in {"prepared", "staged", "armed"} => tc.phase = "None" /\ live.kind = "staged"
    /\ pc \in {"staged", "armed"} => sec.kind = "staged" /\ ~intent
    /\ pc = "armed" => sec.fwd
    /\ pc = "complete" => tc.phase = "Activating" /\ sec.active.gen = tc.target
    /\ intent => tc.phase = "None" /\ live.kind = "staged"
\* What the record says about the keys and the Switch-Key commands sent.
Record ==
    /\ tc.phase # "None" =>
         \/ sec.kind = "staged" /\ sec.second.gen = tc.target
         \/ sec.kind = "previous" /\ sec.active.gen = tc.target /\ tc.phase \in {"Switching", "Activating"}
    /\ tc.phase = "Activating" => tc.target \in switched
    /\ sec.active.gen > 1 => sec.active.gen \in switched
    /\ \A g \in switched :
         g > sec.active.gen => tc.phase \in {"Switching", "Activating"} /\ g = tc.target
Core == TypeOK /\ Installation /\ Control /\ Record

\* The key the durable intent is about.
Target(s) == IF s.kind = "previous" THEN s.active ELSE s.second
\* The fan-out runs exactly for the key of the durable intent.
Fanout ==
    /\ fwd.key # NoKey => sec.fwd /\ sec.kind # "none" /\ fwd.key = Target(sec)
    /\ \A q \in fwd.queue : q[2] = fwd.key /\ fwd.key # NoKey
    /\ pc # "down" /\ sec.fwd /\ sec.kind # "none" => fwd.key = Target(sec)
    /\ tc.phase # "None" /\ tc.method = "Broadcast" => sec.fwd
\* Every transported key is the installed one of its generation, or older.
Air ==
    /\ OneKeyPerSequence
    /\ \A k \in air :
         /\ k.gen <= sec.active.gen + 1
         /\ k.gen = sec.active.gen => k = sec.active
         /\ k.gen = sec.active.gen + 1 => sec.kind = "staged" /\ k = sec.second
\* The marks of delivery belong to this rotation.
Served ==
    /\ tc.phase = "None" => tc.served = {}
    /\ tc.phase # "None" /\ tc.method = "Unicast" =>
         \A p \in tc.served \ late : tc.target \in given[p]
    /\ tc.phase \in {"WaitingForPropagation", "Switching", "Activating"} /\ tc.method = "Unicast" =>
         \A p \in Peers \ late : tc.roles[p] = "router" => tc.target \in given[p]
\* The wait never runs ahead of the fan-out.
Paced ==
    tc.phase # "None" /\ tc.method = "Broadcast" => clocks.waited <= fwd.age \/ fwd.age >= Window

IInv == Core /\ Fanout /\ Air /\ Served /\ Paced

-----------------------------------------------------------------------------

\* What the constants are used for.
LEMMA Constants ==
    /\ Window \in Nat /\ Cooldown \in Nat /\ Period \in Nat /\ Grace \in Nat
    /\ Methods \subseteq {"Broadcast", "Unicast"}
    /\ Window <= Grace
BY RotationAssumption DEF Grace, Later

\* The values a reset leaves behind have their types.
LEMMA IdleType == Idle \in Fanouts /\ NoKey \in Keys /\ Stopped \in Clocks
BY Constants DEF Idle, NoKey, Keys, Fanouts, Clocks, Stopped

\* Staging and activating keep two slots two slots.
LEMMA SlotTypes ==
    ASSUME NEW l \in Slots
    PROVE  /\ \A k \in Keys : Staged(l, k) \in Slots
           /\ Activated(l) \in Slots
           /\ l.active \in Keys /\ l.second \in Keys /\ l.kind \in Kinds
           /\ l.active.gen \in Nat /\ l.second.gen \in Nat
           /\ Current(l) \in Keys
BY DEF Slots, Staged, Activated, Kinds, Current, Keys

\* Restored slots are the slots of the snapshot.
LEMMA InstalledType ==
    ASSUME NEW s \in Snapshots
    PROVE  /\ Installed(s) \in Slots
           /\ Installed(s).active = s.active /\ Installed(s).second = s.second /\ Installed(s).kind = s.kind
           /\ s.active \in Keys /\ s.second \in Keys /\ s.kind \in Kinds /\ s.fwd \in BOOLEAN
           /\ s.active.gen \in Nat /\ s.second.gen \in Nat
BY DEF Snapshots, Slots, Installed, Keys

\* The updates of the Trust Center record.
LEMMA RecordTypes ==
    ASSUME NEW t \in Records
    PROVE  /\ \A ph \in Phases : [t EXCEPT !.phase = ph] \in Records
           /\ [t EXCEPT !.phase = "None", !.served = {}] \in Records
           /\ \A m \in {"Broadcast", "Unicast"}, n \in Nat :
                [t EXCEPT !.phase = "Distributing", !.method = m, !.target = n] \in Records
           /\ \A p \in Peers : [t EXCEPT !.served = @ \cup {p}] \in Records
           /\ \A p \in Peers, r \in Roles : [t EXCEPT !.roles[p] = r] \in Records
           /\ \A p \in Peers : [t EXCEPT !.roles[p] = "absent", !.served = @ \ {p}] \in Records
           /\ t.target \in Nat /\ t.phase \in Phases /\ t.served \subseteq Peers
BY DEF Records, Phases, Roles

\* Arming starts a fan-out from nothing or keeps the one that runs.
LEMMA ArmedType ==
    ASSUME NEW f \in Fanouts, NEW s \in Snapshots
    PROVE  Armed(f, s) \in Fanouts
<1>1. \A k \in Keys : [Idle EXCEPT !.key = k] \in Fanouts
  BY IdleType DEF Fanouts, Idle
<1>2. QED BY <1>1, IdleType, InstalledType DEF Armed

\* A commit puts the slots it is given into the snapshot.
LEMMA RefreshEffect ==
    ASSUME TypeOK, NEW l \in Slots, NEW asked \in BOOLEAN, Refresh(l, asked)
    PROVE  /\ sec' \in Snapshots
           /\ sec'.active = l.active /\ sec'.second = l.second /\ sec'.kind = l.kind
           /\ fwd' \in Fanouts
           /\ fwd' = Armed(fwd, sec')
           /\ intent' = FALSE
<1>1. /\ Snapshot(sec, l, asked) \in Snapshots
      /\ sec'.active = l.active /\ sec'.second = l.second /\ sec'.kind = l.kind
  BY DEF Refresh, Snapshot, TypeOK, Slots, Snapshots
<1>2. QED BY <1>1, ArmedType DEF Refresh, TypeOK

\* A reset leaves in RAM what the snapshot holds.
LEMMA ResetEffect ==
    ASSUME TypeOK, Reset
    PROVE  /\ pc' = "down" /\ tc' = tc /\ sec' = sec /\ kids' = kids
           /\ live' \in Slots
           /\ live'.active = sec.active /\ live'.second = sec.second /\ live'.kind = sec.kind
           /\ fwd' = Idle /\ fwd' \in Fanouts /\ intent' = FALSE /\ forced' = FALSE
           /\ clocks' \in Clocks
           /\ clocks'.waited = 0
BY IdleType, InstalledType DEF Reset, TypeOK, durable, Stopped

\* The clocks and the fan-out at a tick, and when a child is served.
LEMMA ClockTypes ==
    ASSUME NEW c \in Clocks
    PROVE  /\ [c EXCEPT !.elapsed = 0] \in Clocks
           /\ [elapsed |-> 0, waited |-> 0, cooling |-> Cooldown] \in Clocks
           /\ [Stopped EXCEPT !.cooling = Cooldown] \in Clocks
           /\ [Stopped EXCEPT !.cooling = 0] \in Clocks
BY Constants DEF Clocks, Stopped

\* A capped counter stays within its cap.
LEMMA UpType ==
    ASSUME NEW b \in Nat, NEW n \in 0..b
    PROVE  Up(n, b) \in 0..b
BY DEF Up

LEMMA FanoutTypes ==
    ASSUME NEW f \in Fanouts
    PROVE  /\ f.key \in Keys /\ f.age \in 0..Window /\ f.queue \subseteq Kids \X Keys /\ f.got \subseteq Kids
           /\ \A n \in 0..Window : [f EXCEPT !.age = n] \in Fanouts
           /\ \A l \in Slots : Pruned(f, l) \in Fanouts
           /\ \A q \in Kids \X Keys : [f EXCEPT !.queue = @ \cup {q}] \in Fanouts
           /\ \A Q \in SUBSET (Kids \X Keys), G \in SUBSET Kids :
                [f EXCEPT !.queue = Q, !.got = G] \in Fanouts
           /\ \A Q \in SUBSET (Kids \X Keys), G \in SUBSET Kids :
                [f EXCEPT !.got = G, !.queue = Q] \in Fanouts
BY DEF Fanouts, Pruned

\* The bounds count what happens.
LEMMA BoundTypes ==
    ASSUME TypeOK
    PROVE  /\ Failure => faults' \in Nat /\ inputs' \in Nat
           /\ Input => inputs' \in Nat /\ faults' \in Nat /\ pc = "idle"
BY DEF TypeOK, Failure, Input

\* The types the invariant's arithmetic needs.
LEMMA CoreTypes ==
    ASSUME TypeOK
    PROVE  /\ live.active.gen \in Nat /\ live.second.gen \in Nat /\ live.kind \in Kinds
           /\ sec.active.gen \in Nat /\ sec.second.gen \in Nat /\ sec.kind \in Kinds
           /\ sec.fwd \in BOOLEAN
           /\ tc.target \in Nat /\ tc.phase \in Phases
           /\ live.active \in Keys /\ live.second \in Keys /\ sec.active \in Keys /\ sec.second \in Keys
BY SlotTypes, InstalledType, RecordTypes DEF TypeOK

\* What a staged, an activated and an updated record hold.
LEMMA Updates ==
    ASSUME TypeOK
    PROVE  /\ \A k \in Keys : /\ Staged(live, k).active = live.active
                              /\ Staged(live, k).second = k /\ Staged(live, k).kind = "staged"
           /\ Activated(live).active = live.second /\ Activated(live).second = live.active
           /\ Activated(live).kind = "previous"
           /\ \A ph \in Phases : /\ [tc EXCEPT !.phase = ph].phase = ph
                                 /\ [tc EXCEPT !.phase = ph].target = tc.target
                                 /\ [tc EXCEPT !.phase = ph].method = tc.method
                                 /\ [tc EXCEPT !.phase = ph].served = tc.served
                                 /\ [tc EXCEPT !.phase = ph].roles = tc.roles
BY DEF TypeOK, Slots, Staged, Activated, Records

\* When the snapshot keeps or takes on the intent to forward.
LEMMA RefreshIntent ==
    ASSUME TypeOK, NEW l \in Slots, NEW asked \in BOOLEAN, Refresh(l, asked)
    PROVE  /\ asked => (sec'.fwd <=> l.kind = "staged")
           /\ ~asked => (sec'.fwd <=> /\ sec.fwd /\ l.kind # "none"
                                      /\ sec.kind = "previous" => l.kind # "staged" /\ l.active = sec.active
                                      /\ sec.kind # "previous" => Current(l) = sec.second)
<1>1. sec'.fwd = IF asked THEN l.kind = "staged"
                 ELSE /\ sec.fwd
                      /\ IF sec.kind = "previous" THEN l.kind # "staged" /\ l.active = sec.active
                         ELSE Current(l) = sec.second
                      /\ l.kind # "none"
  BY DEF Refresh, Snapshot
<1>2. QED BY <1>1

\* The staged key of a recorded rotation becomes the active one, in RAM and in
\* the snapshot, by Switch-Key or by a peer's traffic.
LEMMA ActivationStep ==
    ASSUME Core, Refresh(Activated(live), intent), live' = Activated(live), tc' = tc, switched' = switched,
           live.kind = "staged", live.second.gen = tc.target, live.second.gen \in switched \/ tc.phase = "Activating",
           tc.phase \in {"Switching", "Activating"}, pc' \in {"idle", "complete"},
           pc' = "complete" => tc.phase = "Activating"
    PROVE  (Installation /\ Control /\ Record)'
<1>1. Activated(live) \in Slots /\ intent \in BOOLEAN BY SlotTypes DEF Core, TypeOK
<1>2. /\ sec'.active = live.second /\ sec'.second = live.active /\ sec'.kind = "previous"
      /\ live'.active = live.second /\ live'.second = live.active /\ live'.kind = "previous"
      /\ intent' = FALSE
  BY <1>1, RefreshEffect, Updates DEF Core
<1>3. live.second.gen = sec.active.gen + 1 /\ live.active.gen = sec.active.gen /\ sec.active.gen >= 1
  BY DEF Core, Installation, Shape
<1>4. sec.active.gen \in Nat /\ tc.target \in Nat BY CoreTypes DEF Core
<1>5. Shape(sec)' /\ Shape(live)'
  BY <1>2, <1>3, <1>4 DEF Shape
<1>6. Installation' BY <1>2, <1>5 DEF Installation
<1>7. Control' BY <1>2 DEF Control
<1>8. tc.target \in switched BY DEF Core, Record
<1>9. \A g \in switched : g <= tc.target
  BY <1>3, <1>4 DEF Core, Record, TypeOK
<1>10. Record' BY <1>2, <1>3, <1>4, <1>8, <1>9 DEF Record, Core, TypeOK
<1>11. QED BY <1>6, <1>7, <1>10

\* Every action keeps the type invariant.
LEMMA TypeStep ==
    ASSUME Core, Next
    PROVE  TypeOK'
<1>1. CASE Begin
  BY <1>1, SlotTypes DEF Core, TypeOK, durable, ram, history, bounds, Begin, Prepare, Goto, Keys, Labels
<1>2. CASE Request
  BY <1>2, SlotTypes DEF Core, TypeOK, durable, ram, history, bounds, Request, Prepare, Goto, Keys, Labels
<1>3. CASE CheckpointStaged
  BY <1>3, RefreshEffect DEF Core, TypeOK, durable, ram, history, bounds, CheckpointStaged, Goto, Labels
<1>4. CASE BeginForwarding
  BY <1>4, RefreshEffect DEF Core, TypeOK, durable, ram, history, bounds, BeginForwarding, Goto, Labels
<1>5. ASSUME NEW m \in Methods, Commit(m) PROVE TypeOK'
  <2>a. m \in {"Broadcast", "Unicast"} BY Constants
  <2>b. live.active.gen + 1 \in Nat BY SlotTypes DEF Core, TypeOK
  <2>1. tc' \in Records
    BY <1>5, <2>a, <2>b, RecordTypes DEF Commit, Core, TypeOK
  <2>2. clocks' \in Clocks
    BY <1>5, ClockTypes DEF Commit, Core, TypeOK
  <2>3. QED BY <1>5, <2>1, <2>2 DEF Core, TypeOK, durable, ram, history, bounds, Commit, Goto, Labels
<1>6. CASE CommitRefused
  BY <1>6, ResetEffect DEF Core, TypeOK, durable, ram, history, bounds, CommitRefused, Labels
<1>7. CASE RequestFails
  BY <1>7, BoundTypes DEF Core, TypeOK, durable, ram, history, bounds, RequestFails, Goto, Failure, Labels
<1>8. CASE Distribute
  <2>1. CASE Failure /\ Reset /\ fault' = "none"
    BY <1>8, <2>1, ResetEffect, BoundTypes, RecordTypes, SlotTypes DEF Core, TypeOK, durable, ram, history, bounds, Distribute, TargetKey, Labels
  <2>2. CASE ~(Failure /\ Reset /\ fault' = "none")
    BY <1>8, <2>2, RecordTypes, SlotTypes DEF Core, TypeOK, durable, ram, history, bounds, Distribute, TargetKey, Then, Rotating, SetPhase, Goto, Phases, Labels
  <2>3. QED BY <2>1, <2>2
<1>9. ASSUME NEW p \in Peers, DistributeTo(p) PROVE TypeOK'
  <2>1. CASE Failure /\ Reset /\ fault' = "none"
    BY <1>9, <2>1, ResetEffect, BoundTypes, RecordTypes, SlotTypes DEF Core, TypeOK, durable, ram, history, bounds, DistributeTo, TargetKey, Labels
  <2>2. CASE ~(Failure /\ Reset /\ fault' = "none")
    BY <1>9, <2>2, RecordTypes, SlotTypes DEF Core, TypeOK, durable, ram, history, bounds, DistributeTo, TargetKey, Then, Rotating, SetPhase, Goto, Phases, Labels
  <2>3. QED BY <2>1, <2>2
<1>10. CASE DistributeDone
  BY <1>10, RecordTypes DEF Core, TypeOK, durable, ram, history, bounds, DistributeDone, Rotating, SetPhase, Unserved, Phases
<1>11. CASE WaitOver
  BY <1>11, RecordTypes DEF Core, TypeOK, durable, ram, history, bounds, WaitOver, Rotating, SetPhase, Phases
<1>12. CASE WaitMore
  BY <1>12 DEF Core, TypeOK, durable, ram, history, bounds, WaitMore, Rotating, Goto, Labels
<1>13. CASE Switch
  <2>1. CASE Failure /\ Reset /\ fault' = "none"
    BY <1>13, <2>1, ResetEffect, BoundTypes, RecordTypes DEF Core, TypeOK, durable, ram, history, bounds, Switch, Labels
  <2>2. CASE ~(Failure /\ Reset /\ fault' = "none")
    BY <1>13, <2>2, RecordTypes DEF Core, TypeOK, durable, ram, history, bounds, Switch, Then, Rotating, SetPhase, Goto, Phases, Labels
  <2>3. QED BY <2>1, <2>2
<1>14. CASE Defer
  BY <1>14, BoundTypes DEF Core, TypeOK, durable, ram, history, bounds, Defer, Rotating, Goto, Failure, Labels
<1>15. CASE Resumed
  BY <1>15 DEF Core, TypeOK, durable, ram, history, bounds, Resumed, Goto, Labels
<1>16. CASE Activate
  BY <1>16, RefreshEffect, SlotTypes DEF Core, TypeOK, durable, ram, history, bounds, Activate, Goto, Labels
<1>17. CASE Complete
  BY <1>17, RefreshEffect, RecordTypes, ClockTypes DEF Core, TypeOK, durable, ram, history, bounds, Complete, Goto, Labels
<1>18. CASE Serviced
  BY <1>18 DEF Core, TypeOK, durable, ram, history, bounds, Serviced, Goto, Labels
<1>19. CASE Poll
  BY <1>19, RefreshEffect DEF Core, TypeOK, durable, ram, history, bounds, Poll, Goto, Labels
<1>20. CASE Tick
  <2>a. clocks \in Clocks /\ live \in Slots /\ fwd \in Fanouts BY DEF Core, TypeOK
  <2>b. clocks.elapsed \in 0..Period /\ clocks.waited \in 0..Grace /\ clocks.cooling \in 0..Cooldown
    BY <2>a DEF Clocks
  <2>c. /\ Up(clocks.elapsed, Period) \in 0..Period
        /\ Up(clocks.waited, Grace) \in 0..Grace /\ 0 \in 0..Grace
    BY <2>b, Constants, UpType
  <2>d. (IF clocks.cooling = 0 THEN 0 ELSE clocks.cooling - 1) \in 0..Cooldown
    BY <2>b, Constants
  <2>1. clocks' \in Clocks
    BY <1>20, <2>b, <2>c, <2>d DEF Tick, Clocks
  <2>e. fwd.age \in 0..Window BY <2>a, FanoutTypes
  <2>f. Up(fwd.age, Window) \in 0..Window /\ 0 \in 0..Window
    BY <2>e, Constants, UpType
  <2>g. (IF fwd.key = NoKey THEN 0 ELSE Up(fwd.age, Window)) \in 0..Window BY <2>f
  <2>h. Aged(fwd) \in Fanouts
    BY <2>a, <2>g DEF Fanouts, Aged
  <2>2. fwd' \in Fanouts
    BY <1>20, <2>a, <2>h, FanoutTypes DEF Tick
  <2>3. QED BY <1>20, <2>1, <2>2 DEF Core, TypeOK, durable, ram, history, bounds, Tick
<1>21. CASE ReceiveNewKey
  BY <1>21, RefreshEffect, SlotTypes DEF Core, TypeOK, durable, ram, history, bounds, ReceiveNewKey, Labels
<1>22. CASE Crash
  BY <1>22, ResetEffect, BoundTypes DEF Core, TypeOK, durable, ram, history, bounds, Crash, Labels
<1>23. CASE Boot
  <2>1. clocks' \in Clocks
    BY <1>23, ClockTypes DEF Boot, Core, TypeOK
  <2>2. /\ [sec EXCEPT !.fwd = TRUE] \in Snapshots
        /\ Idle \in Fanouts
    BY IdleType DEF Core, TypeOK, Snapshots
  <2>3. sec' \in Snapshots /\ fwd' \in Fanouts /\ pc' \in Labels
    BY <1>23, <2>2, ArmedType DEF Boot, Goto, Core, TypeOK, Labels
  <2>4. QED BY <1>23, <2>1, <2>3, InstalledType DEF Core, TypeOK, durable, ram, history, bounds, Boot
<1>24. ASSUME NEW c \in Kids, Forward(c) PROVE TypeOK'
  BY <1>24, FanoutTypes, SlotTypes DEF Core, TypeOK, durable, ram, history, bounds, Forward
<1>25. ASSUME NEW c \in Kids, ChildChange(c) PROVE TypeOK'
  BY <1>25, FanoutTypes, BoundTypes DEF Core, TypeOK, durable, ram, history, bounds, ChildChange, Input
<1>26. ASSUME NEW q \in fwd.queue, NEW taken \in BOOLEAN, ChildPoll(q, taken) PROVE TypeOK'
  BY <1>26, FanoutTypes DEF Core, TypeOK, durable, ram, history, bounds, ChildPoll, Pruned
<1>27. ASSUME NEW p \in Peers, Join(p) PROVE TypeOK'
  BY <1>27, RecordTypes, BoundTypes DEF Core, TypeOK, durable, ram, history, bounds, Join, Input, Roles
<1>28. ASSUME NEW p \in Peers, Leave(p) PROVE TypeOK'
  BY <1>28, RecordTypes, BoundTypes DEF Core, TypeOK, durable, ram, history, bounds, Leave, Input
<1>29. ASSUME NEW p \in Peers, NEW role \in {"router", "end"}, Announce(p, role) PROVE TypeOK'
  BY <1>29, RecordTypes, BoundTypes DEF Core, TypeOK, durable, ram, history, bounds, Announce, Input, Roles
<1> QED BY <1>1, <1>2, <1>3, <1>4, <1>5, <1>6, <1>7, <1>8, <1>9, <1>10, <1>11, <1>12, <1>13, <1>14, <1>15, <1>16, <1>17, <1>18, <1>19, <1>20, <1>21, <1>22, <1>23, <1>24, <1>25, <1>26, <1>27, <1>28, <1>29 DEF Next, Work

\* Every action keeps the keys, the record and the control in step.
LEMMA ControlStep ==
    ASSUME Core, Next
    PROVE  (Installation /\ Control /\ Record)'
<1>1. CASE Begin
  BY <1>1, CoreTypes, Updates DEF Core, Installation, Control, Record, Shape, durable, ram, history, bounds, Begin, Prepare, Goto, Keys, Prepared, TypeOK
<1>2. CASE Request
  BY <1>2, CoreTypes, Updates DEF Core, Installation, Control, Record, Shape, durable, ram, history, bounds, Request, Prepare, Goto, Keys, Prepared, TypeOK
<1>3. CASE CheckpointStaged
  <2>1. live \in Slots /\ intent \in BOOLEAN BY SlotTypes DEF Core, TypeOK
  <2>2. Refresh(live, intent) BY <1>3 DEF CheckpointStaged
  <2>3. /\ sec'.active = live.active /\ sec'.second = live.second /\ sec'.kind = live.kind
        /\ intent' = FALSE
    BY <2>1, <2>2, RefreshEffect DEF Core
  <2>5. QED BY <1>3, <2>3, CoreTypes, Updates DEF Core, Installation, Control, Record, Shape, durable, ram, history, bounds, CheckpointStaged, Goto
<1>4. CASE BeginForwarding
  <2>1. live \in Slots /\ intent \in BOOLEAN BY SlotTypes DEF Core, TypeOK
  <2>2. Refresh(live, TRUE) BY <1>4 DEF BeginForwarding
  <2>3. /\ sec'.active = live.active /\ sec'.second = live.second /\ sec'.kind = live.kind
        /\ intent' = FALSE
    BY <2>1, <2>2, RefreshEffect DEF Core
  <2>4. sec'.fwd
    BY <1>4, <2>1, <2>2, RefreshIntent DEF Core, Control, BeginForwarding
  <2>5. QED BY <1>4, <2>3, CoreTypes, Updates, <2>4 DEF Core, Installation, Control, Record, Shape, durable, ram, history, bounds, BeginForwarding, Goto
<1>5. ASSUME NEW m \in Methods, Commit(m) PROVE (Installation /\ Control /\ Record)'
  BY <1>5, CoreTypes, Constants DEF Core, Installation, Control, Record, Shape, durable, ram, history, bounds, Commit, Goto, TypeOK, Records
<1>6. CASE CommitRefused
  BY <1>6, ResetEffect, CoreTypes DEF Core, Installation, Control, Record, Shape, durable, ram, history, bounds, CommitRefused
<1>7. CASE RequestFails
  BY <1>7, CoreTypes DEF Core, Installation, Control, Record, Shape, durable, ram, history, bounds, RequestFails, Goto, Failure
<1>8. CASE Distribute
  <2>1. CASE Failure /\ Reset /\ fault' = "none"
    <3>1. /\ sec' = sec /\ tc' = tc /\ pc' = "down" /\ intent' = FALSE
          /\ live'.active = sec.active /\ live'.second = sec.second /\ live'.kind = sec.kind
      BY <2>1, ResetEffect DEF Core
    <3>2. QED BY <1>8, <3>1, CoreTypes DEF Core, Installation, Control, Record, Shape, durable, ram, history, bounds, Distribute, Rotating
  <2>2. CASE ~(Failure /\ Reset /\ fault' = "none")
    <3>1. /\ tc'.phase = "WaitingForPropagation" /\ tc'.target = tc.target /\ tc'.method = tc.method
          /\ sec' = sec /\ live' = live /\ intent' = intent /\ pc' = "rotate"
      BY <1>8, <2>2, Updates DEF Core, Distribute, Then, SetPhase, Goto, Phases, ram
    <3>2. QED BY <1>8, <3>1, CoreTypes DEF Core, Installation, Control, Record, Shape, durable, ram, history, bounds, Distribute, Rotating
  <2>3. QED BY <2>1, <2>2
<1>9. ASSUME NEW p \in Peers, DistributeTo(p) PROVE (Installation /\ Control /\ Record)'
  <2>1. CASE Failure /\ Reset /\ fault' = "none"
    <3>1. /\ sec' = sec /\ tc' = tc /\ pc' = "down" /\ intent' = FALSE
          /\ live'.active = sec.active /\ live'.second = sec.second /\ live'.kind = sec.kind
      BY <2>1, ResetEffect DEF Core
    <3>2. QED BY <1>9, <3>1, CoreTypes DEF Core, Installation, Control, Record, Shape, durable, ram, history, bounds, DistributeTo, Rotating
  <2>2. CASE ~(Failure /\ Reset /\ fault' = "none")
    <3>1. /\ tc'.phase = tc.phase /\ tc'.target = tc.target /\ tc'.method = tc.method
          /\ sec' = sec /\ live' = live /\ intent' = intent /\ pc' = "service"
      BY <1>9, <2>2, Updates DEF Core, DistributeTo, Then, SetPhase, Goto, Phases, ram, TypeOK, Records
    <3>2. QED BY <1>9, <3>1, CoreTypes DEF Core, Installation, Control, Record, Shape, durable, ram, history, bounds, DistributeTo, Rotating
  <2>3. QED BY <2>1, <2>2
<1>10. CASE DistributeDone
  BY <1>10, CoreTypes, Updates DEF Core, Installation, Control, Record, Shape, durable, ram, history, bounds, DistributeDone, Rotating, SetPhase, Unserved, Phases
<1>11. CASE WaitOver
  BY <1>11, CoreTypes, Updates DEF Core, Installation, Control, Record, Shape, durable, ram, history, bounds, WaitOver, Rotating, SetPhase, Phases
<1>12. CASE WaitMore
  BY <1>12, CoreTypes DEF Core, Installation, Control, Record, Shape, durable, ram, history, bounds, WaitMore, Rotating, Goto
<1>13. CASE Switch
  <2>1. CASE Failure /\ Reset /\ fault' = "none"
    <3>1. /\ sec' = sec /\ tc' = tc /\ pc' = "down" /\ intent' = FALSE
          /\ live'.active = sec.active /\ live'.second = sec.second /\ live'.kind = sec.kind
      BY <2>1, ResetEffect DEF Core
    <3>2. QED BY <1>13, <3>1, CoreTypes DEF Core, Installation, Control, Record, Shape, durable, ram, history, bounds, Switch, Rotating
  <2>2. CASE ~(Failure /\ Reset /\ fault' = "none")
    <3>1. /\ tc'.phase = "Activating" /\ tc'.target = tc.target /\ tc'.method = tc.method
          /\ sec' = sec /\ live' = live /\ intent' = intent /\ pc' = "rotate"
      BY <1>13, <2>2, Updates DEF Core, Switch, Then, SetPhase, Goto, Phases, ram
    <3>2. QED BY <1>13, <3>1, CoreTypes DEF Core, Installation, Control, Record, Shape, durable, ram, history, bounds, Switch, Rotating
  <2>3. QED BY <2>1, <2>2
<1>14. CASE Defer
  BY <1>14, CoreTypes DEF Core, Installation, Control, Record, Shape, durable, ram, history, bounds, Defer, Rotating, Goto, Failure
<1>15. CASE Resumed
  BY <1>15, CoreTypes DEF Core, Installation, Control, Record, Shape, durable, ram, history, bounds, Resumed, Goto
<1>16. CASE Activate
  <2>1. CASE live.active.gen = tc.target
    BY <1>16, <2>1, CoreTypes DEF Core, Installation, Control, Record, Shape, durable, ram, history, bounds, Activate, Goto
  <2>2. CASE live.active.gen # tc.target
    <3>1. /\ Refresh(Activated(live), intent) /\ live' = Activated(live) /\ tc' = tc
          /\ switched' = switched /\ pc' = "complete" /\ live.kind = "staged" /\ live.second.gen = tc.target
          /\ tc.phase = "Activating"
      BY <1>16, <2>2 DEF Activate, Goto, history
    <3>2. QED BY <3>1, ActivationStep
  <2>3. QED BY <2>1, <2>2
<1>17. CASE Complete
  <2>1. live \in Slots /\ intent \in BOOLEAN BY SlotTypes DEF Core, TypeOK
  <2>2. Refresh(live, intent) BY <1>17 DEF Complete
  <2>3. /\ sec'.active = live.active /\ sec'.second = live.second /\ sec'.kind = live.kind
        /\ intent' = FALSE
    BY <2>1, <2>2, RefreshEffect DEF Core
  <2>4. tc'.phase = "None"
    BY <1>17 DEF Complete, Core, TypeOK, Records
  <2>5. QED BY <1>17, <2>3, CoreTypes, Updates, <2>4 DEF Core, Installation, Control, Record, Shape, durable, ram, history, bounds, Complete, Goto
<1>18. CASE Serviced
  BY <1>18, CoreTypes DEF Core, Installation, Control, Record, Shape, durable, ram, history, bounds, Serviced, Goto
<1>19. CASE Poll
  <2>1. live \in Slots /\ intent \in BOOLEAN BY SlotTypes DEF Core, TypeOK
  <2>2. Refresh(live, intent) BY <1>19 DEF Poll
  <2>3. /\ sec'.active = live.active /\ sec'.second = live.second /\ sec'.kind = live.kind
        /\ intent' = FALSE
    BY <2>1, <2>2, RefreshEffect DEF Core
  <2>5. QED BY <1>19, <2>3, CoreTypes, Updates DEF Core, Installation, Control, Record, Shape, durable, ram, history, bounds, Poll, Goto
<1>20. CASE Tick
  BY <1>20 DEF Core, Installation, Control, Record, Shape, durable, ram, history, bounds, Tick
<1>21. CASE ReceiveNewKey
  <2>1. /\ Refresh(Activated(live), intent) /\ live' = Activated(live) /\ tc' = tc
        /\ switched' = switched /\ pc' = "idle" /\ live.kind = "staged" /\ live.second.gen \in switched
    BY <1>21 DEF ReceiveNewKey, history
  <2>2. live.second.gen > sec.active.gen
    BY <2>1, CoreTypes DEF Core, Installation, Shape
  <2>3. tc.phase \in {"Switching", "Activating"} /\ live.second.gen = tc.target
    BY <2>1, <2>2 DEF Core, Record
  <2>4. QED BY <2>1, <2>3, ActivationStep
<1>22. CASE Crash
  BY <1>22, ResetEffect, CoreTypes DEF Core, Installation, Control, Record, Shape, durable, ram, history, bounds, Crash
<1>23. CASE Boot
  BY <1>23, InstalledType, CoreTypes DEF Core, Installation, Control, Record, Shape, durable, ram, history, bounds, Boot, Goto, TypeOK, Snapshots
<1>24. ASSUME NEW c \in Kids, Forward(c) PROVE (Installation /\ Control /\ Record)'
  BY <1>24 DEF Core, Installation, Control, Record, Shape, durable, ram, history, bounds, Forward
<1>25. ASSUME NEW c \in Kids, ChildChange(c) PROVE (Installation /\ Control /\ Record)'
  BY <1>25 DEF Core, Installation, Control, Record, Shape, durable, ram, history, bounds, ChildChange, Input
<1>26. ASSUME NEW q \in fwd.queue, NEW taken \in BOOLEAN, ChildPoll(q, taken) PROVE (Installation /\ Control /\ Record)'
  BY <1>26 DEF Core, Installation, Control, Record, Shape, durable, ram, history, bounds, ChildPoll, Pruned
<1>27. ASSUME NEW p \in Peers, Join(p) PROVE (Installation /\ Control /\ Record)'
  BY <1>27 DEF Core, Installation, Control, Record, Shape, durable, ram, history, bounds, Join, Input, TypeOK, Records
<1>28. ASSUME NEW p \in Peers, Leave(p) PROVE (Installation /\ Control /\ Record)'
  BY <1>28 DEF Core, Installation, Control, Record, Shape, durable, ram, history, bounds, Leave, Input, TypeOK, Records
<1>29. ASSUME NEW p \in Peers, NEW role \in {"router", "end"}, Announce(p, role) PROVE (Installation /\ Control /\ Record)'
  BY <1>29 DEF Core, Installation, Control, Record, Shape, durable, ram, history, bounds, Announce, Input, TypeOK, Records
<1> QED BY <1>1, <1>2, <1>3, <1>4, <1>5, <1>6, <1>7, <1>8, <1>9, <1>10, <1>11, <1>12, <1>13, <1>14, <1>15, <1>16, <1>17, <1>18, <1>19, <1>20, <1>21, <1>22, <1>23, <1>24, <1>25, <1>26, <1>27, <1>28, <1>29 DEF Next, Work

-----------------------------------------------------------------------------
(* The fan-out. *)

\* The intent of a well-formed snapshot names a key.
LEMMA TargetIsKey ==
    ASSUME NEW s \in Snapshots, Shape(s), s.kind # "none"
    PROVE  Target(s) # NoKey
<1>1. s.kind \in {"staged", "previous"} /\ s.active.gen \in Nat BY InstalledType DEF Kinds
<1>2. s.active.gen # 0 /\ (s.kind = "staged" => s.second.gen # 0) BY <1>1 DEF Shape
<1>3. QED BY <1>1, <1>2 DEF Target, NoKey

\* The fan-out follows the snapshot it is armed from, and one that already
\* runs for the key is not started again.
LEMMA ArmedEffect ==
    ASSUME NEW f \in Fanouts, NEW s \in Snapshots, Shape(s)
    PROVE  /\ s.fwd /\ s.kind # "none" =>
                /\ Armed(f, s).key = Target(s)
                /\ f.key = Target(s) => Armed(f, s) = f
                /\ f.key # Target(s) => Armed(f, s).queue = {}
           /\ ~(s.fwd /\ s.kind # "none") => Armed(f, s) = Idle
<1>1. CASE s.fwd /\ s.kind # "none"
  <2>1. Target(s) # NoKey BY <1>1, TargetIsKey
  <2>2. Armed(f, s) = IF f.key = Target(s) THEN f ELSE [Idle EXCEPT !.key = Target(s)]
    BY <1>1, <2>1 DEF Armed, Target
  <2>3. [Idle EXCEPT !.key = Target(s)].key = Target(s) /\ [Idle EXCEPT !.key = Target(s)].queue = {}
    BY DEF Idle
  <2>4. QED BY <1>1, <2>2, <2>3
<1>2. CASE ~(s.fwd /\ s.kind # "none")
  BY <1>2 DEF Armed
<1>3. QED BY <1>1, <1>2

\* What a commit leaves of the fan-out.
LEMMA RefreshFanout ==
    ASSUME Core, Fanout, NEW l \in Slots, NEW asked \in BOOLEAN, Refresh(l, asked), Shape(l)
    PROVE  /\ fwd'.key # NoKey => sec'.fwd /\ sec'.kind # "none" /\ fwd'.key = Target(sec')
           /\ \A q \in fwd'.queue : q[2] = fwd'.key /\ fwd'.key # NoKey
           /\ sec'.fwd /\ sec'.kind # "none" => fwd'.key = Target(sec')
           /\ fwd.key = Target(sec') /\ sec'.fwd /\ sec'.kind # "none" => fwd' = fwd
<1>1. sec' \in Snapshots /\ fwd' = Armed(fwd, sec') /\ fwd \in Fanouts
  BY RefreshEffect DEF Core, TypeOK
<1>2. Shape(sec') BY RefreshEffect DEF Shape, Core
<1>3. CASE sec'.fwd /\ sec'.kind # "none"
  <2>1. fwd'.key = Target(sec') BY <1>1, <1>2, <1>3, ArmedEffect
  <2>2. Target(sec') # NoKey BY <1>1, <1>2, <1>3, TargetIsKey
  <2>3. fwd.key = Target(sec') => fwd' = fwd BY <1>1, <1>2, <1>3, ArmedEffect
  <2>4. fwd.key # Target(sec') => fwd'.queue = {} BY <1>1, <1>2, <1>3, ArmedEffect
  <2>5. \A q \in fwd'.queue : q[2] = fwd'.key /\ fwd'.key # NoKey
    BY <2>1, <2>2, <2>3, <2>4 DEF Fanout
  <2>6. QED BY <1>3, <2>1, <2>2, <2>3, <2>5
<1>4. CASE ~(sec'.fwd /\ sec'.kind # "none")
  <2>1. fwd' = Idle BY <1>1, <1>2, <1>4, ArmedEffect
  <2>2. fwd'.key = NoKey /\ fwd'.queue = {} BY <2>1 DEF Idle
  <2>3. QED BY <1>4, <2>2
<1>5. QED BY <1>3, <1>4

\* Committing the slots in RAM, or their activation, keeps the intent of a
\* recorded broadcast rotation.
LEMMA IntentKept ==
    ASSUME Core, Fanout, tc.phase # "None", tc.method = "Broadcast",
           NEW l \in Slots, Refresh(l, intent), l = live \/ (l = Activated(live) /\ live.kind = "staged")
    PROVE  sec'.fwd /\ sec'.kind # "none" /\ Target(sec') = Target(sec)
<1>1. /\ intent = FALSE /\ intent \in BOOLEAN /\ sec.fwd
      /\ live.second = sec.second /\ live.kind = sec.kind /\ live.active = sec.active
      /\ sec.kind \in {"staged", "previous"}
  BY DEF Core, TypeOK, Control, Installation, Record, Fanout
<1>2. /\ sec'.active = l.active /\ sec'.second = l.second /\ sec'.kind = l.kind
  BY <1>1, RefreshEffect DEF Core
<1>3. CASE l = live
  <2>1. Current(l) = IF live.kind = "staged" THEN live.second ELSE live.active BY <1>3 DEF Current
  <2>2. sec'.fwd BY <1>1, <1>3, <2>1, RefreshIntent DEF Core
  <2>3. QED BY <1>1, <1>2, <1>3, <2>2 DEF Target
<1>4. CASE l = Activated(live) /\ live.kind = "staged"
  <2>1. l.active = live.second /\ l.second = live.active /\ l.kind = "previous" BY <1>4, Updates DEF Core
  <2>2. Current(l) = live.second BY <2>1 DEF Current
  <2>3. sec'.fwd BY <1>1, <1>4, <2>1, <2>2, RefreshIntent DEF Core
  <2>4. QED BY <1>1, <1>2, <1>4, <2>1, <2>3 DEF Target
<1>5. QED BY <1>3, <1>4

\* The activation leaves the fan-out of the activated key running.
LEMMA ActivationFanout ==
    ASSUME Core, Fanout, Refresh(Activated(live), intent), tc' = tc, live.kind = "staged"
    PROVE  Fanout'
<1>1. Activated(live) \in Slots /\ intent \in BOOLEAN BY SlotTypes DEF Core, TypeOK
<1>2. live.second.gen = live.active.gen + 1 /\ live.active.gen >= 1 /\ live.active.gen \in Nat
  BY CoreTypes DEF Core, Installation, Shape
<1>3. Shape(Activated(live)) BY <1>2, Updates DEF Shape, Core
<1>4. tc'.phase # "None" /\ tc'.method = "Broadcast" => sec'.fwd
  BY <1>1, IntentKept
<1>5. QED BY <1>1, <1>3, <1>4, RefreshFanout DEF Fanout


\* Every action keeps the fan-out tied to the durable intent.
LEMMA FanoutStep ==
    ASSUME Core, Fanout, Next
    PROVE  Fanout'
<1>1. CASE Begin
  BY <1>1 DEF Fanout, Target, durable, ram, history, bounds, Begin, Prepare, Goto, Core, Control
<1>2. CASE Request
  BY <1>2 DEF Fanout, Target, durable, ram, history, bounds, Request, Prepare, Goto, Core, Control
<1>3. CASE CheckpointStaged
  <2>1. live \in Slots /\ intent \in BOOLEAN /\ Shape(live) BY DEF Core, TypeOK, Installation
  <2>2. Refresh(live, intent) BY <1>3 DEF CheckpointStaged
  <2>3. tc'.phase # "None" /\ tc'.method = "Broadcast" => sec'.fwd
    BY <1>3 DEF CheckpointStaged, Core, Control
  <2>4. QED BY <2>1, <2>2, <2>3, RefreshFanout DEF Fanout
<1>4. CASE BeginForwarding
  <2>1. live \in Slots /\ intent \in BOOLEAN /\ Shape(live) BY DEF Core, TypeOK, Installation
  <2>2. Refresh(live, TRUE) BY <1>4 DEF BeginForwarding
  <2>3. tc'.phase # "None" /\ tc'.method = "Broadcast" => sec'.fwd
    BY <1>4 DEF BeginForwarding, Core, Control
  <2>4. QED BY <2>1, <2>2, <2>3, RefreshFanout DEF Fanout
<1>5. ASSUME NEW m \in Methods, Commit(m) PROVE Fanout'
  BY <1>5 DEF Fanout, Target, durable, ram, history, bounds, Commit, Goto, Core, Control, TypeOK, Records
<1>6. CASE CommitRefused
  <2>1. CASE Reset
    <3>1. sec' = sec /\ tc' = tc /\ pc' = "down" /\ fwd' = Idle
      BY <2>1, ResetEffect DEF Core
    <3>2. fwd'.key = NoKey /\ fwd'.queue = {} BY <3>1 DEF Idle
    <3>3. QED BY <3>1, <3>2 DEF Fanout, Target
  <2>2. CASE ~Reset
    BY <1>6, <2>2 DEF CommitRefused, Fanout, Target, durable
  <2>3. QED BY <2>1, <2>2
<1>7. CASE RequestFails
  BY <1>7 DEF Fanout, Target, durable, ram, history, bounds, RequestFails, Goto, Failure
<1>8. CASE Distribute
  <2>1. CASE Failure /\ Reset /\ fault' = "none"
    <3>1. sec' = sec /\ tc' = tc /\ pc' = "down" /\ fwd' = Idle
      BY <2>1, ResetEffect DEF Core
    <3>2. fwd'.key = NoKey /\ fwd'.queue = {} BY <3>1 DEF Idle
    <3>3. QED BY <3>1, <3>2 DEF Fanout, Target
  <2>2. CASE ~(Failure /\ Reset /\ fault' = "none")
    <3>1. /\ tc.phase # "None" /\ tc'.method = tc.method
          /\ sec' = sec /\ fwd' = fwd /\ pc # "down"
      BY <1>8, <2>2, Updates DEF Core, Distribute, Then, Rotating, SetPhase, Goto, Phases, ram
    <3>2. QED BY <3>1 DEF Fanout, Target
  <2>3. QED BY <2>1, <2>2
<1>9. ASSUME NEW p \in Peers, DistributeTo(p) PROVE Fanout'
  <2>1. CASE Failure /\ Reset /\ fault' = "none"
    <3>1. sec' = sec /\ tc' = tc /\ pc' = "down" /\ fwd' = Idle
      BY <2>1, ResetEffect DEF Core
    <3>2. fwd'.key = NoKey /\ fwd'.queue = {} BY <3>1 DEF Idle
    <3>3. QED BY <3>1, <3>2 DEF Fanout, Target
  <2>2. CASE ~(Failure /\ Reset /\ fault' = "none")
    <3>1. /\ tc.phase # "None" /\ tc'.method = tc.method
          /\ sec' = sec /\ fwd' = fwd /\ pc # "down"
      BY <1>9, <2>2, Updates DEF Core, DistributeTo, Then, Rotating, SetPhase, Goto, Phases, ram, TypeOK, Records
    <3>2. QED BY <3>1 DEF Fanout, Target
  <2>3. QED BY <2>1, <2>2
<1>10. CASE DistributeDone
  BY <1>10, Updates DEF Fanout, Target, durable, ram, history, bounds, DistributeDone, Rotating, SetPhase, Unserved, Core, Phases
<1>11. CASE WaitOver
  BY <1>11, Updates DEF Fanout, Target, durable, ram, history, bounds, WaitOver, Rotating, SetPhase, Core, Phases
<1>12. CASE WaitMore
  BY <1>12 DEF Fanout, Target, durable, ram, history, bounds, WaitMore, Rotating, Goto
<1>13. CASE Switch
  <2>1. CASE Failure /\ Reset /\ fault' = "none"
    <3>1. sec' = sec /\ tc' = tc /\ pc' = "down" /\ fwd' = Idle
      BY <2>1, ResetEffect DEF Core
    <3>2. fwd'.key = NoKey /\ fwd'.queue = {} BY <3>1 DEF Idle
    <3>3. QED BY <3>1, <3>2 DEF Fanout, Target
  <2>2. CASE ~(Failure /\ Reset /\ fault' = "none")
    <3>1. /\ tc.phase # "None" /\ tc'.method = tc.method
          /\ sec' = sec /\ fwd' = fwd /\ pc # "down"
      BY <1>13, <2>2, Updates DEF Core, Switch, Then, Rotating, SetPhase, Goto, Phases, ram
    <3>2. QED BY <3>1 DEF Fanout, Target
  <2>3. QED BY <2>1, <2>2
<1>14. CASE Defer
  BY <1>14 DEF Fanout, Target, durable, ram, history, bounds, Defer, Rotating, Goto, Failure
<1>15. CASE Resumed
  BY <1>15 DEF Fanout, Target, durable, ram, history, bounds, Resumed, Goto
<1>16. CASE Activate
  <2>1. CASE live.active.gen = tc.target
    BY <1>16, <2>1 DEF Fanout, Target, Activate, Goto
  <2>2. CASE live.active.gen # tc.target
    <3>1. Refresh(Activated(live), intent) /\ tc' = tc /\ live.kind = "staged" /\ tc.phase # "None"
      BY <1>16, <2>2 DEF Activate
    <3>2. QED BY <3>1, ActivationFanout
  <2>3. QED BY <2>1, <2>2
<1>17. CASE Complete
  <2>1. live \in Slots /\ intent \in BOOLEAN /\ Shape(live) BY DEF Core, TypeOK, Installation
  <2>2. Refresh(live, intent) BY <1>17 DEF Complete
  <2>3. tc'.phase # "None" /\ tc'.method = "Broadcast" => sec'.fwd
    BY <1>17 DEF Complete, Core, TypeOK, Records
  <2>4. QED BY <2>1, <2>2, <2>3, RefreshFanout DEF Fanout
<1>18. CASE Serviced
  BY <1>18 DEF Fanout, Target, durable, ram, history, bounds, Serviced, Goto
<1>19. CASE Poll
  <2>1. live \in Slots /\ intent \in BOOLEAN /\ Shape(live) BY DEF Core, TypeOK, Installation
  <2>2. Refresh(live, intent) BY <1>19 DEF Poll
  <2>3. tc'.phase # "None" /\ tc'.method = "Broadcast" => sec'.fwd
    BY <1>19, <2>1, <2>2, IntentKept DEF Poll
  <2>4. QED BY <2>1, <2>2, <2>3, RefreshFanout DEF Fanout
<1>20. CASE Tick
  BY <1>20, FanoutTypes DEF Fanout, Target, durable, ram, history, bounds, Tick, Pruned, Aged, Core, TypeOK, Fanouts
<1>21. CASE ReceiveNewKey
  <2>1. Refresh(Activated(live), intent) /\ tc' = tc /\ live.kind = "staged"
    BY <1>21 DEF ReceiveNewKey
  <2>2. QED BY <2>1, ActivationFanout
<1>22. CASE Crash
  <2>1. Reset BY <1>22 DEF Crash
  <2>2. QED
    <3>1. sec' = sec /\ tc' = tc /\ pc' = "down" /\ fwd' = Idle
      BY <2>1, ResetEffect DEF Core
    <3>2. fwd'.key = NoKey /\ fwd'.queue = {} BY <3>1 DEF Idle
    <3>3. QED BY <3>1, <3>2 DEF Fanout, Target
<1>23. CASE Boot
  <2> DEFINE broadcast == tc.method = "Broadcast" /\ tc.phase \notin {"None", "Activating"}
  <2>1. CASE broadcast /\ sec.kind # "staged"
    <3>1. fwd' = Idle /\ sec' = sec /\ pc' = "down" /\ tc' = tc BY <1>23, <2>1 DEF Boot
    <3>2. fwd'.key = NoKey /\ fwd'.queue = {} BY <3>1 DEF Idle
    <3>3. QED BY <3>1, <3>2 DEF Fanout
  <2>2. CASE ~(broadcast /\ sec.kind # "staged")
    <3>1. /\ sec' = (IF broadcast THEN [sec EXCEPT !.fwd = TRUE] ELSE sec)
          /\ fwd' = Armed(Idle, sec') /\ tc' = tc
      BY <1>23, <2>2 DEF Boot
    <3>2. sec' \in Snapshots /\ sec'.active = sec.active /\ sec'.second = sec.second /\ sec'.kind = sec.kind
      BY <3>1 DEF Core, TypeOK, Snapshots
    <3>3. Shape(sec') BY <3>2 DEF Shape, Core, Installation
    <3>4. sec.fwd => sec'.fwd BY <3>1 DEF Core, TypeOK, Snapshots
    <3>5. Idle \in Fanouts /\ Idle.key = NoKey /\ Idle.queue = {} BY IdleType DEF Idle
    <3>6. CASE sec'.fwd /\ sec'.kind # "none"
      BY <3>1, <3>2, <3>3, <3>4, <3>5, <3>6, ArmedEffect, TargetIsKey DEF Fanout
    <3>7. CASE ~(sec'.fwd /\ sec'.kind # "none")
      BY <3>1, <3>2, <3>3, <3>4, <3>5, <3>7, ArmedEffect DEF Fanout
    <3>8. QED BY <3>6, <3>7
  <2>3. QED BY <2>1, <2>2
<1>24. ASSUME NEW c \in Kids, Forward(c) PROVE Fanout'
  <2>1. fwd.key # NoKey /\ fwd.key = Current(live) BY <1>24 DEF Forward, Open
  <2>2. fwd'.key = fwd.key /\ fwd'.queue = fwd.queue \cup {<<c, Current(live)>>}
    BY <1>24 DEF Forward, Core, TypeOK, Fanouts
  <2>3. <<c, Current(live)>>[2] = fwd'.key BY <2>1, <2>2
  <2>4. \A x \in fwd'.queue : x[2] = fwd'.key /\ fwd'.key # NoKey
    BY <2>1, <2>2, <2>3 DEF Fanout
  <2>5. sec' = sec /\ tc' = tc /\ pc' = pc BY <1>24 DEF Forward, durable
  <2>6. QED BY <2>2, <2>4, <2>5 DEF Fanout, Target
<1>25. ASSUME NEW c \in Kids, ChildChange(c) PROVE Fanout'
  BY <1>25, FanoutTypes DEF Fanout, Target, durable, ram, history, bounds, ChildChange, Input, Core, TypeOK, Fanouts
<1>26. ASSUME NEW q \in fwd.queue, NEW taken \in BOOLEAN, ChildPoll(q, taken) PROVE Fanout'
  <2>1. fwd'.key = fwd.key /\ fwd'.queue = fwd.queue \ {q}
    BY <1>26 DEF ChildPoll, Core, TypeOK, Fanouts
  <2>2. sec' = sec /\ tc' = tc /\ pc' = pc BY <1>26 DEF ChildPoll, durable
  <2>3. \A x \in fwd'.queue : x \in fwd.queue BY <2>1
  <2>4. \A x \in fwd'.queue : x[2] = fwd'.key /\ fwd'.key # NoKey
    BY <2>1, <2>3 DEF Fanout
  <2>5. QED BY <2>1, <2>2, <2>4 DEF Fanout, Target
<1>27. ASSUME NEW p \in Peers, Join(p) PROVE Fanout'
  BY <1>27 DEF Fanout, Target, durable, ram, history, bounds, Join, Input, Core, TypeOK, Records
<1>28. ASSUME NEW p \in Peers, Leave(p) PROVE Fanout'
  BY <1>28 DEF Fanout, Target, durable, ram, history, bounds, Leave, Input, Core, TypeOK, Records
<1>29. ASSUME NEW p \in Peers, NEW role \in {"router", "end"}, Announce(p, role) PROVE Fanout'
  BY <1>29 DEF Fanout, Target, durable, ram, history, bounds, Announce, Input, Core, TypeOK, Records
<1> QED BY <1>1, <1>2, <1>3, <1>4, <1>5, <1>6, <1>7, <1>8, <1>9, <1>10, <1>11, <1>12, <1>13, <1>14, <1>15, <1>16, <1>17, <1>18, <1>19, <1>20, <1>21, <1>22, <1>23, <1>24, <1>25, <1>26, <1>27, <1>28, <1>29 DEF Next, Work

-----------------------------------------------------------------------------
(* The keys on the air. *)

\* A write that keeps the active key, and the staged one if there is one.
LEMMA AirKept ==
    ASSUME Air, air' = air, sec'.active = sec.active,
           sec.kind = "staged" => sec'.kind = "staged" /\ sec'.second = sec.second
    PROVE  Air'
BY DEF Air, OneKeyPerSequence

\* A transmission of an installed key.
LEMMA AirAdds ==
    ASSUME Core, Air, NEW k, air' = air \cup {k}, sec' = sec,
           k = sec.active \/ (sec.kind = "staged" /\ k = sec.second)
    PROVE  Air'
<1>1. sec.active.gen \in Nat BY CoreTypes DEF Core
<1>2. sec.kind = "staged" => sec.second.gen = sec.active.gen + 1 BY DEF Core, Installation, Shape
<1>3. QED BY <1>1, <1>2 DEF Air, OneKeyPerSequence

\* The activation of the staged key.
LEMMA AirActivated ==
    ASSUME Core, Air, air' = air, live.kind = "staged", tc.phase # "None",
           Refresh(Activated(live), intent)
    PROVE  Air'
<1>1. Activated(live) \in Slots /\ intent \in BOOLEAN BY SlotTypes DEF Core, TypeOK
<1>2. sec.kind = "staged" /\ live.second = sec.second BY DEF Core, Installation
<1>3. sec'.active = sec.second /\ sec'.kind = "previous"
  BY <1>1, <1>2, RefreshEffect, Updates DEF Core
<1>4. sec.active.gen \in Nat /\ sec.second.gen = sec.active.gen + 1
  BY <1>2, CoreTypes DEF Core, Installation, Shape
<1>5. \A k \in air : k.gen \in Nat BY DEF Core, TypeOK, Keys
<1>6. QED BY <1>2, <1>3, <1>4, <1>5 DEF Air, OneKeyPerSequence

\* A commit of the slots in RAM.
LEMMA AirRefreshed ==
    ASSUME Core, Air, air' = air, NEW asked \in BOOLEAN, Refresh(live, asked)
    PROVE  Air'
<1>1. live \in Slots BY DEF Core, TypeOK
<1>2. sec'.active = live.active /\ sec'.second = live.second /\ sec'.kind = live.kind
  BY <1>1, RefreshEffect DEF Core
<1>3. live.active = sec.active /\ (sec.kind = "staged" => live.second = sec.second /\ live.kind = sec.kind)
  BY DEF Core, Installation
<1>4. QED BY <1>2, <1>3, AirKept

\* The key a recorded rotation distributes is the staged one.
LEMMA DistributedKey ==
    ASSUME Core, tc.phase = "Distributing"
    PROVE  sec.kind = "staged" /\ TargetKey = sec.second /\ TargetKey.gen = tc.target
<1>1. sec.kind = "staged" /\ sec.second.gen = tc.target BY DEF Core, Record
<1>2. live.second = sec.second /\ live.active = sec.active BY <1>1 DEF Core, Installation
<1>3. sec.active.gen # tc.target BY <1>1, CoreTypes DEF Core, Installation, Shape
<1>4. QED BY <1>1, <1>2, <1>3 DEF TargetKey

\* Every action keeps one key per generation on the air, the installed one.
LEMMA AirStep ==
    ASSUME Core, Fanout, Air, Next
    PROVE  Air'
<1>1. CASE Begin
  <2>1. air' = air /\ sec' = sec BY <1>1 DEF Begin, Prepare, durable, history
  <2>2. QED BY <2>1, AirKept
<1>2. CASE Request
  <2>1. air' = air /\ sec' = sec BY <1>2 DEF Request, Prepare, durable, history
  <2>2. QED BY <2>1, AirKept
<1>3. CASE CheckpointStaged
  <2>1. intent \in BOOLEAN BY DEF Core, TypeOK
  <2>2. air' = air /\ Refresh(live, intent) BY <1>3 DEF CheckpointStaged, history
  <2>3. QED BY <2>1, <2>2, AirRefreshed
<1>4. CASE BeginForwarding
  <2>1. intent \in BOOLEAN BY DEF Core, TypeOK
  <2>2. air' = air /\ Refresh(live, TRUE) BY <1>4 DEF BeginForwarding, history
  <2>3. QED BY <2>1, <2>2, AirRefreshed
<1>5. ASSUME NEW m \in Methods, Commit(m) PROVE Air'
  <2>1. air' = air /\ sec' = sec BY <1>5 DEF Commit, durable, history
  <2>2. QED BY <2>1, AirKept
<1>6. CASE CommitRefused
  <2>1. air' = air /\ sec' = sec BY <1>6, ResetEffect DEF CommitRefused, Core, durable, history
  <2>2. QED BY <2>1, AirKept
<1>7. CASE RequestFails
  <2>1. air' = air /\ sec' = sec BY <1>7 DEF RequestFails, durable, history
  <2>2. QED BY <2>1, AirKept
<1>8. CASE Distribute
  <2>1. tc.phase = "Distributing" /\ air' = air \cup {TargetKey} BY <1>8 DEF Distribute, Rotating
  <2>2. sec' = sec BY <1>8, ResetEffect DEF Distribute, Then, Core
  <2>3. QED BY <2>1, <2>2, DistributedKey, AirAdds
<1>9. ASSUME NEW p \in Peers, DistributeTo(p) PROVE Air'
  <2>1. tc.phase = "Distributing" /\ air' = air \cup {TargetKey} BY <1>9 DEF DistributeTo, Rotating
  <2>2. sec' = sec BY <1>9, ResetEffect DEF DistributeTo, Then, Core
  <2>3. QED BY <2>1, <2>2, DistributedKey, AirAdds
<1>10. CASE DistributeDone
  <2>1. air' = air /\ sec' = sec BY <1>10 DEF DistributeDone, durable, history
  <2>2. QED BY <2>1, AirKept
<1>11. CASE WaitOver
  <2>1. air' = air /\ sec' = sec BY <1>11 DEF WaitOver, durable, history
  <2>2. QED BY <2>1, AirKept
<1>12. CASE WaitMore
  <2>1. air' = air /\ sec' = sec BY <1>12 DEF WaitMore, durable, history
  <2>2. QED BY <2>1, AirKept
<1>13. CASE Switch
  <2>1. air' = air /\ sec' = sec BY <1>13, ResetEffect DEF Switch, Then, Core, durable, history
  <2>2. QED BY <2>1, AirKept
<1>14. CASE Defer
  <2>1. air' = air /\ sec' = sec BY <1>14 DEF Defer, durable, history
  <2>2. QED BY <2>1, AirKept
<1>15. CASE Resumed
  <2>1. air' = air /\ sec' = sec BY <1>15 DEF Resumed, durable, history
  <2>2. QED BY <2>1, AirKept
<1>16. CASE Activate
  <2>1. CASE live.active.gen = tc.target
    BY <1>16, <2>1, AirKept DEF Activate, history
  <2>2. CASE live.active.gen # tc.target
    <3>1. air' = air /\ live.kind = "staged" /\ tc.phase # "None" /\ Refresh(Activated(live), intent)
      BY <1>16, <2>2 DEF Activate, history
    <3>2. QED BY <3>1, AirActivated
  <2>3. QED BY <2>1, <2>2
<1>17. CASE Complete
  <2>1. intent \in BOOLEAN BY DEF Core, TypeOK
  <2>2. air' = air /\ Refresh(live, intent) BY <1>17 DEF Complete, history
  <2>3. QED BY <2>1, <2>2, AirRefreshed
<1>18. CASE Serviced
  <2>1. air' = air /\ sec' = sec BY <1>18 DEF Serviced, durable, history
  <2>2. QED BY <2>1, AirKept
<1>19. CASE Poll
  <2>1. intent \in BOOLEAN BY DEF Core, TypeOK
  <2>2. air' = air /\ Refresh(live, intent) BY <1>19 DEF Poll, history
  <2>3. QED BY <2>1, <2>2, AirRefreshed
<1>20. CASE Tick
  <2>1. air' = air /\ sec' = sec BY <1>20 DEF Tick, durable, history
  <2>2. QED BY <2>1, AirKept
<1>21. CASE ReceiveNewKey
  <2>1. /\ air' = air /\ live.kind = "staged" /\ Refresh(Activated(live), intent)
        /\ live.second.gen \in switched
    BY <1>21 DEF ReceiveNewKey, history
  <2>2. live.second.gen > sec.active.gen
    BY <2>1, CoreTypes DEF Core, Installation, Shape
  <2>3. tc.phase # "None" BY <2>1, <2>2 DEF Core, Record
  <2>4. QED BY <2>1, <2>3, AirActivated
<1>22. CASE Crash
  <2>1. air' = air /\ sec' = sec BY <1>22, ResetEffect DEF Crash, Core, durable, history
  <2>2. QED BY <2>1, AirKept
<1>23. CASE Boot
  <2>1. air' = air /\ sec'.active = sec.active /\ sec'.kind = sec.kind /\ sec'.second = sec.second
    BY <1>23 DEF Boot, Core, TypeOK, Snapshots, history
  <2>2. QED BY <2>1, AirKept
<1>24. ASSUME NEW c \in Kids, Forward(c) PROVE Air'
  <2>1. air' = air /\ sec' = sec BY <1>24 DEF Forward, durable, history
  <2>2. QED BY <2>1, AirKept
<1>25. ASSUME NEW c \in Kids, ChildChange(c) PROVE Air'
  <2>1. air' = air /\ sec' = sec BY <1>25 DEF ChildChange, durable, history
  <2>2. QED BY <2>1, AirKept
<1>26. ASSUME NEW q \in fwd.queue, NEW taken \in BOOLEAN, ChildPoll(q, taken) PROVE Air'
  <2>1. q[2] = Target(sec) /\ sec.kind # "none" BY DEF Fanout
  <2>2. q[2] = sec.active \/ (sec.kind = "staged" /\ q[2] = sec.second)
    BY <2>1, CoreTypes DEF Target, Core, Kinds
  <2>3. sec' = sec /\ (air' = air \/ air' = air \cup {q[2]}) BY <1>26 DEF ChildPoll, durable
  <2>4. QED BY <2>2, <2>3, AirKept, AirAdds
<1>27. ASSUME NEW p \in Peers, Join(p) PROVE Air'
  <2>1. air' = air /\ sec' = sec BY <1>27 DEF Join, durable, history
  <2>2. QED BY <2>1, AirKept
<1>28. ASSUME NEW p \in Peers, Leave(p) PROVE Air'
  <2>1. air' = air /\ sec' = sec BY <1>28 DEF Leave, durable, history
  <2>2. QED BY <2>1, AirKept
<1>29. ASSUME NEW p \in Peers, NEW role \in {"router", "end"}, Announce(p, role) PROVE Air'
  <2>1. air' = air /\ sec' = sec BY <1>29 DEF Announce, durable, history
  <2>2. QED BY <2>1, AirKept
<1> QED BY <1>1, <1>2, <1>3, <1>4, <1>5, <1>6, <1>7, <1>8, <1>9, <1>10, <1>11, <1>12, <1>13, <1>14, <1>15, <1>16, <1>17, <1>18, <1>19, <1>20, <1>21, <1>22, <1>23, <1>24, <1>25, <1>26, <1>27, <1>28, <1>29 DEF Next, Work

-----------------------------------------------------------------------------
(* The routers of a unicast rotation. *)

\* A step that leaves the record, the deliveries and the late peers alone.
LEMMA ServedKept ==
    ASSUME Served, tc' = tc, given' = given, late' = late
    PROVE  Served'
BY DEF Served

\* Every action keeps the marks of delivery true.
LEMMA ServedStep ==
    ASSUME Core, Served, Next
    PROVE  Served'
<1>1. CASE Begin
  <2>1. tc' = tc /\ given' = given /\ late' = late BY <1>1 DEF Begin, Prepare, durable, history
  <2>2. QED BY <2>1, ServedKept
<1>2. CASE Request
  <2>1. tc' = tc /\ given' = given /\ late' = late BY <1>2 DEF Request, Prepare, durable, history
  <2>2. QED BY <2>1, ServedKept
<1>3. CASE CheckpointStaged
  <2>1. tc' = tc /\ given' = given /\ late' = late BY <1>3 DEF CheckpointStaged, durable, history
  <2>2. QED BY <2>1, ServedKept
<1>4. CASE BeginForwarding
  <2>1. tc' = tc /\ given' = given /\ late' = late BY <1>4 DEF BeginForwarding, durable, history
  <2>2. QED BY <2>1, ServedKept
<1>5. ASSUME NEW m \in Methods, Commit(m) PROVE Served'
  <2>1. /\ tc'.phase = "Distributing" /\ tc'.served = tc.served BY <1>5 DEF Commit, Core, TypeOK, Records
  <2>2. tc.served = {} BY <1>5 DEF Commit, Core, Control, Served
  <2>3. QED BY <2>1, <2>2 DEF Served
<1>6. CASE CommitRefused
  <2>1. tc' = tc /\ given' = given /\ late' = late BY <1>6, ResetEffect DEF CommitRefused, Core, durable, history
  <2>2. QED BY <2>1, ServedKept
<1>7. CASE RequestFails
  <2>1. tc' = tc /\ given' = given /\ late' = late BY <1>7 DEF RequestFails, durable, history
  <2>2. QED BY <2>1, ServedKept
<1>8. CASE Distribute
  <2>1. CASE tc' = tc BY <1>8, <2>1, ServedKept DEF Distribute, Then, history
  <2>2. CASE tc' # tc
    <3>1. /\ tc'.phase = "WaitingForPropagation" /\ tc'.target = tc.target /\ tc'.method = tc.method
          /\ tc'.served = tc.served /\ tc'.roles = tc.roles /\ given' = given /\ late' = late
      BY <1>8, <2>2, ResetEffect, Updates DEF Distribute, Then, SetPhase, Core, Phases, history
    <3>2. QED BY <1>8, <3>1 DEF Served, Distribute, Then, Rotating
  <2>3. QED BY <2>1, <2>2
<1>9. ASSUME NEW p \in Peers, DistributeTo(p) PROVE Served'
  <2>1. /\ tc.phase = "Distributing" /\ late' = late
        /\ given' = [given EXCEPT ![p] = given[p] \cup {TargetKey.gen}]
    BY <1>9 DEF DistributeTo, Rotating
  <2>2. TargetKey.gen = tc.target BY <2>1, DistributedKey
  <2>3. given \in [Peers -> SUBSET Nat] /\ tc.served \subseteq Peers BY RecordTypes DEF Core, TypeOK
  <2>4. tc.target \in given'[p] /\ \A x \in Peers : given[x] \subseteq given'[x] BY <2>1, <2>2, <2>3
  <2>5. /\ tc'.phase = tc.phase /\ tc'.target = tc.target /\ tc'.method = tc.method
        /\ tc'.served \subseteq tc.served \cup {p}
    BY <1>9, ResetEffect DEF DistributeTo, Then, Core, TypeOK, Records
  <2>6. QED BY <2>1, <2>3, <2>4, <2>5 DEF Served
<1>10. CASE DistributeDone
  <2>1. CASE tc' = tc BY <1>10, <2>1, ServedKept DEF DistributeDone, history
  <2>2. CASE tc' # tc
    <3>1. /\ tc'.phase = "WaitingForPropagation" /\ tc'.target = tc.target /\ tc'.method = tc.method
          /\ tc'.served = tc.served /\ tc'.roles = tc.roles /\ given' = given /\ late' = late
      BY <1>10, <2>2, ResetEffect, Updates DEF DistributeDone, SetPhase, Core, Phases, history
    <3>2. QED BY <1>10, <3>1 DEF Served, DistributeDone, Rotating, Unserved, Core, TypeOK, Records
  <2>3. QED BY <2>1, <2>2
<1>11. CASE WaitOver
  <2>1. CASE tc' = tc BY <1>11, <2>1, ServedKept DEF WaitOver, history
  <2>2. CASE tc' # tc
    <3>1. /\ tc'.phase = "Switching" /\ tc'.target = tc.target /\ tc'.method = tc.method
          /\ tc'.served = tc.served /\ tc'.roles = tc.roles /\ given' = given /\ late' = late
      BY <1>11, <2>2, ResetEffect, Updates DEF WaitOver, SetPhase, Core, Phases, history
    <3>2. QED BY <1>11, <3>1 DEF Served, WaitOver, Rotating
  <2>3. QED BY <2>1, <2>2
<1>12. CASE WaitMore
  <2>1. tc' = tc /\ given' = given /\ late' = late BY <1>12 DEF WaitMore, durable, history
  <2>2. QED BY <2>1, ServedKept
<1>13. CASE Switch
  <2>1. CASE tc' = tc BY <1>13, <2>1, ServedKept DEF Switch, Then, history
  <2>2. CASE tc' # tc
    <3>1. /\ tc'.phase = "Activating" /\ tc'.target = tc.target /\ tc'.method = tc.method
          /\ tc'.served = tc.served /\ tc'.roles = tc.roles /\ given' = given /\ late' = late
      BY <1>13, <2>2, ResetEffect, Updates DEF Switch, Then, SetPhase, Core, Phases, history
    <3>2. QED BY <1>13, <3>1 DEF Served, Switch, Then, Rotating
  <2>3. QED BY <2>1, <2>2
<1>14. CASE Defer
  <2>1. tc' = tc /\ given' = given /\ late' = late BY <1>14 DEF Defer, durable, history
  <2>2. QED BY <2>1, ServedKept
<1>15. CASE Resumed
  <2>1. tc' = tc /\ given' = given /\ late' = late BY <1>15 DEF Resumed, durable, history
  <2>2. QED BY <2>1, ServedKept
<1>16. CASE Activate
  <2>1. tc' = tc /\ given' = given /\ late' = late BY <1>16 DEF Activate, durable, history
  <2>2. QED BY <2>1, ServedKept
<1>17. CASE Complete
  <2>1. tc'.phase = "None" /\ tc'.served = {} BY <1>17 DEF Complete, Core, TypeOK, Records
  <2>2. QED BY <2>1 DEF Served
<1>18. CASE Serviced
  <2>1. tc' = tc /\ given' = given /\ late' = late BY <1>18 DEF Serviced, durable, history
  <2>2. QED BY <2>1, ServedKept
<1>19. CASE Poll
  <2>1. tc' = tc /\ given' = given /\ late' = late BY <1>19 DEF Poll, durable, history
  <2>2. QED BY <2>1, ServedKept
<1>20. CASE Tick
  <2>1. tc' = tc /\ given' = given /\ late' = late BY <1>20 DEF Tick, durable, history
  <2>2. QED BY <2>1, ServedKept
<1>21. CASE ReceiveNewKey
  <2>1. tc' = tc /\ given' = given /\ late' = late BY <1>21 DEF ReceiveNewKey, durable, history
  <2>2. QED BY <2>1, ServedKept
<1>22. CASE Crash
  <2>1. tc' = tc /\ given' = given /\ late' = late BY <1>22, ResetEffect DEF Crash, Core, durable, history
  <2>2. QED BY <2>1, ServedKept
<1>23. CASE Boot
  <2>1. tc' = tc /\ given' = given /\ late' = late BY <1>23 DEF Boot, durable, history
  <2>2. QED BY <2>1, ServedKept
<1>24. ASSUME NEW c \in Kids, Forward(c) PROVE Served'
  <2>1. tc' = tc /\ given' = given /\ late' = late BY <1>24 DEF Forward, durable, history
  <2>2. QED BY <2>1, ServedKept
<1>25. ASSUME NEW c \in Kids, ChildChange(c) PROVE Served'
  <2>1. tc' = tc /\ given' = given /\ late' = late BY <1>25 DEF ChildChange, durable, history
  <2>2. QED BY <2>1, ServedKept
<1>26. ASSUME NEW q \in fwd.queue, NEW taken \in BOOLEAN, ChildPoll(q, taken) PROVE Served'
  <2>1. tc' = tc /\ given' = given /\ late' = late BY <1>26 DEF ChildPoll, durable, history
  <2>2. QED BY <2>1, ServedKept
<1>27. ASSUME NEW p \in Peers, Join(p) PROVE Served'
  <2>1. /\ tc'.phase = tc.phase /\ tc'.target = tc.target /\ tc'.method = tc.method
        /\ tc'.served \subseteq tc.served /\ given' = given /\ late \subseteq late'
        /\ \A x \in Peers \ late' : tc'.roles[x] = "router" => tc.roles[x] = "router"
    BY <1>27 DEF Join, Core, TypeOK, Records, history
  <2>2. QED BY <2>1 DEF Served
<1>28. ASSUME NEW p \in Peers, Leave(p) PROVE Served'
  <2>1. /\ tc'.phase = tc.phase /\ tc'.target = tc.target /\ tc'.method = tc.method
        /\ tc'.served \subseteq tc.served /\ given' = given /\ late \subseteq late'
        /\ \A x \in Peers \ late' : tc'.roles[x] = "router" => tc.roles[x] = "router"
    BY <1>28 DEF Leave, Core, TypeOK, Records, history
  <2>2. QED BY <2>1 DEF Served
<1>29. ASSUME NEW p \in Peers, NEW role \in {"router", "end"}, Announce(p, role) PROVE Served'
  <2>1. /\ tc'.phase = tc.phase /\ tc'.target = tc.target /\ tc'.method = tc.method
        /\ tc'.served \subseteq tc.served /\ given' = given /\ late \subseteq late'
        /\ \A x \in Peers \ late' : tc'.roles[x] = "router" => tc.roles[x] = "router"
    BY <1>29 DEF Announce, Core, TypeOK, Records, history
  <2>2. QED BY <2>1 DEF Served
<1> QED BY <1>1, <1>2, <1>3, <1>4, <1>5, <1>6, <1>7, <1>8, <1>9, <1>10, <1>11, <1>12, <1>13, <1>14, <1>15, <1>16, <1>17, <1>18, <1>19, <1>20, <1>21, <1>22, <1>23, <1>24, <1>25, <1>26, <1>27, <1>28, <1>29 DEF Next, Work

-----------------------------------------------------------------------------
(* The wait and the forwarding window. *)

\* A step that leaves the age of the fan-out and the wait alone.
LEMMA PacedKept ==
    ASSUME Paced, fwd'.age = fwd.age, clocks' = clocks,
           tc'.phase # "None" => tc.phase # "None" /\ tc'.method = tc.method
    PROVE  Paced'
BY DEF Paced

\* A step that starts the wait again.
LEMMA PacedStart ==
    ASSUME fwd' \in Fanouts, clocks'.waited = 0
    PROVE  Paced'
<1>1. fwd'.age \in 0..Window BY FanoutTypes
<1>2. QED BY <1>1, Constants DEF Paced

\* While a broadcast rotation is recorded, a commit of the slots or of their
\* activation leaves the fan-out as it is.
LEMMA FanoutKept ==
    ASSUME Core, Fanout, tc.phase # "None", tc.method = "Broadcast", pc # "down",
           NEW l \in Slots, Refresh(l, intent), Shape(l), l = live \/ (l = Activated(live) /\ live.kind = "staged")
    PROVE  fwd' = fwd
<1>1. intent \in BOOLEAN BY DEF Core, TypeOK
<1>2. sec'.fwd /\ sec'.kind # "none" /\ Target(sec') = Target(sec) BY IntentKept
<1>3. sec.fwd /\ sec.kind # "none" BY CoreTypes DEF Fanout, Core, Record
<1>4. fwd.key = Target(sec) BY <1>3 DEF Fanout
<1>5. QED BY <1>1, <1>2, <1>4, RefreshFanout

\* What the activation of a well-formed pair of slots gives.
LEMMA ActivatedShape ==
    ASSUME Core, live.kind = "staged"
    PROVE  Activated(live) \in Slots /\ Shape(Activated(live))
<1>1. Activated(live) \in Slots BY SlotTypes DEF Core, TypeOK
<1>2. live.second.gen = live.active.gen + 1 /\ live.active.gen >= 1 /\ live.active.gen \in Nat
  BY CoreTypes DEF Core, Installation, Shape
<1>3. QED BY <1>1, <1>2, Updates DEF Shape, Core

\* Every action keeps the wait behind the fan-out.
LEMMA PacedStep ==
    ASSUME Core, Fanout, Paced, Next
    PROVE  Paced'
<1>1. CASE Begin
  <2>1. fwd' = fwd /\ clocks' = clocks /\ tc' = tc BY <1>1 DEF Begin, Prepare, durable, ram
  <2>2. QED BY <2>1, PacedKept
<1>2. CASE Request
  <2>1. fwd' = fwd /\ clocks' = clocks /\ tc' = tc BY <1>2 DEF Request, Prepare, durable, ram
  <2>2. QED BY <2>1, PacedKept
<1>3. CASE CheckpointStaged
  <2>1. tc'.phase = "None" BY <1>3 DEF CheckpointStaged, Core, Control
  <2>2. QED BY <2>1 DEF Paced
<1>4. CASE BeginForwarding
  <2>1. tc'.phase = "None" BY <1>4 DEF BeginForwarding, Core, Control
  <2>2. QED BY <2>1 DEF Paced
<1>5. ASSUME NEW m \in Methods, Commit(m) PROVE Paced'
  <2>1. fwd' \in Fanouts /\ clocks'.waited = 0 BY <1>5 DEF Commit, Core, TypeOK
  <2>2. QED BY <2>1, PacedStart
<1>6. CASE CommitRefused
  <2>1. CASE Reset BY <2>1, ResetEffect, PacedStart DEF Core
  <2>2. CASE ~Reset
    <3>1. fwd' = fwd /\ clocks' = clocks /\ tc' = tc BY <1>6, <2>2 DEF CommitRefused, durable
    <3>2. QED BY <3>1, PacedKept
  <2>3. QED BY <2>1, <2>2
<1>7. CASE RequestFails
  <2>1. fwd' = fwd /\ clocks' = clocks /\ tc' = tc BY <1>7 DEF RequestFails, durable, ram
  <2>2. QED BY <2>1, PacedKept
<1>8. CASE Distribute
  <2>1. CASE Reset BY <2>1, ResetEffect, PacedStart DEF Core
  <2>2. CASE ~Reset
    <3>1. fwd' = fwd /\ clocks' = clocks /\ tc.phase # "None" /\ tc'.method = tc.method
      BY <1>8, <2>2, Updates DEF Distribute, Then, SetPhase, Rotating, ram, Core, Phases
    <3>2. QED BY <3>1, PacedKept
  <2>3. QED BY <2>1, <2>2
<1>9. ASSUME NEW p \in Peers, DistributeTo(p) PROVE Paced'
  <2>1. CASE Reset BY <2>1, ResetEffect, PacedStart DEF Core
  <2>2. CASE ~Reset
    <3>1. fwd' = fwd /\ clocks' = clocks /\ tc.phase # "None" /\ tc'.method = tc.method
      BY <1>9, <2>2, Updates DEF DistributeTo, Then, SetPhase, Rotating, ram, Core, Phases, TypeOK, Records
    <3>2. QED BY <3>1, PacedKept
  <2>3. QED BY <2>1, <2>2
<1>10. CASE DistributeDone
  <2>1. CASE Reset BY <2>1, ResetEffect, PacedStart DEF Core
  <2>2. CASE ~Reset
    <3>1. fwd' = fwd /\ clocks' = clocks /\ tc.phase # "None" /\ tc'.method = tc.method
      BY <1>10, <2>2, Updates DEF DistributeDone, Then, SetPhase, Rotating, ram, Core, Phases
    <3>2. QED BY <3>1, PacedKept
  <2>3. QED BY <2>1, <2>2
<1>11. CASE WaitOver
  <2>1. CASE Reset BY <2>1, ResetEffect, PacedStart DEF Core
  <2>2. CASE ~Reset
    <3>1. fwd' = fwd /\ clocks' = clocks /\ tc.phase # "None" /\ tc'.method = tc.method
      BY <1>11, <2>2, Updates DEF WaitOver, Then, SetPhase, Rotating, ram, Core, Phases
    <3>2. QED BY <3>1, PacedKept
  <2>3. QED BY <2>1, <2>2
<1>12. CASE WaitMore
  <2>1. fwd' = fwd /\ clocks' = clocks /\ tc' = tc BY <1>12 DEF WaitMore, durable, ram
  <2>2. QED BY <2>1, PacedKept
<1>13. CASE Switch
  <2>1. CASE Reset BY <2>1, ResetEffect, PacedStart DEF Core
  <2>2. CASE ~Reset
    <3>1. fwd' = fwd /\ clocks' = clocks /\ tc.phase # "None" /\ tc'.method = tc.method
      BY <1>13, <2>2, Updates DEF Switch, Then, SetPhase, Rotating, ram, Core, Phases
    <3>2. QED BY <3>1, PacedKept
  <2>3. QED BY <2>1, <2>2
<1>14. CASE Defer
  <2>1. fwd' = fwd /\ clocks' = clocks /\ tc' = tc BY <1>14 DEF Defer, durable, ram
  <2>2. QED BY <2>1, PacedKept
<1>15. CASE Resumed
  <2>1. fwd' = fwd /\ clocks' = clocks /\ tc' = tc BY <1>15 DEF Resumed, durable, ram
  <2>2. QED BY <2>1, PacedKept
<1>16. CASE Activate
  <2>1. CASE live.active.gen # tc.target
    <3>1. Activated(live) \in Slots /\ Shape(Activated(live)) BY <1>16, <2>1, ActivatedShape DEF Activate
    <3>2. Refresh(Activated(live), intent) /\ clocks' = clocks /\ tc' = tc /\ pc # "down" BY <1>16, <2>1 DEF Activate
    <3>3. tc.phase # "None" /\ tc.method = "Broadcast" => fwd' = fwd BY <1>16, <2>1, <3>1, <3>2, FanoutKept DEF Activate
    <3>4. QED BY <3>2, <3>3 DEF Paced
  <2>2. CASE live.active.gen = tc.target
    BY <1>16, <2>2, PacedKept DEF Activate
  <2>3. QED BY <2>1, <2>2
<1>17. CASE Complete
  <2>1. tc'.phase = "None" BY <1>17 DEF Complete, Core, TypeOK, Records
  <2>2. QED BY <2>1 DEF Paced
<1>18. CASE Serviced
  <2>1. fwd' = fwd /\ clocks' = clocks /\ tc' = tc BY <1>18 DEF Serviced, durable, ram
  <2>2. QED BY <2>1, PacedKept
<1>19. CASE Poll
  <2>1. pc = "idle" BY <1>19 DEF Poll
  <2>2. QED
    <3>1. live \in Slots /\ Shape(live) BY <1>19 DEF Core, TypeOK, Installation, Poll
    <3>2. Refresh(live, intent) /\ clocks' = clocks /\ tc' = tc /\ pc # "down" BY <1>19, <2>1 DEF Poll
    <3>3. tc.phase # "None" /\ tc.method = "Broadcast" => fwd' = fwd BY <1>19, <3>1, <3>2, FanoutKept DEF Poll
    <3>4. QED BY <3>2, <3>3 DEF Paced
<1>20. CASE Tick
  <2> SUFFICES ASSUME tc.phase # "None", tc.method = "Broadcast"
                PROVE  clocks'.waited <= fwd'.age \/ fwd'.age >= Window
    BY <1>20 DEF Tick, durable, Paced
  <2>1. fwd \in Fanouts /\ clocks \in Clocks /\ sec \in Snapshots BY DEF Core, TypeOK
  <2>2. fwd.age \in 0..Window /\ clocks.waited \in 0..Grace /\ Window \in Nat /\ Grace \in Nat
    BY <2>1, FanoutTypes, Constants DEF Clocks
  <2>3. sec.fwd /\ sec.kind # "none" BY CoreTypes DEF Fanout, Core, Record
  <2>4. fwd.key = Target(sec) BY <1>20, <2>3 DEF Fanout, Tick
  <2>5. fwd.key # NoKey BY <2>1, <2>3, <2>4, TargetIsKey DEF Core, Installation
  <2>6. Aged(fwd).age = Up(fwd.age, Window) /\ Aged(fwd) \in Fanouts
    BY <2>1, <2>2, <2>5, UpType, FanoutTypes DEF Aged, Fanouts
  <2>7. fwd'.age = Up(fwd.age, Window) BY <1>20, <2>6 DEF Tick, Pruned, Fanouts
  <2>8. clocks'.waited = Up(clocks.waited, Grace) \/ clocks'.waited = 0 BY <1>20 DEF Tick
  <2>9. clocks.waited <= fwd.age \/ fwd.age >= Window BY DEF Paced
  <2>10. QED BY <2>2, <2>7, <2>8, <2>9 DEF Up
<1>21. CASE ReceiveNewKey
  <2>1. pc = "idle" BY <1>21 DEF ReceiveNewKey
  <2>2. QED
    <3>1. Activated(live) \in Slots /\ Shape(Activated(live)) BY <1>21, ActivatedShape DEF ReceiveNewKey
    <3>2. Refresh(Activated(live), intent) /\ clocks' = clocks /\ tc' = tc /\ pc # "down" BY <1>21, <2>1 DEF ReceiveNewKey
    <3>3. tc.phase # "None" /\ tc.method = "Broadcast" => fwd' = fwd BY <1>21, <3>1, <3>2, FanoutKept DEF ReceiveNewKey
    <3>4. QED BY <3>2, <3>3 DEF Paced
<1>22. CASE Crash
  <2>1. Reset BY <1>22 DEF Crash
  <2>2. QED BY <2>1, ResetEffect, PacedStart DEF Core
<1>23. CASE Boot
  <2>1. clocks'.waited = 0 BY <1>23 DEF Boot, Stopped
  <2>2. [sec EXCEPT !.fwd = TRUE] \in Snapshots BY DEF Core, TypeOK, Snapshots
  <2>3. fwd' \in Fanouts BY <1>23, <2>2, IdleType, ArmedType DEF Boot, Core, TypeOK
  <2>4. QED BY <2>1, <2>3, PacedStart
<1>24. ASSUME NEW c \in Kids, Forward(c) PROVE Paced'
  <2>1. fwd'.age = fwd.age /\ clocks' = clocks /\ tc' = tc BY <1>24 DEF Forward, durable, Core, TypeOK, Fanouts
  <2>2. QED BY <2>1, PacedKept
<1>25. ASSUME NEW c \in Kids, ChildChange(c) PROVE Paced'
  <2>1. fwd'.age = fwd.age /\ clocks' = clocks /\ tc' = tc BY <1>25 DEF ChildChange, durable, Core, TypeOK, Fanouts
  <2>2. QED BY <2>1, PacedKept
<1>26. ASSUME NEW q \in fwd.queue, NEW taken \in BOOLEAN, ChildPoll(q, taken) PROVE Paced'
  <2>1. fwd'.age = fwd.age /\ clocks' = clocks /\ tc' = tc BY <1>26 DEF ChildPoll, durable, Core, TypeOK, Fanouts
  <2>2. QED BY <2>1, PacedKept
<1>27. ASSUME NEW p \in Peers, Join(p) PROVE Paced'
  <2>1. fwd' = fwd /\ clocks' = clocks /\ tc'.phase = tc.phase /\ tc'.method = tc.method
    BY <1>27 DEF Join, ram, Core, TypeOK, Records
  <2>2. QED BY <2>1, PacedKept
<1>28. ASSUME NEW p \in Peers, Leave(p) PROVE Paced'
  <2>1. fwd' = fwd /\ clocks' = clocks /\ tc'.phase = tc.phase /\ tc'.method = tc.method
    BY <1>28 DEF Leave, ram, Core, TypeOK, Records
  <2>2. QED BY <2>1, PacedKept
<1>29. ASSUME NEW p \in Peers, NEW role \in {"router", "end"}, Announce(p, role) PROVE Paced'
  <2>1. fwd' = fwd /\ clocks' = clocks /\ tc'.phase = tc.phase /\ tc'.method = tc.method
    BY <1>29 DEF Announce, ram, Core, TypeOK, Records
  <2>2. QED BY <2>1, PacedKept
<1> QED BY <1>1, <1>2, <1>3, <1>4, <1>5, <1>6, <1>7, <1>8, <1>9, <1>10, <1>11, <1>12, <1>13, <1>14, <1>15, <1>16, <1>17, <1>18, <1>19, <1>20, <1>21, <1>22, <1>23, <1>24, <1>25, <1>26, <1>27, <1>28, <1>29 DEF Next, Work

-----------------------------------------------------------------------------
(* The invariant and the theorems. *)

\* A network at rest satisfies the invariant.
LEMMA InitInv == Init => IInv
<1> SUFFICES ASSUME Init PROVE IInv
  OBVIOUS
<1>1. /\ First \in Keys /\ NoKey \in Keys /\ First.gen = 1 BY DEF First, NoKey, Keys
<1>2. /\ tc \in Records /\ tc.phase = "None" /\ tc.served = {}
  BY DEF Init, Records, Phases, Roles
<1>3. /\ sec \in Snapshots /\ sec.active = First /\ sec.kind = "none" /\ sec.fwd = FALSE
      /\ live \in Slots /\ live.active = First /\ live.kind = "none"
  BY <1>1 DEF Init, Snapshots, Slots, Kinds
<1>4. fwd \in Fanouts /\ fwd.key = NoKey /\ fwd.queue = {} /\ clocks \in Clocks
  BY IdleType DEF Init, Idle
<1>5. TypeOK BY <1>2, <1>3, <1>4 DEF Init, TypeOK, Labels
<1>6. Installation /\ Control /\ Record
  BY <1>1, <1>2, <1>3 DEF Init, Installation, Control, Record, Shape
<1>7. Fanout /\ Air /\ Served /\ Paced
  BY <1>2, <1>3, <1>4 DEF Init, Fanout, Air, OneKeyPerSequence, Served, Paced
<1>8. QED BY <1>5, <1>6, <1>7 DEF IInv, Core

\* The invariant is inductive.
LEMMA StepInv == IInv /\ [Next]_vars => IInv'
<1> SUFFICES ASSUME IInv, [Next]_vars PROVE IInv'
  OBVIOUS
<1>1. CASE Next
  BY <1>1, TypeStep, ControlStep, FanoutStep, AirStep, ServedStep, PacedStep DEF IInv, Core
<1>2. CASE UNCHANGED vars
  <2>1. UNCHANGED <<tc, sec, live, fwd, intent, clocks, forced, kids, pc, fault, made, air, switched,
                    given, late, inputs, faults>>
    BY <1>2 DEF vars, durable, ram, history, bounds
  <2>2. TypeOK' BY <2>1 DEF IInv, Core, TypeOK
  <2>3. (Installation /\ Control /\ Record)'
    BY <2>1 DEF IInv, Core, Installation, Shape, Control, Record
  <2>4. (Fanout /\ Air /\ Served /\ Paced)'
    BY <2>1 DEF IInv, Fanout, Target, Air, OneKeyPerSequence, Served, Paced
  <2>5. QED BY <2>2, <2>3, <2>4 DEF IInv, Core
<1>3. QED BY <1>1, <1>2

\* The invariant holds in every reachable state.
THEOREM Invariance == Spec => []IInv
<1>1. QED BY InitInv, StepInv, PTL DEF Spec

\* Every variable keeps its shape and the clocks their bounds, whatever the
\* order of requests, resets, joins and polls.
THEOREM TypeCorrect == Spec => []TypeOK
<1>1. IInv => TypeOK BY DEF IInv, Core
<1>2. QED BY <1>1, Invariance, PTL

\* Wherever power fails, the security journal holds the key the recorded
\* rotation is about.
THEOREM RecordHasItsKey == Spec => []KeyBehindRecord
<1>1. IInv => KeyBehindRecord
  BY CoreTypes DEF IInv, Core, Record, Installation, Shape, KeyBehindRecord
<1>2. QED BY <1>1, Invariance, PTL

\* Two peers that were sent a key of one generation were sent the same key.
THEOREM OneKeyDistributed == Spec => []OneKeyPerSequence
<1>1. IInv => OneKeyPerSequence BY DEF IInv, Air
<1>2. QED BY <1>1, Invariance, PTL

\* A reset never goes back to a key that was left.
THEOREM ActiveKeySurvives == Spec => []ActiveIsDurable
<1>1. IInv => ActiveIsDurable BY DEF IInv, Core, Installation, ActiveIsDurable
<1>2. QED BY <1>1, Invariance, PTL

\* No key is used before it was named in a Switch-Key.
THEOREM SwitchPrecedesUse == Spec => []SwitchedBeforeUse
<1>1. IInv => SwitchedBeforeUse BY DEF IInv, Core, Installation, Record, SwitchedBeforeUse
<1>2. QED BY <1>1, Invariance, PTL

\* The sleepy children are offered the key of the recorded broadcast rotation.
THEOREM FanoutCoversRotation == Spec => []FanoutArmed
<1>1. IInv => FanoutArmed
  <2> SUFFICES ASSUME IInv, tc.phase # "None", tc.method = "Broadcast", pc # "down"
               PROVE  fwd.key.gen = tc.target
    BY DEF FanoutArmed
  <2>1. \/ sec.kind = "staged" /\ sec.second.gen = tc.target
        \/ sec.kind = "previous" /\ sec.active.gen = tc.target
    BY DEF IInv, Core, Record
  <2>2. fwd.key = Target(sec) BY <2>1 DEF IInv, Fanout
  <2>3. QED BY <2>1, <2>2 DEF Target
<1>2. QED BY <1>1, Invariance, PTL

\* Every router that was admitted in time is sent the key before the switch.
THEOREM RoutersGetTheKey == Spec => []RoutersServed
<1>1. IInv => RoutersServed BY DEF IInv, Served, RoutersServed
<1>2. QED BY <1>1, Invariance, PTL

\* Only the end of the wait goes on to the switch.
LEMMA SwitchStep ==
    ASSUME Core, Paced, Next, tc.phase = "WaitingForPropagation", tc'.phase = "Switching", tc.method = "Broadcast", kids # {}
    PROVE  fwd.age >= Window
<1>1. CASE Begin
  BY <1>1 DEF Begin, Prepare, durable
<1>2. CASE Request
  BY <1>2 DEF Request, Prepare, durable
<1>3. CASE CheckpointStaged
  BY <1>3 DEF CheckpointStaged, durable
<1>4. CASE BeginForwarding
  BY <1>4 DEF BeginForwarding, durable
<1>5. ASSUME NEW m \in Methods, Commit(m) PROVE fwd.age >= Window
  BY <1>5 DEF Commit, durable, Core, TypeOK, Records
<1>6. CASE CommitRefused
  BY <1>6, ResetEffect DEF CommitRefused, Core, durable
<1>7. CASE RequestFails
  BY <1>7 DEF RequestFails, durable
<1>8. CASE Distribute
  BY <1>8 DEF Distribute, Rotating, durable
<1>9. ASSUME NEW p \in Peers, DistributeTo(p) PROVE fwd.age >= Window
  BY <1>9 DEF DistributeTo, Rotating, durable
<1>10. CASE DistributeDone
  BY <1>10 DEF DistributeDone, Rotating, durable
<1>11. CASE WaitOver
  <2>1. HasPeers BY DEF HasPeers
  <2>2. clocks.waited >= Grace BY <1>11, <2>1 DEF WaitOver
  <2>3. clocks.waited \in 0..Grace /\ fwd.age \in 0..Window /\ Window \in Nat /\ Grace \in Nat /\ Window <= Grace
    BY Constants, FanoutTypes DEF Core, TypeOK, Clocks
  <2>4. clocks.waited <= fwd.age \/ fwd.age >= Window BY DEF Paced
  <2>5. QED BY <2>2, <2>3, <2>4
<1>12. CASE WaitMore
  BY <1>12 DEF WaitMore, durable
<1>13. CASE Switch
  BY <1>13 DEF Switch, Rotating, durable
<1>14. CASE Defer
  BY <1>14 DEF Defer, durable
<1>15. CASE Resumed
  BY <1>15 DEF Resumed, durable
<1>16. CASE Activate
  BY <1>16 DEF Activate, durable
<1>17. CASE Complete
  BY <1>17 DEF Complete, durable, Core, TypeOK, Records
<1>18. CASE Serviced
  BY <1>18 DEF Serviced, durable
<1>19. CASE Poll
  BY <1>19 DEF Poll, durable
<1>20. CASE Tick
  BY <1>20 DEF Tick, durable
<1>21. CASE ReceiveNewKey
  BY <1>21 DEF ReceiveNewKey, durable
<1>22. CASE Crash
  BY <1>22, ResetEffect DEF Crash, Core, durable
<1>23. CASE Boot
  BY <1>23 DEF Boot, durable
<1>24. ASSUME NEW c \in Kids, Forward(c) PROVE fwd.age >= Window
  BY <1>24 DEF Forward, durable
<1>25. ASSUME NEW c \in Kids, ChildChange(c) PROVE fwd.age >= Window
  BY <1>25 DEF ChildChange, durable
<1>26. ASSUME NEW q \in fwd.queue, NEW taken \in BOOLEAN, ChildPoll(q, taken) PROVE fwd.age >= Window
  BY <1>26 DEF ChildPoll, durable
<1>27. ASSUME NEW p \in Peers, Join(p) PROVE fwd.age >= Window
  BY <1>27 DEF Join, durable, Core, TypeOK, Records
<1>28. ASSUME NEW p \in Peers, Leave(p) PROVE fwd.age >= Window
  BY <1>28 DEF Leave, durable, Core, TypeOK, Records
<1>29. ASSUME NEW p \in Peers, NEW role \in {"router", "end"}, Announce(p, role) PROVE fwd.age >= Window
  BY <1>29 DEF Announce, durable, Core, TypeOK, Records
<1> QED BY <1>1, <1>2, <1>3, <1>4, <1>5, <1>6, <1>7, <1>8, <1>9, <1>10, <1>11, <1>12, <1>13, <1>14, <1>15, <1>16, <1>17, <1>18, <1>19, <1>20, <1>21, <1>22, <1>23, <1>24, <1>25, <1>26, <1>27, <1>28, <1>29 DEF Next, Work

\* The coordinator does not switch while its children's window is open.
THEOREM WindowThenSwitch == Spec => WindowBeforeSwitch
<1>1. /\ IInv /\ [Next]_vars
      => [tc.phase = "WaitingForPropagation" /\ tc'.phase = "Switching"
            /\ tc.method = "Broadcast" /\ kids # {} => fwd.age >= Window]_vars
  BY SwitchStep DEF IInv
<1>2. QED BY <1>1, Invariance, PTL DEF Spec, WindowBeforeSwitch

\* Only an activation moves the durable key, by one generation.
LEMMA SequenceStep ==
    ASSUME Core, Next
    PROVE  sec'.active.gen \in {sec.active.gen, sec.active.gen + 1}
<1>1. CASE Begin
  BY <1>1 DEF Begin, Prepare, durable
<1>2. CASE Request
  BY <1>2 DEF Request, Prepare, durable
<1>3. CASE CheckpointStaged
  <2>1. live \in Slots /\ intent \in BOOLEAN /\ live.active = sec.active BY DEF Core, TypeOK, Installation
  <2>2. Refresh(live, intent) BY <1>3 DEF CheckpointStaged
  <2>3. QED BY <2>1, <2>2, RefreshEffect DEF Core
<1>4. CASE BeginForwarding
  <2>1. live \in Slots /\ intent \in BOOLEAN /\ live.active = sec.active BY DEF Core, TypeOK, Installation
  <2>2. Refresh(live, TRUE) BY <1>4 DEF BeginForwarding
  <2>3. QED BY <2>1, <2>2, RefreshEffect DEF Core
<1>5. ASSUME NEW m \in Methods, Commit(m) PROVE sec'.active.gen \in {sec.active.gen, sec.active.gen + 1}
  BY <1>5 DEF Commit, durable
<1>6. CASE CommitRefused
  BY <1>6, ResetEffect DEF CommitRefused, Core, durable
<1>7. CASE RequestFails
  BY <1>7 DEF RequestFails, durable
<1>8. CASE Distribute
  BY <1>8, ResetEffect DEF Distribute, Then, Core, durable
<1>9. ASSUME NEW p \in Peers, DistributeTo(p) PROVE sec'.active.gen \in {sec.active.gen, sec.active.gen + 1}
  BY <1>9, ResetEffect DEF DistributeTo, Then, Core, durable
<1>10. CASE DistributeDone
  BY <1>10 DEF DistributeDone, durable
<1>11. CASE WaitOver
  BY <1>11 DEF WaitOver, durable
<1>12. CASE WaitMore
  BY <1>12 DEF WaitMore, durable
<1>13. CASE Switch
  BY <1>13, ResetEffect DEF Switch, Then, Core, durable
<1>14. CASE Defer
  BY <1>14 DEF Defer, durable
<1>15. CASE Resumed
  BY <1>15 DEF Resumed, durable
<1>16. CASE Activate
  <2>1. CASE sec' = sec BY <2>1
  <2>2. CASE sec' # sec
    <3>1. live.kind = "staged" /\ Refresh(Activated(live), intent) BY <1>16, <2>2 DEF Activate
    <3>2. Activated(live) \in Slots /\ intent \in BOOLEAN BY SlotTypes DEF Core, TypeOK
    <3>3. sec'.active = live.second BY <3>1, <3>2, RefreshEffect, Updates DEF Core
    <3>4. live.second.gen = sec.active.gen + 1 BY <3>1 DEF Core, Installation, Shape
    <3>5. QED BY <3>3, <3>4
  <2>3. QED BY <2>1, <2>2
<1>17. CASE Complete
  <2>1. live \in Slots /\ intent \in BOOLEAN /\ live.active = sec.active BY DEF Core, TypeOK, Installation
  <2>2. Refresh(live, intent) BY <1>17 DEF Complete
  <2>3. QED BY <2>1, <2>2, RefreshEffect DEF Core
<1>18. CASE Serviced
  BY <1>18 DEF Serviced, durable
<1>19. CASE Poll
  <2>1. live \in Slots /\ intent \in BOOLEAN /\ live.active = sec.active BY DEF Core, TypeOK, Installation
  <2>2. Refresh(live, intent) BY <1>19 DEF Poll
  <2>3. QED BY <2>1, <2>2, RefreshEffect DEF Core
<1>20. CASE Tick
  BY <1>20 DEF Tick, durable
<1>21. CASE ReceiveNewKey
  <2>1. CASE sec' = sec BY <2>1
  <2>2. CASE sec' # sec
    <3>1. live.kind = "staged" /\ Refresh(Activated(live), intent) BY <1>21, <2>2 DEF ReceiveNewKey
    <3>2. Activated(live) \in Slots /\ intent \in BOOLEAN BY SlotTypes DEF Core, TypeOK
    <3>3. sec'.active = live.second BY <3>1, <3>2, RefreshEffect, Updates DEF Core
    <3>4. live.second.gen = sec.active.gen + 1 BY <3>1 DEF Core, Installation, Shape
    <3>5. QED BY <3>3, <3>4
  <2>3. QED BY <2>1, <2>2
<1>22. CASE Crash
  BY <1>22, ResetEffect DEF Crash, Core, durable
<1>23. CASE Boot
  BY <1>23 DEF Boot, durable, Core, TypeOK, Snapshots
<1>24. ASSUME NEW c \in Kids, Forward(c) PROVE sec'.active.gen \in {sec.active.gen, sec.active.gen + 1}
  BY <1>24 DEF Forward, durable
<1>25. ASSUME NEW c \in Kids, ChildChange(c) PROVE sec'.active.gen \in {sec.active.gen, sec.active.gen + 1}
  BY <1>25 DEF ChildChange, durable
<1>26. ASSUME NEW q \in fwd.queue, NEW taken \in BOOLEAN, ChildPoll(q, taken) PROVE sec'.active.gen \in {sec.active.gen, sec.active.gen + 1}
  BY <1>26 DEF ChildPoll, durable
<1>27. ASSUME NEW p \in Peers, Join(p) PROVE sec'.active.gen \in {sec.active.gen, sec.active.gen + 1}
  BY <1>27 DEF Join, durable
<1>28. ASSUME NEW p \in Peers, Leave(p) PROVE sec'.active.gen \in {sec.active.gen, sec.active.gen + 1}
  BY <1>28 DEF Leave, durable
<1>29. ASSUME NEW p \in Peers, NEW role \in {"router", "end"}, Announce(p, role) PROVE sec'.active.gen \in {sec.active.gen, sec.active.gen + 1}
  BY <1>29 DEF Announce, durable
<1> QED BY <1>1, <1>2, <1>3, <1>4, <1>5, <1>6, <1>7, <1>8, <1>9, <1>10, <1>11, <1>12, <1>13, <1>14, <1>15, <1>16, <1>17, <1>18, <1>19, <1>20, <1>21, <1>22, <1>23, <1>24, <1>25, <1>26, <1>27, <1>28, <1>29 DEF Next, Work

\* The durable key never goes back, and no generation is skipped.
THEOREM SequenceIsMonotone == Spec => SequenceAdvances
<1>1. /\ IInv /\ [Next]_vars
      => [sec'.active.gen \in {sec.active.gen, sec.active.gen + 1}]_vars
  BY SequenceStep DEF IInv
<1>2. QED BY <1>1, Invariance, PTL DEF Spec, SequenceAdvances

=============================================================================
