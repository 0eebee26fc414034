----------------------------- MODULE NwkSecurity -----------------------------
(***************************************************************************)
(* The network keys of a node and its incoming NWK replay table:            *)
(* zigbee-nwk/src/security.rs, used by the receive path of nlde.rs, by the  *)
(* rejoin of nlme.rs, by the key commands of apsde.rs, and by the           *)
(* store-backed receive and rejoin of zigbee-runtime/src/lib.rs.            *)
(*                                                                          *)
(* A node holds an active key and one other, which is either staged (to be  *)
(* activated) or the previous one (kept for reception).  It accepts a frame *)
(* only above the floor recorded for its sender and key sequence.  The      *)
(* table is bounded, so floors are given up; the module says which, and the *)
(* properties say what may be accepted again because of that.               *)
(*                                                                          *)
(* A received frame is a transaction: admitted (Receive), handled by the    *)
(* layers above (TransportKey, SwitchKey), made durable (Persist) and only  *)
(* then recorded in the table.  A frame is any sender, key and counter, at  *)
(* any time: a frame sent long ago and heard again is one of them.  The     *)
(* Trust Center and the network are external.                               *)
(*                                                                          *)
(* The order of the table only decides which of several eligible floors is  *)
(* given up; the model gives up any one of them.                            *)
(***************************************************************************)
EXTENDS Integers, FiniteSets

CONSTANTS
    Sources,       \* IEEE addresses of the devices heard
    Keys,          \* network keys the Trust Center may hand out
    KeySeq,        \* the sequence number it gives each of them
    SeqModulus,    \* sequence numbers are modulo this (256)
    MaxCounter,    \* bound: frame counters are 1..MaxCounter
    RouterCounter, \* bound: those of the frames a router hears are 1..RouterCounter
    RouterFloors,  \* MAX_FRAME_COUNTER_ENTRIES of a router (64)
    LeafFloors,    \* and of an end device (16)
    StaleSecs,     \* replay_stale_secs, in ticks
    NoKey, NoSeq, NoNode, NoFrame

ASSUME SecurityAssumption ==
    /\ NoKey \notin Keys /\ NoNode \notin Sources
    /\ SeqModulus \in Nat \ {0} /\ StaleSecs \in Nat
    /\ RouterFloors \in Nat \ {0} /\ LeafFloors \in Nat \ {0}
    /\ MaxCounter \in Nat /\ RouterCounter \in 1..MaxCounter
    /\ KeySeq \in [Keys -> 0..(SeqModulus - 1)]
    /\ NoSeq \notin 0..(SeqModulus - 1)
    /\ IsFiniteSet(Sources) /\ IsFiniteSet(Keys)

VARIABLES
    router,     \* the build: the "router" feature, or an end device
    sec,        \* NwkSecurity: keys, staged sequence, transmit fence, floors, seal
    pending,    \* pending_lifecycle_replay: the frame whose floor waits
    saved,      \* the keys in the durable security state
    parents,    \* neighbours whose relationship is Parent
    lookedUp,   \* the one NeighborTable::parent() finds
    parent,     \* nib.parent_address
    children, joining,  \* Child and UnauthenticatedChild neighbours
    heard,      \* history: highest counter recorded, per sender and key
    adopted     \* history: the active key was adopted from a received frame

vars == <<router, sec, pending, saved, parents, lookedUp, parent, children, joining,
          heard, adopted>>
neighbors == <<parents, lookedUp, parent, children, joining>>
history == <<heard, adopted>>

Seqs == 0..(SeqModulus - 1)
Counters == 1..MaxCounter
Domains == Sources \X Keys

\* The bound on what is heard.
HeardCounter(c) == router => c <= RouterCounter

-----------------------------------------------------------------------------
(* Keys *)

NewSecurity == [active |-> NoKey, second |-> NoKey, staged |-> NoSeq,
                fence |-> FALSE, table |-> {}, sealed |-> FALSE]

Installed(x) == {x.active, x.second} \ {NoKey}

\* 255 -> 0 advances; the ambiguous half of the sequence space does not.
key_sequence_is_newer(q, a) ==
    (q - a) % SeqModulus \in 1..(SeqModulus \div 2 - 1)

clear_frame_counters_for_key(table, q) == {e \in table : e.seq # q}

retain_frame_counters_for_installed_keys(x) ==
    [x EXCEPT !.sealed = FALSE,
              !.table = {e \in @ : \E k \in Installed(x) : e.seq = KeySeq[k]}]

Swapped(x) == [x EXCEPT !.active = x.second, !.second = x.active,
                        !.staged = NoSeq, !.sealed = FALSE]

\* The alternate slot is overwritten by k.
PutSecond(x, k, staged) ==
    retain_frame_counters_for_installed_keys(
        [x EXCEPT !.second = k, !.staged = staged,
                  !.table = clear_frame_counters_for_key(@, KeySeq[k])])

set_network_key(x, k) ==
    IF x.active # NoKey /\ KeySeq[x.active] = KeySeq[k]
    THEN [x EXCEPT !.active = k, !.staged = NoSeq,
                   !.table = IF x.active = k THEN @
                             ELSE clear_frame_counters_for_key(@, KeySeq[k])]
    ELSE IF x.second = k THEN Swapped(x)
    ELSE retain_frame_counters_for_installed_keys(
             [x EXCEPT !.active = k, !.second = x.active, !.staged = NoSeq,
                       !.table = clear_frame_counters_for_key(@, KeySeq[k])])

\* Called with an active key; without one a delivery is an initial key.
stage_network_key(x, k) ==
    LET newer == key_sequence_is_newer(KeySeq[k], KeySeq[x.active])
    IN  IF KeySeq[k] = KeySeq[x.active] \/ ~newer THEN x
        ELSE IF x.second = k THEN [x EXCEPT !.staged = KeySeq[k]]
        ELSE PutSecond(x, k, KeySeq[k])

restore_previous_network_key(x, k) ==
    IF KeySeq[k] = KeySeq[x.active] THEN x ELSE PutSecond(x, k, NoSeq)

CanActivate(x, q) ==
    /\ x.staged = q
    /\ x.active # NoKey /\ key_sequence_is_newer(q, KeySeq[x.active])
    /\ x.second # NoKey /\ KeySeq[x.second] = q

activate_network_key(x, q) == IF CanActivate(x, q) THEN Swapped(x) ELSE x

clear_network_keys(x) == NewSecurity

-----------------------------------------------------------------------------
(* Replay floors *)

Has(x, s, q) == \E e \in x.table : e.source = s /\ e.seq = q
MAX_FRAME_COUNTER_ENTRIES == IF router THEN RouterFloors ELSE LeafFloors

Free(x) == MAX_FRAME_COUNTER_ENTRIES - Cardinality(x.table)

\* The retained previous key, as opposed to a staged one.
PreviousSeq(x) ==
    IF x.second # NoKey /\ x.staged # KeySeq[x.second]
    THEN KeySeq[x.second] ELSE NoSeq

\* Floors a newcomer under q may take from the previous key.
Reclaimable(x, q) ==
    {e \in x.table : e.seq = PreviousSeq(x) /\ q # PreviousSeq(x)}

SealedAgainst(x, q) == x.sealed /\ q = PreviousSeq(x)

Stale(x, q, protected) ==
    {e \in x.table \ Reclaimable(x, q) :
        e.silent >= StaleSecs /\ e.source \notin protected}

\* Mutant: floors of the parent and children count as room.
RoomOfKin(x, q, protected) ==
    Free(x) + Cardinality(Reclaimable(x, q)) + Cardinality(Stale(x, q, {}))

Room(x, q, protected) ==
    Free(x) + Cardinality(Reclaimable(x, q)) + Cardinality(Stale(x, q, protected))

\* replay_protected: the floors of the parent and children of a router.
Kin == parents \cup children

\* Mutant: the parent has no reservation.
ReservedForChildren(x, s, q) ==
    IF s \in Kin THEN 0 ELSE Cardinality({p \in children : ~Has(x, p, q)})

replay_slots_reserved_for(x, s, q) ==
    IF s \in Kin THEN 0 ELSE Cardinality({p \in Kin : ~Has(x, p, q)})

\* Mutant: a full table has no room for the parent either.
LeafAdmitsFree(x, s, q, p) ==
    Free(x) > (IF p \in {s, NoNode} \/ Has(x, p, q) THEN 0 ELSE 1)

leaf_admits_new_domain(x, s, q, p) ==
    CASE p = s       -> Free(x) > 0 \/ \E e \in x.table : e.source # p
      [] p = NoNode  -> Free(x) > 0
      [] OTHER       -> Free(x) > (IF Has(x, p, q) THEN 0 ELSE 1)

\* The parent an end device keeps a slot for.
ReservingParent(rejoinParent) ==
    IF rejoinParent # NoNode THEN rejoinParent ELSE lookedUp

AdmitsNewDomain(x, s, q, rejoinParent) ==
    IF router
    THEN /\ ~SealedAgainst(x, q)
         /\ Room(x, q, Kin) > (IF rejoinParent = NoNode
                               THEN replay_slots_reserved_for(x, s, q) ELSE 0)
    ELSE leaf_admits_new_domain(x, s, q, ReservingParent(rejoinParent))

\* incoming_replay_admission answers Fresh.
Fresh(x, s, q, c, rejoinParent) ==
    /\ \A e \in x.table : e.source = s /\ e.seq = q => c > e.counter
    /\ Has(x, s, q) \/ AdmitsNewDomain(x, s, q, rejoinParent)

Floor(s, q, c) == [source |-> s, seq |-> q, counter |-> c, silent |-> 0]

\* What a full table gives up to record a new domain.
Victims(x, s, q) ==
    IF ~router THEN {e \in x.table : e.source # s}
    ELSE IF Reclaimable(x, q) # {} THEN Reclaimable(x, q)
    ELSE Stale(x, q, Kin)

\* Whether commit_replay_floor records the floor.
Recordable(x, s, q, rejoinParent) ==
    \/ Has(x, s, q)
    \/ IF router
       THEN ~SealedAgainst(x, q) /\ (Free(x) > 0 \/ Victims(x, s, q) # {})
       ELSE leaf_admits_new_domain(x, s, q, ReservingParent(rejoinParent))

Raised(x, s, q, c) ==
    [x EXCEPT !.table = {IF e.source = s /\ e.seq = q
                         THEN Floor(s, q, IF c > e.counter THEN c ELSE e.counter)
                         ELSE e : e \in @}]

\* Mutant: the previous key is not sealed.
ReplacedUnsealed(x, e, f) == [x EXCEPT !.table = (@ \ {e}) \cup {f}]

Replaced(x, e, f) ==
    [x EXCEPT !.table = (@ \ {e}) \cup {f},
              !.sealed = @ \/ (router /\ e.seq = PreviousSeq(x) /\ f.seq # e.seq)]

\* commit_replay_floor: the states it may leave.  Which floor is given up is
\* the first, the earliest or the longest silent of the eligible ones.
Commits(x, s, q, c, rejoinParent) ==
    IF Has(x, s, q) THEN {Raised(x, s, q, c)}
    ELSE IF ~Recordable(x, s, q, rejoinParent) THEN {x}
    ELSE IF Free(x) > 0
         THEN {[x EXCEPT !.table = @ \cup {Floor(s, q, c)}]}
         ELSE {Replaced(x, e, Floor(s, q, c)) : e \in Victims(x, s, q)}

-----------------------------------------------------------------------------
(* The durable keys *)

NoState == [active |-> NoKey, second |-> NoKey, previous |-> FALSE]

Snapshot(x) == [active |-> x.active, second |-> x.second,
                previous |-> x.second # NoKey /\ x.staged # KeySeq[x.second]]

\* Only a commissioned record is refreshed.
refresh_security_state(x) == IF saved.active = NoKey THEN saved ELSE Snapshot(x)

install_restored_network_security(x, state) ==
    LET y == set_network_key(x, state.active)
    IN  IF state.second = NoKey THEN y
        ELSE IF state.previous THEN restore_previous_network_key(y, state.second)
        ELSE stage_network_key(y, state.second)

-----------------------------------------------------------------------------
(* History.  heard[s, k] is the counter up to which frames of s under k must *)
(* not be accepted again.  It is reset where the documentation says a floor  *)
(* is given up: stale eviction, replacement by the parent of an end device,  *)
(* a child admitted anew or evicted, a key removed, a reboot; and where a    *)
(* failed rejoin installs the previous key again, or a Transport-Key stages  *)
(* it once it is sealed, which is not documented (see the README).           *)
(* Reclaiming a floor of the previous key does not reset it: the key is      *)
(* sealed instead.                                                           *)

HeardUnder(x) ==
    heard' = [d \in Domains |-> IF d[2] \in Installed(x) THEN heard[d] ELSE 0]

HeardWithout(s) == heard' = [d \in Domains |-> IF d[1] = s THEN 0 ELSE heard[d]]

\* The seal does not count for a staged key.
HeardStaging(x, y, k) ==
    heard' = [d \in Domains |->
                 IF d[2] \notin Installed(y) \/ (x.sealed /\ d[2] = k /\ y.staged = KeySeq[k])
                 THEN 0 ELSE heard[d]]

GivenUp(x, y, q, d) ==
    /\ Has(x, d[1], KeySeq[d[2]]) /\ ~Has(y, d[1], KeySeq[d[2]])
    /\ ~(router /\ KeySeq[d[2]] = PreviousSeq(x) /\ KeySeq[d[2]] # q)

HeardRecording(x, y, s, k, c) ==
    heard' = [d \in Domains |-> IF d = <<s, k>> /\ k \in Installed(x)
                                   /\ Has(y, s, KeySeq[k]) THEN c
                                ELSE IF GivenUp(x, y, KeySeq[k], d) THEN 0
                                ELSE heard[d]]

-----------------------------------------------------------------------------
(* Neighbours *)

\* The parent that accepted us becomes a Parent entry; former parents keep
\* theirs.  The entry takes any free slot, so either may be found first.
AddParent(p) ==
    /\ parents' = parents \cup {p}
    /\ lookedUp' \in (IF parents \subseteq {p} THEN {p} ELSE {lookedUp, p})
    /\ parent' = p
    /\ children' = children \ {p}
    /\ joining' = joining \ {p}

DropNeighbor(s) ==
    /\ parents' = parents \ {s}
    /\ lookedUp' \in (IF lookedUp # s THEN {lookedUp}
                      ELSE IF parents \ {s} = {} THEN {NoNode} ELSE parents \ {s})
    /\ children' = children \ {s} /\ joining' = joining \ {s}

Init ==
    /\ router \in BOOLEAN
    /\ sec = NewSecurity
    /\ pending = NoFrame
    /\ saved = NoState
    /\ parents = {} /\ lookedUp = NoNode /\ parent = NoNode
    /\ children = {} /\ joining = {}
    /\ heard = [d \in Domains |-> 0]
    /\ adopted = FALSE

-----------------------------------------------------------------------------
(* Joining *)

\* Association with p, and the network key it forwards.
Join(p, k) ==
    /\ sec.active = NoKey /\ saved = NoState
    /\ AddParent(p)
    /\ sec' = set_network_key(sec, k)
    /\ UNCHANGED <<pending, saved, history>>

\* The commissioned network is committed.
Commission ==
    /\ sec.active # NoKey /\ saved = NoState /\ pending = NoFrame
    /\ saved' = Snapshot(sec)
    /\ UNCHANGED <<sec, pending, neighbors, history>>

-----------------------------------------------------------------------------
(* Receiving.  The store is refreshed first: if that fails, the frame is not *)
(* processed.  While the fence is up every frame is deferred.                *)

\* "announce": a Parent Announce or an address conflict of a child.
FrameKinds == {"command", "data", "announce", "rejoin", "leave", "leaveChildren"}
Leaves(kind) == kind \in {"leave", "leaveChildren"}

parent_leave_ends_membership(kind) == ~router \/ kind = "leaveChildren"

\* classify_lifecycle_command: what must be stored before the floor counts.
Lifecycle(s, kind) ==
    CASE kind = "data" -> "LocalData"
      [] kind = "announce" -> "ChildState"
      [] Leaves(kind) /\ s = parent ->
             IF parent_leave_ends_membership(kind) THEN "SecurityState" ELSE "None"
      [] Leaves(kind) /\ s # parent /\ s \in children \cup joining -> "ChildState"
      [] OTHER -> "None"

\* Any frame a provisional child sends itself makes it a child, and so does a
\* secured Rejoin Request that can be answered: the fence holds the answer back,
\* and a device that was no child is then forgotten.
Promotes(s, kind, own, fence) ==
    \/ own /\ ~Leaves(kind) /\ s \in joining
    \/ kind = "rejoin" /\ s \notin parents /\ ~fence

\* What the frame does to the neighbours; a Leave indication removes its sender.
NeighborEffect(s, kind, own, fence) ==
    IF Leaves(kind)
    THEN /\ DropNeighbor(s)
         /\ parent' = IF s = parent /\ ~parent_leave_ends_membership(kind)
                      THEN NoNode ELSE parent
    ELSE /\ IF Promotes(s, kind, own, fence)
            THEN children' = children \cup {s} /\ joining' = joining \ {s}
            ELSE UNCHANGED <<children, joining>>
         /\ UNCHANGED <<parents, lookedUp, parent>>

\* own: the sender is the originator and not a relay.
Receive(s, k, c, kind, own) ==
    LET activates == CanActivate(sec, KeySeq[k])
        y == IF activates THEN [Swapped(sec) EXCEPT !.fence = TRUE] ELSE sec
        waits == IF Lifecycle(s, kind) = "None" /\ y.fence THEN "SecurityState"
                 ELSE Lifecycle(s, kind)
    IN  /\ pending = NoFrame
        /\ k \in Installed(sec)
        /\ HeardCounter(c) /\ Fresh(sec, s, KeySeq[k], c, NoNode)
        /\ kind \in {"announce", "rejoin"} => router
        /\ kind \in {"command", "data"} \/ own
        \* Before it is commissioned a node whose parent leaves starts over: Leave.
        /\ Leaves(kind) /\ s = parent /\ saved = NoState =>
               ~parent_leave_ends_membership(kind)
        /\ saved' = refresh_security_state(sec)
        /\ adopted' = (adopted \/ activates)
        /\ NeighborEffect(s, kind, own, y.fence)
        /\ IF waits # "None"
           THEN /\ sec' = y
                /\ pending' = [source |-> s, key |-> k, counter |-> c,
                               moved |-> Leaves(kind) \/ Promotes(s, kind, own, y.fence),
                               waits |-> waits]
                /\ UNCHANGED heard
           ELSE /\ sec' \in Commits(sec, s, KeySeq[k], c, NoNode)
                /\ HeardRecording(sec, sec', s, k, c)
                /\ UNCHANGED pending

Handling == pending # NoFrame /\ pending.waits = "LocalData"
Handled == pending' = [pending EXCEPT !.waits = "SecurityState"]

\* The data frame carries an authenticated Transport-Key with a network key.
TransportKey(k) ==
    /\ Handling /\ sec.active # NoKey
    /\ sec' = stage_network_key(sec, k)
    /\ HeardStaging(sec, sec', k)
    /\ Handled
    /\ UNCHANGED <<saved, neighbors, adopted>>

\* The data frame carries an authenticated Switch-Key.
SwitchKey(q) ==
    /\ Handling
    /\ sec' = activate_network_key(sec, q)
    /\ adopted' = (adopted /\ ~CanActivate(sec, q))
    /\ Handled
    /\ UNCHANGED <<saved, neighbors, heard>>

\* complete_lifecycle_persistence
Complete ==
    LET q == KeySeq[pending.key]
    IN  \E y \in Commits(sec, pending.source, q, pending.counter, NoNode) :
            /\ sec' = [y EXCEPT !.fence = FALSE]
            /\ HeardRecording(sec, y, pending.source, pending.key, pending.counter)
            /\ pending' = NoFrame

\* The security snapshot is stored; the child journal is written after it.
Persist ==
    /\ pending # NoFrame /\ pending.waits # "ChildSaved"
    /\ saved' = refresh_security_state(sec)
    /\ IF pending.waits = "ChildState"
       THEN pending' = [pending EXCEPT !.waits = "ChildSaved"] /\ UNCHANGED <<sec, heard>>
       ELSE Complete
    /\ UNCHANGED <<neighbors, adopted>>

\* Mutant: the fence is lowered although nothing was stored.
PersistFailsUnfenced ==
    /\ pending # NoFrame /\ pending.waits # "ChildSaved"
    /\ pending' = NoFrame
    /\ sec' = [sec EXCEPT !.fence = FALSE]
    /\ UNCHANGED <<saved, neighbors, history>>

\* The store fails: the floor is not consumed, the fence stays.
PersistFails ==
    /\ pending # NoFrame /\ pending.waits # "ChildSaved"
    /\ pending' = NoFrame
    /\ UNCHANGED <<sec, saved, neighbors, history>>

\* The child journal is written, or failed and the next step goes on without.
PersistChild ==
    /\ pending # NoFrame /\ pending.waits = "ChildSaved"
    /\ Complete
    /\ UNCHANGED <<saved, neighbors, adopted>>

-----------------------------------------------------------------------------
(* Rejoining *)

\* A secured Rejoin Response of p, whether or not it accepts the node.  A
\* device attached to this node is not asked to be its parent.
SecureRejoin(p, k, c, accepted) ==
    LET q == KeySeq[k]
    IN  /\ pending = NoFrame /\ saved # NoState
        /\ p \notin children \cup joining
        /\ k \in Installed(sec)
        /\ HeardCounter(c) /\ Fresh(sec, p, q, c, p)
        /\ saved' = refresh_security_state(sec)
        /\ sec' \in (IF Recordable(sec, p, q, p) THEN Commits(sec, p, q, c, p) ELSE {})
        /\ HeardRecording(sec, sec', p, k, c)
        /\ IF accepted THEN AddParent(p) ELSE UNCHANGED neighbors
        /\ UNCHANGED <<pending, adopted>>

\* An unsecured Trust Center rejoin is accepted by p: the keys are dropped
\* while the node waits for the current one.
TcRejoin(p) ==
    /\ pending = NoFrame /\ saved # NoState /\ sec.active # NoKey
    /\ saved' = refresh_security_state(sec)
    /\ sec' = clear_network_keys(sec)
    /\ HeardUnder(sec')
    /\ AddParent(p)
    /\ adopted' = FALSE
    /\ UNCHANGED pending

\* The key arrives and is stored.
TcKeyStored(k) ==
    /\ saved # NoState /\ sec.active = NoKey
    /\ sec' = set_network_key(sec, k)
    /\ saved' = [NoState EXCEPT !.active = k]
    /\ UNCHANGED <<pending, neighbors, history>>

\* The key arrives but cannot be stored: the stored keys are installed again.
TcKeyNotStored(k) ==
    /\ saved # NoState /\ sec.active = NoKey
    /\ sec' = install_restored_network_security(set_network_key(sec, k), saved)
    /\ UNCHANGED <<pending, saved, neighbors, history>>

\* No parent accepts, or no key arrives: the same, over live or dropped keys.
TcRejoinFails ==
    /\ pending = NoFrame /\ saved # NoState
    /\ saved' = IF sec.active = NoKey THEN saved ELSE refresh_security_state(sec)
    /\ sec' = install_restored_network_security(sec, saved')
    /\ heard' = [d \in Domains |-> IF saved'.previous /\ d[2] = saved'.second
                                   THEN 0 ELSE heard[d]]
    /\ UNCHANGED <<pending, neighbors, adopted>>

-----------------------------------------------------------------------------
(* Time, neighbours, leaving, power *)

\* Mutant: the silence does not saturate.
AgeUnbounded ==
    /\ router /\ pending = NoFrame
    /\ sec' = [sec EXCEPT !.table = {[e EXCEPT !.silent = @ + 1] : e \in @}]
    /\ UNCHANGED <<pending, saved, neighbors, history>>

\* A second of maintenance; more silence than StaleSecs makes no difference.
age_replay_floors ==
    /\ router /\ pending = NoFrame
    /\ sec' = [sec EXCEPT !.table =
                  {[e EXCEPT !.silent = IF @ < StaleSecs THEN @ + 1 ELSE @] : e \in @}]
    /\ UNCHANGED <<pending, saved, neighbors, history>>

ForgetFloors(s) ==
    /\ sec' = [sec EXCEPT !.table = {e \in @ : e.source # s}]
    /\ HeardWithout(s)
    /\ UNCHANGED <<pending, saved, parents, lookedUp, parent, adopted>>

\* A device associates, or rejoins unsecured: it is provisional.
AdmitChild(s) ==
    /\ router /\ pending = NoFrame /\ sec.active # NoKey /\ s \notin parents
    /\ children' = children \ {s} /\ joining' = joining \cup {s}
    /\ ForgetFloors(s)

\* A child is aged out, or removed while a frame of another that says so waits.
evict_child(s) ==
    /\ pending # NoFrame => pending.waits = "ChildSaved" /\ s # pending.source
    /\ s \in children \cup joining
    /\ children' = children \ {s} /\ joining' = joining \ {s}
    /\ ForgetFloors(s)

\* A router child that stopped sending Link Status is aged out: its floors stay.
age_router_child(s) ==
    /\ router /\ pending = NoFrame /\ s \in children
    /\ DropNeighbor(s)
    /\ UNCHANGED <<sec, pending, saved, parent, history>>

\* finish_leave: with rejoin the keys and floors are kept.
Leave(rejoin) ==
    /\ sec.active # NoKey
    /\ pending' = NoFrame
    /\ parents' = {} /\ lookedUp' = NoNode /\ children' = {} /\ joining' = {}
    /\ IF rejoin THEN UNCHANGED <<sec, saved, parent, history>>
       ELSE /\ sec' = NewSecurity /\ saved' = NoState /\ parent' = NoNode
            /\ HeardUnder(sec') /\ adopted' = FALSE

\* A power cut and the restart: floors and the Parent entries are not durable.
Reboot ==
    /\ sec' = IF saved = NoState THEN NewSecurity
              ELSE install_restored_network_security(NewSecurity, saved)
    /\ pending' = NoFrame
    /\ parents' = {} /\ lookedUp' = NoNode /\ joining' = {}
    /\ IF saved = NoState THEN parent' = NoNode /\ children' = {}
       ELSE UNCHANGED <<parent, children>>
    /\ heard' = [d \in Domains |-> 0]
    /\ adopted' = FALSE
    /\ UNCHANGED saved

Next ==
    /\ router' = router
    /\ \/ \E p \in Sources, k \in Keys : Join(p, k)
       \/ Commission
       \/ \E s \in Sources, k \in Keys, c \in Counters,
              kind \in FrameKinds, own \in {TRUE, ~router} : Receive(s, k, c, kind, own)
       \/ \E k \in Keys : TransportKey(k) \/ TcKeyStored(k) \/ TcKeyNotStored(k)
       \/ \E q \in Seqs : SwitchKey(q)
       \/ Persist \/ PersistFails \/ PersistChild
       \/ \E p \in Sources, k \in Keys, c \in Counters, accepted \in BOOLEAN :
              SecureRejoin(p, k, c, accepted)
       \/ \E s \in Sources : TcRejoin(s) \/ AdmitChild(s) \/ evict_child(s) \/ age_router_child(s)
       \/ TcRejoinFails
       \/ age_replay_floors
       \/ \E rejoin \in BOOLEAN : Leave(rejoin)
       \/ Reboot

Spec == Init /\ [][Next]_vars

-----------------------------------------------------------------------------
(* Properties *)

SecurityType ==
    [active : Keys \cup {NoKey}, second : Keys \cup {NoKey},
     staged : Seqs \cup {NoSeq}, fence : BOOLEAN, sealed : BOOLEAN,
     table : SUBSET [source : Sources, seq : Seqs, counter : Counters,
                     silent : 0..StaleSecs]]

FrameType ==
    [source : Sources, key : Keys, counter : Counters, moved : BOOLEAN,
     waits : {"LocalData", "SecurityState", "ChildState", "ChildSaved"}]

\* The types of the variables.
TypeOK ==
    /\ sec \in SecurityType
    /\ pending = NoFrame \/ pending \in FrameType
    /\ saved \in [active : Keys \cup {NoKey}, second : Keys \cup {NoKey},
                  previous : BOOLEAN]
    /\ parents \subseteq Sources /\ children \subseteq Sources /\ joining \subseteq Sources
    /\ lookedUp \in Sources \cup {NoNode} /\ parent \in Sources \cup {NoNode}
    /\ heard \in [Domains -> 0..MaxCounter]
    /\ adopted \in BOOLEAN

\* A frame is never accepted at or below a counter already accepted from its
\* sender under its key, unless the floor was given up in a documented way:
\* not when keys are staged, switched or adopted, not when the previous key's
\* floors are reclaimed, not when the store fails.
NoSilentReplay ==
    \A s \in Sources, k \in Keys, c \in Counters :
        k \in Installed(sec) /\ Fresh(sec, s, KeySeq[k], c, NoNode) => c > heard[<<s, k>>]

\* A key is staged that already has floors: a Trust Center rejoin that could
\* not be stored had left it as the previous key, and a Transport-Key brings
\* it again.  Those floors were reclaimable until then, and no longer are.
StagedHasFloors == \E e \in sec.table : e.seq = sec.staged

\* "Admission already reserved room for a new domain" (commit_replay_floor):
\* whatever happens between admission and the deferred commit, the commit
\* records the floor, so no handled frame is left without one.  A frame may
\* carry the Transport-Key that removes its own key, and then needs none.
\* Excepted are the frames that change what their sender is to the node: its
\* parting Leave, and the frame that makes it a child.  So is
\* the frame that stages a key with floors, which were its room.
SettledIsRecordable ==
    /\ pending # NoFrame /\ pending.key \in Installed(sec) /\ ~pending.moved
    /\ ~StagedHasFloors
    => Recordable(sec, pending.source, KeySeq[pending.key], NoNode)

\* A key adopted from received traffic secures nothing the node sends until
\* the store holds it as the active key (activation_pending).
AdoptedKeyDurable ==
    adopted /\ ~sec.fence /\ saved # NoState => saved.active = sec.active

\* A newcomer that is neither parent nor child never takes a slot that a
\* parent or child without a floor still needs (replay_slots_reserved_for),
\* whatever the frame waits for before its floor is recorded.  Only the answer
\* to a rejoin, and the last frame of a parent or child that leaves, are
\* recorded without that reservation, and floors of a staged key are no room.
RoomForKin ==
    [][\A e \in sec'.table :
           /\ router /\ e.source \notin Kin \cup Kin' /\ ~Has(sec, e.source, e.seq)
           /\ pending = NoFrame \/ ~pending.moved
           /\ ~StagedHasFloors'
           /\ \E k \in Installed(sec') : KeySeq[k] = e.seq
           /\ ~\E k \in Keys, accepted \in BOOLEAN :
                   SecureRejoin(e.source, k, e.counter, accepted)
           => Room(sec', e.seq, Kin') >= Cardinality({p \in Kin' : ~Has(sec', p, e.seq)})]_vars

\* An end device that never changed its parent always has room for its
\* parent's first frame under a key, however full the table is.
FirstParentAdmitted ==
    ~router /\ parents = {parent} =>
        \A k \in Installed(sec), c \in Counters :
            Has(sec, parent, KeySeq[k]) \/ Fresh(sec, parent, KeySeq[k], c, NoNode)
=============================================================================
