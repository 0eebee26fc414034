----------------------- MODULE TrustCenterDevicesProofs -----------------------
(***************************************************************************)
(* Theorems about TrustCenterDevices: the delivery slot is owned, a key     *)
(* counts as verified only when the device proved it, the policy table      *)
(* agrees with the journal, and no record is refused, for any devices,      *)
(* bounds and faults.                                                       *)
(***************************************************************************)
EXTENDS TrustCenterDevices, WellFoundedInduction, FiniteSetTheorems, TLAPS

-----------------------------------------------------------------------------
(* The inductive invariant. *)

Places == Parents \cup {"none"}
Records == [known : BOOLEAN, parent : Places, key : Nat, verified : BOOLEAN, timeout : Nat,
            network_key_pending : BOOLEAN, pending_link_key : Nat, transported : BOOLEAN,
            confirm_key_pending : {"none", "success", "failure"}, removal_pending : BOOLEAN]
Policies == [active : BOOLEAN, parent : Places, key : Nat, verified : BOOLEAN, timeout : Nat,
             pending : Nat]
Intents == [device : Devices, parent : Places]
AppRecords == [initiator : Devices \cup {"none"}, responder : Devices \cup {"none"},
               to_initiator : BOOLEAN, to_responder : BOOLEAN]
Databases == [dev : [Devices -> Records], removals : Seq(Intents), app : AppRecords]
Tables == [Devices -> Policies]
Kinds == {"none", "Remove", "Confirm", "AppInitiator", "AppResponder"}
Deliveries == [kind : Kinds, address : Devices \cup {"none"}, via : Devices \cup {"none"}]
Errors == {"none", "store", "policy", "corrupt"}
Works == [db : Databases, table : Tables, delivery : Deliveries, attempts : SUBSET Devices,
          keys : Nat, tombstone : Devices \cup {"none"}, heard : SUBSET (Devices \X Nat),
          bad : Nat, deaf : SUBSET Devices, err : Errors]
Proofs == [Devices -> SUBSET Nat]

\* The database by itself: validate accepts it, an application key is for two
\* devices, and only devices of the database are being removed.
DbOK(D) ==
    /\ Valid(D)
    /\ D.app # NoApp => D.app.initiator \in Devices /\ D.app.responder \in Devices
    /\ \A d \in Devices : D.dev[d].removal_pending => D.dev[d].known

\* DeliveryOwned for a working record.  A Confirm-Key is never in the slot for
\* a device that is being removed: admitting it again may clear the intent.
Owned(D, c) ==
    /\ c.kind # "none" => c.address \in Devices
    /\ c.kind = "Remove" => D.dev[c.address].removal_pending \/ Rejected(D, c.address)
    /\ c.kind = "Confirm" => /\ D.dev[c.address].confirm_key_pending # "none"
                             /\ ~D.dev[c.address].removal_pending
    /\ c.kind = "AppInitiator" => D.app.initiator = c.address /\ ~D.app.to_initiator
    /\ c.kind = "AppResponder" => D.app.responder = c.address /\ ~D.app.to_responder

\* A verified key is one the device proved, in the journal and in RAM.
Proven(s, P, d) == s[d].verified => s[d].key \in P[d]

\* The policy table agrees with the record of a device that is not being removed.
Agrees(s, t) ==
    ~s.removal_pending =>
        /\ t.active = s.known
        /\ t.active => /\ t.parent = s.parent /\ t.key = s.key /\ t.verified = s.verified
                       /\ t.pending \in {NoKey, s.pending_link_key}
Agreed(D, T, X) == \A d \in Devices \ X : Agrees(D.dev[d], T[d])

\* A working record, whatever its outcome, and one that may be kept.
Sane(w, P) ==
    /\ w \in Works
    /\ DbOK(w.db)
    /\ Owned(w.db, w.delivery)
    /\ \A d \in Devices : Proven(w.db.dev, P, d) /\ Proven(w.table, P, d)
Good(w, P) ==
    /\ Sane(w, P)
    /\ w.err # "corrupt"
    /\ w.err = "none" => Agreed(w.db, w.table, {})

Typed ==
    /\ db \in Databases /\ table \in Tables /\ delivery \in Deliveries
    /\ attempts \in SUBSET Devices /\ keys \in Nat /\ proved \in Proofs
    /\ up \in BOOLEAN
IInv ==
    /\ Typed
    /\ DbOK(db)
    /\ Owned(db, delivery)
    /\ \A d \in Devices : Proven(db.dev, proved, d) /\ Proven(table, proved, d)
    /\ up => Agreed(db, table, {})
    /\ fault # "corrupt"

-----------------------------------------------------------------------------
(* Induction, and the two loops. *)

LEMMA Induct ==
    ASSUME NEW S \in SUBSET Nat, 0 \in S, \A n \in S : n + 1 \in S
    PROVE  S = Nat
<1> DEFINE R == OpToRel(<, Nat)  T == Nat \ S
<1>1. IsWellFoundedOn(R, Nat)
  BY NatLessThanWellFounded
<1> SUFFICES ASSUME T # {} PROVE FALSE
  OBVIOUS
<1>2. T \subseteq Nat
  OBVIOUS
<1> HIDE DEF R
<1>3. PICK x \in T : \A y \in T : ~ (<<y, x>> \in R)
  <2> HIDE DEF T
  <2> QED BY <1>1, <1>2, WFMin, Zenon
<1>4. x - 1 \in Nat /\ x - 1 < x /\ x = (x - 1) + 1 /\ x \in Nat
  OBVIOUS
<1>5. <<x - 1, x>> \in R
  <2>1. <<x - 1, x>> \in Nat \X Nat /\ <<x - 1, x>>[1] < <<x - 1, x>>[2]
    BY <1>4
  <2> QED BY <2>1, Zenon DEF R, OpToRel
<1>6. x - 1 \in S
  BY <1>3, <1>4, <1>5
<1> QED BY <1>4, <1>6

ServeOne(list, D, v, d) ==
    Then(v, LAMBDA x : IF Listed(list, D, d) THEN Resume(list, x, d) ELSE x)
Serves(list, D, w, order, N, g) ==
    g = [n \in 0..N |-> IF n = 0 THEN w ELSE ServeOne(list, D, g[n - 1], order[n])]

\* The loop of Each is well defined: there is a sequence of working records, one
\* for each entry served, and the loop ends with the last of them.
LEMMA EachRuns ==
    ASSUME NEW list, NEW D, NEW w, NEW order, Len(order) \in Nat
    PROVE  \E g : /\ g[0] = w
                  /\ \A n \in 1..Len(order) : g[n] = ServeOne(list, D, g[n - 1], order[n])
                  /\ Each(list, D, w, order) = g[Len(order)]
<1> DEFINE S == {N \in Nat : \E g : Serves(list, D, w, order, N, g)}
<1>1. 0 \in S
  <2>1. Serves(list, D, w, order, 0, [n \in 0..0 |-> w])
    BY DEF Serves
  <2> QED BY <2>1
<1>2. ASSUME NEW N \in S PROVE N + 1 \in S
  <2>1. PICK g : Serves(list, D, w, order, N, g)
    OBVIOUS
  <2> DEFINE h == [n \in 0..(N + 1) |-> IF n = N + 1 THEN ServeOne(list, D, g[N], order[N + 1]) ELSE g[n]]
  <2>2. h = [n \in 0..(N + 1) |-> IF n = 0 THEN w ELSE ServeOne(list, D, h[n - 1], order[n])]
    <3>1. ASSUME NEW n \in 0..(N + 1)
          PROVE  h[n] = IF n = 0 THEN w ELSE ServeOne(list, D, h[n - 1], order[n])
      <4>1. CASE n = N + 1
        <5>1. h[n - 1] = g[N] /\ h[n] = ServeOne(list, D, g[N], order[n]) /\ n # 0
          BY <4>1
        <5> QED BY <5>1
      <4>2. CASE n # N + 1
        <5>1. n \in 0..N /\ (n # 0 => n - 1 \in 0..(N + 1) /\ n - 1 # N + 1)
          BY <4>2
        <5>2. h[n] = g[n] /\ (n # 0 => h[n - 1] = g[n - 1])
          BY <5>1
        <5> HIDE DEF h
        <5>3. g[n] = IF n = 0 THEN w ELSE ServeOne(list, D, g[n - 1], order[n])
          BY <2>1, <5>1 DEF Serves
        <5> QED BY <5>2, <5>3
      <4> QED BY <4>1, <4>2
    <3> HIDE DEF h
    <3>2. h = [n \in 0..(N + 1) |-> h[n]]
      BY DEF h
    <3> QED BY <3>1, <3>2, Zenon
  <2>3. Serves(list, D, w, order, N + 1, h)
    BY <2>2 DEF Serves
  <2> QED BY <2>3
<1>3. S = Nat
  <2> HIDE DEF S
  <2>1. S \subseteq Nat
    BY DEF S
  <2> QED BY <1>1, <1>2, <2>1, Induct
<1> DEFINE G == CHOOSE g : Serves(list, D, w, order, Len(order), g)
<1>4. Serves(list, D, w, order, Len(order), G)
  BY <1>3
<1>5. Each(list, D, w, order) = G[Len(order)]
  BY DEF Each, Serves, ServeOne
<1> HIDE DEF G
<1>6. G[0] = w /\ \A n \in 1..Len(order) : G[n] = ServeOne(list, D, G[n - 1], order[n])
  BY <1>4 DEF Serves
<1> QED BY <1>5, <1>6

Ticks(w, order, N, g) ==
    g = [n \in 0..N |-> IF n = 0 THEN [table |-> w.table, expired |-> "none"]
                        ELSE TickEntry(g[n - 1], order[n])]

\* The same for the loop over the policy table.
LEMMA TickRuns ==
    ASSUME NEW w, NEW order, Len(order) \in Nat
    PROVE  \E g : /\ g[0] = [table |-> w.table, expired |-> "none"]
                  /\ \A n \in 1..Len(order) : g[n] = TickEntry(g[n - 1], order[n])
                  /\ TickTable(w, order) = g[Len(order)]
<1> DEFINE r0 == [table |-> w.table, expired |-> "none"]
<1> DEFINE S == {N \in Nat : \E g : Ticks(w, order, N, g)}
<1>1. 0 \in S
  <2>1. Ticks(w, order, 0, [n \in 0..0 |-> r0])
    BY DEF Ticks
  <2> QED BY <2>1
<1>2. ASSUME NEW N \in S PROVE N + 1 \in S
  <2>1. PICK g : Ticks(w, order, N, g)
    OBVIOUS
  <2> DEFINE h == [n \in 0..(N + 1) |-> IF n = N + 1 THEN TickEntry(g[N], order[N + 1]) ELSE g[n]]
  <2>2. h = [n \in 0..(N + 1) |-> IF n = 0 THEN r0 ELSE TickEntry(h[n - 1], order[n])]
    <3>1. ASSUME NEW n \in 0..(N + 1)
          PROVE  h[n] = IF n = 0 THEN r0 ELSE TickEntry(h[n - 1], order[n])
      <4> HIDE DEF r0
      <4>1. CASE n = N + 1
        <5>1. h[n - 1] = g[N] /\ h[n] = TickEntry(g[N], order[n]) /\ n # 0
          BY <4>1
        <5> QED BY <5>1
      <4>2. CASE n # N + 1
        <5>1. n \in 0..N /\ (n # 0 => n - 1 \in 0..(N + 1) /\ n - 1 # N + 1)
          BY <4>2
        <5>2. h[n] = g[n] /\ (n # 0 => h[n - 1] = g[n - 1])
          BY <5>1
        <5> HIDE DEF h
        <5>3. g[n] = IF n = 0 THEN r0 ELSE TickEntry(g[n - 1], order[n])
          BY <2>1, <5>1 DEF Ticks, r0
        <5> QED BY <5>2, <5>3
      <4> QED BY <4>1, <4>2
    <3> HIDE DEF h, r0
    <3>2. h = [n \in 0..(N + 1) |-> h[n]]
      BY DEF h
    <3> QED BY <3>1, <3>2, Zenon
  <2>3. Ticks(w, order, N + 1, h)
    BY <2>2 DEF Ticks
  <2> QED BY <2>3
<1>3. S = Nat
  <2> HIDE DEF S
  <2>1. S \subseteq Nat
    BY DEF S
  <2> QED BY <1>1, <1>2, <2>1, Induct
<1> DEFINE G == CHOOSE g : Ticks(w, order, Len(order), g)
<1>4. Ticks(w, order, Len(order), G)
  BY <1>3
<1>5. TickTable(w, order) = G[Len(order)]
  BY DEF TickTable, Ticks
<1> HIDE DEF G
<1>6. G[0] = r0 /\ \A n \in 1..Len(order) : G[n] = TickEntry(G[n - 1], order[n])
  BY <1>4 DEF Ticks
<1> QED BY <1>5, <1>6

-----------------------------------------------------------------------------
(* Stores. *)

LEMMA Constants ==
    /\ NoDelivery \in Deliveries /\ NoApp \in AppRecords
    /\ Unknown \in Records /\ Inactive \in Policies
    /\ "none" \notin Devices /\ TC \notin Devices
    /\ JoinTimeout \in Nat
  BY TrustCenterAssumption DEF NoDelivery, NoApp, Unknown, Inactive, Deliveries, AppRecords, Records,
     Policies, Places, Kinds, NoKey, TC

\* store and publish: the record is written, or the call ends with an error and
\* the database is as before.
LEMMA StoreEffect ==
    ASSUME NEW w \in Works, NEW D \in Databases
    PROVE  /\ Store(w, D) \in Works
           /\ Store(w, D).table = w.table /\ Store(w, D).delivery = w.delivery
           /\ Store(w, D).tombstone = w.tombstone /\ Store(w, D).keys = w.keys
           /\ Store(w, D).attempts = w.attempts /\ Store(w, D).heard = w.heard
           /\ Store(w, D).deaf = w.deaf
           /\ \/ /\ Store(w, D).db = w.db /\ Store(w, D).err # "none"
                 /\ Valid(D) => Store(w, D).err = "store"
              \/ Store(w, D).db = D /\ Valid(D) /\ Store(w, D).err = w.err
<1>1. CASE ~Valid(D)
  BY <1>1 DEF Store, Fail, Works, Errors
<1>2. CASE Valid(D) /\ w.bad = 1
  BY <1>2 DEF Store, Works, Errors
<1>3. CASE Valid(D) /\ w.bad # 1
  <2>1. Store(w, D) = [w EXCEPT !.db = D, !.bad = IF w.bad = 0 THEN 0 ELSE w.bad - 1]
    BY <1>3 DEF Store
  <2>2. (IF w.bad = 0 THEN 0 ELSE w.bad - 1) \in Nat
    BY DEF Works
  <2> QED BY <1>3, <2>1, <2>2 DEF Works
<1> QED BY <1>1, <1>2, <1>3

\* What a store must write: a sound database, owned by the delivery, that agrees
\* with the table.
LEMMA StoreGood ==
    ASSUME NEW P \in Proofs, NEW w, NEW D \in Databases,
           Sane(w, P), w.err = "none",
           DbOK(D), Owned(D, w.delivery), \A d \in Devices : Proven(D.dev, P, d),
           Agreed(D, w.table, {})
    PROVE  Good(Store(w, D), P)
<1> DEFINE x == Store(w, D)
<1> SUFFICES Good(x, P)
  OBVIOUS
<1>1. w \in Works /\ Valid(D)
  BY DEF Sane, DbOK
<1>2. /\ x \in Works /\ x.table = w.table /\ x.delivery = w.delivery
      /\ \/ x.db = w.db /\ x.err = "store"
         \/ x.db = D /\ x.err = "none"
  BY <1>1, StoreEffect
<1> HIDE DEF x
<1>3. CASE x.db = w.db /\ x.err = "store"
  BY <1>2, <1>3, Zenon DEF Good, Sane
<1>4. CASE x.db = D /\ x.err = "none"
  BY <1>2, <1>4, Zenon DEF Good, Sane
<1> QED BY <1>2, <1>3, <1>4

\* Replacing one device record.
WithDevice(D, d, r) == [D EXCEPT !.dev[d] = r]
LEMMA DeviceEffect ==
    ASSUME NEW D \in Databases, NEW d \in Devices, NEW r \in Records
    PROVE  /\ WithDevice(D, d, r) \in Databases
           /\ WithDevice(D, d, r).dev[d] = r
           /\ \A e \in Devices \ {d} : WithDevice(D, d, r).dev[e] = D.dev[e]
           /\ WithDevice(D, d, r).removals = D.removals /\ WithDevice(D, d, r).app = D.app
  BY DEF WithDevice, Databases

LEMMA DeviceOK ==
    ASSUME NEW D \in Databases, NEW d \in Devices, NEW r \in Records, DbOK(D),
           r.known = D.dev[d].known \/ (r.known /\ ~Rejected(D, d)),
           r.removal_pending => r.known
    PROVE  DbOK(WithDevice(D, d, r))
<1> DEFINE E == WithDevice(D, d, r)
<1> SUFFICES DbOK(E)
  OBVIOUS
<1>1. /\ E \in Databases /\ E.dev[d] = r /\ \A e \in Devices \ {d} : E.dev[e] = D.dev[e]
      /\ E.removals = D.removals /\ E.app = D.app
  BY DeviceEffect
<1> HIDE DEF E
<1>2. \A i \in DOMAIN D.removals : D.removals[i].device \in Devices
  <2>1. D.removals \in Seq(Intents)
    BY DEF Databases
  <2>2. \A i \in DOMAIN D.removals : D.removals[i] \in Intents
    BY <2>1
  <2> QED BY <2>2 DEF Intents
<1>3. \A i \in DOMAIN E.removals : ~E.dev[E.removals[i].device].known
  BY <1>1, <1>2 DEF DbOK, Valid, Rejected
<1>4. E.app # NoApp => /\ E.app.initiator \in Devices /\ E.app.responder \in Devices
                       /\ E.dev[E.app.initiator].known /\ E.dev[E.app.responder].known
  BY <1>1 DEF DbOK, Valid
<1>5. \A e \in Devices : E.dev[e].removal_pending => E.dev[e].known
  BY <1>1 DEF DbOK
<1> QED BY <1>3, <1>4, <1>5, Zenon DEF DbOK, Valid

LEMMA DeviceOwned ==
    ASSUME NEW D \in Databases, NEW d \in Devices, NEW r \in Records, NEW c, Owned(D, c),
           c.kind = "Remove" /\ c.address = d => r.removal_pending \/ Rejected(D, d),
           c.kind = "Confirm" /\ c.address = d => r.confirm_key_pending # "none" /\ ~r.removal_pending
    PROVE  Owned(WithDevice(D, d, r), c)
<1> DEFINE E == WithDevice(D, d, r)
<1> SUFFICES Owned(E, c)
  OBVIOUS
<1>1. /\ E.dev[d] = r /\ \A e \in Devices \ {d} : E.dev[e] = D.dev[e]
      /\ E.removals = D.removals /\ E.app = D.app
  BY DeviceEffect
<1> HIDE DEF E
<1>2. \A e : Rejected(E, e) <=> Rejected(D, e)
  BY <1>1, Zenon DEF Rejected
<1> QED BY <1>1, <1>2 DEF Owned

\* PutDevice: the table may be ahead of the record that is replaced.
LEMMA PutGood ==
    ASSUME NEW P \in Proofs, NEW w, NEW d \in Devices, NEW r \in Records,
           Sane(w, P), w.err = "none", Agreed(w.db, w.table, {d}), Agrees(r, w.table[d]),
           r.known = w.db.dev[d].known \/ (r.known /\ ~Rejected(w.db, d)),
           r.removal_pending => r.known,
           r.verified => r.key \in P[d],
           w.delivery.kind = "Remove" /\ w.delivery.address = d => r.removal_pending \/ Rejected(w.db, d),
           w.delivery.kind = "Confirm" /\ w.delivery.address = d =>
             r.confirm_key_pending # "none" /\ ~r.removal_pending
    PROVE  Good(PutDevice(w, d, r), P)
<1> DEFINE E == WithDevice(w.db, d, r)
<1>1. w.db \in Databases /\ DbOK(w.db) /\ Owned(w.db, w.delivery)
  BY DEF Sane, Works
<1>2. /\ E \in Databases /\ E.dev[d] = r /\ \A e \in Devices \ {d} : E.dev[e] = w.db.dev[e]
  BY <1>1, DeviceEffect
<1>3. DbOK(E) /\ Owned(E, w.delivery)
  BY <1>1, DeviceOK, DeviceOwned
<1>4. PutDevice(w, d, r) = Store(w, E)
  BY DEF PutDevice, WithDevice
<1> HIDE DEF E
<1>5. (\A e \in Devices : Proven(E.dev, P, e)) /\ Agreed(E, w.table, {})
  BY <1>2 DEF Sane, Proven, Agreed
<1> QED BY <1>2, <1>3, <1>4, <1>5, StoreGood

-----------------------------------------------------------------------------
(* The steps of a handler.  A step that starts from a good working record ends *)
(* with one.  The loops take their lists before they start, so the steps also  *)
(* say that they keep what the lists were made from.                           *)

Same(D, E) ==
    \A d \in Devices : /\ E.dev[d].known = D.dev[d].known
                       /\ E.dev[d].removal_pending = D.dev[d].removal_pending
                       /\ E.dev[d].confirm_key_pending = D.dev[d].confirm_key_pending

LEMMA SameTransitive ==
    ASSUME NEW C, NEW D, NEW E, Same(C, D), Same(D, E)
    PROVE  Same(C, E)
  BY DEF Same

LEMMA SlotGood ==
    ASSUME NEW P \in Proofs, NEW w, Good(w, P), NEW c \in Deliveries, Owned(w.db, c)
    PROVE  /\ Good([w EXCEPT !.delivery = c], P)
           /\ [w EXCEPT !.delivery = c].db = w.db /\ [w EXCEPT !.delivery = c].err = w.err
           /\ [w EXCEPT !.delivery = c].delivery = c
<1> DEFINE x == [w EXCEPT !.delivery = c]
<1> SUFFICES Good(x, P) /\ x.db = w.db /\ x.err = w.err /\ x.delivery = c
  OBVIOUS
<1>1. w \in Works
  BY DEF Good, Sane
<1>2. x \in Works /\ x.db = w.db /\ x.table = w.table /\ x.err = w.err /\ x.delivery = c
  BY <1>1 DEF Works
<1> HIDE DEF x
<1>3. Good(x, P)
  BY <1>2, Zenon DEF Good, Sane
<1> QED BY <1>2, <1>3

LEMMA CancelGood ==
    ASSUME NEW P \in Proofs, NEW w, Good(w, P)
    PROVE  /\ Good(Cancel(w), P) /\ Cancel(w).db = w.db /\ Cancel(w).err = w.err
           /\ Cancel(w).delivery = NoDelivery
<1>1. NoDelivery \in Deliveries /\ Owned(w.db, NoDelivery)
  BY Constants DEF Owned, NoDelivery
<1> QED BY <1>1, SlotGood, Zenon DEF Cancel

LEMMA CheckpointGood ==
    ASSUME NEW P \in Proofs, NEW w, Good(w, P), w.err = "none"
    PROVE  /\ Good(Checkpoint(w), P) /\ Checkpoint(w).db = w.db
           /\ Checkpoint(w).delivery = w.delivery
<1>1. /\ w \in Works /\ w.db \in Databases /\ Sane(w, P) /\ DbOK(w.db) /\ Owned(w.db, w.delivery)
      /\ \A d \in Devices : Proven(w.db.dev, P, d)
      /\ Agreed(w.db, w.table, {})
  BY DEF Good, Sane, Works
<1>2. Good(Checkpoint(w), P)
  BY <1>1, StoreGood, Zenon DEF Checkpoint
<1>3. Checkpoint(w).db = w.db /\ Checkpoint(w).delivery = w.delivery
  BY <1>1, StoreEffect, Zenon DEF Checkpoint
<1> QED BY <1>2, <1>3

LEMMA StartGood ==
    ASSUME NEW P \in Proofs, NEW w, Good(w, P), w.err = "none",
           NEW kind \in Kinds, NEW d \in Devices, NEW via \in Devices,
           Owned(w.db, [kind |-> kind, address |-> d, via |-> via])
    PROVE  /\ Good(Checkpoint(Start(w, kind, d, via)), P)
           /\ Checkpoint(Start(w, kind, d, via)).db = w.db
<1>1. [kind |-> kind, address |-> d, via |-> via] \in Deliveries
  BY DEF Deliveries
<1>2. /\ Good(Start(w, kind, d, via), P) /\ Start(w, kind, d, via).db = w.db
      /\ Start(w, kind, d, via).err = "none"
  BY <1>1, SlotGood, Zenon DEF Start
<1> QED BY <1>2, CheckpointGood, Zenon

LEMMA RemoteRemoveGood ==
    ASSUME NEW P \in Proofs, NEW w, Good(w, P), w.err = "none", NEW d \in Devices, NEW parent,
           w.db.dev[d].removal_pending \/ Rejected(w.db, d)
    PROVE  Good(RemoteRemove(w, parent, d), P) /\ RemoteRemove(w, parent, d).db = w.db
<1>1. CASE parent \notin Devices \/ ~w.db.dev[parent].known
  <2>1. RemoteRemove(w, parent, d) = [w EXCEPT !.err = "policy"]
    BY <1>1 DEF RemoteRemove, Fail
  <2> DEFINE x == [w EXCEPT !.err = "policy"]
  <2>2. w \in Works
    BY DEF Good, Sane
  <2>3. x \in Works /\ x.db = w.db /\ x.table = w.table /\ x.delivery = w.delivery /\ x.err = "policy"
    BY <2>2 DEF Works, Errors
  <2> HIDE DEF x
  <2>4. Good(x, P)
    BY <2>3, Zenon DEF Good, Sane
  <2> QED BY <2>1, <2>3, <2>4 DEF x
<1>2. CASE parent \in Devices /\ w.db.dev[parent].known /\ ~Reached(w, parent)
  BY <1>2 DEF RemoteRemove
<1>3. CASE parent \in Devices /\ w.db.dev[parent].known /\ Reached(w, parent)
  <2>1. RemoteRemove(w, parent, d) = Checkpoint(Start(w, "Remove", d, parent))
    BY <1>3 DEF RemoteRemove
  <2>2. "Remove" \in Kinds /\ Owned(w.db, [kind |-> "Remove", address |-> d, via |-> parent])
    BY DEF Kinds, Owned
  <2> QED BY <1>3, <2>1, <2>2, StartGood
<1> QED BY <1>1, <1>2, <1>3

LEMMA TombstoneGood ==
    ASSUME NEW P \in Proofs, NEW w, Good(w, P), NEW d \in Devices \cup {"none"}
    PROVE  /\ Good([w EXCEPT !.tombstone = d], P)
           /\ [w EXCEPT !.tombstone = d].db = w.db /\ [w EXCEPT !.tombstone = d].err = w.err
<1> DEFINE x == [w EXCEPT !.tombstone = d]
<1> SUFFICES Good(x, P) /\ x.db = w.db /\ x.err = w.err
  OBVIOUS
<1>1. w \in Works
  BY DEF Good, Sane
<1>2. x \in Works /\ x.db = w.db /\ x.table = w.table /\ x.err = w.err /\ x.delivery = w.delivery
  BY <1>1 DEF Works
<1> HIDE DEF x
<1>3. Good(x, P)
  BY <1>2, Zenon DEF Good, Sane
<1> QED BY <1>2, <1>3

LEMMA ResumeRemovalGood ==
    ASSUME NEW P \in Proofs, NEW w, Good(w, P), w.err = "none", NEW d \in Devices
    PROVE  Good(ResumeRemoval(w, d), P) /\ ResumeRemoval(w, d).db = w.db
<1>1. Good([w EXCEPT !.tombstone = d], P) /\ [w EXCEPT !.tombstone = d].db = w.db
  BY TombstoneGood, Zenon
<1>2. CASE ~w.db.dev[d].removal_pending
  BY <1>2 DEF ResumeRemoval
<1>3. CASE w.db.dev[d].removal_pending
  <2>1. /\ Good(RemoteRemove(w, w.db.dev[d].parent, d), P)
        /\ RemoteRemove(w, w.db.dev[d].parent, d).db = w.db
    BY <1>3, RemoteRemoveGood
  <2>2. \/ ResumeRemoval(w, d) = w
        \/ ResumeRemoval(w, d) = [w EXCEPT !.tombstone = d]
        \/ ResumeRemoval(w, d) = RemoteRemove(w, w.db.dev[d].parent, d)
    BY DEF ResumeRemoval, Progress
  <2> QED BY <1>1, <2>1, <2>2
<1> QED BY <1>2, <1>3

LEMMA ResumeUnknownGood ==
    ASSUME NEW P \in Proofs, NEW w, Good(w, P), w.err = "none"
    PROVE  Good(ResumeUnknownRemoval(w), P) /\ ResumeUnknownRemoval(w).db = w.db
<1>1. CASE w.db.removals = <<>> \/ w.tombstone # "none"
  BY <1>1 DEF ResumeUnknownRemoval
<1>2. CASE w.db.removals # <<>> /\ w.tombstone = "none"
  <2> DEFINE p == Head(w.db.removals)
  <2>1. w.db.removals \in Seq(Intents)
    BY DEF Good, Sane, Works, Databases
  <2>2. p = w.db.removals[1] /\ 1 \in DOMAIN w.db.removals /\ p \in Intents
    BY <1>2, <2>1
  <2>3. p.device \in Devices /\ Rejected(w.db, p.device)
    BY <2>2 DEF Intents, Rejected
  <2>4. \/ ResumeUnknownRemoval(w) = w
        \/ ResumeUnknownRemoval(w) = [w EXCEPT !.tombstone = p.device]
        \/ ResumeUnknownRemoval(w) = RemoteRemove(w, p.parent, p.device)
    BY <1>2 DEF ResumeUnknownRemoval, Progress
  <2> HIDE DEF p
  <2>5. /\ Good([w EXCEPT !.tombstone = p.device], P) /\ [w EXCEPT !.tombstone = p.device].db = w.db
        /\ Good(RemoteRemove(w, p.parent, p.device), P) /\ RemoteRemove(w, p.parent, p.device).db = w.db
    BY <2>3, TombstoneGood, RemoteRemoveGood
  <2> QED BY <2>4, <2>5
<1> QED BY <1>1, <1>2

\* A failed store keeps the state the call started with.
LEMMA FailedStore ==
    ASSUME NEW P \in Proofs, NEW w, Sane(w, P), NEW x \in Works, x.db = w.db, x.table = w.table,
           x.delivery = w.delivery, x.err \in {"store", "policy"}
    PROVE  Good(x, P)
  BY Zenon DEF Good, Sane

LEMMA StageRemovalGood ==
    ASSUME NEW P \in Proofs, NEW w, Sane(w, P), w.err = "none", NEW d \in Devices, NEW parent \in Places,
           Agreed(w.db, w.table, {d}), w.db.dev[d].known
    PROVE  Good(StageRemoval(w, d, parent), P)
<1> DEFINE a == w.db.app
           r == [w.db.dev[d] EXCEPT !.parent = parent, !.network_key_pending = FALSE,
                    !.pending_link_key = NoKey, !.transported = FALSE,
                    !.confirm_key_pending = "none", !.removal_pending = TRUE]
           D == [w.db EXCEPT !.dev[d] = r, !.app = IF InApp(a, d) THEN NoApp ELSE @]
           x == Store(w, D)
           c == w.delivery
           mine == /\ c.kind # "Remove"
                   /\ c.address = d \/ (InApp(a, d) /\ c.kind \in AppKinds)
           y == IF x.err # "none" THEN x ELSE IF mine THEN Cancel(x) ELSE x
<1>1. /\ w \in Works /\ w.db \in Databases /\ w.db.dev[d] \in Records /\ a \in AppRecords
      /\ DbOK(w.db) /\ Owned(w.db, c) /\ c \in Deliveries
  BY DEF Sane, Works, Databases
<1>2. StageRemoval(w, d, parent) = y
  BY DEF StageRemoval, Then
<1> SUFFICES Good(y, P)
  BY <1>2
<1>3. /\ r \in Records /\ r.removal_pending /\ r.known = w.db.dev[d].known
      /\ r.verified = w.db.dev[d].verified /\ r.key = w.db.dev[d].key
  BY <1>1 DEF Records, NoKey
<1>4. /\ D \in Databases /\ D.dev[d] = r /\ \A e \in Devices \ {d} : D.dev[e] = w.db.dev[e]
      /\ D.removals = w.db.removals /\ D.app = IF InApp(a, d) THEN NoApp ELSE a
  <2> HIDE DEF r
  <2> QED BY <1>1, <1>3, Constants DEF Databases
<1> HIDE DEF D, r
<1>5. /\ x \in Works /\ x.table = w.table /\ x.delivery = c
      /\ \/ x.db = w.db /\ x.err # "none" /\ (Valid(D) => x.err = "store")
         \/ x.db = D /\ x.err = "none"
  BY <1>1, <1>4, StoreEffect
<1>6. \A i \in DOMAIN w.db.removals : w.db.removals[i].device \in Devices
  <2>1. w.db.removals \in Seq(Intents)
    BY <1>1 DEF Databases
  <2>2. \A i \in DOMAIN w.db.removals : w.db.removals[i] \in Intents
    BY <2>1
  <2> QED BY <2>2 DEF Intents
<1>7. DbOK(D)
  <2>1. \A i \in DOMAIN D.removals : ~D.dev[D.removals[i].device].known
    BY <1>1, <1>3, <1>4, <1>6 DEF DbOK, Valid
  <2>2. D.app # NoApp => /\ D.app.initiator \in Devices /\ D.app.responder \in Devices
                         /\ D.dev[D.app.initiator].known /\ D.dev[D.app.responder].known
    BY <1>1, <1>3, <1>4 DEF DbOK, Valid, InApp
  <2>3. \A e \in Devices : D.dev[e].removal_pending => D.dev[e].known
    BY <1>1, <1>3, <1>4 DEF DbOK
  <2> QED BY <2>1, <2>2, <2>3, Zenon DEF DbOK, Valid
<1>8. (\A e \in Devices : Proven(D.dev, P, e)) /\ Agreed(D, w.table, {})
  BY <1>1, <1>3, <1>4 DEF Sane, Proven, Agreed, Agrees
<1>9. \A e : Rejected(D, e) <=> Rejected(w.db, e)
  BY <1>4, Zenon DEF Rejected
<1>10. ~mine => Owned(D, c)
  BY <1>1, <1>3, <1>4, <1>9, Constants DEF Owned, InApp, AppKinds
<1>11. CASE x.err # "none"
  <2>1. x.err = "store" /\ x.db = w.db
    BY <1>5, <1>7, <1>11 DEF DbOK
  <2>2. y = x
    BY <1>11
  <2> HIDE DEF x, y
  <2> QED BY <1>5, <2>1, <2>2, FailedStore
<1>12. CASE x.err = "none" /\ ~mine
  <2>1. y = x
    BY <1>12
  <2>2. Sane(w, P) /\ \A e \in Devices : Proven(w.table, P, e)
    BY DEF Sane
  <2> HIDE DEF x, y, mine
  <2>3. Good(x, P)
    <3>1. x.db = D /\ x.delivery = c /\ x.table = w.table /\ x \in Works
      BY <1>5, <1>12
    <3> HIDE DEF c
    <3> QED BY <1>7, <1>8, <1>10, <1>12, <2>2, <3>1 DEF Good, Sane
  <2> QED BY <2>1, <2>3
<1>13. CASE x.err = "none" /\ mine
  <2>1. y = [x EXCEPT !.delivery = NoDelivery]
    BY <1>13 DEF Cancel
  <2>2. Owned(D, NoDelivery)
    BY DEF Owned, NoDelivery
  <2> HIDE DEF x
  <2>3. /\ y \in Works /\ y.db = D /\ y.delivery = NoDelivery /\ y.table = w.table
        /\ y.err = "none"
    BY <1>5, <1>13, <2>1, Constants DEF Works
  <2>4. \A e \in Devices : Proven(w.table, P, e)
    BY DEF Sane
  <2> HIDE DEF y
  <2> QED BY <1>7, <1>8, <2>2, <2>3, <2>4 DEF Good, Sane
<1> QED BY <1>11, <1>12, <1>13

\* One intent per device: the rejections of other devices stay.
LEMMA StageUnknownGood ==
    ASSUME NEW P \in Proofs, NEW w, Good(w, P), w.err = "none", NEW d \in Devices, NEW parent \in Places,
           ~w.db.dev[d].known
    PROVE  Good(StageUnknownRemoval(w, parent, d), P)
<1> DEFINE new == [device |-> d, parent |-> parent]
           rest == w.db.removals
           next == IF Rejected(w.db, d)
                   THEN [i \in DOMAIN rest |-> IF rest[i].device = d THEN new ELSE rest[i]]
                   ELSE Append(rest, new)
           D == [w.db EXCEPT !.removals = next]
           x == Store(w, D)
           y == IF x.err # "none" THEN x ELSE IF Delivering(x, "Remove", d) THEN Cancel(x) ELSE x
<1>1. /\ w \in Works /\ w.db \in Databases /\ DbOK(w.db) /\ Owned(w.db, w.delivery)
      /\ rest \in Seq(Intents) /\ Sane(w, P) /\ Agreed(w.db, w.table, {})
      /\ \A e \in Devices : Proven(w.db.dev, P, e) /\ Proven(w.table, P, e)
  BY DEF Good, Sane, Works, Databases
<1>2. CASE new \in Range(rest)
  BY <1>2 DEF StageUnknownRemoval
<1>3. CASE new \notin Range(rest)
  <2>1. StageUnknownRemoval(w, parent, d) = y
    BY <1>3 DEF StageUnknownRemoval, Then
  <2> SUFFICES Good(y, P)
    BY <2>1
  <2>2. new \in Intents
    BY DEF Intents
  <2>3. /\ next \in Seq(Intents)
        /\ \A i \in DOMAIN next : next[i].device = d \/ \E j \in DOMAIN rest : next[i] = rest[j]
        /\ \A i \in DOMAIN rest : rest[i].device # d => \E j \in DOMAIN next : next[j] = rest[i]
        /\ \E j \in DOMAIN next : next[j].device = d
    <3> HIDE DEF new
    <3>0. new.device = d
      BY DEF new
    <3>1. CASE Rejected(w.db, d)
      <4>1. next = [i \in DOMAIN rest |-> IF rest[i].device = d THEN new ELSE rest[i]]
        BY <3>1
      <4>2. DOMAIN next = DOMAIN rest /\ next \in Seq(Intents)
        BY <1>1, <2>2, <4>1
      <4> HIDE DEF next, rest
      <4>3. \E j \in DOMAIN rest : rest[j].device = d
        BY <3>1 DEF Rejected, rest
      <4> QED BY <3>0, <4>1, <4>2, <4>3
    <3>2. CASE ~Rejected(w.db, d)
      <4>1. next = Append(rest, new)
        BY <3>2
      <4> HIDE DEF next, rest
      <4>2. /\ next \in Seq(Intents) /\ Len(next) = Len(rest) + 1
            /\ \A i \in 1..Len(rest) : next[i] = rest[i]
            /\ next[Len(rest) + 1] = new /\ Len(rest) \in Nat
            /\ DOMAIN rest = 1..Len(rest) /\ DOMAIN next = 1..(Len(rest) + 1)
        BY <1>1, <2>2, <4>1
      <4> QED BY <3>0, <4>2
    <3> QED BY <3>1, <3>2
  <2> HIDE DEF next
  <2>4. D \in Databases /\ D.dev = w.db.dev /\ D.app = w.db.app /\ D.removals = next
    BY <1>1, <2>3 DEF Databases
  <2> HIDE DEF D
  <2>5. /\ x \in Works /\ x.table = w.table /\ x.delivery = w.delivery
        /\ \/ x.db = w.db /\ x.err # "none" /\ (Valid(D) => x.err = "store")
           \/ x.db = D /\ x.err = "none"
    BY <1>1, <2>4, StoreEffect
  <2>6. DbOK(D)
    <3>1. /\ \A i \in DOMAIN rest : ~w.db.dev[rest[i].device].known
          /\ w.db.app # NoApp => /\ w.db.dev[w.db.app.initiator].known
                                /\ w.db.dev[w.db.app.responder].known
                                /\ w.db.app.initiator \in Devices /\ w.db.app.responder \in Devices
          /\ \A e \in Devices : w.db.dev[e].removal_pending => w.db.dev[e].known
      BY <1>1 DEF DbOK, Valid
    <3>2. \A i \in DOMAIN next : ~w.db.dev[next[i].device].known
      <4> HIDE DEF rest
      <4> QED BY <2>3, <3>1
    <3>3. Valid(D)
      BY <2>4, <3>1, <3>2, Zenon DEF Valid
    <3> QED BY <2>4, <3>1, <3>3, Zenon DEF DbOK
  <2>7. \A e \in Devices : Rejected(w.db, e) => Rejected(D, e)
    BY <2>3, <2>4 DEF Rejected
  <2>8. Owned(D, w.delivery)
    BY <1>1, <2>4, <2>7 DEF Owned
  <2>9. (\A e \in Devices : Proven(D.dev, P, e)) /\ Agreed(D, w.table, {})
    BY <1>1, <2>4 DEF Agreed
  <2> HIDE DEF x
  <2>10. CASE x.err # "none"
    <3>1. x.err = "store" /\ x.db = w.db /\ y = x
      BY <2>5, <2>6, <2>10 DEF DbOK
    <3> HIDE DEF y
    <3> QED BY <1>1, <2>5, <3>1, FailedStore
  <2>11. CASE x.err = "none"
    <3>1. Good(x, P)
      BY <1>1, <2>5, <2>6, <2>8, <2>9, <2>11 DEF Good, Sane
    <3>2. Good(Cancel(x), P)
      BY <3>1, CancelGood
    <3> QED BY <2>11, <3>1, <3>2
  <2> QED BY <2>10, <2>11
<1> QED BY <1>2, <1>3

\* swap_remove takes one intent of the device out and keeps the others.
LEMMA WithoutRemovalKeeps ==
    ASSUME NEW rs \in Seq(Intents), NEW d \in Devices
    PROVE  /\ WithoutRemoval(rs, d) \in Seq(Intents)
           /\ \A i \in DOMAIN WithoutRemoval(rs, d) : \E j \in DOMAIN rs : WithoutRemoval(rs, d)[i] = rs[j]
           /\ \A j \in DOMAIN rs : rs[j].device # d =>
                \E i \in DOMAIN WithoutRemoval(rs, d) : WithoutRemoval(rs, d)[i] = rs[j]
<1>1. CASE \A i \in DOMAIN rs : rs[i].device # d
  BY <1>1 DEF WithoutRemoval
<1>2. CASE ~(\A i \in DOMAIN rs : rs[i].device # d)
  <2> DEFINE i == CHOOSE j \in DOMAIN rs : rs[j].device = d
             q == [j \in 1..(Len(rs) - 1) |-> IF j = i THEN rs[Len(rs)] ELSE rs[j]]
  <2>1. WithoutRemoval(rs, d) = q
    BY <1>2 DEF WithoutRemoval
  <2>2. i \in DOMAIN rs /\ rs[i].device = d
    BY <1>2
  <2> HIDE DEF i
  <2>3. Len(rs) \in Nat /\ DOMAIN rs = 1..Len(rs) /\ \A j \in 1..Len(rs) : rs[j] \in Intents
    OBVIOUS
  <2>4. Len(rs) - 1 \in Nat /\ Len(rs) \in 1..Len(rs) /\ i \in 1..Len(rs)
    BY <2>2, <2>3
  <2>5. \A j \in 1..(Len(rs) - 1) : j \in 1..Len(rs)
    BY <2>3, <2>4
  <2>6. \A j \in 1..(Len(rs) - 1) : (IF j = i THEN rs[Len(rs)] ELSE rs[j]) \in Intents
    BY <2>3, <2>4, <2>5
  <2>7. q \in Seq(Intents) /\ DOMAIN q = 1..(Len(rs) - 1)
    BY <2>4, <2>6
  <2>8. \A j \in DOMAIN q : \E k \in DOMAIN rs : q[j] = rs[k]
    BY <2>3, <2>4, <2>5
  <2>9. ASSUME NEW j \in DOMAIN rs, rs[j].device # d
        PROVE  \E k \in DOMAIN q : q[k] = rs[j]
    <3>1. CASE j = Len(rs)
      <4>1. i \in 1..(Len(rs) - 1) /\ q[i] = rs[j]
        BY <2>2, <2>3, <2>4, <2>9, <3>1
      <4> QED BY <2>7, <4>1
    <3>2. CASE j # Len(rs)
      <4>1. j \in 1..(Len(rs) - 1) /\ q[j] = rs[j]
        BY <2>2, <2>3, <2>4, <2>9, <3>2
      <4> QED BY <2>7, <4>1
    <3> QED BY <3>1, <3>2
  <2> HIDE DEF q
  <2> QED BY <2>1, <2>7, <2>8, <2>9
<1> QED BY <1>1, <1>2

LEMMA RevokeGood ==
    ASSUME NEW P \in Proofs, NEW w, Good(w, P), w.err = "none", NEW d \in Devices
    PROVE  Good(Revoke(w, d), P)
<1> DEFINE a == w.db.app
           next == WithoutRemoval(w.db.removals, d)
           D == [w.db EXCEPT !.dev[d] = Unknown, !.removals = WithoutRemoval(@, d),
                             !.app = IF InApp(a, d) THEN NoApp ELSE @]
           x == IF D = w.db THEN w ELSE Store(w, D)
           stale == \/ x.delivery.address = d
                    \/ x.delivery.kind = "Remove"
                         /\ [device |-> x.delivery.address, parent |-> d] \in Range(x.db.removals)
                    \/ InApp(a, d) /\ x.delivery.kind \in AppKinds
           z == [x EXCEPT !.delivery = IF stale THEN NoDelivery ELSE @,
                          !.table[d] = Inactive, !.attempts = @ \ {d}]
           y == IF x.err = "none" THEN z ELSE x
<1>1. /\ w \in Works /\ w.db \in Databases /\ DbOK(w.db) /\ Owned(w.db, w.delivery)
      /\ w.db.removals \in Seq(Intents) /\ Sane(w, P) /\ Agreed(w.db, w.table, {})
      /\ a \in AppRecords
      /\ \A e \in Devices : Proven(w.db.dev, P, e) /\ Proven(w.table, P, e)
  BY DEF Good, Sane, Works, Databases
<1>2. Revoke(w, d) = y
  BY DEF Revoke, Then
<1> SUFFICES Good(y, P)
  BY <1>2
<1>3. /\ next \in Seq(Intents)
      /\ \A i \in DOMAIN next : \E j \in DOMAIN w.db.removals : next[i] = w.db.removals[j]
      /\ \A j \in DOMAIN w.db.removals : w.db.removals[j].device # d =>
           \E i \in DOMAIN next : next[i] = w.db.removals[j]
  BY <1>1, WithoutRemovalKeeps
<1>4. /\ D \in Databases /\ D.dev[d] = Unknown /\ \A e \in Devices \ {d} : D.dev[e] = w.db.dev[e]
      /\ D.removals = next /\ D.app = IF InApp(a, d) THEN NoApp ELSE a
  <2> HIDE DEF next
  <2>1. D = [w.db EXCEPT !.dev[d] = Unknown, !.removals = next, !.app = IF InApp(a, d) THEN NoApp ELSE a]
    BY <1>1 DEF next, Databases
  <2> HIDE DEF D
  <2> QED BY <1>1, <1>3, <2>1, Constants DEF Databases
<1> HIDE DEF D, next
<1>5. \A i \in DOMAIN w.db.removals : w.db.removals[i].device \in Devices
  <2>1. \A i \in DOMAIN w.db.removals : w.db.removals[i] \in Intents
    BY <1>1
  <2> QED BY <2>1 DEF Intents
<1>6. Unknown.known = FALSE /\ Unknown.removal_pending = FALSE /\ Unknown.verified = FALSE
  BY DEF Unknown
<1>7. DbOK(D)
  <2>1. \A i \in DOMAIN D.removals : ~D.dev[D.removals[i].device].known
    <3> SUFFICES ASSUME NEW i \in DOMAIN next PROVE ~D.dev[next[i].device].known
      BY <1>4
    <3>1. PICK j \in DOMAIN w.db.removals : next[i] = w.db.removals[j]
      BY <1>3
    <3>2. ~w.db.dev[w.db.removals[j].device].known /\ w.db.removals[j].device \in Devices
      BY <1>1, <1>5 DEF DbOK, Valid
    <3> QED BY <1>4, <1>6, <3>1, <3>2
  <2>2. D.app # NoApp => /\ D.app.initiator \in Devices /\ D.app.responder \in Devices
                         /\ D.dev[D.app.initiator].known /\ D.dev[D.app.responder].known
    BY <1>1, <1>4 DEF DbOK, Valid, InApp
  <2>3. \A e \in Devices : D.dev[e].removal_pending => D.dev[e].known
    BY <1>1, <1>4, <1>6 DEF DbOK
  <2> QED BY <2>1, <2>2, <2>3, Zenon DEF DbOK, Valid
<1>8. /\ x \in Works /\ x.table = w.table /\ x.delivery = w.delivery
      /\ \/ x.db = w.db /\ x.err = "store"
         \/ x.db = D /\ x.err = "none"
  <2>1. CASE D = w.db
    BY <1>1, <2>1
  <2>2. CASE D # w.db
    <3>1. x = Store(w, D) /\ Valid(D)
      BY <1>7, <2>2 DEF DbOK
    <3> HIDE DEF x
    <3> QED BY <1>1, <1>4, <3>1, StoreEffect
  <2> QED BY <2>1, <2>2
<1> HIDE DEF x
<1>9. CASE x.err # "none"
  <2>1. y = x /\ x.err = "store" /\ x.db = w.db
    BY <1>8, <1>9
  <2> HIDE DEF y
  <2> QED BY <1>1, <1>8, <2>1, FailedStore
<1>10. CASE x.err = "none"
  <2>0. x.db = D
    BY <1>8, <1>10
  <2> DEFINE c == IF stale THEN NoDelivery ELSE w.delivery
             T == [w.table EXCEPT ![d] = Inactive]
  <2>1. /\ y \in Works /\ y.db = D /\ y.err = "none" /\ y.delivery = c /\ y.table = T
    <3> HIDE DEF stale
    <3> QED BY <1>8, <1>10, <2>0, Constants DEF Works, Tables
  <2>2. T[d] = Inactive /\ \A e \in Devices \ {d} : T[e] = w.table[e]
    BY <1>1 DEF Works, Tables
  <2> HIDE DEF T, y
  <2>3. Inactive.verified = FALSE /\ Inactive.active = FALSE
    BY DEF Inactive
  <2>4. \A e \in Devices : Proven(D.dev, P, e) /\ Proven(T, P, e)
    BY <1>1, <1>4, <1>6, <2>2, <2>3 DEF Proven
  <2>5. Agreed(D, T, {})
    BY <1>1, <1>4, <1>6, <2>2, <2>3 DEF Agreed, Agrees
  <2>6. \A e \in Devices \ {d} : Rejected(w.db, e) => Rejected(D, e)
    BY <1>3, <1>4 DEF Rejected
  <2>7. Owned(D, c)
    <3>1. CASE stale
      BY <3>1 DEF Owned, NoDelivery
    <3>2. CASE ~stale
      <4>1. /\ c = w.delivery /\ c.address # d
            /\ InApp(a, d) => c.kind # "AppInitiator" /\ c.kind # "AppResponder"
        BY <1>8, <3>2 DEF AppKinds
      <4> HIDE DEF c
      <4> QED BY <1>1, <1>4, <2>6, <4>1 DEF Owned
    <3> QED BY <3>1, <3>2
  <2> HIDE DEF c
  <2> QED BY <1>7, <2>1, <2>4, <2>5, <2>7 DEF Good, Sane
<1> QED BY <1>9, <1>10

LEMMA RetireGood ==
    ASSUME NEW P \in Proofs, NEW w, Good(w, P), w.err = "none"
    PROVE  Good(Retire(w), P)
<1>1. w \in Works
  BY DEF Good, Sane
<1>2. CASE w.tombstone = "none"
  BY <1>2 DEF Retire
<1>3. CASE w.tombstone # "none" /\ w.bad = 1
  <2> DEFINE x == [w EXCEPT !.err = "store", !.bad = 0]
  <2>1. Retire(w) = x
    BY <1>3 DEF Retire
  <2>2. x \in Works /\ x.db = w.db /\ x.table = w.table /\ x.delivery = w.delivery /\ x.err = "store"
    BY <1>1 DEF Works, Errors
  <2> HIDE DEF x
  <2>3. Sane(w, P)
    BY DEF Good
  <2> QED BY <2>1, <2>2, <2>3, FailedStore
<1>4. CASE w.tombstone # "none" /\ w.bad # 1
  <2> DEFINE b == IF w.bad = 0 THEN 0 ELSE w.bad - 1
             v == [w EXCEPT !.bad = b]
             u == Revoke(v, w.tombstone)
  <2>1. Retire(w) = IF u.err = "none" THEN [u EXCEPT !.tombstone = "none"] ELSE u
    BY <1>1, <1>4 DEF Retire, Then
  <2>2. b \in Nat
    BY <1>1 DEF Works
  <2> HIDE DEF b
  <2>3. v \in Works /\ v.db = w.db /\ v.table = w.table /\ v.delivery = w.delivery /\ v.err = "none"
    BY <1>1, <2>2 DEF Works
  <2> HIDE DEF v
  <2>4. Good(v, P)
    BY <2>3, Zenon DEF Good, Sane
  <2>5. Good(u, P)
    BY <1>1, <1>4, <2>3, <2>4, RevokeGood DEF Works
  <2> HIDE DEF u
  <2>6. Good([u EXCEPT !.tombstone = "none"], P)
    BY <2>5, TombstoneGood
  <2> QED BY <2>1, <2>5, <2>6
<1> QED BY <1>2, <1>3, <1>4

-----------------------------------------------------------------------------
(* Key transports. *)

\* A record of a device that is only told apart by what no list is made from.
LEMMA PutSame ==
    ASSUME NEW w \in Works, NEW d \in Devices, NEW r \in Records,
           r.known = w.db.dev[d].known, r.removal_pending = w.db.dev[d].removal_pending,
           r.confirm_key_pending = w.db.dev[d].confirm_key_pending
    PROVE  Same(w.db, PutDevice(w, d, r).db)
<1> DEFINE E == WithDevice(w.db, d, r)
<1>1. w.db \in Databases
  BY DEF Works
<1>2. PutDevice(w, d, r) = Store(w, E)
  BY DEF PutDevice, WithDevice
<1>3. E \in Databases /\ E.dev[d] = r /\ \A e \in Devices \ {d} : E.dev[e] = w.db.dev[e]
  BY <1>1, DeviceEffect
<1> HIDE DEF E
<1>4. PutDevice(w, d, r).db \in {w.db, E}
  BY <1>2, <1>3, StoreEffect
<1> QED BY <1>3, <1>4 DEF Same

LEMMA AttemptsGood ==
    ASSUME NEW P \in Proofs, NEW w, Good(w, P), NEW A \in SUBSET Devices
    PROVE  Good([w EXCEPT !.attempts = A], P) /\ [w EXCEPT !.attempts = A].db = w.db
<1> DEFINE x == [w EXCEPT !.attempts = A]
<1> SUFFICES Good(x, P) /\ x.db = w.db
  OBVIOUS
<1>1. w \in Works
  BY DEF Good, Sane
<1>2. x \in Works /\ x.db = w.db /\ x.table = w.table /\ x.err = w.err /\ x.delivery = w.delivery
  BY <1>1 DEF Works
<1> HIDE DEF x
<1> QED BY <1>2, Zenon DEF Good, Sane

LEMMA PolicyGood ==
    ASSUME NEW P \in Proofs, NEW w, Sane(w, P)
    PROVE  Good(Fail(w, "policy"), P) /\ Fail(w, "policy").db = w.db
<1> DEFINE x == Fail(w, "policy")
<1>1. w \in Works
  BY DEF Sane
<1>2. x \in Works /\ x.db = w.db /\ x.table = w.table /\ x.err = "policy" /\ x.delivery = w.delivery
  BY <1>1 DEF Works, Errors, Fail
<1> HIDE DEF x
<1>3. Good(x, P)
  BY <1>2, FailedStore
<1> QED BY <1>2, <1>3 DEF x

LEMMA ResumeNetworkKeyGood ==
    ASSUME NEW P \in Proofs, NEW w, Good(w, P), w.err = "none", NEW d \in Devices
    PROVE  Good(ResumeNetworkKey(w, d), P) /\ ResumeNetworkKey(w, d).db = w.db
<1> DEFINE c == Checkpoint(w)
<1>1. Good(Fail(w, "policy"), P) /\ Fail(w, "policy").db = w.db
  BY PolicyGood DEF Good
<1>2. Good(c, P) /\ c.db = w.db
  BY CheckpointGood
<1>3. \/ ResumeNetworkKey(w, d) = w
      \/ ResumeNetworkKey(w, d) = Fail(w, "policy")
      \/ ResumeNetworkKey(w, d) = IF c.err = "none" THEN [c EXCEPT !.attempts = @ \cup {d}] ELSE c
  BY DEF ResumeNetworkKey, Then
<1> HIDE DEF c
<1>4. c \in Works /\ c.attempts \in SUBSET Devices
  BY <1>2 DEF Good, Sane, Works
<1>5. [c EXCEPT !.attempts = @ \cup {d}] = [c EXCEPT !.attempts = c.attempts \cup {d}]
  BY <1>4 DEF Works
<1>6. /\ Good([c EXCEPT !.attempts = c.attempts \cup {d}], P)
      /\ [c EXCEPT !.attempts = c.attempts \cup {d}].db = w.db
  BY <1>2, <1>4, AttemptsGood
<1> QED BY <1>1, <1>2, <1>3, <1>5, <1>6

\* A change of a record that no property looks at.
LEMMA TouchGood ==
    ASSUME NEW P \in Proofs, NEW w, Good(w, P), w.err = "none", NEW d \in Devices, NEW r \in Records,
           r.known = w.db.dev[d].known, r.removal_pending = w.db.dev[d].removal_pending,
           r.key = w.db.dev[d].key, r.verified = w.db.dev[d].verified, r.parent = w.db.dev[d].parent,
           w.table[d].pending \in {NoKey, r.pending_link_key} \/ r.removal_pending \/ ~w.table[d].active,
           w.delivery.kind = "Confirm" /\ w.delivery.address = d => r.confirm_key_pending # "none"
    PROVE  Good(PutDevice(w, d, r), P)
<1>1. /\ Sane(w, P) /\ Owned(w.db, w.delivery) /\ DbOK(w.db) /\ Agreed(w.db, w.table, {})
      /\ Proven(w.db.dev, P, d)
  BY DEF Good, Sane
<1>2. Agreed(w.db, w.table, {d}) /\ Agrees(r, w.table[d])
  BY <1>1 DEF Agreed, Agrees
<1>3. r.verified => r.key \in P[d]
  BY <1>1 DEF Proven
<1>4. /\ w.delivery.kind = "Remove" /\ w.delivery.address = d => r.removal_pending \/ Rejected(w.db, d)
      /\ w.delivery.kind = "Confirm" /\ w.delivery.address = d =>
           r.confirm_key_pending # "none" /\ ~r.removal_pending
      /\ r.removal_pending => r.known
  BY <1>1 DEF Owned, DbOK
<1> QED BY <1>1, <1>2, <1>3, <1>4, PutGood

LEMMA CompleteNetworkKeyGood ==
    ASSUME NEW P \in Proofs, NEW w, Good(w, P), w.err = "none", NEW d \in Devices
    PROVE  Good(CompleteNetworkKey(w, d), P)
<1> DEFINE r == [w.db.dev[d] EXCEPT !.network_key_pending = FALSE]
           x == IF w.db.dev[d].network_key_pending THEN PutDevice(w, d, r) ELSE w
<1>1. /\ w \in Works /\ w.db.dev[d] \in Records /\ Owned(w.db, w.delivery) /\ Agreed(w.db, w.table, {})
  BY DEF Good, Sane, Works, Databases
<1>2. /\ r \in Records /\ r.known = w.db.dev[d].known /\ r.removal_pending = w.db.dev[d].removal_pending
      /\ r.key = w.db.dev[d].key /\ r.verified = w.db.dev[d].verified /\ r.parent = w.db.dev[d].parent
      /\ r.pending_link_key = w.db.dev[d].pending_link_key
      /\ r.confirm_key_pending = w.db.dev[d].confirm_key_pending
  BY <1>1 DEF Records
<1> HIDE DEF r
<1>3. Good(x, P)
  <2>1. /\ w.table[d].pending \in {NoKey, r.pending_link_key} \/ r.removal_pending \/ ~w.table[d].active
        /\ w.delivery.kind = "Confirm" /\ w.delivery.address = d => r.confirm_key_pending # "none"
    BY <1>1, <1>2 DEF Agreed, Agrees, Owned
  <2>2. Good(PutDevice(w, d, r), P)
    BY <1>2, <2>1, TouchGood
  <2> QED BY <2>2
<1>4. CompleteNetworkKey(w, d) = IF x.err = "none" THEN [x EXCEPT !.attempts = @ \ {d}] ELSE x
  BY DEF CompleteNetworkKey, Then, r
<1> HIDE DEF x
<1>5. x \in Works /\ x.attempts \in SUBSET Devices
  BY <1>3 DEF Good, Sane, Works
<1>6. [x EXCEPT !.attempts = @ \ {d}] = [x EXCEPT !.attempts = x.attempts \ {d}]
  BY <1>5 DEF Works
<1>7. Good([x EXCEPT !.attempts = x.attempts \ {d}], P)
  BY <1>3, <1>5, AttemptsGood
<1> QED BY <1>3, <1>4, <1>6, <1>7

LEMMA KeysGood ==
    ASSUME NEW P \in Proofs, NEW w, Good(w, P), NEW k \in Nat
    PROVE  Good([w EXCEPT !.keys = k], P) /\ [w EXCEPT !.keys = k].err = w.err
<1> DEFINE x == [w EXCEPT !.keys = k]
<1> SUFFICES Good(x, P) /\ x.err = w.err
  OBVIOUS
<1>1. w \in Works
  BY DEF Good, Sane
<1>2. x \in Works /\ x.db = w.db /\ x.table = w.table /\ x.err = w.err /\ x.delivery = w.delivery
  BY <1>1 DEF Works
<1> HIDE DEF x
<1> QED BY <1>2, Zenon DEF Good, Sane

LEMMA StageLinkKeyGood ==
    ASSUME NEW P \in Proofs, NEW w, Good(w, P), w.err = "none", NEW d \in Devices
    PROVE  Good(StageLinkKey(w, d), P)
<1> DEFINE s == w.db.dev[d]
           r1 == [s EXCEPT !.transported = FALSE]
           r2 == [s EXCEPT !.pending_link_key = w.keys + 2, !.transported = FALSE]
           x == PutDevice(w, d, r2)
<1>1. /\ w \in Works /\ s \in Records /\ w.keys + 2 \in Nat /\ Owned(w.db, w.delivery)
      /\ Agreed(w.db, w.table, {})
  BY DEF Good, Sane, Works, Databases
<1>2. CASE ~s.known
  <2>1. StageLinkKey(w, d) = Fail(w, "policy")
    BY <1>2 DEF StageLinkKey
  <2> QED BY <2>1, PolicyGood DEF Good
<1>3. CASE s.known /\ s.pending_link_key # NoKey
  <2>1. StageLinkKey(w, d) = PutDevice(w, d, r1)
    BY <1>3 DEF StageLinkKey
  <2>2. /\ r1 \in Records /\ r1.known = s.known /\ r1.removal_pending = s.removal_pending
        /\ r1.key = s.key /\ r1.verified = s.verified /\ r1.parent = s.parent
        /\ r1.pending_link_key = s.pending_link_key /\ r1.confirm_key_pending = s.confirm_key_pending
    BY <1>1 DEF Records
  <2> HIDE DEF r1
  <2>3. /\ w.table[d].pending \in {NoKey, r1.pending_link_key} \/ r1.removal_pending \/ ~w.table[d].active
        /\ w.delivery.kind = "Confirm" /\ w.delivery.address = d => r1.confirm_key_pending # "none"
    BY <1>1, <2>2 DEF Agreed, Agrees, Owned
  <2> QED BY <2>1, <2>2, <2>3, TouchGood
<1>4. CASE s.known /\ s.pending_link_key = NoKey
  <2>1. StageLinkKey(w, d) = IF x.err = "none" THEN [x EXCEPT !.keys = @ + 1] ELSE x
    BY <1>4 DEF StageLinkKey, Then
  <2>2. /\ r2 \in Records /\ r2.known = s.known /\ r2.removal_pending = s.removal_pending
        /\ r2.key = s.key /\ r2.verified = s.verified /\ r2.parent = s.parent
        /\ r2.confirm_key_pending = s.confirm_key_pending
    BY <1>1 DEF Records
  <2> HIDE DEF r2
  <2>3. /\ w.table[d].pending \in {NoKey, r2.pending_link_key} \/ r2.removal_pending \/ ~w.table[d].active
        /\ w.delivery.kind = "Confirm" /\ w.delivery.address = d => r2.confirm_key_pending # "none"
    BY <1>1, <1>4, <2>2 DEF Agreed, Agrees, Owned
  <2>4. Good(x, P)
    BY <2>2, <2>3, TouchGood
  <2> HIDE DEF x
  <2>5. x \in Works /\ x.keys + 1 \in Nat
    BY <2>4 DEF Good, Sane, Works
  <2>6. [x EXCEPT !.keys = @ + 1] = [x EXCEPT !.keys = x.keys + 1]
    BY <2>5 DEF Works
  <2> QED BY <2>1, <2>4, <2>5, <2>6, KeysGood
<1> QED BY <1>2, <1>3, <1>4

LEMMA ResumeLinkKeyGood ==
    ASSUME NEW P \in Proofs, NEW w, Good(w, P), w.err = "none", NEW d \in Devices
    PROVE  Good(ResumeLinkKey(w, d), P) /\ Same(w.db, ResumeLinkKey(w, d).db)
<1> DEFINE s == w.db.dev[d]
           r == [s EXCEPT !.transported = TRUE]
           t == [w.table[d] EXCEPT !.pending = s.pending_link_key, !.timeout = JoinTimeout]
           v == [w EXCEPT !.table[d].pending = s.pending_link_key, !.table[d].timeout = JoinTimeout,
                          !.heard = @ \cup {<<d, s.pending_link_key>>}]
           T == [w.table EXCEPT ![d] = t]
<1>1. /\ w \in Works /\ s \in Records /\ Owned(w.db, w.delivery) /\ w.table[d] \in Policies
      /\ Agreed(w.db, w.table, {}) /\ Sane(w, P) /\ w.table \in Tables /\ DbOK(w.db)
      /\ s.pending_link_key \in Nat
      /\ \A e \in Devices : Proven(w.db.dev, P, e) /\ Proven(w.table, P, e)
  BY DEF Good, Sane, Works, Databases, Records, Tables
<1>2. \/ ResumeLinkKey(w, d) = w
      \/ ResumeLinkKey(w, d) = Fail(w, "policy")
      \/ ResumeLinkKey(w, d) = PutDevice(v, d, r)
  BY DEF ResumeLinkKey
<1>3. /\ r \in Records /\ r.known = s.known /\ r.removal_pending = s.removal_pending
      /\ r.key = s.key /\ r.verified = s.verified /\ r.parent = s.parent
      /\ r.pending_link_key = s.pending_link_key /\ r.confirm_key_pending = s.confirm_key_pending
  BY <1>1 DEF Records
<1>4. /\ t \in Policies /\ t.active = w.table[d].active /\ t.key = w.table[d].key
      /\ t.verified = w.table[d].verified /\ t.parent = w.table[d].parent
      /\ t.pending = s.pending_link_key
  BY <1>1, Constants DEF Policies
<1>5. T \in Tables /\ T[d] = t /\ \A e \in Devices \ {d} : T[e] = w.table[e]
  <2> HIDE DEF t
  <2> QED BY <1>1, <1>4 DEF Tables
<1>6. /\ v \in Works /\ v.db = w.db /\ v.table = T /\ v.delivery = w.delivery /\ v.err = "none"
  <2>1. v = [w EXCEPT !.table = T, !.heard = w.heard \cup {<<d, s.pending_link_key>>}]
    BY <1>1 DEF Works, Tables, Policies
  <2>2. w.heard \cup {<<d, s.pending_link_key>>} \in SUBSET (Devices \X Nat)
    BY <1>1 DEF Works
  <2> HIDE DEF T, v, s
  <2> QED BY <1>1, <1>5, <2>1, <2>2 DEF Works
<1> HIDE DEF v, T, t, r
<1>7. Good(v, P)
  <2>1. \A e \in Devices : Proven(T, P, e)
    BY <1>1, <1>4, <1>5 DEF Proven
  <2>2. Agreed(w.db, T, {})
    BY <1>1, <1>4, <1>5 DEF Agreed, Agrees
  <2> HIDE DEF s
  <2> QED BY <1>1, <1>6, <2>1, <2>2 DEF Good, Sane
<1>8. Good(PutDevice(v, d, r), P)
  <2>1. v.table[d].pending \in {NoKey, r.pending_link_key}
    BY <1>3, <1>4, <1>5, <1>6
  <2>2. v.delivery.kind = "Confirm" /\ v.delivery.address = d => r.confirm_key_pending # "none"
    BY <1>1, <1>3, <1>6 DEF Owned
  <2> QED BY <1>3, <1>6, <1>7, <2>1, <2>2, TouchGood
<1>9. Same(w.db, PutDevice(v, d, r).db)
  BY <1>3, <1>6, PutSame
<1>10. Same(w.db, w.db)
  BY DEF Same
<1>11. Good(Fail(w, "policy"), P) /\ Fail(w, "policy").db = w.db
  BY <1>1, PolicyGood
<1> QED BY <1>2, <1>8, <1>9, <1>10, <1>11

\* A store that ends the transaction in the delivery slot.
LEMMA StoreCancel ==
    ASSUME NEW P \in Proofs, NEW w, NEW D \in Databases, Sane(w, P), w.err = "none",
           DbOK(D), \A d \in Devices : Proven(D.dev, P, d), Agreed(D, w.table, {})
    PROVE  /\ Good(Then(Store(w, D), Cancel), P)
           /\ \/ Then(Store(w, D), Cancel).db = w.db /\ Then(Store(w, D), Cancel).err # "none"
              \/ Then(Store(w, D), Cancel).db = D /\ Then(Store(w, D), Cancel).err = "none"
<1> DEFINE x == Store(w, D)
           y == IF x.err = "none" THEN [x EXCEPT !.delivery = NoDelivery] ELSE x
<1>1. Then(Store(w, D), Cancel) = y
  BY DEF Then, Cancel
<1> SUFFICES Good(y, P) /\ ((y.db = w.db /\ y.err # "none") \/ (y.db = D /\ y.err = "none"))
  BY <1>1
<1>2. w \in Works /\ Valid(D) /\ \A d \in Devices : Proven(w.table, P, d)
  BY DEF Sane, DbOK
<1>3. /\ x \in Works /\ x.table = w.table /\ x.delivery = w.delivery
      /\ \/ x.db = w.db /\ x.err = "store"
         \/ x.db = D /\ x.err = "none"
  BY <1>2, StoreEffect
<1> HIDE DEF x
<1>4. CASE x.err # "none"
  <2>1. y = x /\ x.db = w.db /\ x.err = "store"
    BY <1>3, <1>4
  <2>2. Good(x, P)
    BY <1>3, <2>1, FailedStore
  <2> HIDE DEF y
  <2> QED BY <2>1, <2>2
<1>5. CASE x.err = "none"
  <2>1. /\ y \in Works /\ y.db = D /\ y.table = w.table /\ y.err = "none"
        /\ y.delivery = NoDelivery
    BY <1>3, <1>5, Constants DEF Works
  <2>2. Owned(D, NoDelivery)
    BY DEF Owned, NoDelivery
  <2> HIDE DEF y
  <2> QED BY <1>2, <2>1, <2>2 DEF Good, Sane
<1> QED BY <1>4, <1>5

LEMMA ResumeConfirmKeyGood ==
    ASSUME NEW P \in Proofs, NEW w, Good(w, P), w.err = "none", NEW d \in Devices,
           w.db.dev[d].confirm_key_pending # "none", ~w.db.dev[d].removal_pending
    PROVE  /\ Good(ResumeConfirmKey(w, d), P)
           /\ \A e \in Devices \ {d} : ResumeConfirmKey(w, d).db.dev[e] = w.db.dev[e]
<1> DEFINE s == w.db.dev[d]
           r == [s EXCEPT !.confirm_key_pending = "none"]
           D == WithDevice(w.db, d, r)
           y == Then(Store(w, D), Cancel)
           z == Checkpoint(Start(w, "Confirm", d, d))
<1>1. /\ w.db \in Databases /\ s \in Records /\ Sane(w, P) /\ DbOK(w.db) /\ Agreed(w.db, w.table, {})
      /\ \A e \in Devices : Proven(w.db.dev, P, e)
  BY DEF Good, Sane, Works, Databases
<1>2. ResumeConfirmKey(w, d) = w \/ ResumeConfirmKey(w, d) = y \/ ResumeConfirmKey(w, d) = z
  BY DEF ResumeConfirmKey, Progress, PutDevice, WithDevice
<1>3. /\ r \in Records /\ r.known = s.known /\ r.removal_pending = s.removal_pending
      /\ r.key = s.key /\ r.verified = s.verified /\ r.parent = s.parent
      /\ r.pending_link_key = s.pending_link_key
  BY <1>1 DEF Records
<1> HIDE DEF r
<1>4. /\ D \in Databases /\ D.dev[d] = r /\ \A e \in Devices \ {d} : D.dev[e] = w.db.dev[e]
  BY <1>1, <1>3, DeviceEffect
<1>5. DbOK(D)
  BY <1>1, <1>3, DeviceOK DEF DbOK
<1> HIDE DEF D
<1>6. (\A e \in Devices : Proven(D.dev, P, e)) /\ Agreed(D, w.table, {})
  BY <1>1, <1>3, <1>4 DEF Proven, Agreed, Agrees
<1>7. Good(y, P) /\ y.db \in {w.db, D}
  BY <1>1, <1>4, <1>5, <1>6, StoreCancel
<1>8. "Confirm" \in Kinds /\ Owned(w.db, [kind |-> "Confirm", address |-> d, via |-> d])
  BY DEF Kinds, Owned
<1>9. Good(z, P) /\ z.db = w.db
  BY <1>8, StartGood
<1> HIDE DEF y, z, s
<1> QED BY <1>2, <1>4, <1>7, <1>9

\* A change of the application-key transaction only.
LEMMA AppEffect ==
    ASSUME NEW D \in Databases, NEW a \in AppRecords
    PROVE  /\ [D EXCEPT !.app = a] \in Databases /\ [D EXCEPT !.app = a].app = a
           /\ [D EXCEPT !.app = a].dev = D.dev /\ [D EXCEPT !.app = a].removals = D.removals
  BY DEF Databases

LEMMA AppOK ==
    ASSUME NEW P \in Proofs, NEW w, Good(w, P), w.err = "none", NEW a \in AppRecords,
           a # NoApp => /\ a.initiator \in Devices /\ a.responder \in Devices
                        /\ w.db.dev[a.initiator].known /\ w.db.dev[a.responder].known
    PROVE  LET D == [w.db EXCEPT !.app = a] IN
           /\ D \in Databases /\ DbOK(D) /\ Agreed(D, w.table, {})
           /\ \A d \in Devices : Proven(D.dev, P, d)
           /\ w.delivery.kind \notin AppKinds => Owned(D, w.delivery)
<1> DEFINE D == [w.db EXCEPT !.app = a]
<1>1. /\ w.db \in Databases /\ DbOK(w.db) /\ Agreed(w.db, w.table, {}) /\ Owned(w.db, w.delivery)
      /\ \A d \in Devices : Proven(w.db.dev, P, d)
  BY DEF Good, Sane, Works
<1>2. D \in Databases /\ D.app = a /\ D.dev = w.db.dev /\ D.removals = w.db.removals
  BY <1>1, AppEffect
<1> HIDE DEF D
<1>3. DbOK(D)
  BY <1>1, <1>2 DEF DbOK, Valid
<1>4. Agreed(D, w.table, {}) /\ \A d \in Devices : Proven(D.dev, P, d)
  BY <1>1, <1>2 DEF Agreed
<1>5. ASSUME w.delivery.kind \notin AppKinds PROVE Owned(D, w.delivery)
  <2>1. \A e : Rejected(D, e) <=> Rejected(w.db, e)
    BY <1>2, Zenon DEF Rejected
  <2> QED BY <1>1, <1>2, <1>5, <2>1 DEF Owned, AppKinds
<1> QED BY <1>2, <1>3, <1>4, <1>5 DEF D

\* One end of the pair: done means that its flag is set in the database.
LEMMA ResumeAppEndGood ==
    ASSUME NEW P \in Proofs, NEW w, Good(w, P), w.err = "none", w.db.app # NoApp,
           NEW kind \in AppKinds, NEW d \in Devices, NEW delivered \in BOOLEAN, NEW a \in AppRecords,
           kind = "AppInitiator" => /\ d = w.db.app.initiator /\ delivered = w.db.app.to_initiator
                                    /\ a = [w.db.app EXCEPT !.to_initiator = TRUE],
           kind = "AppResponder" => /\ d = w.db.app.responder /\ delivered = w.db.app.to_responder
                                    /\ a = [w.db.app EXCEPT !.to_responder = TRUE]
    PROVE  LET i == ResumeAppEnd(w, kind, d, delivered, [w.db EXCEPT !.app = a]) IN
           /\ Good(i.w, P)
           /\ i.done => i.w.err = "none" /\ i.w.db.app = IF delivered THEN w.db.app ELSE a
<1> DEFINE D == [w.db EXCEPT !.app = a]
           y == Then(Store(w, D), Cancel)
           z == Checkpoint(Start(w, kind, d, d))
           i == ResumeAppEnd(w, kind, d, delivered, D)
<1>1. /\ w \in Works /\ w.db \in Databases /\ DbOK(w.db) /\ Sane(w, P) /\ w.db.app \in AppRecords
  BY DEF Good, Sane, Works, Databases
<1>2. a # NoApp => /\ a.initiator \in Devices /\ a.responder \in Devices
                   /\ w.db.dev[a.initiator].known /\ w.db.dev[a.responder].known
  BY <1>1 DEF AppRecords, AppKinds, DbOK, Valid
<1>3. /\ D \in Databases /\ DbOK(D) /\ Agreed(D, w.table, {}) /\ D.app = a
      /\ \A e \in Devices : Proven(D.dev, P, e)
  BY <1>1, <1>2, AppOK, AppEffect
<1>4. \/ delivered /\ i = [w |-> w, done |-> TRUE]
      \/ ~delivered /\ i = [w |-> w, done |-> FALSE]
      \/ ~delivered /\ i = [w |-> y, done |-> w.bad # 1]
      \/ ~delivered /\ i = [w |-> Fail(w, "policy"), done |-> FALSE]
      \/ ~delivered /\ i = [w |-> z, done |-> FALSE]
  <2> HIDE DEF D, y, z
  <2> QED BY DEF ResumeAppEnd, Progress, y, z
<1> HIDE DEF i
<1>5. Good(y, P) /\ ((y.db = w.db /\ y.err # "none") \/ (y.db = D /\ y.err = "none"))
  <2> HIDE DEF D
  <2>1. /\ Good(y, P)
        /\ \/ y.db = w.db /\ y.err # "none"
           \/ y.db = D /\ y.err = "none"
    BY <1>1, <1>3, StoreCancel
  <2> QED BY <2>1
<1>6. w.bad # 1 => y.err = "none"
  <2>1. Valid(D)
    BY <1>3 DEF DbOK
  <2>2. ASSUME w.bad # 1 PROVE Store(w, D).err = "none"
    <3>1. Store(w, D) = [w EXCEPT !.db = D, !.bad = IF @ = 0 THEN 0 ELSE @ - 1]
      BY <2>1, <2>2 DEF Store
    <3> HIDE DEF D
    <3> QED BY <1>1, <3>1 DEF Works
  <2>3. ASSUME w.bad # 1 PROVE y = Cancel(Store(w, D))
    BY <2>2, <2>3 DEF Then
  <2>4. Store(w, D) \in Works
    BY <1>1, <1>3, StoreEffect
  <2> HIDE DEF D, y
  <2> QED BY <2>2, <2>3, <2>4 DEF Cancel, Works
<1>7. Good(Fail(w, "policy"), P)
  BY <1>1, PolicyGood
<1>8. ~delivered => Good(z, P)
  <2>1. kind \in Kinds
    BY DEF AppKinds, Kinds
  <2>2. ASSUME ~delivered PROVE Owned(w.db, [kind |-> kind, address |-> d, via |-> d])
    BY <2>2 DEF Owned, AppKinds
  <2> QED BY <2>1, <2>2, StartGood
<1> HIDE DEF y, z
<1>9. /\ Good(i.w, P)
      /\ i.done => i.w.err = "none" /\ i.w.db.app = IF delivered THEN w.db.app ELSE a
  <2> HIDE DEF D
  <2>1. CASE delivered /\ i = [w |-> w, done |-> TRUE]
    BY <2>1
  <2>2. CASE ~delivered /\ i = [w |-> w, done |-> FALSE]
    BY <2>2
  <2>3. CASE ~delivered /\ i = [w |-> y, done |-> w.bad # 1]
    <3>1. i.w = y /\ (i.done => w.bad # 1)
      BY <2>3
    <3>2. i.done => y.err = "none" /\ y.db.app = a
      BY <1>3, <1>5, <1>6, <3>1
    <3> QED BY <1>5, <2>3, <3>1, <3>2
  <2>4. CASE ~delivered /\ i = [w |-> Fail(w, "policy"), done |-> FALSE]
    BY <1>7, <2>4
  <2>5. CASE ~delivered /\ i = [w |-> z, done |-> FALSE]
    BY <1>8, <2>5
  <2> QED BY <1>4, <2>1, <2>2, <2>3, <2>4, <2>5
<1> QED BY <1>9 DEF i

LEMMA ResumeAppKeyGood ==
    ASSUME NEW P \in Proofs, NEW w, Good(w, P), w.err = "none"
    PROVE  Good(ResumeAppKey(w), P)
<1> DEFINE a == w.db.app
           ai == [a EXCEPT !.to_initiator = TRUE]
           i == ResumeAppEnd(w, "AppInitiator", a.initiator, a.to_initiator,
                             [w.db EXCEPT !.app.to_initiator = TRUE])
           b == i.w.db.app
           br == [b EXCEPT !.to_responder = TRUE]
           r == ResumeAppEnd(i.w, "AppResponder", a.responder, a.to_responder,
                             [i.w.db EXCEPT !.app.to_responder = TRUE])
           x == Store(r.w, [r.w.db EXCEPT !.app = NoApp])
<1>1. CASE a = NoApp
  BY <1>1 DEF ResumeAppKey
<1>2. CASE a # NoApp
  <2>1. ResumeAppKey(w) = IF ~i.done THEN i.w ELSE IF ~r.done THEN r.w ELSE x
    BY <1>2 DEF ResumeAppKey
  <2>2. /\ w.db \in Databases /\ a \in AppRecords /\ DbOK(w.db) /\ a.to_initiator \in BOOLEAN
        /\ a.to_responder \in BOOLEAN
    BY DEF Good, Sane, Works, Databases, AppRecords
  <2>3. a.initiator \in Devices /\ a.responder \in Devices
    BY <1>2, <2>2 DEF DbOK
  <2>4. /\ ai \in AppRecords /\ ai.responder = a.responder /\ ai.to_responder = a.to_responder
        /\ ai.initiator = a.initiator /\ ai.to_initiator = TRUE
    BY <2>2 DEF AppRecords
  <2>5. [w.db EXCEPT !.app.to_initiator = TRUE] = [w.db EXCEPT !.app = ai]
    BY <2>2 DEF Databases
  <2>6. /\ Good(i.w, P)
        /\ i.done => i.w.err = "none" /\ b = IF a.to_initiator THEN a ELSE ai
    <3>1. i = ResumeAppEnd(w, "AppInitiator", a.initiator, a.to_initiator, [w.db EXCEPT !.app = ai])
      BY <2>5
    <3>2. "AppInitiator" \in AppKinds /\ "AppInitiator" # "AppResponder"
      BY DEF AppKinds
    <3>3. ai = [w.db.app EXCEPT !.to_initiator = TRUE]
      OBVIOUS
    <3>4. i = ResumeAppEnd(w, "AppInitiator", w.db.app.initiator, w.db.app.to_initiator,
                           [w.db EXCEPT !.app = ai])
      BY <3>1
    <3> DEFINE k == "AppInitiator"  d == w.db.app.initiator  delivered == w.db.app.to_initiator
               j == ResumeAppEnd(w, k, d, delivered, [w.db EXCEPT !.app = ai])
    <3>5. /\ k = "AppInitiator" => /\ d = w.db.app.initiator /\ delivered = w.db.app.to_initiator
                                   /\ ai = [w.db.app EXCEPT !.to_initiator = TRUE]
          /\ k = "AppResponder" => /\ d = w.db.app.responder /\ delivered = w.db.app.to_responder
                                   /\ ai = [w.db.app EXCEPT !.to_responder = TRUE]
          /\ k \in AppKinds /\ d \in Devices /\ delivered \in BOOLEAN /\ w.db.app # NoApp
      BY <1>2, <2>2, <2>3, <3>2, <3>3
    <3> HIDE DEF ai, i, k, d, delivered
    <3>6. /\ Good(j.w, P)
          /\ j.done => j.w.err = "none" /\ j.w.db.app = IF delivered THEN w.db.app ELSE ai
      BY <2>4, <3>5, ResumeAppEndGood
    <3>7. i = j
      BY <3>4 DEF k, d, delivered
    <3> QED BY <3>6, <3>7 DEF delivered
  <2> HIDE DEF ai, i
  <2>7. CASE ~i.done
    BY <2>1, <2>6, <2>7
  <2>8. CASE i.done
    <3>1. /\ i.w.err = "none" /\ i.w.db \in Databases /\ b \in AppRecords /\ b.initiator = a.initiator
          /\ b.responder = a.responder /\ b.to_responder = a.to_responder /\ b.to_initiator = TRUE
      BY <2>2, <2>4, <2>6, <2>8 DEF Good, Sane, Works, Databases
    <3>2. b # NoApp
      BY <2>3, <3>1, Constants DEF NoApp
    <3>3. /\ br \in AppRecords /\ br.to_responder = TRUE /\ br.to_initiator = TRUE
          /\ br.initiator = a.initiator /\ br.responder = a.responder
      BY <3>1 DEF AppRecords
    <3>4. [i.w.db EXCEPT !.app.to_responder = TRUE] = [i.w.db EXCEPT !.app = br]
      BY <3>1 DEF Databases
    <3>5. /\ Good(r.w, P)
          /\ r.done => r.w.err = "none" /\ r.w.db.app = IF a.to_responder THEN b ELSE br
      <4>1. r = ResumeAppEnd(i.w, "AppResponder", a.responder, a.to_responder, [i.w.db EXCEPT !.app = br])
        BY <3>4
      <4>2. "AppResponder" \in AppKinds /\ "AppInitiator" # "AppResponder"
        BY DEF AppKinds
      <4>3. br = [i.w.db.app EXCEPT !.to_responder = TRUE]
        OBVIOUS
      <4>4. a.responder = i.w.db.app.responder /\ a.to_responder = i.w.db.app.to_responder
        BY <3>1
      <4> DEFINE v == i.w  k == "AppResponder"  d == a.responder  delivered == a.to_responder
                 j == ResumeAppEnd(v, k, d, delivered, [v.db EXCEPT !.app = br])
      <4>5. /\ k = "AppInitiator" => /\ d = v.db.app.initiator /\ delivered = v.db.app.to_initiator
                                     /\ br = [v.db.app EXCEPT !.to_initiator = TRUE]
            /\ k = "AppResponder" => /\ d = v.db.app.responder /\ delivered = v.db.app.to_responder
                                     /\ br = [v.db.app EXCEPT !.to_responder = TRUE]
            /\ k \in AppKinds /\ d \in Devices /\ delivered \in BOOLEAN /\ v.db.app # NoApp
            /\ Good(v, P) /\ v.err = "none"
        BY <2>2, <2>3, <2>6, <3>1, <3>2, <4>2, <4>3, <4>4
      <4> HIDE DEF br, r, k, d, delivered, v
      <4>6. /\ Good(j.w, P)
            /\ j.done => j.w.err = "none" /\ j.w.db.app = IF delivered THEN v.db.app ELSE br
        BY <3>3, <4>5, ResumeAppEndGood
      <4>7. r = j
        BY <4>1 DEF k, d, delivered, v
      <4> QED BY <4>6, <4>7 DEF delivered, v
    <3> HIDE DEF br, r
    <3>6. CASE ~r.done
      BY <2>1, <2>8, <3>5, <3>6
    <3>7. CASE r.done
      <4> DEFINE D == [r.w.db EXCEPT !.app = NoApp]
      <4>1. /\ r.w.err = "none" /\ r.w.db.app.to_initiator = TRUE /\ r.w.db.app.to_responder = TRUE
        BY <2>2, <3>1, <3>3, <3>5, <3>7
      <4>2. Sane(r.w, P) /\ Owned(r.w.db, r.w.delivery)
        BY <3>5 DEF Good, Sane
      <4>3. r.w.delivery.kind \notin AppKinds
        BY <4>1, <4>2 DEF Owned, AppKinds
      <4>4. /\ D \in Databases /\ DbOK(D) /\ Agreed(D, r.w.table, {})
            /\ (\A e \in Devices : Proven(D.dev, P, e)) /\ Owned(D, r.w.delivery)
        BY <3>5, <4>1, <4>3, Constants, AppOK
      <4> HIDE DEF D
      <4>5. Good(Store(r.w, D), P)
        BY <4>1, <4>2, <4>4, StoreGood
      <4>6. x = Store(r.w, D)
        BY DEF D
      <4> HIDE DEF x
      <4> QED BY <2>1, <2>8, <3>7, <4>5, <4>6
    <3> QED BY <3>6, <3>7
  <2> QED BY <2>7, <2>8
<1> QED BY <1>1, <1>2

\* The pair must be two devices of the database; the caller saw both active.
LEMMA StageAppKeyGood ==
    ASSUME NEW P \in Proofs, NEW w, Good(w, P), w.err = "none", NEW i \in Devices, NEW r \in Devices, i # r,
           w.db.dev[i].known, w.db.dev[r].known
    PROVE  Good(StageAppKey(w, i, r), P)
<1> DEFINE a == [NoApp EXCEPT !.initiator = i, !.responder = r]
           D == [w.db EXCEPT !.app = a]
<1>1. a \in AppRecords /\ a.initiator = i /\ a.responder = r
  BY DEF NoApp, AppRecords
<1>2. CASE w.db.app = NoApp
  <2>1. StageAppKey(w, i, r) = Store(w, D)
    BY <1>2 DEF StageAppKey
  <2>2. w.delivery.kind \notin AppKinds
    <3>1. Owned(w.db, w.delivery)
      BY DEF Good, Sane
    <3> QED BY <1>2, <3>1, Constants DEF Owned, AppKinds, NoApp
  <2> HIDE DEF a
  <2>3. /\ D \in Databases /\ DbOK(D) /\ Agreed(D, w.table, {})
        /\ (\A e \in Devices : Proven(D.dev, P, e)) /\ Owned(D, w.delivery)
    BY <1>1, <2>2, AppOK
  <2> HIDE DEF D
  <2>4. Sane(w, P)
    BY DEF Good
  <2> QED BY <2>1, <2>3, <2>4, StoreGood
<1>3. CASE w.db.app # NoApp
  <2>1. StageAppKey(w, i, r) = w \/ StageAppKey(w, i, r) = Fail(w, "policy")
    BY <1>3 DEF StageAppKey
  <2>2. Good(Fail(w, "policy"), P)
    BY PolicyGood DEF Good
  <2> QED BY <2>1, <2>2
<1> QED BY <1>2, <1>3

-----------------------------------------------------------------------------
(* The executor. *)

LEMMA OrderFacts ==
    ASSUME NEW order \in Orders
    PROVE  /\ Len(order) \in Nat
           /\ \A n \in 1..Len(order) : order[n] \in Devices
           /\ \A m, n \in 1..Len(order) : m # n => order[m] # order[n]
<1>1. Cardinality(Devices) \in Nat
  BY TrustCenterAssumption, FS_CardinalityType
<1>2. /\ order \in [1..Cardinality(Devices) -> Devices]
      /\ \A i, j \in 1..Cardinality(Devices) : i # j => order[i] # order[j]
  BY DEF Orders, SetToSeqs
<1>3. Len(order) = Cardinality(Devices)
  BY <1>1, <1>2
<1> QED BY <1>1, <1>2, <1>3

\* The loops before the last one keep what the lists were made from.
LEMMA EachGood ==
    ASSUME NEW P \in Proofs, NEW w, Good(w, P), NEW D, Same(D, w.db), NEW order \in Orders,
           NEW list \in {"removal", "network", "link"}
    PROVE  Good(Each(list, D, w, order), P) /\ Same(D, Each(list, D, w, order).db)
<1>1. Len(order) \in Nat /\ \A n \in 1..Len(order) : order[n] \in Devices
  BY OrderFacts
<1>2. PICK g : /\ g[0] = w
               /\ \A n \in 1..Len(order) : g[n] = ServeOne(list, D, g[n - 1], order[n])
               /\ Each(list, D, w, order) = g[Len(order)]
  BY <1>1, EachRuns
<1> DEFINE S == {n \in Nat : n <= Len(order) => Good(g[n], P) /\ Same(D, g[n].db)}
<1>3. 0 \in S
  BY <1>2
<1>4. ASSUME NEW n \in S PROVE n + 1 \in S
  <2> SUFFICES ASSUME n + 1 <= Len(order)
               PROVE  Good(g[n + 1], P) /\ Same(D, g[n + 1].db)
    OBVIOUS
  <2>1. n \in Nat /\ n + 1 \in 1..Len(order) /\ (n + 1) - 1 = n /\ n <= Len(order)
    BY <1>1
  <2> DEFINE v == g[n]  d == order[n + 1]
  <2>2. Good(v, P) /\ Same(D, v.db) /\ d \in Devices
    BY <1>1, <2>1
  <2>3. g[n + 1] = ServeOne(list, D, v, d)
    BY <1>2, <2>1
  <2> HIDE DEF v, d
  <2>4. \/ g[n + 1] = v
        \/ /\ v.err = "none"
           /\ g[n + 1] \in {ResumeRemoval(v, d), ResumeNetworkKey(v, d), ResumeLinkKey(v, d)}
    BY <2>3 DEF ServeOne, Then, Resume
  <2>5. ASSUME v.err = "none"
        PROVE  /\ Good(ResumeRemoval(v, d), P) /\ ResumeRemoval(v, d).db = v.db
               /\ Good(ResumeNetworkKey(v, d), P) /\ ResumeNetworkKey(v, d).db = v.db
               /\ Good(ResumeLinkKey(v, d), P) /\ Same(v.db, ResumeLinkKey(v, d).db)
    BY <2>2, <2>5, ResumeRemovalGood, ResumeNetworkKeyGood, ResumeLinkKeyGood
  <2>6. v.err = "none" => Same(D, ResumeLinkKey(v, d).db)
    BY <2>2, <2>5, SameTransitive
  <2> QED BY <2>2, <2>4, <2>5, <2>6
<1>5. S = Nat
  <2>1. S \in SUBSET Nat
    OBVIOUS
  <2> HIDE DEF S
  <2> QED BY <1>3, <1>4, <2>1, Induct
<1> QED BY <1>1, <1>2, <1>5

\* The Confirm-Key loop: no device is listed twice, so an entry that is still to
\* be served has its intent.
LEMMA ConfirmGood ==
    ASSUME NEW P \in Proofs, NEW w, Good(w, P), NEW D, Same(D, w.db), NEW order \in Orders
    PROVE  Good(Each("confirm", D, w, order), P)
<1> DEFINE Waits(v, d) == v.db.dev[d].confirm_key_pending # "none" /\ ~v.db.dev[d].removal_pending
<1>1. /\ Len(order) \in Nat /\ \A n \in 1..Len(order) : order[n] \in Devices
      /\ \A m, n \in 1..Len(order) : m # n => order[m] # order[n]
  BY OrderFacts
<1>2. PICK g : /\ g[0] = w
               /\ \A n \in 1..Len(order) : g[n] = ServeOne("confirm", D, g[n - 1], order[n])
               /\ Each("confirm", D, w, order) = g[Len(order)]
  BY <1>1, EachRuns
<1> DEFINE Rest(n) == \A m \in (n + 1)..Len(order) : Listed("confirm", D, order[m]) => Waits(g[n], order[m])
           S == {n \in Nat : n <= Len(order) => Good(g[n], P) /\ Rest(n)}
<1>3. 0 \in S
  <2>1. ASSUME NEW m \in 1..Len(order), Listed("confirm", D, order[m])
        PROVE  Waits(w, order[m])
    BY <1>1, <2>1 DEF Listed, Same
  <2> HIDE DEF Waits
  <2>2. 0 + 1 = 1
    OBVIOUS
  <2> QED BY <1>2, <2>1, <2>2
<1>4. ASSUME NEW n \in S PROVE n + 1 \in S
  <2> SUFFICES ASSUME n + 1 <= Len(order)
               PROVE  Good(g[n + 1], P) /\ Rest(n + 1)
    OBVIOUS
  <2>1. /\ n \in Nat /\ n + 1 \in 1..Len(order) /\ (n + 1) - 1 = n /\ n <= Len(order)
        /\ n + 1 \in (n + 1)..Len(order)
        /\ \A m \in ((n + 1) + 1)..Len(order) : m \in (n + 1)..Len(order) /\ m \in 1..Len(order) /\ m # n + 1
    BY <1>1
  <2> DEFINE v == g[n]  d == order[n + 1]  x == ResumeConfirmKey(v, d)
  <2>2. Good(v, P) /\ Rest(n) /\ d \in Devices
    BY <1>1, <2>1
  <2>3. g[n + 1] = ServeOne("confirm", D, v, d)
    BY <1>2, <2>1
  <2>4. g[n + 1] = v \/ (v.err = "none" /\ Listed("confirm", D, d) /\ g[n + 1] = x)
    <3> HIDE DEF v, d
    <3> QED BY <2>3 DEF ServeOne, Then, Resume
  <2>5. CASE g[n + 1] = v
    <3> HIDE DEF Waits
    <3> QED BY <2>1, <2>2, <2>5
  <2>6. CASE v.err = "none" /\ Listed("confirm", D, d) /\ g[n + 1] = x
    <3>1. Waits(v, d)
      <4> HIDE DEF Waits
      <4> QED BY <2>1, <2>2, <2>6
    <3>2. /\ Good(x, P)
          /\ \A e \in Devices \ {d} : x.db.dev[e] = v.db.dev[e]
      <4> HIDE DEF v, d
      <4> QED BY <2>2, <2>6, <3>1, ResumeConfirmKeyGood
    <3>3. ASSUME NEW m \in ((n + 1) + 1)..Len(order), Listed("confirm", D, order[m])
          PROVE  Waits(x, order[m])
      <4>1. Waits(v, order[m])
        <5> HIDE DEF Waits
        <5> QED BY <2>1, <2>2, <3>3
      <4>2. order[m] \in Devices \ {d}
        BY <1>1, <2>1
      <4> HIDE DEF v, d, x
      <4> QED BY <3>2, <4>1, <4>2
    <3> HIDE DEF Waits, x
    <3> QED BY <2>6, <3>2, <3>3
  <2> QED BY <2>4, <2>5, <2>6
<1>5. S = Nat
  <2>1. S \in SUBSET Nat
    OBVIOUS
  <2> HIDE DEF S
  <2> QED BY <1>3, <1>4, <2>1, Induct
<1>6. Len(order) \in S
  BY <1>1, <1>5
<1> QED BY <1>1, <1>2, <1>6

LEMMA ResumePendingGood ==
    ASSUME NEW P \in Proofs, NEW w, Good(w, P), NEW order \in Orders, NEW confirm \in BOOLEAN
    PROVE  Good(ResumePending(w, order, confirm), P)
<1> DEFINE D == w.db
           a == Each("removal", D, w, order)
           b == Then(a, ResumeUnknownRemoval)
           c == Each("network", D, b, order)
           e == Each("link", D, c, order)
           h == Each("confirm", D, e, order)
           f == IF confirm THEN h ELSE e
           z == Then(f, ResumeAppKey)
<1>1. ResumePending(w, order, confirm) = z
  BY DEF ResumePending
<1> SUFFICES Good(z, P)
  BY <1>1
<1>2. Same(D, w.db)
  BY DEF Same
<1> HIDE DEF D
<1>3. Good(a, P) /\ Same(D, a.db)
  BY <1>2, EachGood
<1> HIDE DEF a
<1>4. Good(b, P) /\ Same(D, b.db)
  <2>1. CASE a.err = "none"
    <3>1. b = ResumeUnknownRemoval(a)
      BY <2>1 DEF Then
    <3> HIDE DEF b
    <3> QED BY <1>3, <2>1, <3>1, ResumeUnknownGood
  <2>2. CASE a.err # "none"
    BY <1>3, <2>2 DEF Then
  <2> QED BY <2>1, <2>2
<1> HIDE DEF b
<1>5. Good(c, P) /\ Same(D, c.db)
  BY <1>4, EachGood
<1> HIDE DEF c
<1>6. Good(e, P) /\ Same(D, e.db)
  BY <1>5, EachGood
<1> HIDE DEF e
<1>7. Good(h, P)
  BY <1>6, ConfirmGood
<1> HIDE DEF h
<1>8. Good(f, P)
  BY <1>6, <1>7
<1> HIDE DEF f
<1>9. CASE f.err = "none"
  <2>1. z = ResumeAppKey(f)
    BY <1>9 DEF Then
  <2> HIDE DEF z
  <2> QED BY <1>8, <1>9, <2>1, ResumeAppKeyGood
<1>10. CASE f.err # "none"
  BY <1>8, <1>10 DEF Then
<1> QED BY <1>9, <1>10

-----------------------------------------------------------------------------
(* The policy table and its checkpoints. *)

LEMMA MirroredFacts ==
    ASSUME NEW s \in Records, NEW t \in Policies
    PROVE  /\ Mirrored(s, t) \in Records
           /\ Mirrored(s, t).known = TRUE /\ Mirrored(s, t).parent = t.parent
           /\ Mirrored(s, t).key = t.key /\ Mirrored(s, t).verified = t.verified
           /\ Mirrored(s, t).pending_link_key = s.pending_link_key
           /\ Mirrored(s, t).confirm_key_pending = s.confirm_key_pending
           /\ Mirrored(s, t).removal_pending = s.removal_pending
           /\ Mirrored(s, t).network_key_pending = s.network_key_pending
  BY DEF Mirrored, Records, Policies

\* What restore_policy_device_from_state puts in the table agrees with the record.
LEMMA RestoredFacts ==
    ASSUME NEW s \in Records
    PROVE  /\ Restored(s) \in Policies /\ Agrees(s, Restored(s))
           /\ Restored(s).verified => s.verified /\ Restored(s).key = s.key
<1>1. CASE ~s.known
  <2>1. Restored(s) = Inactive
    BY <1>1 DEF Restored
  <2>2. s.known = FALSE
    BY <1>1 DEF Records
  <2>3. Inactive.active = FALSE /\ Inactive.verified = FALSE
    BY DEF Inactive
  <2> QED BY <2>1, <2>2, <2>3, Constants, Zenon DEF Agrees
<1>2. CASE s.known
  <2>1. Max({s.timeout, 1}) \in Nat
    <3>1. s.timeout \in Nat
      BY DEF Records
    <3>2. CASE s.timeout >= 1
      BY <3>1, <3>2 DEF Max
    <3>3. CASE ~(s.timeout >= 1)
      BY <3>1, <3>3 DEF Max
    <3> QED BY <3>2, <3>3
  <2> DEFINE o == IF s.pending_link_key = NoKey THEN s.timeout ELSE Max({s.timeout, 1})
  <2>2. o \in Nat
    BY <2>1 DEF Records
  <2>3. Restored(s) = [active |-> TRUE, parent |-> s.parent, key |-> s.key, verified |-> s.verified,
                       timeout |-> o, pending |-> s.pending_link_key]
    BY <1>2 DEF Restored
  <2> HIDE DEF o
  <2>4. s.known = TRUE
    BY <1>2 DEF Records
  <2>5. Restored(s) \in Policies
    BY <2>2, <2>3 DEF Policies, Records
  <2>6. /\ Restored(s).active = TRUE /\ Restored(s).parent = s.parent /\ Restored(s).key = s.key
        /\ Restored(s).verified = s.verified /\ Restored(s).pending = s.pending_link_key
    BY <2>3
  <2>7. Agrees(s, Restored(s))
    BY <2>4, <2>6, Zenon DEF Agrees
  <2> QED BY <2>5, <2>6, <2>7, Zenon
<1> QED BY <1>1, <1>2

\* Replacing the device records of a whole checkpoint.
LEMMA RecordsGood ==
    ASSUME NEW P \in Proofs, NEW w, Good(w, P), w.err = "none", NEW f \in [Devices -> Records],
           \A d \in Devices : /\ f[d].known = w.db.dev[d].known
                              /\ f[d].removal_pending = w.db.dev[d].removal_pending
                              /\ f[d].confirm_key_pending = w.db.dev[d].confirm_key_pending
                              /\ f[d].verified => f[d].key \in P[d]
                              /\ Agrees(f[d], w.table[d])
    PROVE  Good(Store(w, [w.db EXCEPT !.dev = f]), P)
<1> DEFINE D == [w.db EXCEPT !.dev = f]
<1> SUFFICES Good(Store(w, D), P)
  OBVIOUS
<1>1. w.db \in Databases /\ DbOK(w.db) /\ Owned(w.db, w.delivery) /\ Sane(w, P)
  BY DEF Good, Sane, Works
<1>2. D \in Databases /\ D.dev = f /\ D.removals = w.db.removals /\ D.app = w.db.app
  BY <1>1 DEF Databases
<1> HIDE DEF D
<1>3. \A i \in DOMAIN D.removals : D.removals[i].device \in Devices
  <2>1. D.removals \in Seq(Intents)
    BY <1>2 DEF Databases
  <2>2. \A i \in DOMAIN D.removals : D.removals[i] \in Intents
    BY <2>1
  <2> QED BY <2>2 DEF Intents
<1>4. DbOK(D)
  BY <1>1, <1>2, <1>3 DEF DbOK, Valid
<1>5. \A e : Rejected(D, e) <=> Rejected(w.db, e)
  BY <1>2, Zenon DEF Rejected
<1>6. Owned(D, w.delivery)
  BY <1>1, <1>2, <1>5 DEF Owned
<1>7. (\A d \in Devices : Proven(D.dev, P, d)) /\ Agreed(D, w.table, {})
  BY <1>2 DEF Proven, Agreed
<1> QED BY <1>1, <1>2, <1>4, <1>6, <1>7, StoreGood

LEMMA DiscardGood ==
    ASSUME NEW P \in Proofs, NEW w, Good(w, P), w.err = "none"
    PROVE  Good(DiscardAbandoned(w), P)
<1> DEFINE gone == {d \in Devices : LET s == w.db.dev[d] t == w.table[d] IN
                     /\ t.active /\ t.verified /\ t.pending = NoKey
                     /\ s.known /\ s.confirm_key_pending = "none"
                     /\ s.pending_link_key # NoKey /\ s.transported /\ s.pending_link_key # t.key}
           f == [d \in Devices |->
                  IF d \in gone THEN [Mirrored(w.db.dev[d], w.table[d]) EXCEPT !.pending_link_key = NoKey,
                                                                                 !.transported = FALSE]
                  ELSE w.db.dev[d]]
<1>1. DiscardAbandoned(w) = IF gone = {} THEN w ELSE Store(w, [w.db EXCEPT !.dev = f])
  BY DEF DiscardAbandoned
<1>2. ASSUME NEW d \in Devices
      PROVE  /\ f[d] \in Records /\ f[d].known = w.db.dev[d].known
             /\ f[d].removal_pending = w.db.dev[d].removal_pending
             /\ f[d].confirm_key_pending = w.db.dev[d].confirm_key_pending
             /\ f[d].verified => f[d].key \in P[d]
             /\ Agrees(f[d], w.table[d])
  <2> DEFINE s == w.db.dev[d]  t == w.table[d]  m == Mirrored(s, t)
  <2>1. s \in Records /\ t \in Policies
    BY DEF Good, Sane, Works, Databases, Tables
  <2>2. /\ s.verified => s.key \in P[d]
        /\ t.verified => t.key \in P[d]
        /\ Agrees(s, t)
    BY DEF Good, Sane, Proven, Agreed
  <2>3. /\ m \in Records /\ m.known = TRUE /\ m.parent = t.parent /\ m.key = t.key
        /\ m.verified = t.verified /\ m.confirm_key_pending = s.confirm_key_pending
        /\ m.removal_pending = s.removal_pending
    BY <2>1, MirroredFacts
  <2>4. CASE d \notin gone
    <3>1. f[d] = s
      BY <2>4
    <3> HIDE DEF s, t, f
    <3> QED BY <2>1, <2>2, <3>1 DEF s, t
  <2>5. CASE d \in gone
    <3>1. f[d] = [m EXCEPT !.pending_link_key = NoKey, !.transported = FALSE]
      BY <2>5
    <3>2. t.active /\ t.pending = NoKey /\ s.known
      BY <2>5
    <3> DEFINE r == f[d]
    <3>9. r = [m EXCEPT !.pending_link_key = NoKey, !.transported = FALSE] /\ NoKey \in Nat
      BY <3>1 DEF NoKey
    <3> HIDE DEF m, f, gone, r
    <3>3. /\ r \in Records /\ r.known = m.known /\ r.parent = m.parent /\ r.key = m.key
          /\ r.verified = m.verified /\ r.confirm_key_pending = m.confirm_key_pending
          /\ r.removal_pending = m.removal_pending /\ r.pending_link_key = NoKey
      BY <2>3, <3>9 DEF Records
    <3>4. s.known = TRUE /\ t.active = TRUE
      BY <2>1, <3>2 DEF Records, Policies
    <3> HIDE DEF s, t
    <3>5. Agrees(r, t)
      BY <2>3, <3>2, <3>3, <3>4 DEF Agrees
    <3>6. (r.verified => r.key \in P[d]) /\ r.known = s.known
      BY <2>2, <2>3, <3>3, <3>4
    <3> QED BY <2>3, <3>3, <3>5, <3>6 DEF r, s, t
  <2> QED BY <2>4, <2>5
<1>3. f \in [Devices -> Records]
  <2> HIDE DEF gone
  <2>1. \A d \in Devices : f[d] \in Records
    BY <1>2
  <2> QED BY <2>1
<1> HIDE DEF f, gone
<1>4. Good(Store(w, [w.db EXCEPT !.dev = f]), P)
  BY <1>2, <1>3, RecordsGood
<1> QED BY <1>1, <1>4

LEMMA CheckpointTableGood ==
    ASSUME NEW P \in Proofs, NEW w, Good(w, P), w.err = "none"
    PROVE  Good(CheckpointTable(w), P)
<1> DEFINE f == [d \in Devices |->
                  LET s == w.db.dev[d] t == w.table[d] IN
                  IF ~s.known \/ ~t.active THEN s
                  ELSE IF s.pending_link_key = NoKey THEN Mirrored(s, t)
                  ELSE [s EXCEPT !.parent = t.parent, !.timeout = t.timeout]]
<1>1. \/ CheckpointTable(w) = w
      \/ CheckpointTable(w) = Store(w, [w.db EXCEPT !.dev = f])
  BY DEF CheckpointTable
<1>2. ASSUME NEW d \in Devices
      PROVE  /\ f[d] \in Records /\ f[d].known = w.db.dev[d].known
             /\ f[d].removal_pending = w.db.dev[d].removal_pending
             /\ f[d].confirm_key_pending = w.db.dev[d].confirm_key_pending
             /\ f[d].verified => f[d].key \in P[d]
             /\ Agrees(f[d], w.table[d])
  <2> DEFINE s == w.db.dev[d]  t == w.table[d]  m == Mirrored(s, t)
             o == [s EXCEPT !.parent = t.parent, !.timeout = t.timeout]  r == f[d]
  <2>1. s \in Records /\ t \in Policies
    BY DEF Good, Sane, Works, Databases, Tables
  <2>2. /\ s.verified => s.key \in P[d]
        /\ t.verified => t.key \in P[d]
        /\ Agrees(s, t)
    BY DEF Good, Sane, Proven, Agreed
  <2>3. /\ m \in Records /\ m.known = TRUE /\ m.parent = t.parent /\ m.key = t.key
        /\ m.verified = t.verified /\ m.confirm_key_pending = s.confirm_key_pending
        /\ m.removal_pending = s.removal_pending /\ m.pending_link_key = s.pending_link_key
    BY <2>1, MirroredFacts
  <2>4. \/ r = s
        \/ s.known /\ t.active /\ r = m
        \/ s.known /\ t.active /\ r = o
    OBVIOUS
  <2>5. /\ o \in Records /\ o.known = s.known /\ o.parent = t.parent /\ o.key = s.key
        /\ o.verified = s.verified /\ o.confirm_key_pending = s.confirm_key_pending
        /\ o.removal_pending = s.removal_pending /\ o.pending_link_key = s.pending_link_key
    BY <2>1 DEF Records, Policies
  <2> HIDE DEF r, m, o
  <2>6. SUFFICES /\ r \in Records /\ r.known = s.known /\ r.removal_pending = s.removal_pending
                 /\ r.confirm_key_pending = s.confirm_key_pending
                 /\ r.verified => r.key \in P[d]
                 /\ Agrees(r, t)
    BY DEF r
  <2> HIDE DEF s, t
  <2>7. CASE r = s
    BY <2>1, <2>2, <2>7
  <2>8. CASE s.known /\ t.active /\ r = m
    <3>1. s.known = TRUE /\ t.active = TRUE
      BY <2>1, <2>8 DEF Records, Policies
    <3>2. Agrees(r, t)
      BY <2>2, <2>3, <2>8, <3>1 DEF Agrees
    <3> QED BY <2>2, <2>3, <2>8, <3>1, <3>2
  <2>9. CASE s.known /\ t.active /\ r = o
    <3>1. Agrees(r, t)
      BY <2>2, <2>5, <2>9 DEF Agrees
    <3> QED BY <2>2, <2>5, <2>9, <3>1
  <2> QED BY <2>4, <2>7, <2>8, <2>9
<1>3. f \in [Devices -> Records]
  <2>1. \A d \in Devices : f[d] \in Records
    BY <1>2
  <2> QED BY <2>1
<1> HIDE DEF f
<1>4. Good(Store(w, [w.db EXCEPT !.dev = f]), P)
  BY <1>2, <1>3, RecordsGood
<1> QED BY <1>1, <1>4
\* Replacing one entry of the policy table.
LEMMA EntryEffect ==
    ASSUME NEW w \in Works, NEW d \in Devices, NEW t \in Policies
    PROVE  LET x == [w EXCEPT !.table[d] = t] IN
           /\ x \in Works /\ x.db = w.db /\ x.delivery = w.delivery /\ x.err = w.err
           /\ x.keys = w.keys /\ x.attempts = w.attempts /\ x.tombstone = w.tombstone
           /\ x.table[d] = t /\ \A e \in Devices \ {d} : x.table[e] = w.table[e]
<1>1. w.table \in Tables
  BY DEF Works
<1>2. /\ [w.table EXCEPT ![d] = t] \in Tables /\ [w.table EXCEPT ![d] = t][d] = t
      /\ \A e \in Devices \ {d} : [w.table EXCEPT ![d] = t][e] = w.table[e]
  BY <1>1 DEF Tables
<1>3. [w EXCEPT !.table[d] = t] = [w EXCEPT !.table = [w.table EXCEPT ![d] = t]]
  BY DEF Works
<1> DEFINE T == [w.table EXCEPT ![d] = t]  x == [w EXCEPT !.table = T]
<1>4. T \in Tables /\ T[d] = t /\ \A e \in Devices \ {d} : T[e] = w.table[e]
  BY <1>2
<1> HIDE DEF T
<1>5. /\ x \in Works /\ x.db = w.db /\ x.delivery = w.delivery /\ x.err = w.err
      /\ x.keys = w.keys /\ x.attempts = w.attempts /\ x.tombstone = w.tombstone /\ x.table = T
  BY <1>4 DEF Works
<1>6. [w EXCEPT !.table[d] = t] = x
  BY <1>3 DEF T
<1> HIDE DEF x
<1> QED BY <1>4, <1>5, <1>6

LEMMA EntrySane ==
    ASSUME NEW P \in Proofs, NEW w, Sane(w, P), NEW d \in Devices, NEW t \in Policies,
           t.verified => t.key \in P[d]
    PROVE  Sane([w EXCEPT !.table[d] = t], P)
<1> DEFINE x == [w EXCEPT !.table[d] = t]
<1> SUFFICES Sane(x, P)
  OBVIOUS
<1>1. /\ x \in Works /\ x.db = w.db /\ x.delivery = w.delivery
      /\ x.table[d] = t /\ \A e \in Devices \ {d} : x.table[e] = w.table[e]
  BY EntryEffect DEF Sane
<1> HIDE DEF x
<1>2. \A e \in Devices : Proven(x.db.dev, P, e) /\ Proven(x.table, P, e)
  BY <1>1 DEF Sane, Proven
<1> QED BY <1>1, <1>2, Zenon DEF Sane

\* upsert of an entry that changed in the table: whether the store succeeds or
\* not, table and journal agree again.
LEMMA UpsertGood ==
    ASSUME NEW P \in Proofs, NEW w, Sane(w, P), w.err = "none", NEW d \in Devices, NEW nkp \in BOOLEAN,
           Agreed(w.db, w.table, {d}), w.table[d].active,
           w.db.dev[d].known \/ ~Rejected(w.db, d),
           ~w.db.dev[d].removal_pending =>
             \/ w.db.dev[d].known /\ w.table[d].key = w.db.dev[d].key
                  /\ w.table[d].pending \in {NoKey, w.db.dev[d].pending_link_key}
             \/ ~w.db.dev[d].known /\ w.table[d].pending = NoKey
    PROVE  /\ Good(Upsert(w, d, nkp), P)
           /\ Agreed(Upsert(w, d, nkp).db, Upsert(w, d, nkp).table, {})
<1> DEFINE s == w.db.dev[d]
           t == w.table[d]
           m == Mirrored(s, t)
           n == IF s.known /\ s.key # t.key
                THEN [m EXCEPT !.pending_link_key = NoKey, !.transported = FALSE, !.confirm_key_pending = "none"]
                ELSE m
           r == [n EXCEPT !.network_key_pending = @ \/ nkp]
           v == PutDevice(w, d, r)
           x == [v EXCEPT !.table[d] = Restored(v.db.dev[d])]
           y == [v EXCEPT !.attempts = v.attempts \ {d}]
<1>1. Upsert(w, d, nkp) = IF v.err # "none" THEN x ELSE IF nkp THEN y ELSE v
  BY DEF Upsert
<1>2. s \in Records /\ t \in Policies
  BY DEF Sane, Works, Databases, Tables
<1>3. /\ m \in Records /\ m.known = TRUE /\ m.parent = t.parent /\ m.key = t.key
      /\ m.verified = t.verified /\ m.confirm_key_pending = s.confirm_key_pending
      /\ m.removal_pending = s.removal_pending /\ m.pending_link_key = s.pending_link_key
  BY <1>2, MirroredFacts
<1> HIDE DEF m
<1>4. /\ n \in Records /\ n.known = TRUE /\ n.parent = t.parent /\ n.key = t.key
      /\ n.verified = t.verified /\ n.removal_pending = s.removal_pending
      /\ ~s.removal_pending => n.pending_link_key = s.pending_link_key /\ n.confirm_key_pending = s.confirm_key_pending
  <2>1. CASE n = m
    BY <1>3, <2>1
  <2>2. CASE s.known /\ s.key # t.key
    <3>1. s.removal_pending
      BY <2>2
    <3>2. NoKey \in Nat
      BY DEF NoKey
    <3>3. n = [m EXCEPT !.pending_link_key = NoKey, !.transported = FALSE, !.confirm_key_pending = "none"]
      BY <2>2
    <3> HIDE DEF n, s, t
    <3> QED BY <1>3, <3>1, <3>2, <3>3 DEF Records
  <2> QED BY <2>1, <2>2
<1> HIDE DEF n
<1>5. /\ r \in Records /\ r.known = TRUE /\ r.parent = t.parent /\ r.key = t.key
      /\ r.verified = t.verified /\ r.removal_pending = s.removal_pending
      /\ ~s.removal_pending => r.pending_link_key = s.pending_link_key /\ r.confirm_key_pending = s.confirm_key_pending
  <2> HIDE DEF s, t
  <2>1. r = [n EXCEPT !.network_key_pending = n.network_key_pending \/ nkp]
    BY <1>4 DEF Records
  <2>2. (n.network_key_pending \/ nkp) \in BOOLEAN
    OBVIOUS
  <2> DEFINE b == n.network_key_pending \/ nkp
  <2>3. r = [n EXCEPT !.network_key_pending = b] /\ b \in BOOLEAN
    BY <2>1, <2>2
  <2> HIDE DEF b, r
  <2> QED BY <1>4, <2>3 DEF Records
<1> HIDE DEF r
<1>6. Agrees(r, t)
  <2>1. t.active = TRUE
    BY <1>2 DEF Policies
  <2>2. ~s.removal_pending => t.pending \in {NoKey, r.pending_link_key}
    BY <1>5
  <2> HIDE DEF s, t
  <2> QED BY <1>5, <2>1, <2>2, Zenon DEF Agrees
<1>7. Owned(w.db, w.delivery)
  BY DEF Sane
<1>8. /\ w.delivery.kind = "Remove" /\ w.delivery.address = d => r.removal_pending \/ Rejected(w.db, d)
      /\ w.delivery.kind = "Confirm" /\ w.delivery.address = d =>
           r.confirm_key_pending # "none" /\ ~r.removal_pending
  BY <1>5, <1>7 DEF Owned
<1>9. r.verified => r.key \in P[d]
  BY <1>5 DEF Sane, Proven
<1>10. r.known = s.known \/ (r.known /\ ~Rejected(w.db, d))
  BY <1>2, <1>5 DEF Records
<1>11. Good(v, P)
  <2> HIDE DEF t
  <2>1. Agrees(r, w.table[d]) /\ (r.removal_pending => r.known)
    BY <1>5, <1>6 DEF t
  <2> HIDE DEF s, v
  <2> QED BY <1>5, <1>8, <1>9, <1>10, <2>1, PutGood DEF v, s
<1>12. /\ v \in Works /\ v.table = w.table
       /\ v.err # "none" => v.db = w.db
  <2>1. [w.db EXCEPT !.dev[d] = r] \in Databases
    BY <1>5 DEF Sane, Works, Databases
  <2>2. w \in Works /\ w.db \in Databases
    BY DEF Sane, Works
  <2> QED BY <2>1, <2>2, StoreEffect DEF PutDevice
<1> HIDE DEF v
<1>13. CASE v.err = "none"
  <2>1. Good(y, P) /\ y.db = v.db /\ y.table = v.table
    <3>1. v.attempts \ {d} \in SUBSET Devices
      BY <1>12 DEF Works
    <3>2. y.table = v.table
      BY <1>12 DEF Works
    <3> QED BY <1>11, <3>1, <3>2, AttemptsGood
  <2> HIDE DEF y
  <2>2. Agreed(v.db, v.table, {})
    BY <1>11, <1>13 DEF Good
  <2> QED BY <1>1, <1>11, <1>13, <2>1, <2>2
<1>14. CASE v.err # "none"
  <2>1. v.db = w.db /\ v.db.dev[d] = s
    BY <1>12, <1>14
  <2> DEFINE u == Restored(s)
  <2>2. u \in Policies /\ Agrees(s, u) /\ (u.verified => s.verified /\ u.key = s.key)
    BY <1>2, RestoredFacts
  <2>3. u.verified => u.key \in P[d]
    BY <2>2 DEF Sane, Proven
  <2>4. x = [v EXCEPT !.table[d] = u]
    BY <2>1
  <2> HIDE DEF u, x
  <2>5. Sane(x, P)
    BY <1>11, <2>2, <2>3, <2>4, EntrySane DEF Good
  <2>6. /\ x.db = v.db /\ x.err = v.err /\ x.table[d] = u
        /\ \A e \in Devices \ {d} : x.table[e] = v.table[e]
    BY <1>12, <2>2, <2>4, EntryEffect
  <2>7. Agreed(x.db, x.table, {})
    <3>1. \A e \in Devices \ {d} : Agrees(w.db.dev[e], w.table[e])
      BY DEF Agreed
    <3> QED BY <1>12, <2>1, <2>2, <2>6, <3>1 DEF Agreed
  <2> QED BY <1>1, <1>11, <1>14, <2>5, <2>6, <2>7 DEF Good
<1> QED BY <1>13, <1>14

LEMMA RemoveDeviceGood ==
    ASSUME NEW P \in Proofs, NEW w, Sane(w, P), w.err = "none", NEW d \in Devices, NEW parent \in Places,
           Agreed(w.db, w.table, {d}), ~w.db.dev[d].known => Good(w, P)
    PROVE  Good(RemoveDevice(w, d, parent), P)
<1>1. CASE w.db.dev[d].known
  <2> DEFINE v == StageRemoval(w, d, parent)
  <2>1. RemoveDevice(w, d, parent) = IF v.err = "none" THEN ResumeRemoval(v, d) ELSE v
    BY <1>1 DEF RemoveDevice, Then
  <2>2. Good(v, P)
    BY <1>1, StageRemovalGood
  <2> HIDE DEF v
  <2> QED BY <2>1, <2>2, ResumeRemovalGood
<1>2. CASE ~w.db.dev[d].known
  <2> DEFINE v == StageUnknownRemoval(w, parent, d)
  <2>1. RemoveDevice(w, d, parent) = IF v.err = "none" THEN ResumeUnknownRemoval(v) ELSE v
    BY <1>2 DEF RemoveDevice, Then
  <2>2. Good(v, P)
    BY <1>2, StageUnknownGood
  <2> HIDE DEF v
  <2> QED BY <2>1, <2>2, ResumeUnknownGood
<1> QED BY <1>1, <1>2

LEMMA GoodAgreed ==
    ASSUME NEW P \in Proofs, NEW w, Good(w, P), w.err = "none", NEW d
    PROVE  Sane(w, P) /\ Agreed(w.db, w.table, {d}) /\ Agreed(w.db, w.table, {})
  BY DEF Good, Agreed

LEMMA RevokeDeviceGood ==
    ASSUME NEW P \in Proofs, NEW w, Good(w, P), w.err = "none", NEW d \in Devices
    PROVE  Good(RevokeDevice(w, d), P)
<1> DEFINE p == w.db.dev[d].parent
           v == IF w.db.dev[d].known THEN StageRemoval(w, d, p) ELSE w
<1>1. RevokeDevice(w, d) = IF v.err = "none" THEN [v EXCEPT !.tombstone = d] ELSE v
  BY DEF RevokeDevice, Then
<1>2. p \in Places
  BY DEF Good, Sane, Works, Databases, Records
<1> HIDE DEF p
<1>3. Good(v, P)
  BY <1>2, GoodAgreed, StageRemovalGood
<1> HIDE DEF v
<1> QED BY <1>1, <1>3, TombstoneGood
\* The table while its devices are served: it still agrees with the database but
\* for the device whose exchange expired, which the database knows.
Rows == [table : Tables, expired : Devices \cup {"none"}]
Ticked(D, P, r) ==
    /\ r \in Rows
    /\ \A d \in Devices : Proven(r.table, P, d)
    /\ Agreed(D, r.table, {r.expired})
    /\ r.expired # "none" => D.dev[r.expired].known

LEMMA RowEffect ==
    ASSUME NEW r \in Rows, NEW d \in Devices, NEW t \in Policies
    PROVE  LET q == [r EXCEPT !.table[d] = t] IN
           /\ q \in Rows /\ q.expired = r.expired /\ q.table[d] = t
           /\ \A e \in Devices \ {d} : q.table[e] = r.table[e]
<1> DEFINE T == [r.table EXCEPT ![d] = t]  q == [r EXCEPT !.table = T]
<1>1. T \in Tables /\ T[d] = t /\ \A e \in Devices \ {d} : T[e] = r.table[e]
  BY DEF Rows, Tables
<1>2. [r EXCEPT !.table[d] = t] = q
  BY DEF Rows
<1> HIDE DEF T
<1>3. q \in Rows /\ q.expired = r.expired /\ q.table = T
  BY <1>1 DEF Rows
<1> HIDE DEF q
<1> QED BY <1>1, <1>2, <1>3

LEMMA TickEntryKeeps ==
    ASSUME NEW P \in Proofs, NEW D \in Databases, DbOK(D), NEW r, Ticked(D, P, r), NEW d \in Devices
    PROVE  Ticked(D, P, TickEntry(r, d))
<1> DEFINE t == r.table[d]
           s == D.dev[d]
           running == t.active /\ ((t.timeout # 0 /\ ~t.verified) \/ t.pending # NoKey)
           a == [t EXCEPT !.timeout = t.timeout - 1]
           b == [t EXCEPT !.timeout = 0, !.pending = NoKey]
           c == [t EXCEPT !.active = FALSE, !.pending = NoKey, !.timeout = 0]
           ra == [r EXCEPT !.table[d] = a]
           rb == [r EXCEPT !.table[d] = b]
           rc == [r EXCEPT !.table[d] = c]
           re == [rc EXCEPT !.expired = d]
<1>1. r \in Rows /\ r.table \in Tables /\ t \in Policies /\ s \in Records
  BY DEF Ticked, Rows, Tables, Databases
<1>2. \/ TickEntry(r, d) = r
      \/ r.expired = "none" /\ running /\ t.timeout > 1 /\ TickEntry(r, d) = ra
      \/ r.expired = "none" /\ running /\ TickEntry(r, d) = rb
      \/ r.expired = "none" /\ running /\ TickEntry(r, d) = re
  <2>1. [r EXCEPT !.table[d].timeout = @ - 1] = ra
    BY <1>1 DEF Rows, Tables, Policies
  <2>2. [r EXCEPT !.table[d].timeout = 0, !.table[d].pending = NoKey] = rb
    BY <1>1 DEF Rows, Tables, Policies
  <2>3. [r EXCEPT !.table[d] = [@ EXCEPT !.active = FALSE, !.pending = NoKey, !.timeout = 0],
                  !.expired = d] = re
    BY <1>1 DEF Rows, Tables, Policies
  <2> DEFINE qa == [r EXCEPT !.table[d].timeout = @ - 1]
             qb == [r EXCEPT !.table[d].timeout = 0, !.table[d].pending = NoKey]
             qe == [r EXCEPT !.table[d] = [@ EXCEPT !.active = FALSE, !.pending = NoKey, !.timeout = 0],
                             !.expired = d]
  <2>4. TickEntry(r, d) = IF r.expired # "none" \/ ~running THEN r
                          ELSE IF t.timeout > 1 THEN qa ELSE IF t.verified THEN qb ELSE qe
    BY DEF TickEntry
  <2>5. qa = ra /\ qb = rb /\ qe = re
    BY <2>1, <2>2, <2>3
  <2> HIDE DEF qa, qb, qe, ra, rb, re, running, t
  <2> QED BY <2>4, <2>5
<1>3. NoKey \in Nat
  BY DEF NoKey
<1>4. /\ a.verified = t.verified /\ a.key = t.key /\ a.active = t.active /\ a.parent = t.parent
      /\ b.verified = t.verified /\ b.key = t.key /\ b.active = t.active /\ b.parent = t.parent
      /\ c.verified = t.verified /\ c.key = t.key
      /\ a.pending = t.pending /\ b.pending = NoKey
      /\ b \in Policies /\ c \in Policies /\ (t.timeout > 1 => a \in Policies)
  <2>1. t.timeout \in Nat /\ (t.timeout > 1 => t.timeout - 1 \in Nat)
    BY <1>1 DEF Policies
  <2> DEFINE n == t.timeout - 1
  <2> HIDE DEF t, n
  <2>2. /\ a.verified = t.verified /\ a.key = t.key /\ a.active = t.active /\ a.parent = t.parent
        /\ a.pending = t.pending /\ (n \in Nat => a \in Policies)
    <3>1. a = [t EXCEPT !.timeout = n]
      BY DEF n
    <3> HIDE DEF a
    <3> QED BY <1>1, <3>1 DEF Policies
  <2>3. /\ b.verified = t.verified /\ b.key = t.key /\ b.active = t.active /\ b.parent = t.parent
        /\ b.pending = NoKey /\ b \in Policies
    BY <1>1, <1>3 DEF Policies
  <2>4. c.verified = t.verified /\ c.key = t.key /\ c \in Policies
    BY <1>1, <1>3 DEF Policies
  <2> HIDE DEF a, b, c
  <2> QED BY <2>1, <2>2, <2>3, <2>4 DEF n
<1>5. t.verified => t.key \in P[d]
  BY DEF Ticked, Proven
<1>6. r.expired = "none" => Agrees(s, t)
  <2>1. "none" \notin Devices
    BY Constants
  <2> QED BY <2>1 DEF Ticked, Agreed
<1> HIDE DEF a, b, c
<1>7. CASE r.expired = "none" /\ running /\ t.timeout > 1 /\ TickEntry(r, d) = ra
  <2>1. /\ ra \in Rows /\ ra.expired = r.expired /\ ra.table[d] = a
        /\ \A e \in Devices \ {d} : ra.table[e] = r.table[e]
    BY <1>1, <1>4, <1>7, RowEffect
  <2>2. Agrees(s, a)
    <3> HIDE DEF s, t
    <3> QED BY <1>4, <1>6, <1>7, Zenon DEF Agrees
  <2> HIDE DEF ra
  <2>3. Agreed(D, ra.table, {ra.expired})
    BY <2>1, <2>2 DEF Ticked, Agreed
  <2>4. \A e \in Devices : Proven(ra.table, P, e)
    BY <1>4, <1>5, <2>1 DEF Ticked, Proven
  <2> QED BY <1>7, <2>1, <2>3, <2>4 DEF Ticked
<1>8. CASE r.expired = "none" /\ running /\ TickEntry(r, d) = rb
  <2>1. /\ rb \in Rows /\ rb.expired = r.expired /\ rb.table[d] = b
        /\ \A e \in Devices \ {d} : rb.table[e] = r.table[e]
    BY <1>1, <1>4, RowEffect
  <2>2. Agrees(s, b)
    <3> HIDE DEF s, t
    <3> QED BY <1>4, <1>6, <1>8 DEF Agrees
  <2> HIDE DEF rb
  <2>3. Agreed(D, rb.table, {rb.expired})
    BY <2>1, <2>2 DEF Ticked, Agreed
  <2>4. \A e \in Devices : Proven(rb.table, P, e)
    BY <1>4, <1>5, <2>1 DEF Ticked, Proven
  <2> QED BY <1>8, <2>1, <2>3, <2>4 DEF Ticked
<1>9. CASE r.expired = "none" /\ running /\ TickEntry(r, d) = re
  <2>1. /\ rc \in Rows /\ rc.table[d] = c
        /\ \A e \in Devices \ {d} : rc.table[e] = r.table[e]
    BY <1>1, <1>4, RowEffect
  <2> HIDE DEF rc
  <2>2. re \in Rows /\ re.expired = d /\ re.table = rc.table
    BY <2>1 DEF Rows
  <2>3. s.known
    <3>1. s.removal_pending => s.known
      BY DEF DbOK
    <3> HIDE DEF s, t
    <3> QED BY <1>6, <1>9, <3>1 DEF Agrees
  <2> HIDE DEF re
  <2>4. Agreed(D, re.table, {re.expired})
    <3>1. "none" \notin Devices
      BY Constants
    <3> QED BY <1>9, <2>1, <2>2, <3>1 DEF Ticked, Agreed
  <2>5. \A e \in Devices : Proven(re.table, P, e)
    BY <1>4, <1>5, <2>1, <2>2 DEF Ticked, Proven
  <2> QED BY <1>9, <2>2, <2>3, <2>4, <2>5 DEF Ticked
<1> QED BY <1>2, <1>7, <1>8, <1>9

LEMMA TickTableKeeps ==
    ASSUME NEW P \in Proofs, NEW w, Good(w, P), w.err = "none", NEW order \in Orders
    PROVE  Ticked(w.db, P, TickTable(w, order))
<1>1. Len(order) \in Nat /\ \A n \in 1..Len(order) : order[n] \in Devices
  BY OrderFacts
<1>2. PICK g : /\ g[0] = [table |-> w.table, expired |-> "none"]
               /\ \A n \in 1..Len(order) : g[n] = TickEntry(g[n - 1], order[n])
               /\ TickTable(w, order) = g[Len(order)]
  BY <1>1, TickRuns
<1>3. w.db \in Databases /\ DbOK(w.db)
  BY DEF Good, Sane, Works
<1> DEFINE S == {n \in Nat : n <= Len(order) => Ticked(w.db, P, g[n])}
<1>4. 0 \in S
  <2> DEFINE r == [table |-> w.table, expired |-> "none"]
  <2>1. r \in Rows /\ r.table = w.table /\ r.expired = "none"
    BY DEF Good, Sane, Works, Rows
  <2> HIDE DEF r
  <2>2. Ticked(w.db, P, r)
    BY <2>1 DEF Good, Sane, Ticked, Agreed
  <2> QED BY <1>2, <2>2 DEF r
<1>5. ASSUME NEW n \in S PROVE n + 1 \in S
  <2> SUFFICES ASSUME n + 1 <= Len(order)
               PROVE  Ticked(w.db, P, g[n + 1])
    OBVIOUS
  <2>1. n \in Nat /\ n + 1 \in 1..Len(order) /\ (n + 1) - 1 = n /\ n <= Len(order)
    BY <1>1
  <2>2. Ticked(w.db, P, g[n]) /\ order[n + 1] \in Devices /\ g[n + 1] = TickEntry(g[n], order[n + 1])
    BY <1>1, <1>2, <2>1
  <2> QED BY <1>3, <2>2, TickEntryKeeps
<1>6. S = Nat
  <2>1. S \in SUBSET Nat
    OBVIOUS
  <2> HIDE DEF S
  <2> QED BY <1>4, <1>5, <2>1, Induct
<1> QED BY <1>1, <1>2, <1>6

LEMMA TickGood ==
    ASSUME NEW P \in Proofs, NEW w, Good(w, P), w.err = "none", NEW order \in Orders
    PROVE  Good(Tick(w, order), P)
<1> DEFINE r == TickTable(w, order)
           v == [w EXCEPT !.table = r.table, !.attempts = {}]
           p == r.table[r.expired].parent
           x == IF r.expired = "none" THEN v ELSE RemoveDevice(v, r.expired, p)
           y == Then(x, DiscardAbandoned)
           z == Then(y, CheckpointTable)
<1>1. Tick(w, order) = z
  BY DEF Tick
<1> SUFFICES Good(z, P)
  BY <1>1
<1>2. Ticked(w.db, P, r)
  BY TickTableKeeps
<1> HIDE DEF r
<1>3. /\ v \in Works /\ v.db = w.db /\ v.delivery = w.delivery /\ v.err = w.err /\ v.table = r.table
  BY <1>2 DEF Good, Sane, Works, Ticked, Rows
<1>4. r.expired \in Devices \cup {"none"} /\ (r.expired # "none" => p \in Places)
  BY <1>2 DEF Ticked, Rows, Tables, Policies
<1> HIDE DEF v, p
<1>5. Sane(v, P)
  BY <1>2, <1>3 DEF Good, Sane, Ticked
<1>6. Good(x, P)
  <2>1. CASE r.expired = "none"
    <3>1. Agreed(v.db, v.table, {})
      BY <1>2, <1>3, <2>1, Constants DEF Ticked, Agreed
    <3> QED BY <1>3, <1>5, <2>1, <3>1 DEF Good
  <2>2. CASE r.expired # "none"
    <3>1. Agreed(v.db, v.table, {r.expired}) /\ v.db.dev[r.expired].known
      BY <1>2, <1>3, <2>2 DEF Ticked
    <3> QED BY <1>3, <1>4, <1>5, <2>2, <3>1, RemoveDeviceGood
  <2> QED BY <2>1, <2>2
<1> HIDE DEF x
<1>7. Good(y, P)
  BY <1>6, DiscardGood DEF Then
<1> HIDE DEF y
<1> QED BY <1>7, CheckpointTableGood DEF Then
-----------------------------------------------------------------------------
(* The received commands. *)

LEMMA LocatedFacts ==
    ASSUME NEW t \in Policies, NEW parent \in Places, NEW timeout \in Nat
    PROVE  LET u == Located(t, parent, timeout) IN
           /\ u \in Policies /\ u.active
           /\ t.active => u.key = t.key /\ u.verified = t.verified /\ u.pending = t.pending
           /\ ~t.active => u.verified = FALSE /\ u.pending = NoKey
<1> DEFINE b == IF t.active THEN t ELSE Provisioned(DefaultKey)
           u == [b EXCEPT !.parent = parent, !.timeout = timeout]
<1>1. Located(t, parent, timeout) = u
  BY DEF Located
<1>2. /\ b \in Policies /\ b.active
      /\ t.active => b.key = t.key /\ b.verified = t.verified /\ b.pending = t.pending
      /\ ~t.active => b.verified = FALSE /\ b.pending = NoKey
  <2>1. CASE t.active
    BY <2>1
  <2>2. CASE ~t.active
    <3>1. b = [Inactive EXCEPT !.active = TRUE, !.key = DefaultKey]
      BY <2>2 DEF Provisioned
    <3> HIDE DEF b
    <3> QED BY <2>2, <3>1 DEF Inactive, DefaultKey, NoKey, Policies, Places
  <2> QED BY <2>1, <2>2
<1> HIDE DEF b
<1>3. /\ u \in Policies /\ u.active = b.active /\ u.key = b.key
      /\ u.verified = b.verified /\ u.pending = b.pending
  BY <1>2 DEF Policies
<1> HIDE DEF u
<1> QED BY <1>1, <1>2, <1>3

\* A located device and the journal's record of it: a device that is not queued
\* for rejection may be upserted.
LEMMA RelocateGood ==
    ASSUME NEW P \in Proofs, NEW w, Good(w, P), w.err = "none", NEW d \in Devices, NEW parent \in Places,
           NEW timeout \in Nat, NEW nkp \in BOOLEAN, ~Rejected(w.db, d)
    PROVE  Good(Upsert([w EXCEPT !.table[d] = Located(w.table[d], parent, timeout)], d, nkp), P)
<1> DEFINE t == w.table[d]  s == w.db.dev[d]
           u == Located(t, parent, timeout)
           v == [w EXCEPT !.table[d] = u]
<1> SUFFICES Good(Upsert(v, d, nkp), P)
  OBVIOUS
<1>1. t \in Policies /\ s \in Records /\ w \in Works
  BY DEF Good, Sane, Works, Tables, Databases
<1>2. /\ u \in Policies /\ u.active
      /\ t.active => u.key = t.key /\ u.verified = t.verified /\ u.pending = t.pending
      /\ ~t.active => u.verified = FALSE /\ u.pending = NoKey
  BY <1>1, LocatedFacts
<1> HIDE DEF u
<1>3. (t.verified => t.key \in P[d]) /\ Agrees(s, t)
  BY DEF Good, Sane, Proven, Agreed
<1>4. Sane(v, P)
  BY <1>2, <1>3, EntrySane DEF Good
<1>5. /\ v.db = w.db /\ v.err = w.err /\ v.table[d] = u
      /\ \A e \in Devices \ {d} : v.table[e] = w.table[e]
  <2>1. w \in Works /\ u \in Policies
    BY <1>1, <1>2
  <2> QED BY <2>1, EntryEffect, Zenon
<1> HIDE DEF v
<1>6. Agreed(v.db, v.table, {d})
  BY <1>5 DEF Good, Agreed
<1>7. ~s.removal_pending => \/ s.known /\ u.key = s.key /\ u.pending \in {NoKey, s.pending_link_key}
                            \/ ~s.known /\ u.pending = NoKey
  <2> HIDE DEF s, t
  <2> QED BY <1>2, <1>3 DEF Agrees
<1> QED BY <1>2, <1>4, <1>5, <1>6, <1>7, UpsertGood

LEMMA AdmitGood ==
    ASSUME NEW P \in Proofs, NEW w, Good(w, P), w.err = "none", NEW d \in Devices, NEW p \in Places,
           ~Rejected(w.db, d)
    PROVE  Good(Admit(w, d, p), P)
<1> DEFINE t == w.table[d]
           o == IF ~(t.active /\ t.verified) \/ t.pending # NoKey THEN JoinTimeout ELSE 0
           x == Upsert([w EXCEPT !.table[d] = Located(w.table[d], p, o)], d, TRUE)
<1>1. Admit(w, d, p) = IF x.err = "none" THEN ResumeNetworkKey(x, d) ELSE x
  BY DEF Admit, Then
<1>2. o \in Nat
  BY Constants
<1> HIDE DEF o
<1>3. Good(x, P)
  BY <1>2, RelocateGood
<1> HIDE DEF x
<1> QED BY <1>1, <1>3, ResumeNetworkKeyGood

LEMMA SecuredRejoinGood ==
    ASSUME NEW P \in Proofs, NEW w, Good(w, P), w.err = "none", NEW d \in Devices, NEW p \in Places,
           ~Rejected(w.db, d)
    PROVE  Good(SecuredRejoin(w, d, p), P)
<1> DEFINE t == w.table[d]
           o == IF t.active /\ t.timeout # 0 THEN t.timeout
                ELSE IF ~Admitted(t) /\ ~(t.active /\ t.verified) THEN JoinTimeout ELSE 0
           x == Upsert([w EXCEPT !.table[d] = Located(w.table[d], p, o)], d, FALSE)
<1>1. SecuredRejoin(w, d, p) \in {x, RemoveDevice(w, d, p)}
  BY DEF SecuredRejoin
<1>2. o \in Nat
  BY Constants DEF Good, Sane, Works, Tables, Policies
<1> HIDE DEF o
<1>3. Good(x, P)
  BY <1>2, RelocateGood
<1>4. Good(RemoveDevice(w, d, p), P)
  BY GoodAgreed, RemoveDeviceGood
<1> HIDE DEF x
<1> QED BY <1>1, <1>3, <1>4

\* A queued rejection is staged again; its device is unknown to the database.
LEMMA RejectGood ==
    ASSUME NEW P \in Proofs, NEW w, Good(w, P), w.err = "none", NEW d \in Devices, NEW p \in Places,
           Rejected(w.db, d)
    PROVE  Good(Then(StageUnknownRemoval(w, p, d), ResumeUnknownRemoval), P)
<1>1. ~w.db.dev[d].known
  BY DEF Good, Sane, DbOK, Valid, Rejected
<1> DEFINE v == StageUnknownRemoval(w, p, d)
<1>2. Good(v, P)
  BY <1>1, StageUnknownGood
<1> HIDE DEF v
<1> QED BY <1>2, ResumeUnknownGood DEF Then, v

LEMMA UpdateDeviceGood ==
    ASSUME NEW P \in Proofs, NEW w, Good(w, P), w.err = "none", NEW d \in Devices, NEW p \in Parents,
           NEW status \in {"Join", "Rejoin", "TcRejoin", "Left"}
    PROVE  Good(UpdateDevice(w, status, d, p), P)
<1>1. p \in Places
  BY DEF Places
<1> DEFINE t == w.table[d]
           c == CASE status = "Left" -> RevokeDevice(w, d)
                  [] status = "Join" -> Admit(w, d, p)
                  [] status = "TcRejoin" -> IF Admitted(t) \/ AllowRejoins THEN Admit(w, d, p) ELSE w
                  [] status = "Rejoin" -> SecuredRejoin(w, d, p)
           e == Then(StageUnknownRemoval(w, p, d), ResumeUnknownRemoval)
           z == Then(c, CheckpointTable)
<1>2. \/ UpdateDevice(w, status, d, p) = w
      \/ Rejected(w.db, d) /\ UpdateDevice(w, status, d, p) = e
      \/ (status = "Left" \/ ~Rejected(w.db, d)) /\ UpdateDevice(w, status, d, p) = z
  BY DEF UpdateDevice
<1>3. c \in {RevokeDevice(w, d), w} \/ (status # "Left" /\ c \in {Admit(w, d, p), SecuredRejoin(w, d, p)})
  BY Zenon
<1> HIDE DEF c
<1>4. ASSUME status = "Left" \/ ~Rejected(w.db, d) PROVE Good(c, P)
  <2>1. Good(RevokeDevice(w, d), P)
    BY RevokeDeviceGood
  <2>2. ~Rejected(w.db, d) => Good(Admit(w, d, p), P) /\ Good(SecuredRejoin(w, d, p), P)
    BY <1>1, AdmitGood, SecuredRejoinGood
  <2> QED BY <1>3, <1>4, <2>1, <2>2
<1>5. status = "Left" \/ ~Rejected(w.db, d) => Good(z, P)
  BY <1>4, CheckpointTableGood DEF Then
<1>6. Rejected(w.db, d) => Good(e, P)
  BY <1>1, RejectGood
<1> HIDE DEF e, z
<1> QED BY <1>2, <1>5, <1>6

\* An entry of the table belongs to a device of the database.
LEMMA ActiveKnown ==
    ASSUME NEW P \in Proofs, NEW w, Good(w, P), w.err = "none", NEW d \in Devices, w.table[d].active
    PROVE  w.db.dev[d].known
  BY DEF Good, Sane, DbOK, Agreed, Agrees

LEMMA RequestTclkGood ==
    ASSUME NEW P \in Proofs, NEW w, Good(w, P), w.err = "none", NEW d \in Devices
    PROVE  Good(RequestTclk(w, d), P)
<1> DEFINE x == StageLinkKey(w, d)
           y == IF x.err = "none" THEN ResumeLinkKey(x, d) ELSE x
<1>1. RequestTclk(w, d) \in {w, y}
  BY DEF RequestTclk, Then
<1>2. Good(x, P)
  BY StageLinkKeyGood
<1> HIDE DEF x
<1>3. Good(y, P)
  BY <1>2, ResumeLinkKeyGood
<1> HIDE DEF y
<1> QED BY <1>1, <1>3

LEMMA RequestAppKeyGood ==
    ASSUME NEW P \in Proofs, NEW w, Good(w, P), w.err = "none", NEW i \in Devices, NEW r \in Devices, i # r
    PROVE  Good(RequestAppKey(w, i, r), P)
<1> DEFINE x == StageAppKey(w, i, r)
           y == IF x.err = "none" THEN ResumeAppKey(x) ELSE x
<1>1. \/ RequestAppKey(w, i, r) = w
      \/ w.table[i].active /\ w.table[r].active /\ RequestAppKey(w, i, r) = y
  BY DEF RequestAppKey, Then
<1>2. CASE RequestAppKey(w, i, r) = w
  BY <1>2
<1>3. CASE w.table[i].active /\ w.table[r].active /\ RequestAppKey(w, i, r) = y
  <2>1. w.db.dev[i].known /\ w.db.dev[r].known
    BY <1>3, ActiveKnown
  <2>2. Good(x, P)
    BY <2>1, StageAppKeyGood
  <2> HIDE DEF x
  <2>3. Good(y, P)
    BY <2>2, ResumeAppKeyGood
  <2> HIDE DEF y
  <2> QED BY <1>3, <2>3
<1> QED BY <1>1, <1>2, <1>3

LEMMA AnnounceGood ==
    ASSUME NEW P \in Proofs, NEW w, Good(w, P), w.err = "none", NEW d \in Devices
    PROVE  Good(DeviceAnnounce(w, d), P)
  BY CompleteNetworkKeyGood DEF DeviceAnnounce
\* handle_verify_key: P already holds the key the device proves with the command.
LEMMA VerifyKeyGood ==
    ASSUME NEW P \in Proofs, NEW w, Good(w, P), w.err = "none", NEW d \in Devices, NEW k \in Nat,
           k # NoKey => k \in P[d]
    PROVE  Good(VerifyKey(w, d, k), P)
<1> DEFINE t == w.table[d]
           s == w.db.dev[d]
           target == IF t.pending # NoKey THEN t.pending ELSE t.key
           ok == k = target
           u == [t EXCEPT !.key = target, !.verified = TRUE, !.timeout = 0, !.pending = NoKey]
           c == ok /\ t.pending # NoKey
           v == IF c THEN [w EXCEPT !.table[d] = u] ELSE w
           status == IF ok THEN "success" ELSE "failure"
           refused == ok /\ IF s.pending_link_key # NoKey
                            THEN ~s.transported \/ target # s.pending_link_key
                            ELSE s.key # target \/ ~v.table[d].verified
           m == Mirrored(s, v.table[d])
           n == IF ok THEN [m EXCEPT !.pending_link_key = NoKey, !.transported = FALSE,
                                     !.network_key_pending = FALSE]
                ELSE s
           r == [n EXCEPT !.confirm_key_pending = status]
           x == PutDevice(v, d, r)
           y == IF s.confirm_key_pending \notin {"none", status} /\ Delivering(x, "Confirm", d)
                THEN Cancel(x) ELSE x
           z == [x EXCEPT !.table[d] = Restored(s)]
           a == [y EXCEPT !.attempts = y.attempts \ {d}]
<1>1. VerifyKey(w, d, k) =
        IF ~t.active \/ (t.pending = NoKey /\ ~t.verified) THEN w
        ELSE IF ~s.known \/ refused THEN Fail(v, "policy")
        ELSE IF x.err # "none" THEN z
        ELSE IF ok THEN a ELSE y
  <2>1. [w EXCEPT !.table[d] = [@ EXCEPT !.key = target, !.verified = TRUE, !.timeout = 0, !.pending = NoKey]]
        = [w EXCEPT !.table[d] = u]
    BY DEF Good, Sane, Works, Tables
  <2> QED BY <2>1, Zenon DEF VerifyKey
<1>2. /\ w \in Works /\ t \in Policies /\ s \in Records /\ Sane(w, P) /\ Agrees(s, t)
      /\ (t.verified => t.key \in P[d]) /\ Owned(w.db, w.delivery) /\ w.db \in Databases
  BY DEF Good, Sane, Works, Tables, Databases, Proven, Agreed
<1>3. target \in Nat /\ NoKey \in Nat
  BY <1>2 DEF Policies, NoKey
<1>4. /\ u \in Policies /\ u.key = target /\ u.pending = NoKey /\ u.active = t.active
  <2> HIDE DEF t, target
  <2> QED BY <1>2, <1>3 DEF Policies
<1>5. c => u.key \in P[d]
  BY <1>4
<1> HIDE DEF u
<1>6. /\ Sane(v, P) /\ v.db = w.db /\ v.err = "none" /\ v.delivery = w.delivery
      /\ Agreed(v.db, v.table, {d})
      /\ v.table[d] \in Policies /\ v.table[d].active = t.active
      /\ ok => v.table[d].pending = NoKey
      /\ ~ok => v = w
  <2>1. CASE c
    <3> DEFINE q == [w EXCEPT !.table[d] = u]
    <3>1. v = q /\ ok
      BY <2>1
    <3>2. u.verified => u.key \in P[d]
      BY <1>5, <2>1
    <3>3. Sane(q, P)
      <4> HIDE DEF c, t, s, ok, q
      <4> QED BY <1>2, <1>4, <3>2, EntrySane DEF q
    <3>4. /\ q.db = w.db /\ q.err = w.err /\ q.delivery = w.delivery /\ q.table[d] = u
          /\ \A e \in Devices \ {d} : q.table[e] = w.table[e]
      <4>1. w \in Works /\ u \in Policies
        BY <1>2, <1>4
      <4> HIDE DEF c, t, s, ok, v, target
      <4> QED BY <4>1, EntryEffect
    <3> HIDE DEF q, v, ok, t
    <3>5. Agreed(q.db, q.table, {d})
      BY <3>4 DEF Good, Agreed
    <3> QED BY <1>4, <3>1, <3>3, <3>4, <3>5
  <2>2. CASE ~c
    <3>1. v = w
      BY <2>2
    <3>2. ok => t.pending = NoKey
      BY <2>2
    <3> HIDE DEF v, c, ok, s
    <3>3. Agreed(w.db, w.table, {d})
      BY GoodAgreed
    <3> QED BY <1>2, <3>1, <3>2, <3>3
  <2> QED BY <2>1, <2>2
<1>7. Good(Fail(v, "policy"), P)
  <2> HIDE DEF v
  <2> QED BY <1>6, PolicyGood
<1>8. ASSUME t.active, s.known PROVE Good(x, P) /\ (x.err = "none" \/ x.db = w.db)
  <2> DEFINE g == v.table[d]
  <2>1. g \in Policies /\ g.active /\ (ok => g.pending = NoKey) /\ (~ok => g = t)
    BY <1>6, <1>8
  <2>2. /\ m \in Records /\ m.known = TRUE /\ m.parent = g.parent /\ m.key = g.key
        /\ m.verified = g.verified /\ m.removal_pending = s.removal_pending
    BY <1>2, <2>1, MirroredFacts
  <2> HIDE DEF m
  <2>3. /\ ok => /\ n \in Records /\ n.known = TRUE /\ n.parent = g.parent /\ n.key = g.key
                 /\ n.verified = g.verified /\ n.removal_pending = s.removal_pending
                 /\ n.pending_link_key = NoKey
        /\ ~ok => n = s
    <3> DEFINE h == [m EXCEPT !.pending_link_key = NoKey, !.transported = FALSE,
                              !.network_key_pending = FALSE]
    <3>1. (ok => n = h) /\ (~ok => n = s)
      OBVIOUS
    <3> HIDE DEF n, ok, g, s
    <3>2. /\ h \in Records /\ h.known = TRUE /\ h.parent = g.parent /\ h.key = g.key
          /\ h.verified = g.verified /\ h.removal_pending = s.removal_pending
          /\ h.pending_link_key = NoKey
      BY <1>3, <2>2 DEF Records
    <3> HIDE DEF h
    <3> QED BY <3>1, <3>2
  <2>4. n \in Records /\ n.known = TRUE
    <3>1. s.known = TRUE
      BY <1>2, <1>8 DEF Records
    <3> HIDE DEF n, ok, s
    <3> QED BY <1>2, <2>3, <3>1
  <2>5. status \in {"success", "failure"}
    OBVIOUS
  <2> HIDE DEF n, status
  <2>6. /\ r \in Records /\ r.known = TRUE /\ r.parent = n.parent /\ r.key = n.key
        /\ r.verified = n.verified /\ r.removal_pending = n.removal_pending
        /\ r.pending_link_key = n.pending_link_key /\ r.confirm_key_pending = status
    BY <2>4, <2>5 DEF Records
  <2> HIDE DEF r
  <2>7. r.removal_pending = s.removal_pending
    BY <2>3, <2>6
  <2>8. g.verified => g.key \in P[d]
    BY <1>6 DEF Sane, Proven
  <2>9. r.verified => r.key \in P[d]
    <3>1. s.verified => s.key \in P[d]
      BY <1>2 DEF Sane, Proven
    <3> HIDE DEF g, ok, s
    <3> QED BY <2>3, <2>6, <2>8, <3>1
  <2>10. Agrees(r, g)
    <3>1. g.active = TRUE
      BY <2>1 DEF Policies
    <3>2. ~ok => Agrees(s, g)
      BY <1>2, <2>1
    <3>3. s.known = TRUE
      BY <1>2, <1>8 DEF Records
    <3> HIDE DEF g, ok, s
    <3>4. CASE ok
      <4>1. g.pending \in {NoKey, r.pending_link_key}
        BY <2>1, <3>4
      <4> QED BY <2>3, <2>6, <3>1, <3>4, <4>1, Zenon DEF Agrees
    <3>5. CASE ~ok
      <4>1. n = s
        BY <2>3, <3>5
      <4> QED BY <2>6, <3>2, <3>3, <3>5, <4>1, Zenon DEF Agrees
    <3> QED BY <3>4, <3>5
  <2>11. /\ r.known = v.db.dev[d].known /\ (r.removal_pending => r.known)
         /\ v.delivery.kind = "Remove" /\ v.delivery.address = d => r.removal_pending \/ Rejected(v.db, d)
         /\ v.delivery.kind = "Confirm" /\ v.delivery.address = d =>
              r.confirm_key_pending # "none" /\ ~r.removal_pending
    <3>1. s.known = TRUE
      BY <1>2, <1>8 DEF Records
    <3> HIDE DEF v
    <3> QED BY <1>2, <1>6, <2>5, <2>6, <2>7, <3>1 DEF Owned
  <2>12. Agrees(r, v.table[d])
    BY <2>10
  <2> HIDE DEF v, s, t, ok
  <2>13. Good(x, P)
    BY <1>6, <2>6, <2>9, <2>11, <2>12, PutGood
  <2>14. x.err = "none" \/ x.db = w.db
    <3>1. [v.db EXCEPT !.dev[d] = r] \in Databases
      BY <1>2, <1>6, <2>6 DEF Databases
    <3>2. v \in Works
      BY <1>6 DEF Sane
    <3> QED BY <1>6, <3>1, <3>2, StoreEffect DEF PutDevice
  <2> QED BY <2>13, <2>14
<1> HIDE DEF v, r, n, m, x
<1>9. ASSUME t.active, s.known PROVE Good(y, P) /\ Good(a, P)
  <2>1. Good(y, P)
    BY <1>8, <1>9, CancelGood
  <2> HIDE DEF y
  <2>2. y.attempts \ {d} \in SUBSET Devices
    BY <2>1 DEF Good, Sane, Works
  <2> QED BY <2>1, <2>2, AttemptsGood
<1>10. ASSUME t.active, s.known, x.err # "none" PROVE Good(z, P)
  <2> DEFINE q == Restored(s)
  <2>1. q \in Policies /\ (q.verified => s.verified /\ q.key = s.key)
    BY <1>2, RestoredFacts
  <2>2. q.verified => q.key \in P[d]
    BY <1>2, <2>1 DEF Sane, Proven
  <2>3. Sane(x, P) /\ x.err # "corrupt" /\ x \in Works
    BY <1>8, <1>10 DEF Good, Sane
  <2> HIDE DEF q, s, t
  <2>4. z = [x EXCEPT !.table[d] = q]
    BY DEF q
  <2> HIDE DEF z
  <2>5. Sane(z, P)
    BY <2>1, <2>2, <2>3, <2>4, EntrySane
  <2>6. z.err = x.err
    BY <2>1, <2>3, <2>4, EntryEffect
  <2> QED BY <1>10, <2>3, <2>5, <2>6 DEF Good
<1> HIDE DEF y, z, a, refused, ok, t, s
<1> QED BY <1>1, <1>7, <1>9, <1>10

\* upsert of a device whose rejection is queued: validate refuses the record, and
\* the table is what it was restored to.
LEMMA UpsertRefused ==
    ASSUME NEW P \in Proofs, NEW w, Sane(w, P), w.err = "none", NEW d \in Devices,
           Agreed(w.db, w.table, {d}), ~w.db.dev[d].known, Rejected(w.db, d)
    PROVE  LET x == Upsert(w, d, FALSE) IN Sane(x, P) /\ Agreed(x.db, x.table, {}) /\ x.err # "none"
<1> DEFINE s == w.db.dev[d]
           m == Mirrored(s, w.table[d])
           r == [m EXCEPT !.network_key_pending = @ \/ FALSE]
           v == PutDevice(w, d, r)
           f == Fail(w, "corrupt")
           x == [v EXCEPT !.table[d] = Restored(v.db.dev[d])]
<1>1. Upsert(w, d, FALSE) = IF v.err # "none" THEN x ELSE v
  BY DEF Upsert
<1>2. s \in Records /\ w.table[d] \in Policies /\ w.db \in Databases /\ w \in Works
  BY DEF Sane, Works, Databases, Tables
<1>3. m \in Records /\ m.known = TRUE
  BY <1>2, MirroredFacts
<1> HIDE DEF m
<1>4. r.known = TRUE
  BY <1>3 DEF Records
<1> HIDE DEF r
<1>5. v = f
  <2> DEFINE D == [w.db EXCEPT !.dev[d] = r]
  <2>1. D.dev[d] = r /\ D.removals = w.db.removals
    BY <1>2 DEF Databases
  <2> HIDE DEF D
  <2>2. ~Valid(D)
    BY <1>4, <2>1 DEF Valid, Rejected
  <2> QED BY <2>2 DEF PutDevice, Store, D
<1>6. f \in Works /\ f.db = w.db /\ f.err = "corrupt" /\ f.table = w.table /\ f.delivery = w.delivery
  BY <1>2 DEF Fail, Works, Errors
<1> HIDE DEF f, v
<1>7. Sane(f, P)
  BY <1>6, Zenon DEF Sane
<1> DEFINE q == Restored(s)
<1>8. q \in Policies /\ Agrees(s, q) /\ (q.verified => s.verified /\ q.key = s.key)
  BY <1>2, RestoredFacts
<1>9. q.verified => q.key \in P[d]
  BY <1>8 DEF Sane, Proven
<1>10. x = [f EXCEPT !.table[d] = q]
  BY <1>5, <1>6
<1> HIDE DEF q, x
<1>11. Sane(x, P)
  BY <1>7, <1>8, <1>9, <1>10, EntrySane
<1>12. /\ x.db = f.db /\ x.err = f.err /\ x.table[d] = q
       /\ \A e \in Devices \ {d} : x.table[e] = f.table[e]
  BY <1>6, <1>8, <1>10, EntryEffect
<1>13. Agreed(x.db, x.table, {})
  <2>1. \A e \in Devices \ {d} : Agrees(w.db.dev[e], w.table[e])
    BY DEF Agreed
  <2> QED BY <1>6, <1>8, <1>12, <2>1 DEF Agreed
<1> QED BY <1>1, <1>5, <1>6, <1>11, <1>12, <1>13

\* provision_link_key before the device joins: kept even when the store failed.
LEMMA ProvisionGood ==
    ASSUME NEW P \in Proofs, NEW w, Good(w, P), w.err = "none", NEW d \in Devices, ~w.db.dev[d].known
    PROVE  LET x == ProvisionLinkKey(w, d) IN Sane(x, P) /\ Agreed(x.db, x.table, {})
<1> DEFINE t == w.table[d]
           s == w.db.dev[d]
           e == IF t.active THEN [t EXCEPT !.key = w.keys + 2, !.verified = FALSE, !.timeout = 0, !.pending = NoKey]
                ELSE Provisioned(w.keys + 2)
           v == [w EXCEPT !.table[d] = e]
           y == Upsert(v, d, FALSE)
           x == ProvisionLinkKey(w, d)
<1>1. x = IF y.err = "none" THEN [y EXCEPT !.keys = y.keys + 1] ELSE y
  BY DEF ProvisionLinkKey, Then
<1>2. /\ w \in Works /\ t \in Policies /\ s \in Records /\ Agrees(s, t) /\ Sane(w, P)
      /\ w.keys + 2 \in Nat
      /\ s.removal_pending => s.known
  BY DEF Good, Sane, Works, Tables, Databases, Agreed, DbOK
<1>3. ~t.active
  <2> HIDE DEF t
  <2> QED BY <1>2 DEF Agrees
<1>4. e \in Policies /\ e.active /\ e.verified = FALSE /\ e.pending = NoKey
  <2>1. e = [Inactive EXCEPT !.active = TRUE, !.key = w.keys + 2]
    BY <1>3 DEF Provisioned
  <2> HIDE DEF e
  <2> QED BY <1>2, <2>1 DEF Inactive, NoKey, Policies, Places
<1> HIDE DEF e, x
<1>5. Sane(v, P)
  BY <1>2, <1>4, EntrySane
<1>6. /\ v.db = w.db /\ v.err = w.err /\ v.table[d] = e
      /\ \A c \in Devices \ {d} : v.table[c] = w.table[c]
  <2>1. w \in Works /\ e \in Policies
    BY <1>2, <1>4
  <2> HIDE DEF t, s, y
  <2> QED BY <2>1, EntryEffect
<1> HIDE DEF v
<1>7. Agreed(v.db, v.table, {d})
  BY <1>6 DEF Good, Agreed
<1>8. Sane(y, P) /\ Agreed(y.db, y.table, {})
  <2>1. CASE Rejected(w.db, d)
    <3>1. ~v.db.dev[d].known /\ Rejected(v.db, d) /\ v.err = "none"
      BY <1>6, <2>1
    <3> QED BY <1>5, <1>7, <3>1, UpsertRefused
  <2>2. CASE ~Rejected(w.db, d)
    <3>1. /\ v.err = "none" /\ v.table[d].active /\ ~v.db.dev[d].known /\ v.table[d].pending = NoKey
          /\ ~Rejected(v.db, d)
      BY <1>4, <1>6, <2>2
    <3>2. Good(y, P) /\ Agreed(y.db, y.table, {})
      BY <1>5, <1>7, <3>1, UpsertGood
    <3> QED BY <3>2 DEF Good
  <2> QED BY <2>1, <2>2
<1> HIDE DEF y
<1>9. CASE y.err = "none"
  <2>1. Good(y, P) /\ y.keys + 1 \in Nat /\ y \in Works
    BY <1>8, <1>9 DEF Good, Sane, Works
  <2>2. Good(x, P)
    BY <1>1, <1>9, <2>1, KeysGood
  <2>3. x.db = y.db /\ x.table = y.table
    BY <1>1, <1>9, <2>1 DEF Works
  <2>4. Sane(x, P) /\ Agreed(x.db, x.table, {})
    BY <1>8, <2>2, <2>3 DEF Good
  <2> QED BY <2>4 DEF x
<1>10. CASE y.err # "none"
  <2>1. Sane(x, P) /\ Agreed(x.db, x.table, {})
    BY <1>1, <1>8, <1>10
  <2> QED BY <2>1 DEF x
<1> QED BY <1>9, <1>10
-----------------------------------------------------------------------------
(* The steps. *)

LEMMA WorkingGood ==
    ASSUME IInv, up, NEW f \in Faults
    PROVE  /\ Good(Working(f[1], f[2]), proved) /\ Working(f[1], f[2]).err = "none"
           /\ Working(f[1], f[2]).db = db /\ proved \in Proofs
<1> DEFINE w == Working(f[1], f[2])
<1>1. f[1] \in Nat /\ f[2] \in SUBSET Devices
  BY DEF Faults, NoFault
<1>2. /\ w.db = db /\ w.table = table /\ w.delivery = delivery /\ w.err = "none"
  BY DEF Working
<1>3. w \in Works
  BY <1>1 DEF Working, Works, IInv, Typed, Errors
<1> HIDE DEF w
<1>4. Good(w, proved)
  BY <1>2, <1>3 DEF IInv, Good, Sane
<1> QED BY <1>2, <1>4 DEF w, IInv, Typed

\* What a call leaves behind, when it succeeds and when the coordinator resets.
LEMMA FinishKeeps ==
    ASSUME NEW w, proved' \in Proofs, Good(w, proved'), Finish(w)
    PROVE  IInv'
<1>1. /\ w \in Works /\ DbOK(w.db) /\ Owned(w.db, w.delivery) /\ w.err # "corrupt"
      /\ \A d \in Devices : Proven(w.db.dev, proved', d) /\ Proven(w.table, proved', d)
      /\ w.err = "none" => Agreed(w.db, w.table, {})
  BY DEF Good, Sane
<1>2. /\ w.db \in Databases /\ w.table \in Tables /\ w.delivery \in Deliveries
      /\ w.attempts \in SUBSET Devices /\ w.keys \in Nat
  BY <1>1 DEF Works
<1>3. db' = w.db /\ keys' = w.keys
  BY DEF Finish, Commit
<1>4. CASE w.err = "none"
  <2>1. /\ table' = w.table /\ delivery' = w.delivery /\ attempts' = w.attempts
        /\ up' = TRUE /\ fault' = "none"
    BY <1>4 DEF Finish, Keep
  <2> QED BY <1>1, <1>2, <1>3, <1>4, <2>1 DEF IInv, Typed
<1>5. CASE w.err # "none"
  <2>1. /\ table' = [d \in Devices |-> Inactive] /\ delivery' = NoDelivery /\ attempts' = {}
        /\ up' = FALSE /\ fault' = w.err
    BY <1>5 DEF Finish, Lose
  <2>2. table' \in Tables /\ delivery' \in Deliveries
    BY <2>1, Constants DEF Tables
  <2>3. \A d \in Devices : Proven(table', proved', d)
    BY <2>1 DEF Proven, Inactive
  <2>4. Owned(db', delivery')
    BY <2>1 DEF Owned, NoDelivery
  <2> QED BY <1>1, <1>2, <1>3, <2>1, <2>2, <2>3, <2>4 DEF IInv, Typed
<1> QED BY <1>4, <1>5

LEMMA RetiredKeeps ==
    ASSUME NEW w, proved' \in Proofs, Good(w, proved'), Finish(Then(w, Retire))
    PROVE  IInv'
<1> DEFINE x == Then(w, Retire)
<1>1. Good(x, proved')
  BY RetireGood DEF Then
<1>2. Finish(x)
  OBVIOUS
<1> HIDE DEF x
<1> QED BY <1>1, <1>2, FinishKeeps

LEMMA UpdateDeviceKeeps ==
    ASSUME IInv, NEW d \in Devices, NEW p \in Parents, NEW status \in {"Join", "Rejoin", "TcRejoin", "Left"},
           NEW f \in Faults, ReceiveUpdateDevice(d, p, status, f)
    PROVE  IInv'
<1> DEFINE w == Working(f[1], f[2])  x == UpdateDevice(w, status, d, p)
<1>1. up /\ Finish(Then(x, Retire)) /\ proved' = proved
  BY DEF ReceiveUpdateDevice, Input
<1>2. Good(w, proved) /\ w.err = "none" /\ proved \in Proofs
  BY <1>1, WorkingGood
<1> HIDE DEF w
<1>3. Good(x, proved)
  BY <1>2, UpdateDeviceGood
<1> HIDE DEF x
<1> QED BY <1>1, <1>2, <1>3, RetiredKeeps

LEMMA RequestKeyKeeps ==
    ASSUME IInv, NEW d \in Devices, NEW f \in Faults, ReceiveRequestKey(d, f)
    PROVE  IInv'
<1> DEFINE w == Working(f[1], f[2])  c == CompleteNetworkKey(w, d)
           x == IF c.err = "none" THEN RequestTclk(c, d) ELSE c
<1>1. up /\ Finish(Then(x, Retire)) /\ proved' = proved
  <2>1. Then(c, LAMBDA v : RequestTclk(v, d)) = x
    BY DEF Then
  <2> QED BY <2>1, Zenon DEF ReceiveRequestKey, Input
<1>2. Good(w, proved) /\ w.err = "none" /\ proved \in Proofs
  BY <1>1, WorkingGood
<1> HIDE DEF w
<1>3. Good(c, proved)
  BY <1>2, CompleteNetworkKeyGood
<1> HIDE DEF c
<1>4. Good(x, proved)
  BY <1>2, <1>3, RequestTclkGood
<1> HIDE DEF x
<1> QED BY <1>1, <1>2, <1>4, RetiredKeeps

LEMMA RequestAppKeyKeeps ==
    ASSUME IInv, NEW i \in Devices, NEW r \in Devices, NEW f \in Faults, ReceiveRequestAppKey(i, r, f)
    PROVE  IInv'
<1> DEFINE w == Working(f[1], f[2])  c == CompleteNetworkKey(w, i)
           x == IF c.err = "none" THEN RequestAppKey(c, i, r) ELSE c
<1>1. up /\ i # r /\ Finish(Then(x, Retire)) /\ proved' = proved
  <2>1. Then(c, LAMBDA v : RequestAppKey(v, i, r)) = x
    BY DEF Then
  <2> QED BY <2>1, Zenon DEF ReceiveRequestAppKey, Input
<1>2. Good(w, proved) /\ w.err = "none" /\ proved \in Proofs
  BY <1>1, WorkingGood
<1> HIDE DEF w
<1>3. Good(c, proved)
  BY <1>2, CompleteNetworkKeyGood
<1> HIDE DEF c
<1>4. Good(x, proved)
  BY <1>1, <1>2, <1>3, RequestAppKeyGood
<1> HIDE DEF x
<1> QED BY <1>1, <1>2, <1>4, RetiredKeeps

LEMMA VerifyKeyKeeps ==
    ASSUME IInv, NEW d \in Devices, NEW k \in Generated \cup {NoKey}, NEW f \in Faults, ReceiveVerifyKey(d, k, f)
    PROVE  IInv'
<1> DEFINE w == Working(f[1], f[2])  x == VerifyKey(w, d, k)
<1>1. up /\ Finish(Then(x, Retire)) /\ proved' = [proved EXCEPT ![d] = @ \cup ({k} \ {NoKey})]
  BY DEF ReceiveVerifyKey, Input
<1>2. Good(w, proved) /\ w.err = "none" /\ proved \in Proofs
  BY <1>1, WorkingGood
<1>3. k \in Nat
  BY TrustCenterAssumption DEF Generated, NoKey
<1>4. proved' \in Proofs /\ (k # NoKey => k \in proved'[d]) /\ \A e \in Devices : proved[e] \subseteq proved'[e]
  BY <1>1, <1>2, <1>3 DEF Proofs
<1> HIDE DEF w
<1>5. Good(w, proved')
  <2>1. \A e \in Devices : Proven(w.db.dev, proved', e) /\ Proven(w.table, proved', e)
    BY <1>2, <1>4 DEF Good, Sane, Proven
  <2> QED BY <1>2, <2>1, Zenon DEF Good, Sane
<1>6. Good(x, proved')
  <2> DEFINE Q == proved'
  <2>1. Q \in Proofs /\ Good(w, Q) /\ (k # NoKey => k \in Q[d])
    BY <1>4, <1>5
  <2> HIDE DEF Q
  <2>2. Good(x, Q)
    BY <1>2, <1>3, <2>1, VerifyKeyGood
  <2> QED BY <2>2 DEF Q
<1> HIDE DEF x
<1> QED BY <1>1, <1>4, <1>6, RetiredKeeps

LEMMA AnnounceKeeps ==
    ASSUME IInv, NEW d \in Devices, NEW f \in Faults, ReceiveAnnounce(d, f)
    PROVE  IInv'
<1> DEFINE w == Working(f[1], f[2])  x == DeviceAnnounce(w, d)
<1>1. up /\ Finish(Then(x, Retire)) /\ proved' = proved
  BY DEF ReceiveAnnounce, Input
<1>2. Good(w, proved) /\ w.err = "none" /\ proved \in Proofs
  BY <1>1, WorkingGood
<1> HIDE DEF w
<1>3. Good(x, proved)
  BY <1>2, AnnounceGood
<1> HIDE DEF x
<1> QED BY <1>1, <1>2, <1>3, RetiredKeeps

LEMMA ProvisionKeeps ==
    ASSUME IInv, NEW d \in Devices, NEW bad \in 0..1, Provision(d, bad)
    PROVE  IInv'
<1> DEFINE w == Working(bad, {})  x == ProvisionLinkKey(w, d)
<1>1. up /\ ~db.dev[d].known /\ Commit(x) /\ Keep(x) /\ proved' = proved
  BY DEF Provision
<1>2. /\ w.db = db /\ w.table = table /\ w.delivery = delivery /\ w.err = "none" /\ proved \in Proofs
  BY DEF Working, IInv, Typed
<1>3. w \in Works
  BY DEF Working, Works, IInv, Typed, Errors
<1> HIDE DEF w
<1>4. Good(w, proved)
  BY <1>1, <1>2, <1>3 DEF IInv, Good, Sane
<1>5. Sane(x, proved) /\ Agreed(x.db, x.table, {})
  BY <1>1, <1>2, <1>4, ProvisionGood
<1> HIDE DEF x
<1>6. /\ db' = x.db /\ keys' = x.keys /\ table' = x.table /\ delivery' = x.delivery
      /\ attempts' = x.attempts /\ up' = TRUE /\ fault' = "none"
  BY <1>1 DEF Commit, Keep
<1>7. /\ x.db \in Databases /\ x.table \in Tables /\ x.delivery \in Deliveries
      /\ x.attempts \in SUBSET Devices /\ x.keys \in Nat
  BY <1>5 DEF Sane, Works
<1> QED BY <1>1, <1>2, <1>5, <1>6, <1>7 DEF IInv, Typed, Sane

LEMMA PollKeeps ==
    ASSUME IInv, NEW order \in Orders, NEW ticks \in BOOLEAN, NEW f \in Faults, Poll(order, ticks, f)
    PROVE  IInv'
<1> DEFINE w == Working(f[1], f[2])  c == ResumePending(w, order, TRUE)
           x == IF c.err = "none" THEN (IF ticks THEN Tick(c, order) ELSE c) ELSE c
<1>1. up /\ Finish(Then(x, Retire)) /\ proved' = proved
  <2>1. Then(c, LAMBDA v : IF ticks THEN Tick(v, order) ELSE v) = x
    BY DEF Then
  <2> QED BY <2>1, Zenon DEF Poll
<1>2. Good(w, proved) /\ w.err = "none" /\ proved \in Proofs
  BY <1>1, WorkingGood
<1> HIDE DEF w
<1>3. Good(c, proved)
  BY <1>2, ResumePendingGood
<1> HIDE DEF c
<1>4. Good(x, proved)
  BY <1>2, <1>3, TickGood
<1> HIDE DEF x
<1> QED BY <1>1, <1>2, <1>4, RetiredKeeps

LEMMA InitializeKeeps ==
    ASSUME IInv, NEW order \in Orders, NEW f \in Faults, Initialize(order, f)
    PROVE  IInv'
<1> DEFINE T == [d \in Devices |-> Restored(db.dev[d])]
           o == Working(f[1], f[2])
           w == [o EXCEPT !.table = T]
           c == Checkpoint(w)
           x == IF c.err = "none" THEN ResumePending(c, order, FALSE) ELSE c
<1>1. Finish(Then(x, Retire)) /\ proved' = proved
  <2>1. Then(c, LAMBDA v : ResumePending(v, order, FALSE)) = x
    BY DEF Then
  <2> QED BY <2>1, Zenon DEF Initialize
<1>2. f[1] \in Nat /\ f[2] \in SUBSET Devices
  BY DEF Faults, NoFault
<1>3. \A d \in Devices : db.dev[d] \in Records
  BY DEF IInv, Typed, Databases
<1>4. T \in Tables /\ \A d \in Devices : T[d] = Restored(db.dev[d])
  BY <1>3, RestoredFacts DEF Tables
<1> HIDE DEF T
<1>5. o \in Works /\ o.db = db /\ o.delivery = delivery /\ o.err = "none"
  BY <1>2 DEF Working, Works, IInv, Typed, Errors
<1> HIDE DEF o
<1>6. w \in Works /\ w.db = db /\ w.delivery = delivery /\ w.err = "none" /\ w.table = T
  BY <1>4, <1>5 DEF Works
<1> HIDE DEF w
<1>7. \A d \in Devices : Agrees(db.dev[d], T[d]) /\ Proven(T, proved, d)
  <2>1. ASSUME NEW d \in Devices PROVE Agrees(db.dev[d], T[d]) /\ Proven(T, proved, d)
    <3>1. Agrees(db.dev[d], T[d]) /\ (T[d].verified => db.dev[d].verified /\ T[d].key = db.dev[d].key)
      BY <1>3, <1>4, RestoredFacts
    <3> QED BY <3>1 DEF IInv, Proven
  <2> QED BY <2>1
<1>8. Good(w, proved) /\ proved \in Proofs
  BY <1>6, <1>7 DEF IInv, Typed, Good, Sane, Agreed
<1>9. Good(c, proved)
  BY <1>6, <1>8, CheckpointGood
<1> HIDE DEF c
<1>10. Good(x, proved)
  BY <1>8, <1>9, ResumePendingGood
<1> HIDE DEF x
<1> QED BY <1>1, <1>8, <1>10, RetiredKeeps

LEMMA LoseKeeps ==
    ASSUME IInv, Lose("none"), UNCHANGED <<db, keys, proved>>
    PROVE  IInv'
<1>1. /\ table' = [d \in Devices |-> Inactive] /\ delivery' = NoDelivery /\ attempts' = {}
      /\ up' = FALSE /\ fault' = "none"
  BY DEF Lose
<1>2. table' \in Tables /\ delivery' \in Deliveries
  BY <1>1, Constants DEF Tables
<1>3. \A d \in Devices : Proven(table', proved', d)
  BY <1>1 DEF Proven, Inactive
<1>4. Owned(db', delivery')
  BY <1>1 DEF Owned, NoDelivery
<1> QED BY <1>1, <1>2, <1>3, <1>4 DEF IInv, Typed

LEMMA StutterKeeps ==
    ASSUME IInv, UNCHANGED <<db, table, delivery, attempts, up, fault, keys, proved>>
    PROVE  IInv'
  BY DEF IInv, Typed

LEMMA InitHolds == Init => IInv
<1> SUFFICES ASSUME Init PROVE IInv
  OBVIOUS
<1> DEFINE f == [d \in Devices |-> Unknown]
<1>1. db = [dev |-> f, removals |-> <<>>, app |-> NoApp]
  BY DEF Init
<1>2. f \in [Devices -> Records]
  BY Constants
<1>3. <<>> \in Seq(Intents)
  OBVIOUS
<1> HIDE DEF f
<1>4. db \in Databases /\ db.dev = f /\ db.removals = <<>> /\ db.app = NoApp
  BY <1>1, <1>2, <1>3, Constants DEF Databases
<1>5. \A d \in Devices : /\ f[d].known = FALSE /\ f[d].verified = FALSE /\ f[d].removal_pending = FALSE
                         /\ table[d] = Inactive
  BY DEF f, Unknown, Init
<1>6. DbOK(db)
  BY <1>4, <1>5 DEF DbOK, Valid
<1>7. Owned(db, delivery)
  BY DEF Init, Owned, NoDelivery
<1>8. \A d \in Devices : Proven(db.dev, proved, d) /\ Proven(table, proved, d)
  BY <1>4, <1>5 DEF Proven, Inactive
<1>9. Agreed(db, table, {})
  <2>1. Inactive.active = FALSE
    BY DEF Inactive
  <2>2. ASSUME NEW d \in Devices PROVE Agrees(f[d], table[d])
    <3>1. table[d].active = f[d].known /\ ~table[d].active
      BY <1>5, <2>1
    <3> QED BY <3>1, Zenon DEF Agrees
  <2> QED BY <1>4, <2>2 DEF Agreed
<1>10. /\ table \in Tables /\ delivery \in Deliveries /\ attempts \in SUBSET Devices
       /\ keys \in Nat /\ proved \in Proofs /\ up \in BOOLEAN /\ fault # "corrupt"
  BY Constants DEF Init, Tables, Proofs
<1> QED BY <1>4, <1>6, <1>7, <1>8, <1>9, <1>10 DEF IInv, Typed

LEMMA StepKeeps == IInv /\ [Next]_vars => IInv'
<1> SUFFICES ASSUME IInv, [Next]_vars PROVE IInv'
  OBVIOUS
<1>1. CASE inputs < MaxInputs /\ \E d \in Devices, f \in Faults : Receive(d, f)
  <2>1. PICK d \in Devices, f \in Faults : Receive(d, f)
    BY <1>1
  <2>2. CASE \E p \in Parents, status \in {"Join", "Rejoin", "TcRejoin", "Left"} :
               ReceiveUpdateDevice(d, p, status, f)
    BY <2>2, UpdateDeviceKeeps
  <2>3. CASE ReceiveRequestKey(d, f)
    BY <2>3, RequestKeyKeeps
  <2>4. CASE \E r \in Devices : ReceiveRequestAppKey(d, r, f)
    BY <2>4, RequestAppKeyKeeps
  <2>5. CASE \E k \in Generated \cup {NoKey} : ReceiveVerifyKey(d, k, f)
    BY <2>5, VerifyKeyKeeps
  <2>6. CASE ReceiveAnnounce(d, f)
    BY <2>6, AnnounceKeeps
  <2> QED BY <2>1, <2>2, <2>3, <2>4, <2>5, <2>6 DEF Receive
<1>2. CASE \E order \in Orders, f \in Faults :
             Initialize(order, f) \/ \E ticks \in BOOLEAN : Poll(order, ticks, f)
  BY <1>2, InitializeKeeps, PollKeeps
<1>3. CASE \E d \in Devices : ChildGone(d) \/ \E bad \in 0..1 : Provision(d, bad)
  <2>1. PICK d \in Devices : ChildGone(d) \/ \E bad \in 0..1 : Provision(d, bad)
    BY <1>3
  <2>2. CASE ChildGone(d)
    <3>1. UNCHANGED <<db, table, delivery, attempts, up, fault, keys, proved>>
      BY <2>2 DEF ChildGone
    <3> QED BY <3>1, StutterKeeps
  <2>3. CASE \E bad \in 0..1 : Provision(d, bad)
    BY <2>3, ProvisionKeeps
  <2> QED BY <2>1, <2>2, <2>3
<1>4. CASE Reset
  <2>1. Lose("none") /\ UNCHANGED <<db, keys, proved>>
    BY <1>4 DEF Reset
  <2> QED BY <2>1, LoseKeeps
<1>5. CASE UNCHANGED vars
  <2>1. UNCHANGED <<db, table, delivery, attempts, up, fault, keys, proved>>
    BY <1>5 DEF vars
  <2> QED BY <2>1, StutterKeeps
<1> QED BY <1>1, <1>2, <1>3, <1>4, <1>5 DEF Next
-----------------------------------------------------------------------------
(* The theorems. *)

\* The inductive invariant holds in every reachable state of the executor and
\* the policy table.
THEOREM Invariance == Spec => []IInv
  BY InitHolds, StepKeeps, PTL DEF Spec

\* The command in the one delivery slot always belongs to a transaction of the
\* database, however stage_removal, revoke, commit_and_stage_confirm_key and
\* resume_application_link_key follow on one another.
THEOREM DeliveryAlwaysOwned == Spec => []DeliveryOwned
<1>1. IInv => DeliveryOwned
  BY DEF IInv, Owned, DeliveryOwned
<1> QED BY <1>1, Invariance, PTL

\* A link key of the database counts as verified only when the device proved
\* that very key with Verify-Key, across retries, failed stores and resets.
THEOREM ReplacementsProved == Spec => []ReplacementProved
<1>1. IInv => ReplacementProved
  BY DEF IInv, Proven, ReplacementProved
<1> QED BY <1>1, Invariance, PTL

\* What a reset restores is what the policy table holds already: upsert and
\* handle_verify_key put the table back when the journal refuses the record.
THEOREM ResetsKeepPolicy == Spec => []ResetKeepsPolicy
<1>1. IInv => ResetKeepsPolicy
  <2> SUFFICES ASSUME IInv, NEW d \in Devices, up, ~db.dev[d].removal_pending
               PROVE  LET t == table[d]  r == Restored(db.dev[d]) IN
                      /\ t.active = r.active
                      /\ t.active => /\ <<t.parent, t.key, t.verified>> = <<r.parent, r.key, r.verified>>
                                     /\ t.pending \in {NoKey, r.pending}
    BY DEF ResetKeepsPolicy
  <2> DEFINE s == db.dev[d]  t == table[d]  r == Restored(s)
  <2>1. s \in Records /\ Agrees(s, t) /\ ~s.removal_pending
    BY DEF IInv, Typed, Databases, Agreed
  <2>2. /\ s.known => /\ r.active = TRUE /\ r.parent = s.parent /\ r.key = s.key
                      /\ r.verified = s.verified /\ r.pending = s.pending_link_key
        /\ ~s.known => r.active = FALSE
    <3> HIDE DEF s
    <3> QED BY DEF Restored, Inactive
  <2>3. s.known \in BOOLEAN
    BY <2>1 DEF Records
  <2> HIDE DEF s, r, t
  <2>4. t.active = s.known
    BY <2>1, Zenon DEF Agrees
  <2>5. t.active = r.active
    BY <2>2, <2>3, <2>4
  <2>6. t.active => /\ t.parent = r.parent /\ t.key = r.key /\ t.verified = r.verified
                    /\ t.pending \in {NoKey, r.pending}
    BY <2>1, <2>2, <2>4, Zenon DEF Agrees
  <2> QED BY <2>5, <2>6 DEF t, r, s
<1> QED BY <1>1, Invariance, PTL

\* No sequence of commands, faults and resets makes the executor present a
\* record that PersistentTrustCenterState::validate refuses; only the caller of
\* provision_link_key may meet that refusal.
THEOREM RecordsAlwaysValid == Spec => []RecordAlwaysValid
<1>1. IInv => RecordAlwaysValid
  BY DEF IInv, RecordAlwaysValid
<1> QED BY <1>1, Invariance, PTL
=============================================================================
