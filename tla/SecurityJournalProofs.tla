------------------------ MODULE SecurityJournalProofs ------------------------
(***************************************************************************)
(* Theorems about SecurityJournal: the writes go to erased flash, the      *)
(* caches never claim more than flash holds, no acknowledged reservation   *)
(* is lost and every call is one atomic change (DurableStore), for any     *)
(* geometry, any domains, any bounds and any number of faults.             *)
(***************************************************************************)
EXTENDS SecurityJournal, WellFoundedInduction, FiniteSetTheorems, TLAPS

-----------------------------------------------------------------------------
(* The inductive invariant. *)

Flashes == [Sectors -> [SlotIds -> Cells]]
Views == [state : States \cup {None}, floors : Floors]
Caches == [scanned : BOOLEAN, located : Located \cup {None},
           replayGen : Generations \cup {None}, replay : Floors]
Calls == [kind : {"append", "generation"}, erase : BOOLEAN, base : SlotIds, slot : 0 .. Slots,
          headed : BOOLEAN, left : SUBSET Domains, record : BOOLEAN, located : Located,
          replay : Floors]
Typed ==
    /\ flash \in Flashes /\ ram \in Caches /\ op \in Calls \cup {Idle}
    /\ faults \in Nat /\ ackedLimit \in 0 .. MaxLimit /\ doubt \in BOOLEAN

AtMost(a, b) == \A d \in Domains : a[d] <= b[d]
NextGen(N) == IF N = None THEN 0 ELSE N.gen + 1

\* No slot carries a generation beyond the next one.
GenerationsBounded(f, N) ==
    \A s \in Sectors, i \in SlotIds :
        f[s][i].kind \in {"record", "marginal", "replay"} => f[s][i].gen <= NextGen(N)

\* The caches between two calls.
CachesHold(r, f, N) ==
    /\ ~r.scanned => r = Unscanned
    /\ r.scanned => /\ r.located = N
                    /\ r.replayGen # None =>
                         /\ N # None /\ r.replayGen = N.gen
                         /\ AtMost(r.replay, ScanReplay(f, N.sector, N.gen))

\* The replay slot under way has a free entry; without one, the slot is erased.
SlotReady(o, f) ==
    LET cell == f[o.located.sector][o.slot] IN
    IF o.headed
    THEN /\ o.slot \in SlotIds
         /\ cell.kind = "replay" /\ cell.gen = o.located.gen
         /\ cell.torn = FALSE /\ cell.used < EntriesPerSlot
    ELSE o.left # {} => o.slot \in SlotIds /\ cell = Erased

\* A generation being written: the slots of its record and of its snapshot are
\* erased, and the entries still to write fit there.
LastSlot(o) == o.base + SnapshotSlots(Cardinality({d \in Domains : o.replay[d] > 0}))
FirstFree(o) == IF o.headed THEN o.slot + 1 ELSE o.slot
Room(o, f) ==
    (IF o.headed THEN EntriesPerSlot - f[o.located.sector][o.slot].used ELSE 0)
      + EntriesPerSlot * (LastSlot(o) - FirstFree(o) + 1)
RunReady(o, f) ==
    /\ o.base < o.slot /\ LastSlot(o) < Slots /\ FirstFree(o) <= LastSlot(o) + 1
    /\ f[o.located.sector][o.base] = Erased
    /\ \A i \in FirstFree(o) .. LastSlot(o) : f[o.located.sector][i] = Erased
    /\ Cardinality(o.left) <= Room(o, f)

GenerationHolds(o, f, N) ==
    LET L == o.located IN
    /\ o.record = TRUE
    /\ L.gen = NextGen(N)
    /\ N # None => N.state.limit <= L.state.limit
    /\ N # None /\ L.sector = N.sector =>
         o.erase = FALSE /\ AtMost(o.replay, ScanReplay(f, N.sector, N.gen))
    /\ o.erase = TRUE => /\ o.base = 0 /\ o.slot = 1 /\ o.headed = FALSE
                         /\ o.left = {d \in Domains : o.replay[d] > 0}
    /\ o.erase = FALSE => /\ SlotReady(o, f) /\ RunReady(o, f)
                          /\ N = None \/ L.sector # N.sector =>
                               AtMost(ScanReplay(f, L.sector, L.gen), o.replay)
AppendHolds(o, f, N) ==
    /\ o.record = FALSE /\ o.erase = FALSE /\ N # None /\ o.located = N
    /\ \E d \in Domains : o.left = {d}
    /\ o.slot \in SlotIds /\ SlotReady(o, f)
CallHolds(o, f, N) ==
    /\ o.kind = "generation" => GenerationHolds(o, f, N)
    /\ o.kind = "append" => AppendHolds(o, f, N)
    /\ \A d \in Domains \ o.left :
         o.replay[d] <= ScanReplay(f, o.located.sector, o.located.gen)[d]

\* Without a commit marker in doubt, what interrupted attempts at the next
\* generation left in the current sector is no more than what is durable.
LeftoversBounded(f, N) ==
    N # None => AtMost(ScanReplay(f, N.sector, NextGen(N)), ScanReplay(f, N.sector, N.gen))

\* Nothing below an acknowledged reservation is, or can become, the state.
AckedHolds(f, N, acked) ==
    /\ N = None => acked = 0
    /\ N # None => acked <= N.state.limit
    /\ \A s \in Sectors, i \in SlotIds :
         f[s][i].kind = "marginal" /\ f[s][i].gen = NextGen(N) => acked <= f[s][i].state.limit

IInv ==
    /\ Typed
    /\ boot = View(flash)
    /\ GenerationsBounded(flash, Newest(flash))
    /\ ~ram.scanned => ram = Unscanned
    /\ op = Idle => CachesHold(ram, flash, Newest(flash))
    /\ op # Idle => CallHolds(op, flash, Newest(flash))
    /\ ~doubt => LeftoversBounded(flash, Newest(flash)) /\ Late(flash) = {}
    /\ AckedHolds(flash, Newest(flash), ackedLimit)

-----------------------------------------------------------------------------
(* Constants, induction, and the largest and least elements of sets. *)

LEMMA Constants ==
    /\ Slots \in Nat /\ EntriesPerSlot \in Nat /\ EntriesPerSlot >= 1
    /\ MaxFloor \in Nat /\ MaxLimit \in Nat /\ MaxGeneration \in Nat /\ MaxFaults \in Nat
    /\ IsFiniteSet(Domains)
    /\ None \notin Nat /\ None \notin Located /\ None \notin Generations /\ None \notin States
    /\ None \notin Views
  BY GeometryAssumption, NoneAssumption DEF Views, Generations

\* Dividing rounds up: the snapshot slots have room for every entry.
LEMMA SnapshotFits ==
    ASSUME NEW n \in Nat
    PROVE  /\ SnapshotSlots(n) \in Nat
           /\ n <= EntriesPerSlot * SnapshotSlots(n)
<1> DEFINE E == EntriesPerSlot
<1>1. E \in Nat /\ E >= 1
  BY Constants
<1>2. ASSUME NEW a \in Nat, NEW b \in Nat, b >= 1
      PROVE  a \div b \in Nat /\ a < b * (a \div b) + b
  BY <1>2
<1>3. n + E - 1 \in Nat
  BY <1>1
<1> HIDE DEF E
<1>4. /\ (n + E - 1) \div E \in Nat
      /\ n + E - 1 < E * ((n + E - 1) \div E) + E
  BY <1>1, <1>2, <1>3
<1> QED BY <1>1, <1>4 DEF SnapshotSlots, E

\* More entries need no fewer slots.
LEMMA SnapshotGrows ==
    ASSUME NEW m \in Nat, NEW n \in Nat, m <= n
    PROVE  SnapshotSlots(m) <= SnapshotSlots(n)
<1> DEFINE E == EntriesPerSlot
<1>1. E \in Nat /\ E >= 1
  BY Constants
<1>2. ASSUME NEW a \in Nat, NEW b \in Nat, NEW c \in Nat, c >= 1, a <= b
      PROVE  a \div c <= b \div c
  BY <1>2
<1>3. n + E - 1 \in Nat /\ m + E - 1 \in Nat /\ m + E - 1 <= n + E - 1
  BY <1>1
<1> HIDE DEF E
<1> QED BY <1>1, <1>2, <1>3 DEF SnapshotSlots, E

LEMMA Induct ==
    ASSUME NEW S \in SUBSET Nat, 0 \in S, \A n \in S : n + 1 \in S
    PROVE  S = Nat
<1> DEFINE R == OpToRel(<, Nat)  T == Nat \ S
<1>1. IsWellFoundedOn(R, Nat)
  BY NatLessThanWellFounded
<1> SUFFICES ASSUME T # {} PROVE FALSE
  OBVIOUS
<1>2. T \subseteq Nat
  OBVIOUS
<1> HIDE DEF R
<1>3. PICK x \in T : \A y \in T : ~ (<<y, x>> \in R)
  <2> HIDE DEF T
  <2> QED BY <1>1, <1>2, WFMin, Zenon
<1>4. x - 1 \in Nat /\ x - 1 < x /\ x = (x - 1) + 1 /\ x \in Nat
  OBVIOUS
<1>5. <<x - 1, x>> \in R
  <2>1. <<x - 1, x>> \in Nat \X Nat /\ <<x - 1, x>>[1] < <<x - 1, x>>[2]
    BY <1>4
  <2> QED BY <2>1, Zenon DEF R, OpToRel
<1>6. x - 1 \in S
  BY <1>3, <1>4, <1>5
<1> QED BY <1>4, <1>6

\* A set of numbers up to a bound that has an element has a largest one.
LEMMA MaxExists ==
    ASSUME NEW B \in Nat, NEW S \in SUBSET (0 .. B), S # {}
    PROVE  Max(S) \in S /\ \A x \in S : x <= Max(S)
<1> DEFINE T == {n \in Nat : \A U \in SUBSET (0 .. n) : U # {} => \E x \in U : \A y \in U : x >= y}
<1>1. 0 \in T
  <2>1. ASSUME NEW U \in SUBSET (0 .. 0), U # {} PROVE \E x \in U : \A y \in U : x >= y
    <3>1. PICK x \in U : TRUE
      BY <2>1
    <3>2. x >= 0 /\ \A y \in U : y = 0
      OBVIOUS
    <3> QED BY <3>1, <3>2
  <2> QED BY <2>1
<1>2. ASSUME NEW n \in T PROVE n + 1 \in T
  <2>1. ASSUME NEW U \in SUBSET (0 .. (n + 1)), U # {} PROVE \E x \in U : \A y \in U : x >= y
    <3>1. CASE n + 1 \in U
      <4>1. \A y \in U : n + 1 >= y
        OBVIOUS
      <4> QED BY <3>1, <4>1
    <3>2. CASE n + 1 \notin U
      <4>1. U \in SUBSET (0 .. n)
        BY <3>2
      <4> QED BY <2>1, <4>1
    <3> QED BY <3>1, <3>2
  <2> QED BY <2>1
<1>3. T = Nat
  <2>1. T \in SUBSET Nat
    OBVIOUS
  <2> HIDE DEF T
  <2> QED BY <1>1, <1>2, <2>1, Induct
<1>4. B \in T
  BY <1>3
<1>5. \E x \in S : \A y \in S : x >= y
  BY <1>4
<1> QED BY <1>5 DEF Max

\* A set of numbers that has an element has a least one.
LEMMA MinExists ==
    ASSUME NEW S \in SUBSET Nat, S # {}
    PROVE  Min(S) \in S
<1> DEFINE T == {n \in Nat : \A m \in 0 .. n : m \in S => \E x \in S : \A y \in S : x <= y}
<1>1. 0 \in T
  OBVIOUS
<1>2. ASSUME NEW n \in T PROVE n + 1 \in T
  <2>1. CASE \E m \in 0 .. n : m \in S
    BY <2>1
  <2>2. CASE ~ \E m \in 0 .. n : m \in S
    <3>1. \A y \in S : n + 1 <= y
      BY <2>2
    <3> QED BY <2>2, <3>1
  <2> QED BY <2>1, <2>2
<1>3. T = Nat
  <2>1. T \in SUBSET Nat
    OBVIOUS
  <2> HIDE DEF T
  <2> QED BY <1>1, <1>2, <2>1, Induct
<1>4. PICK s \in S : s \in Nat /\ s \in T
  BY <1>3
<1>5. \E x \in S : \A y \in S : x <= y
  BY <1>4
<1> QED BY <1>5 DEF Min

-----------------------------------------------------------------------------
(* Cells, and what a scan of the replay slots finds. *)

LEMMA CellFacts ==
    ASSUME NEW c \in Cells
    PROVE  /\ c.kind \in {"erased", "torn", "record", "marginal", "replay"}
           /\ c.kind = "erased" => c = Erased
           /\ c.kind = "torn" => c = Torn
           /\ c.kind \in {"record", "marginal"} =>
                c.gen \in Generations /\ c.state \in States /\ c.state.limit \in 0 .. MaxLimit
           /\ c.kind = "replay" =>
                /\ c.gen \in Generations /\ c.used \in 0 .. EntriesPerSlot
                /\ c.torn \in BOOLEAN /\ c.floors \in Floors
                /\ c = ReplaySlot(c.gen, c.used, c.torn, c.floors)
<1>1. CASE c \in {Erased, Torn}
  BY <1>1 DEF Erased, Torn
<1>2. CASE c \in [kind : {"record", "marginal"}, gen : Generations, state : States]
  BY <1>2 DEF States
<1>3. CASE c \in [kind : {"replay"}, gen : Generations, used : 0 .. EntriesPerSlot,
                  torn : BOOLEAN, floors : Floors]
  BY <1>3 DEF ReplaySlot
<1> QED BY <1>1, <1>2, <1>3 DEF Cells

LEMMA CellsMade ==
    /\ Erased \in Cells /\ Torn \in Cells /\ Erased.kind = "erased" /\ Torn.kind = "torn"
    /\ NoFloors \in Floors
    /\ \A g \in Generations, s \in States :
         /\ StateRecord(g, s) \in Cells /\ MarginalRecord(g, s) \in Cells
         /\ StateRecord(g, s).kind = "record" /\ MarginalRecord(g, s).kind = "marginal"
         /\ StateRecord(g, s).gen = g /\ MarginalRecord(g, s).gen = g
         /\ StateRecord(g, s).state = s /\ MarginalRecord(g, s).state = s
    /\ \A g \in Generations, n \in 0 .. EntriesPerSlot, t \in BOOLEAN, fl \in Floors :
         LET c == ReplaySlot(g, n, t, fl) IN
         /\ c \in Cells /\ c.kind = "replay" /\ c.gen = g /\ c.used = n /\ c.torn = t
         /\ c.floors = fl
<1>1. NoFloors \in Floors
  BY Constants DEF NoFloors, Floors
<1>2. /\ Erased \in Cells /\ Torn \in Cells /\ Erased.kind = "erased" /\ Torn.kind = "torn"
  BY DEF Cells, Erased, Torn
<1>3. ASSUME NEW g \in Generations, NEW s \in States
      PROVE  /\ StateRecord(g, s) \in Cells /\ MarginalRecord(g, s) \in Cells
             /\ StateRecord(g, s).kind = "record" /\ MarginalRecord(g, s).kind = "marginal"
             /\ StateRecord(g, s).gen = g /\ MarginalRecord(g, s).gen = g
             /\ StateRecord(g, s).state = s /\ MarginalRecord(g, s).state = s
  BY DEF Cells, StateRecord, MarginalRecord
<1>4. ASSUME NEW g \in Generations, NEW n \in 0 .. EntriesPerSlot, NEW t \in BOOLEAN, NEW fl \in Floors
      PROVE  LET c == ReplaySlot(g, n, t, fl) IN
             /\ c \in Cells /\ c.kind = "replay" /\ c.gen = g /\ c.used = n /\ c.torn = t
             /\ c.floors = fl
  BY DEF Cells, ReplaySlot
<1> QED BY <1>1, <1>2, <1>3, <1>4

\* The flash with one cell replaced.
LEMMA Programmed ==
    ASSUME NEW f \in Flashes, NEW s \in Sectors, NEW i \in SlotIds, NEW c \in Cells
    PROVE  LET h == [f EXCEPT ![s][i] = c] IN
           /\ h \in Flashes /\ h[s][i] = c
           /\ \A t \in Sectors, j \in SlotIds : t # s \/ j # i => h[t][j] = f[t][j]
  BY DEF Flashes

LEMMA ScanFacts ==
    ASSUME NEW f \in Flashes, NEW s \in Sectors, NEW g
    PROVE  /\ ScanReplay(f, s, g) \in Floors
           /\ \A d \in Domains, i \in ReplaySlots(f, s, g) :
                /\ f[s][i].floors[d] <= ScanReplay(f, s, g)[d]
                /\ f[s][i].floors[d] \in 0 .. MaxFloor
           /\ \A d \in Domains :
                \/ ScanReplay(f, s, g)[d] = 0
                \/ \E i \in ReplaySlots(f, s, g) : ScanReplay(f, s, g)[d] = f[s][i].floors[d]
<1> DEFINE R == ReplaySlots(f, s, g)
           V(d) == {0} \cup {f[s][i].floors[d] : i \in R}
<1>1. ASSUME NEW d \in Domains
      PROVE  /\ \A i \in R : f[s][i].floors[d] \in 0 .. MaxFloor
             /\ V(d) \in SUBSET (0 .. MaxFloor) /\ V(d) # {}
  <2>1. ASSUME NEW i \in R PROVE f[s][i].floors[d] \in 0 .. MaxFloor
    <3>1. f[s][i] \in Cells /\ f[s][i].kind = "replay"
      BY DEF ReplaySlots, Flashes
    <3>2. f[s][i].floors \in Floors
      BY <3>1, CellFacts
    <3> QED BY <3>2 DEF Floors
  <2>2. 0 \in 0 .. MaxFloor
    BY Constants
  <2> HIDE DEF R
  <2> QED BY <2>1, <2>2
<1>2. ASSUME NEW d \in Domains
      PROVE  /\ Max(V(d)) \in V(d) /\ \A x \in V(d) : x <= Max(V(d))
             /\ Max(V(d)) \in 0 .. MaxFloor
  <2>1. V(d) \in SUBSET (0 .. MaxFloor) /\ V(d) # {} /\ MaxFloor \in Nat
    BY <1>1, Constants
  <2> HIDE DEF V
  <2> QED BY <2>1, MaxExists
<1>3. ScanReplay(f, s, g) = [d \in Domains |-> Max(V(d))]
  BY DEF ScanReplay
<1> HIDE DEF R
<1>4. ScanReplay(f, s, g) \in Floors
  BY <1>2, <1>3 DEF Floors
<1>5. ASSUME NEW d \in Domains
      PROVE  /\ \A i \in R : f[s][i].floors[d] <= ScanReplay(f, s, g)[d]
             /\ \/ ScanReplay(f, s, g)[d] = 0
                \/ \E i \in R : ScanReplay(f, s, g)[d] = f[s][i].floors[d]
  <2>1. ScanReplay(f, s, g)[d] = Max(V(d))
    BY <1>3
  <2> QED BY <1>2, <2>1
<1> QED BY <1>1, <1>4, <1>5 DEF R

\* The scan stays below what bounds every slot it reads.
LEMMA ScanBelow ==
    ASSUME NEW f \in Flashes, NEW s \in Sectors, NEW g, NEW F \in Floors,
           \A i \in ReplaySlots(f, s, g) : AtMost(f[s][i].floors, F)
    PROVE  AtMost(ScanReplay(f, s, g), F)
<1> SUFFICES ASSUME NEW d \in Domains PROVE ScanReplay(f, s, g)[d] <= F[d]
  BY DEF AtMost
<1>1. F[d] \in 0 .. MaxFloor
  BY DEF Floors
<1>2. CASE ScanReplay(f, s, g)[d] = 0
  BY <1>1, <1>2
<1>3. CASE \E i \in ReplaySlots(f, s, g) : ScanReplay(f, s, g)[d] = f[s][i].floors[d]
  BY <1>3 DEF AtMost
<1> QED BY <1>2, <1>3, ScanFacts

\* Only the replay slots of the generation matter.
LEMMA ScanSame ==
    ASSUME NEW f, NEW h, NEW s, NEW g,
           \A i \in SlotIds :
             \/ f[s][i] = h[s][i]
             \/ i \notin ReplaySlots(f, s, g) /\ i \notin ReplaySlots(h, s, g)
             \/ /\ i \in ReplaySlots(f, s, g) /\ i \in ReplaySlots(h, s, g)
                /\ f[s][i].floors = h[s][i].floors
    PROVE  ScanReplay(f, s, g) = ScanReplay(h, s, g)
<1>1. ReplaySlots(f, s, g) = ReplaySlots(h, s, g)
  BY DEF ReplaySlots
<1>2. \A i \in ReplaySlots(f, s, g) : f[s][i].floors = h[s][i].floors
  BY <1>1 DEF ReplaySlots
<1>3. ASSUME NEW d
      PROVE  {f[s][i].floors[d] : i \in ReplaySlots(f, s, g)}
               = {h[s][i].floors[d] : i \in ReplaySlots(h, s, g)}
  BY <1>1, <1>2
<1> QED BY <1>3, Zenon DEF ScanReplay

\* One more slot, or one more entry in a slot, raises the scan to its floors.
LEMMA ScanExtend ==
    ASSUME NEW f \in Flashes, NEW h \in Flashes, NEW s \in Sectors, NEW g, NEW k \in SlotIds,
           \A i \in SlotIds \ {k} : h[s][i] = f[s][i],
           k \in ReplaySlots(h, s, g),
           k \in ReplaySlots(f, s, g) => AtMost(f[s][k].floors, h[s][k].floors)
    PROVE  \A d \in Domains :
             ScanReplay(h, s, g)[d] = MaxOf(ScanReplay(f, s, g)[d], h[s][k].floors[d])
<1> SUFFICES ASSUME NEW d \in Domains
             PROVE  ScanReplay(h, s, g)[d] = MaxOf(ScanReplay(f, s, g)[d], h[s][k].floors[d])
  OBVIOUS
<1> DEFINE a == ScanReplay(f, s, g)[d]  b == ScanReplay(h, s, g)[d]  c == h[s][k].floors[d]
<1>1. a \in 0 .. MaxFloor /\ b \in 0 .. MaxFloor /\ c \in 0 .. MaxFloor /\ c <= b
  BY ScanFacts DEF Floors
<1>2. \A i \in SlotIds \ {k} : i \in ReplaySlots(f, s, g) <=> i \in ReplaySlots(h, s, g)
  BY DEF ReplaySlots
<1>3. \A i \in ReplaySlots(f, s, g) : i \in SlotIds
  BY DEF ReplaySlots
<1>4. \A i \in ReplaySlots(h, s, g) : i \in SlotIds
  BY DEF ReplaySlots
<1>5. a <= b
  <2>1. CASE a = 0
    BY <1>1, <2>1
  <2>2. CASE \E i \in ReplaySlots(f, s, g) : a = f[s][i].floors[d]
    <3>1. PICK i \in ReplaySlots(f, s, g) : a = f[s][i].floors[d]
      BY <2>2
    <3>2. CASE i = k
      <4>1. f[s][k].floors[d] <= h[s][k].floors[d]
        BY <3>2 DEF AtMost
      <4> QED BY <1>1, <3>1, <3>2, <4>1
    <3>3. CASE i # k
      <4>1. i \in ReplaySlots(h, s, g) /\ h[s][i] = f[s][i]
        BY <1>2, <1>3, <3>3
      <4> QED BY <3>1, <4>1, ScanFacts
    <3> QED BY <3>2, <3>3
  <2> QED BY <2>1, <2>2, ScanFacts
<1>6. b <= a \/ b <= c
  <2>1. CASE b = 0
    BY <1>1, <2>1
  <2>2. CASE \E i \in ReplaySlots(h, s, g) : b = h[s][i].floors[d]
    <3>1. PICK i \in ReplaySlots(h, s, g) : b = h[s][i].floors[d]
      BY <2>2
    <3>2. CASE i = k
      BY <1>1, <3>1, <3>2
    <3>3. CASE i # k
      <4>1. i \in ReplaySlots(f, s, g) /\ h[s][i] = f[s][i]
        BY <1>2, <1>4, <3>3
      <4>2. b <= a
        BY <3>1, <4>1, ScanFacts
      <4> QED BY <4>2
    <3> QED BY <3>2, <3>3
  <2> QED BY <2>1, <2>2, ScanFacts
<1> HIDE DEF a, b, c
<1>7. b = MaxOf(a, c)
  BY <1>1, <1>5, <1>6 DEF MaxOf
<1> QED BY <1>7 DEF a, b, c

-----------------------------------------------------------------------------
(* The scan for the newest record. *)

Scans(f, s, a, N, g) ==
    g = [n \in 0 .. N |-> IF n = 0 THEN a ELSE Take(g[n - 1], s, f[s][n - 1])]

\* The loop of ScanSector is well defined.
LEMMA ScanRuns ==
    ASSUME NEW f, NEW s, NEW a
    PROVE  \E g : /\ g[0] = a
                  /\ \A n \in 1 .. Slots : g[n] = Take(g[n - 1], s, f[s][n - 1])
                  /\ ScanSector(f, s, a) = g[Slots]
<1> DEFINE S == {N \in Nat : \E g : Scans(f, s, a, N, g)}
<1>1. 0 \in S
  <2>1. Scans(f, s, a, 0, [n \in 0 .. 0 |-> a])
    BY DEF Scans
  <2> QED BY <2>1
<1>2. ASSUME NEW N \in S PROVE N + 1 \in S
  <2>1. PICK g : Scans(f, s, a, N, g)
    OBVIOUS
  <2> DEFINE h == [n \in 0 .. (N + 1) |-> IF n = N + 1 THEN Take(g[N], s, f[s][N]) ELSE g[n]]
  <2>2. h = [n \in 0 .. (N + 1) |-> IF n = 0 THEN a ELSE Take(h[n - 1], s, f[s][n - 1])]
    <3>1. ASSUME NEW n \in 0 .. (N + 1)
          PROVE  h[n] = IF n = 0 THEN a ELSE Take(h[n - 1], s, f[s][n - 1])
      <4>1. CASE n = N + 1
        <5>1. n - 1 = N /\ h[n - 1] = g[N] /\ h[n] = Take(g[N], s, f[s][N]) /\ n # 0
          BY <4>1
        <5> HIDE DEF h
        <5> QED BY <5>1
      <4>2. CASE n # N + 1
        <5>1. n \in 0 .. N /\ (n # 0 => n - 1 \in 0 .. (N + 1) /\ n - 1 # N + 1)
          BY <4>2
        <5>2. h[n] = g[n] /\ (n # 0 => h[n - 1] = g[n - 1])
          BY <5>1
        <5> HIDE DEF h
        <5>3. g[n] = IF n = 0 THEN a ELSE Take(g[n - 1], s, f[s][n - 1])
          BY <2>1, <5>1 DEF Scans
        <5> QED BY <5>2, <5>3
      <4> QED BY <4>1, <4>2
    <3> HIDE DEF h
    <3>2. h = [n \in 0 .. (N + 1) |-> h[n]]
      BY DEF h
    <3> QED BY <3>1, <3>2, Zenon
  <2>3. Scans(f, s, a, N + 1, h)
    BY <2>2 DEF Scans
  <2> QED BY <2>3
<1>3. Slots \in S
  <2> HIDE DEF S
  <2>1. S \in SUBSET Nat
    BY DEF S
  <2> QED BY <1>1, <1>2, <2>1, Induct, Constants
<1> DEFINE G == CHOOSE g : Scans(f, s, a, Slots, g)
<1>4. Scans(f, s, a, Slots, G)
  BY <1>3
<1>5. ScanSector(f, s, a) = G[Slots]
  BY DEF ScanSector, Scans
<1> HIDE DEF G
<1>6. G[0] = a /\ \A n \in 1 .. Slots : G[n] = Take(G[n - 1], s, f[s][n - 1])
  BY <1>4, Constants DEF Scans
<1> QED BY <1>5, <1>6

\* What one slot does to the newest record so far.
Beats(cell, a) ==
    \/ a = None
    \/ cell.gen > a.gen
    \/ cell.gen = a.gen /\ a.state # cell.state /\ a.state.limit <= cell.state.limit
LEMMA TakeFacts ==
    ASSUME NEW a \in Located \cup {None}, NEW s \in Sectors, NEW c \in Cells
    PROVE  /\ Take(a, s, c) \in Located \cup {None}
           /\ c.kind # "record" => Take(a, s, c) = a
           /\ c.kind = "record" /\ Beats(c, a) =>
                Take(a, s, c) = [gen |-> c.gen, sector |-> s, state |-> c.state]
           /\ c.kind = "record" /\ ~Beats(c, a) => Take(a, s, c) = a
           /\ c.kind = "record" => Take(a, s, c) # None
<1> DEFINE k == [gen |-> c.gen, sector |-> s, state |-> c.state]
<1>1. CASE c.kind # "record"
  BY <1>1 DEF Take
<1>2. CASE c.kind = "record"
  <2>1. k \in Located /\ k # None /\ k.gen = c.gen /\ k.state = c.state
        /\ c.gen \in Int /\ c.state.limit \in Int
    BY <1>2, CellFacts, Constants DEF Located, Generations
  <2>2. CASE a = None
    BY <1>2, <2>1, <2>2 DEF Take, Beats
  <2>3. CASE a # None
    <3>1. a \in Located /\ a.gen \in Int /\ a.state.limit \in Int /\ a # None
      BY <2>3 DEF Located, Generations, States
    <3> DEFINE r == Resolve(a, k)
    <3>2. r = IF a.state = c.state \/ c.state.limit < a.state.limit THEN a ELSE k
      BY <2>1 DEF Resolve
    <3> HIDE DEF k, r
    <3>3. Take(a, s, c) = IF c.gen > a.gen THEN k ELSE IF c.gen = a.gen THEN r ELSE a
      BY <1>2, <2>3 DEF Take, k, r
    <3>4. Beats(c, a) => Take(a, s, c) = k
      BY <2>1, <2>3, <3>1, <3>2, <3>3 DEF Beats
    <3>5. ~Beats(c, a) => Take(a, s, c) = a
      BY <2>1, <2>3, <3>1, <3>2, <3>3 DEF Beats
    <3> QED BY <1>2, <2>1, <3>1, <3>4, <3>5 DEF k
  <2> QED BY <2>2, <2>3
<1> QED BY <1>1, <1>2

LEMMA TakeIs ==
    ASSUME NEW a \in Located \cup {None}, NEW s \in Sectors, NEW c \in Cells, c.kind = "record"
    PROVE  Take(a, s, c) = IF Beats(c, a) THEN [gen |-> c.gen, sector |-> s, state |-> c.state] ELSE a
<1> DEFINE k == [gen |-> c.gen, sector |-> s, state |-> c.state]
<1>1. ASSUME Beats(c, a) PROVE Take(a, s, c) = k
  BY <1>1, TakeFacts, ZenonT(40)
<1>2. ASSUME ~Beats(c, a) PROVE Take(a, s, c) = a
  BY <1>2, TakeFacts, ZenonT(40)
<1> HIDE DEF k
<1>3. Take(a, s, c) = IF Beats(c, a) THEN k ELSE a
  BY <1>1, <1>2
<1> QED BY <1>3 DEF k

\* a is at least as new as a record cell, and there is a record that says so.
Dominates(a, c) ==
    c.kind = "record" => /\ a # None
                         /\ \/ c.gen < a.gen
                            \/ c.gen = a.gen /\ c.state.limit <= a.state.limit
Witnessed(f, a) ==
    a # None => \E i \in SlotIds : /\ f[a.sector][i].kind = "record" /\ f[a.sector][i].gen = a.gen
                                   /\ f[a.sector][i].state = a.state

LEMMA TakeDominates ==
    ASSUME NEW a \in Located \cup {None}, NEW s \in Sectors, NEW c \in Cells
    PROVE  /\ Dominates(Take(a, s, c), c)
           /\ \A e \in Cells : Dominates(a, e) => Dominates(Take(a, s, c), e)
<1> DEFINE b == Take(a, s, c)
<1>1. CASE c.kind # "record"
  <2>1. b = a
    BY <1>1, TakeFacts
  <2> QED BY <1>1, <2>1 DEF Dominates
<1>2. CASE c.kind = "record"
  <2>1. c.gen \in Int /\ c.state.limit \in Int
    BY <1>2, CellFacts DEF Generations
  <2>2. a # None => a.gen \in Int /\ a.state.limit \in Int
    BY DEF Located, Generations, States
  <2>3. CASE Beats(c, a)
    <3>1. b # None /\ b.gen = c.gen /\ b.state = c.state
      <4>1. b = [gen |-> c.gen, sector |-> s, state |-> c.state]
        BY <1>2, <2>3, TakeIs
      <4>2. b # None
        BY <1>2, TakeFacts, Zenon
      <4> HIDE DEF b
      <4> QED BY <4>1, <4>2
    <3> HIDE DEF b
    <3>2. Dominates(b, c)
      BY <2>1, <3>1 DEF Dominates
    <3>3. ASSUME NEW e \in Cells, Dominates(a, e) PROVE Dominates(b, e)
      <4>1. e.kind = "record" => e.gen \in Int /\ e.state.limit \in Int
        BY CellFacts DEF Generations
      <4> QED BY <2>1, <2>2, <2>3, <3>1, <3>3, <4>1 DEF Dominates, Beats
    <3> QED BY <3>2, <3>3 DEF b
  <2>4. CASE ~Beats(c, a)
    <3>1. b = a
      BY <1>2, <2>4, TakeFacts
    <3> QED BY <1>2, <2>1, <2>2, <2>4, <3>1 DEF Dominates, Beats
  <2> QED BY <2>3, <2>4
<1> QED BY <1>1, <1>2

LEMMA TakeWitnessed ==
    ASSUME NEW f \in Flashes, NEW a \in Located \cup {None}, Witnessed(f, a),
           NEW s \in Sectors, NEW i \in SlotIds
    PROVE  Witnessed(f, Take(a, s, f[s][i]))
<1> DEFINE c == f[s][i]
           b == Take(a, s, c)
<1>1. c \in Cells
  BY DEF Flashes
<1>2. CASE b = a
  BY <1>2
<1>3. CASE b = [gen |-> c.gen, sector |-> s, state |-> c.state] /\ c.kind = "record"
  <2>1. b.sector = s /\ b.gen = c.gen /\ b.state = c.state
    BY <1>3
  <2> HIDE DEF b
  <2> QED BY <1>3, <2>1 DEF Witnessed, b
<1> QED BY <1>1, <1>2, <1>3, TakeFacts

LEMMA ScanSectorFacts ==
    ASSUME NEW f \in Flashes, NEW s \in Sectors, NEW a \in Located \cup {None}, Witnessed(f, a)
    PROVE  LET b == ScanSector(f, s, a) IN
           /\ b \in Located \cup {None} /\ Witnessed(f, b)
           /\ \A i \in SlotIds : Dominates(b, f[s][i])
           /\ \A e \in Cells : Dominates(a, e) => Dominates(b, e)
<1>1. PICK g : /\ g[0] = a
               /\ \A n \in 1 .. Slots : g[n] = Take(g[n - 1], s, f[s][n - 1])
               /\ ScanSector(f, s, a) = g[Slots]
  BY ScanRuns
<1> DEFINE P(n) == /\ g[n] \in Located \cup {None} /\ Witnessed(f, g[n])
                   /\ \A i \in SlotIds : i < n => Dominates(g[n], f[s][i])
                   /\ \A e \in Cells : Dominates(a, e) => Dominates(g[n], e)
           S == {n \in Nat : n <= Slots => P(n)}
<1>2. 0 \in S
  <2>1. P(0)
    BY <1>1 DEF SlotIds
  <2> HIDE DEF P
  <2> QED BY <2>1
<1>3. ASSUME NEW n \in S PROVE n + 1 \in S
  <2> SUFFICES ASSUME n + 1 <= Slots PROVE P(n + 1)
    OBVIOUS
  <2>1. P(n) /\ n \in SlotIds /\ n + 1 \in 1 .. Slots /\ (n + 1) - 1 = n
    BY Constants DEF SlotIds
  <2>2. g[n + 1] = Take(g[n], s, f[s][n]) /\ f[s][n] \in Cells
    BY <1>1, <2>1 DEF Flashes
  <2>3. g[n + 1] \in Located \cup {None} /\ Witnessed(f, g[n + 1])
    BY <2>1, <2>2, TakeFacts, TakeWitnessed
  <2>4. Dominates(g[n + 1], f[s][n]) /\ \A e \in Cells : Dominates(g[n], e) => Dominates(g[n + 1], e)
    BY <2>1, <2>2, TakeDominates
  <2>5. ASSUME NEW i \in SlotIds, i < n + 1 PROVE Dominates(g[n + 1], f[s][i])
    <3>1. CASE i = n
      BY <2>4, <3>1
    <3>2. CASE i # n
      <4>1. i < n /\ f[s][i] \in Cells
        BY <2>5, <3>2, Constants DEF SlotIds, Flashes
      <4> QED BY <2>1, <2>4, <4>1
    <3> QED BY <3>1, <3>2
  <2> QED BY <2>1, <2>3, <2>4, <2>5
<1>4. Slots \in S
  <2>1. S \in SUBSET Nat
    OBVIOUS
  <2> HIDE DEF S
  <2> QED BY <1>2, <1>3, <2>1, Induct, Constants
<1>5. P(Slots)
  <2> HIDE DEF P
  <2> QED BY <1>4, Constants
<1>6. \A i \in SlotIds : i < Slots
  BY Constants DEF SlotIds
<1> QED BY <1>1, <1>5, <1>6

\* newest returns a record of the highest generation, and of these one with the
\* largest reservation.
LEMMA NewestFacts ==
    ASSUME NEW f \in Flashes
    PROVE  /\ Newest(f) \in Located \cup {None}
           /\ Witnessed(f, Newest(f))
           /\ \A s \in Sectors, i \in SlotIds : Dominates(Newest(f), f[s][i])
<1> DEFINE a == ScanSector(f, 0, None)
           b == ScanSector(f, 1, a)
<1>1. 0 \in Sectors /\ 1 \in Sectors /\ Witnessed(f, None)
  BY DEF Sectors, Witnessed
<1>2. /\ a \in Located \cup {None} /\ Witnessed(f, a)
      /\ \A i \in SlotIds : Dominates(a, f[0][i])
  BY <1>1, ScanSectorFacts
<1> HIDE DEF a
<1>3. /\ b \in Located \cup {None} /\ Witnessed(f, b)
      /\ \A i \in SlotIds : Dominates(b, f[1][i])
      /\ \A e \in Cells : Dominates(a, e) => Dominates(b, e)
  BY <1>1, <1>2, ScanSectorFacts
<1>4. \A i \in SlotIds : f[0][i] \in Cells
  BY <1>1 DEF Flashes
<1>5. Newest(f) = b
  BY DEF Newest, a
<1> QED BY <1>2, <1>3, <1>4, <1>5 DEF Sectors

\* Only the record slots matter.
LEMMA SectorSame ==
    ASSUME NEW f, NEW h, NEW s, NEW a,
           \A i \in SlotIds : \/ f[s][i] = h[s][i]
                              \/ f[s][i].kind # "record" /\ h[s][i].kind # "record"
    PROVE  ScanSector(f, s, a) = ScanSector(h, s, a)
<1>1. PICK g : /\ g[0] = a
               /\ \A n \in 1 .. Slots : g[n] = Take(g[n - 1], s, f[s][n - 1])
               /\ ScanSector(f, s, a) = g[Slots]
  BY ScanRuns
<1>2. PICK k : /\ k[0] = a
               /\ \A n \in 1 .. Slots : k[n] = Take(k[n - 1], s, h[s][n - 1])
               /\ ScanSector(h, s, a) = k[Slots]
  BY ScanRuns
<1> DEFINE S == {n \in Nat : n <= Slots => g[n] = k[n]}
<1>3. 0 \in S
  BY <1>1, <1>2
<1>4. ASSUME NEW n \in S PROVE n + 1 \in S
  <2> SUFFICES ASSUME n + 1 <= Slots PROVE g[n + 1] = k[n + 1]
    OBVIOUS
  <2>1. g[n] = k[n] /\ n \in SlotIds /\ n + 1 \in 1 .. Slots /\ (n + 1) - 1 = n
    BY Constants DEF SlotIds
  <2>2. g[n + 1] = Take(g[n], s, f[s][n]) /\ k[n + 1] = Take(g[n], s, h[s][n])
    BY <1>1, <1>2, <2>1
  <2>3. CASE f[s][n] = h[s][n]
    BY <2>2, <2>3
  <2>4. CASE f[s][n].kind # "record" /\ h[s][n].kind # "record"
    BY <2>2, <2>4 DEF Take
  <2> QED BY <2>1, <2>3, <2>4
<1>5. Slots \in S
  <2>1. S \in SUBSET Nat
    OBVIOUS
  <2> HIDE DEF S
  <2> QED BY <1>3, <1>4, <2>1, Induct, Constants
<1> QED BY <1>1, <1>2, <1>5, Constants

LEMMA NewestSame ==
    ASSUME NEW f, NEW h,
           \A s \in Sectors, i \in SlotIds :
             \/ f[s][i] = h[s][i]
             \/ f[s][i].kind # "record" /\ h[s][i].kind # "record"
    PROVE  Newest(f) = Newest(h)
<1> DEFINE a == ScanSector(f, 0, None)
<1>1. a = ScanSector(h, 0, None)
  BY SectorSame DEF Sectors
<1> HIDE DEF a
<1>2. ScanSector(f, 1, a) = ScanSector(h, 1, a)
  BY SectorSame DEF Sectors
<1>3. Newest(f) = ScanSector(f, 1, a) /\ Newest(h) = ScanSector(h, 1, a)
  BY <1>1 DEF Newest, a
<1> QED BY <1>2, <1>3

\* A record with a generation above all others is the newest.
LEMMA NewestWritten ==
    ASSUME NEW f \in Flashes, NEW h \in Flashes, NEW s \in Sectors, NEW k \in SlotIds,
           h[s][k].kind = "record",
           \A t \in Sectors, i \in SlotIds :
             t # s \/ i # k => /\ h[t][i] = f[t][i]
                               /\ f[t][i].kind = "record" => f[t][i].gen < h[s][k].gen
    PROVE  Newest(h) = [gen |-> h[s][k].gen, sector |-> s, state |-> h[s][k].state]
<1> DEFINE N == Newest(h)
<1>1. N \in Located \cup {None} /\ Witnessed(h, N) /\ Dominates(N, h[s][k])
  BY NewestFacts
<1> HIDE DEF N
<1>2. N # None /\ N \in Located /\ h[s][k].gen <= N.gen
      /\ h[s][k].gen \in Int
  <2>1. h[s][k] \in Cells
    BY DEF Flashes
  <2> QED BY <1>1, <2>1, CellFacts DEF Dominates, Located, Generations
<1>3. PICK i \in SlotIds : /\ h[N.sector][i].kind = "record" /\ h[N.sector][i].gen = N.gen
                           /\ h[N.sector][i].state = N.state
  BY <1>1, <1>2 DEF Witnessed
<1>4. N.sector \in Sectors /\ N.gen \in Int
  BY <1>2 DEF Located, Generations
<1>5. N.sector = s /\ i = k
  <2>1. ASSUME N.sector # s \/ i # k PROVE FALSE
    <3>1. h[N.sector][i] = f[N.sector][i] /\ f[N.sector][i].gen < h[s][k].gen
      BY <1>3, <1>4, <2>1
    <3> QED BY <1>2, <1>3, <1>4, <3>1
  <2> QED BY <2>1
<1>6. N = [gen |-> N.gen, sector |-> N.sector, state |-> N.state]
  BY <1>2 DEF Located
<1> QED BY <1>3, <1>5, <1>6 DEF N

\* A scan that reads fewer records stays behind, and follows when the other one
\* takes a record.
Behind(a, b) ==
    \/ b = None
    \/ /\ a # None
       /\ \/ b.gen < a.gen
          \/ b.gen = a.gen /\ (b.state.limit < a.state.limit \/ b.state = a.state)
LEMMA TakeBehind ==
    ASSUME NEW a \in Located \cup {None}, NEW b \in Located \cup {None}, Behind(a, b),
           NEW s \in Sectors, NEW c \in Cells
    PROVE  /\ Behind(Take(a, s, c), Take(b, s, c))
           /\ c.kind = "record" /\ Beats(c, a) => Take(a, s, c) = Take(b, s, c)
<1> DEFINE k == [gen |-> c.gen, sector |-> s, state |-> c.state]
           x == Take(a, s, c)
           y == Take(b, s, c)
<1>1. CASE c.kind # "record"
  BY <1>1, TakeFacts
<1>2. CASE c.kind = "record"
  <2>1. k \in Located /\ k # None /\ k.gen = c.gen /\ k.state = c.state
        /\ c.gen \in Int /\ c.state.limit \in Int
    BY <1>2, CellFacts, Constants DEF Located, Generations
  <2>2. /\ a # None => a.gen \in Int /\ a.state.limit \in Int
        /\ b # None => b.gen \in Int /\ b.state.limit \in Int
    BY DEF Located, Generations, States
  <2>3. /\ x = IF Beats(c, a) THEN k ELSE a
        /\ y = IF Beats(c, b) THEN k ELSE b
    BY <1>2, TakeIs
  <2> HIDE DEF k, x, y
  <2>4. CASE Beats(c, a)
    <3>1. Beats(c, b)
      BY <2>1, <2>2, <2>4 DEF Beats, Behind
    <3>2. Behind(k, k)
      BY <2>1 DEF Behind
    <3> QED BY <2>3, <2>4, <3>1, <3>2 DEF x, y
  <2>5. CASE ~Beats(c, a)
    <3>1. x = a
      BY <2>3, <2>5
    <3>2. Behind(a, k)
      BY <2>1, <2>2, <2>5 DEF Beats, Behind
    <3>3. Behind(x, y)
      BY <2>3, <3>1, <3>2
    <3> QED BY <2>5, <3>3 DEF x, y
  <2> QED BY <2>4, <2>5
<1> QED BY <1>1, <1>2

\* Sector 0 read after a prefix of it was erased.
LEMMA SectorBehind ==
    ASSUME NEW f \in Flashes, NEW h \in Flashes, NEW s \in Sectors, NEW m \in Nat,
           \A i \in SlotIds : IF i < m THEN h[s][i].kind # "record" ELSE h[s][i] = f[s][i]
    PROVE  LET a == ScanSector(f, s, None)
               b == ScanSector(h, s, None)
           IN a \in Located \cup {None} /\ b \in Located \cup {None} /\ Behind(a, b)
<1>1. PICK g : /\ g[0] = None
               /\ \A n \in 1 .. Slots : g[n] = Take(g[n - 1], s, f[s][n - 1])
               /\ ScanSector(f, s, None) = g[Slots]
  BY ScanRuns
<1>2. PICK k : /\ k[0] = None
               /\ \A n \in 1 .. Slots : k[n] = Take(k[n - 1], s, h[s][n - 1])
               /\ ScanSector(h, s, None) = k[Slots]
  BY ScanRuns
<1> DEFINE P(n) == /\ g[n] \in Located \cup {None} /\ k[n] \in Located \cup {None}
                   /\ Behind(g[n], k[n])
                   /\ n <= m => k[n] = None
           S == {n \in Nat : n <= Slots => P(n)}
<1>3. 0 \in S
  BY <1>1, <1>2 DEF Behind
<1>4. ASSUME NEW n \in S PROVE n + 1 \in S
  <2> SUFFICES ASSUME n + 1 <= Slots PROVE P(n + 1)
    OBVIOUS
  <2>1. P(n) /\ n \in SlotIds /\ n + 1 \in 1 .. Slots /\ (n + 1) - 1 = n
    BY Constants DEF SlotIds
  <2>2. /\ g[n + 1] = Take(g[n], s, f[s][n]) /\ k[n + 1] = Take(k[n], s, h[s][n])
        /\ f[s][n] \in Cells /\ h[s][n] \in Cells
    BY <1>1, <1>2, <2>1 DEF Flashes
  <2>3. g[n + 1] \in Located \cup {None} /\ k[n + 1] \in Located \cup {None}
    BY <2>1, <2>2, TakeFacts
  <2>4. CASE n < m
    <3>1. k[n] = None /\ h[s][n].kind # "record"
      BY <2>1, <2>4
    <3>2. k[n + 1] = None
      BY <2>2, <3>1 DEF Take
    <3> QED BY <2>3, <3>2 DEF Behind
  <2>5. CASE ~(n < m)
    <3>1. h[s][n] = f[s][n] /\ ~(n + 1 <= m)
      BY <2>1, <2>5
    <3>2. Behind(g[n + 1], k[n + 1])
      BY <2>1, <2>2, <3>1, TakeBehind
    <3> QED BY <2>3, <3>1, <3>2
  <2> QED BY <2>4, <2>5
<1>5. Slots \in S
  <2>1. S \in SUBSET Nat
    OBVIOUS
  <2> HIDE DEF S
  <2> QED BY <1>3, <1>4, <2>1, Induct, Constants
<1>6. P(Slots)
  <2> HIDE DEF P
  <2> QED BY <1>5, Constants
<1> QED BY <1>1, <1>2, <1>6

\* Then sector 1, which is as it was: the scans agree once a record of it counts.
LEMMA SectorCatches ==
    ASSUME NEW f \in Flashes, NEW h \in Flashes, NEW s \in Sectors,
           \A i \in SlotIds : h[s][i] = f[s][i],
           NEW a \in Located \cup {None}, NEW b \in Located \cup {None}, Behind(a, b),
           a # None => a.sector # s
    PROVE  LET x == ScanSector(f, s, a)
               y == ScanSector(h, s, b)
           IN x # None /\ x.sector = s => x = y
<1>1. PICK g : /\ g[0] = a
               /\ \A n \in 1 .. Slots : g[n] = Take(g[n - 1], s, f[s][n - 1])
               /\ ScanSector(f, s, a) = g[Slots]
  BY ScanRuns
<1>2. PICK k : /\ k[0] = b
               /\ \A n \in 1 .. Slots : k[n] = Take(k[n - 1], s, h[s][n - 1])
               /\ ScanSector(h, s, b) = k[Slots]
  BY ScanRuns
<1> DEFINE P(n) == /\ g[n] \in Located \cup {None} /\ k[n] \in Located \cup {None}
                   /\ Behind(g[n], k[n])
                   /\ g[n] # None /\ g[n].sector = s => g[n] = k[n]
           S == {n \in Nat : n <= Slots => P(n)}
<1>3. 0 \in S
  BY <1>1, <1>2
<1>4. ASSUME NEW n \in S PROVE n + 1 \in S
  <2> SUFFICES ASSUME n + 1 <= Slots PROVE P(n + 1)
    OBVIOUS
  <2>1. P(n) /\ n \in SlotIds /\ n + 1 \in 1 .. Slots /\ (n + 1) - 1 = n
    BY Constants DEF SlotIds
  <2> DEFINE c == f[s][n]
  <2>2. /\ g[n + 1] = Take(g[n], s, c) /\ k[n + 1] = Take(k[n], s, c)
        /\ c \in Cells
    BY <1>1, <1>2, <2>1 DEF Flashes
  <2> HIDE DEF c
  <2>3. g[n + 1] \in Located \cup {None} /\ k[n + 1] \in Located \cup {None}
    BY <2>1, <2>2, TakeFacts
  <2>4. Behind(g[n + 1], k[n + 1])
    BY <2>1, <2>2, TakeBehind
  <2>5. CASE c.kind = "record" /\ Beats(c, g[n])
    <3>1. g[n + 1] = k[n + 1]
      BY <2>1, <2>2, <2>5, TakeBehind
    <3> QED BY <2>3, <2>4, <3>1
  <2>6. CASE ~(c.kind = "record" /\ Beats(c, g[n]))
    <3>1. g[n + 1] = g[n]
      BY <2>1, <2>2, <2>6, TakeFacts
    <3>2. g[n] # None /\ g[n].sector = s => g[n + 1] = k[n + 1]
      BY <2>1, <2>2
    <3> QED BY <2>3, <2>4, <3>1, <3>2
  <2> QED BY <2>5, <2>6
<1>5. Slots \in S
  <2>1. S \in SUBSET Nat
    OBVIOUS
  <2> HIDE DEF S
  <2> QED BY <1>3, <1>4, <2>1, Induct, Constants
<1>6. P(Slots)
  <2> HIDE DEF P
  <2> QED BY <1>5, Constants
<1> QED BY <1>1, <1>2, <1>6

\* Records that did not count in a sector read last are not missed.
LEMMA SectorKept ==
    ASSUME NEW f \in Flashes, NEW h \in Flashes, NEW s \in Sectors,
           \A i \in SlotIds : h[s][i].kind # "record" \/ h[s][i] = f[s][i],
           NEW a \in Located \cup {None}
    PROVE  LET x == ScanSector(f, s, a)
               y == ScanSector(h, s, a)
           IN x # None /\ x.sector # s => x = a /\ y = a
<1>1. PICK g : /\ g[0] = a
               /\ \A n \in 1 .. Slots : g[n] = Take(g[n - 1], s, f[s][n - 1])
               /\ ScanSector(f, s, a) = g[Slots]
  BY ScanRuns
<1>2. PICK k : /\ k[0] = a
               /\ \A n \in 1 .. Slots : k[n] = Take(k[n - 1], s, h[s][n - 1])
               /\ ScanSector(h, s, a) = k[Slots]
  BY ScanRuns
<1> DEFINE P(n) == /\ g[n] \in Located \cup {None}
                   /\ \/ g[n] = a /\ k[n] = a
                      \/ g[n] # None /\ g[n].sector = s
           S == {n \in Nat : n <= Slots => P(n)}
<1>3. 0 \in S
  BY <1>1, <1>2
<1>4. ASSUME NEW n \in S PROVE n + 1 \in S
  <2> SUFFICES ASSUME n + 1 <= Slots PROVE P(n + 1)
    OBVIOUS
  <2>1. P(n) /\ n \in SlotIds /\ n + 1 \in 1 .. Slots /\ (n + 1) - 1 = n
    BY Constants DEF SlotIds
  <2> DEFINE c == f[s][n]  e == h[s][n]
  <2>2. /\ g[n + 1] = Take(g[n], s, c) /\ k[n + 1] = Take(k[n], s, e)
        /\ c \in Cells /\ e \in Cells
    BY <1>1, <1>2, <2>1 DEF Flashes
  <2>3. e.kind # "record" \/ e = c
    BY <2>1
  <2> HIDE DEF c, e
  <2>4. g[n + 1] \in Located \cup {None}
    BY <2>1, <2>2, TakeFacts
  <2>5. CASE c.kind = "record" /\ Beats(c, g[n])
    <3>1. g[n + 1] = [gen |-> c.gen, sector |-> s, state |-> c.state] /\ g[n + 1] # None
      BY <2>1, <2>2, <2>5, TakeFacts
    <3> QED BY <2>4, <3>1
  <2>6. CASE ~(c.kind = "record" /\ Beats(c, g[n]))
    <3>1. g[n + 1] = g[n]
      BY <2>1, <2>2, <2>6, TakeFacts
    <3>2. g[n] = a /\ k[n] = a => k[n + 1] = a
      <4>1. CASE e.kind # "record"
        BY <2>2, <4>1, TakeFacts
      <4>2. CASE e = c
        BY <2>2, <3>1, <4>2
      <4> QED BY <2>3, <4>1, <4>2
    <3> QED BY <2>1, <2>4, <3>1, <3>2
  <2> QED BY <2>5, <2>6
<1>5. Slots \in S
  <2>1. S \in SUBSET Nat
    OBVIOUS
  <2> HIDE DEF S
  <2> QED BY <1>3, <1>4, <2>1, Induct, Constants
<1>6. P(Slots)
  <2> HIDE DEF P
  <2> QED BY <1>5, Constants
<1> QED BY <1>1, <1>2, <1>6

\* The scan of sector 0 returns nothing of sector 1.
LEMMA SectorOwn ==
    ASSUME NEW f \in Flashes, NEW s \in Sectors
    PROVE  LET x == ScanSector(f, s, None) IN
           x \in Located \cup {None} /\ (x # None => x.sector = s)
<1>1. PICK g : /\ g[0] = None
               /\ \A n \in 1 .. Slots : g[n] = Take(g[n - 1], s, f[s][n - 1])
               /\ ScanSector(f, s, None) = g[Slots]
  BY ScanRuns
<1> DEFINE P(n) == g[n] \in Located \cup {None} /\ (g[n] # None => g[n].sector = s)
           S == {n \in Nat : n <= Slots => P(n)}
<1>2. 0 \in S
  BY <1>1
<1>3. ASSUME NEW n \in S PROVE n + 1 \in S
  <2> SUFFICES ASSUME n + 1 <= Slots PROVE P(n + 1)
    OBVIOUS
  <2>1. P(n) /\ n \in SlotIds /\ n + 1 \in 1 .. Slots /\ (n + 1) - 1 = n
    BY Constants DEF SlotIds
  <2> DEFINE c == f[s][n]
  <2>2. g[n + 1] = Take(g[n], s, c) /\ c \in Cells
    BY <1>1, <2>1 DEF Flashes
  <2> HIDE DEF c
  <2>3. \/ g[n + 1] = g[n]
        \/ g[n + 1] = [gen |-> c.gen, sector |-> s, state |-> c.state]
    BY <2>1, <2>2, TakeFacts, Zenon
  <2>4. g[n + 1] \in Located \cup {None}
    BY <2>1, <2>2, TakeFacts
  <2> QED BY <2>1, <2>3, <2>4
<1>4. Slots \in S
  <2>1. S \in SUBSET Nat
    OBVIOUS
  <2> HIDE DEF S
  <2> QED BY <1>2, <1>3, <2>1, Induct, Constants
<1>5. P(Slots)
  <2> HIDE DEF P
  <2> QED BY <1>4, Constants
<1> QED BY <1>1, <1>5

\* Erasing (a prefix of) the sector that does not hold the newest record does
\* not change which record is newest.
LEMMA NewestErased ==
    ASSUME NEW f \in Flashes, NEW h \in Flashes, NEW t \in Sectors, NEW m \in Nat,
           Newest(f) # None => Newest(f).sector # t,
           \A s \in Sectors, i \in SlotIds :
             IF s = t /\ i < m THEN h[s][i].kind # "record" ELSE h[s][i] = f[s][i]
    PROVE  Newest(h) = Newest(f)
<1> DEFINE N == Newest(f)  M == Newest(h)
<1>1. /\ N \in Located \cup {None} /\ M \in Located \cup {None}
      /\ Witnessed(h, M) /\ \A s \in Sectors, i \in SlotIds : Dominates(N, f[s][i])
  BY NewestFacts
<1>2. CASE N = None
  <2> SUFFICES ASSUME M # None PROVE FALSE
    BY <1>2
  <2> HIDE DEF N, M
  <2>1. PICK i \in SlotIds : h[M.sector][i].kind = "record"
    BY <1>1 DEF Witnessed
  <2>2. M.sector \in Sectors
    BY <1>1 DEF Located
  <2>3. h[M.sector][i] = f[M.sector][i]
    BY <2>1, <2>2
  <2> QED BY <1>1, <1>2, <2>1, <2>2, <2>3 DEF Dominates
<1>3. CASE N # None
  <2>0. N \in Located /\ N.sector \in {0, 1} /\ N.sector # t
    BY <1>1, <1>3 DEF Located, Sectors
  <2> DEFINE a == ScanSector(f, 0, None)  b == ScanSector(h, 0, None)
  <2>1. N = ScanSector(f, 1, a) /\ M = ScanSector(h, 1, b)
    BY DEF Newest
  <2>2. 0 \in Sectors /\ 1 \in Sectors
    BY DEF Sectors
  <2>3. /\ a \in Located \cup {None} /\ (a # None => a.sector = 0)
        /\ b \in Located \cup {None}
    BY <2>2, SectorOwn
  <2>4. CASE t = 1
    <3>1. \A i \in SlotIds : f[0][i] = h[0][i]
      BY <2>2, <2>4
    <3>2. a = b
      BY <3>1, SectorSame
    <3>3. \A i \in SlotIds : h[1][i].kind # "record" \/ h[1][i] = f[1][i]
      BY <2>2, <2>4
    <3> HIDE DEF a, b, N, M
    <3>4. ScanSector(f, 1, a) = a /\ ScanSector(h, 1, a) = a
      BY <1>3, <2>0, <2>1, <2>2, <2>3, <2>4, <3>3, SectorKept
    <3> QED BY <2>1, <3>2, <3>4 DEF N, M
  <2>5. CASE t = 0
    <3>1. \A i \in SlotIds : IF i < m THEN h[0][i].kind # "record" ELSE h[0][i] = f[0][i]
      BY <2>2, <2>5
    <3>2. Behind(a, b)
      BY <2>2, <3>1, SectorBehind
    <3>3. \A i \in SlotIds : h[1][i] = f[1][i]
      BY <2>2, <2>5
    <3> HIDE DEF a, b, N, M
    <3>4. a # None => a.sector # 1
      BY <2>3
    <3>5. N.sector = 1
      BY <2>0, <2>5
    <3>6. N = M
      BY <1>3, <2>1, <2>2, <2>3, <3>2, <3>3, <3>4, <3>5, SectorCatches
    <3> QED BY <3>6 DEF N, M
  <2> QED BY <2>4, <2>5 DEF Sectors
<1> QED BY <1>2, <1>3

\* A scan b that reads one more record m than the scan a: it is where a is, or at m.
Ahead(a, b, m) ==
    \/ a = None /\ b = None
    \/ a # None /\ b # None /\ a.gen = b.gen /\ a.state = b.state
    \/ /\ b # None /\ b.gen = m.gen /\ b.state = m.state
       /\ \/ a = None
          \/ a.gen < m.gen
          \/ a.gen = m.gen /\ a.state.limit <= m.state.limit
LEMMA TakeAhead ==
    ASSUME NEW a \in Located \cup {None}, NEW b \in Located \cup {None}, NEW m \in Cells,
           m.kind = "record", Ahead(a, b, m), NEW s \in Sectors
    PROVE  /\ \A c \in Cells : Ahead(Take(a, s, c), Take(b, s, c), m)
           /\ Ahead(a, Take(b, s, m), m)
<1>1. m.gen \in Int /\ m.state.limit \in Int
  BY CellFacts DEF Generations
<1>2. /\ a # None => a.gen \in Int /\ a.state.limit \in Int
      /\ b # None => b.gen \in Int /\ b.state.limit \in Int
  BY DEF Located, Generations, States
<1>3. ASSUME NEW c \in Cells PROVE Ahead(Take(a, s, c), Take(b, s, c), m)
  <2>1. CASE c.kind # "record"
    BY <2>1, TakeFacts
  <2>2. CASE c.kind = "record"
    <3> DEFINE k == [gen |-> c.gen, sector |-> s, state |-> c.state]
               x == Take(a, s, c)
               y == Take(b, s, c)
    <3>1. k \in Located /\ k # None /\ k.gen = c.gen /\ k.state = c.state
          /\ c.gen \in Int /\ c.state.limit \in Int
      BY <2>2, CellFacts, Constants DEF Located, Generations
    <3>2. x = (IF Beats(c, a) THEN k ELSE a) /\ y = (IF Beats(c, b) THEN k ELSE b)
      BY <2>2, TakeIs
    <3> HIDE DEF k, x, y
    <3>3. Ahead(k, k, m)
      BY <3>1 DEF Ahead
    <3>4. CASE Beats(c, a) /\ ~Beats(c, b)
      <4>1. Ahead(k, b, m)
        BY <1>1, <1>2, <3>1, <3>4 DEF Ahead, Beats
      <4> QED BY <3>2, <3>4, <4>1 DEF x, y
    <3>5. CASE ~Beats(c, a) /\ Beats(c, b)
      <4>1. Ahead(a, k, m)
        BY <1>1, <1>2, <3>1, <3>5 DEF Ahead, Beats
      <4> QED BY <3>2, <3>5, <4>1 DEF x, y
    <3> QED BY <3>2, <3>3, <3>4, <3>5 DEF x, y
  <2> QED BY <2>1, <2>2
<1>4. Ahead(a, Take(b, s, m), m)
  <2> DEFINE k == [gen |-> m.gen, sector |-> s, state |-> m.state]
             y == Take(b, s, m)
  <2>1. k # None /\ k.gen = m.gen /\ k.state = m.state
    BY CellFacts, Constants DEF Located, Generations
  <2>2. y = (IF Beats(m, b) THEN k ELSE b)
    BY TakeIs
  <2> HIDE DEF k, y
  <2>3. CASE Beats(m, b)
    <3>1. Ahead(a, k, m)
      BY <1>1, <1>2, <2>1, <2>3 DEF Ahead, Beats
    <3> QED BY <2>2, <2>3, <3>1 DEF y
  <2> QED BY <2>2, <2>3 DEF y
<1> QED BY <1>3, <1>4

LEMMA SectorAhead ==
    ASSUME NEW f \in Flashes, NEW h \in Flashes, NEW s \in Sectors, NEW m \in Cells,
           m.kind = "record",
           \A i \in SlotIds : \/ h[s][i] = f[s][i]
                              \/ f[s][i].kind # "record" /\ h[s][i] = m,
           NEW a \in Located \cup {None}, NEW b \in Located \cup {None}, Ahead(a, b, m)
    PROVE  LET x == ScanSector(f, s, a)
               y == ScanSector(h, s, b)
           IN x \in Located \cup {None} /\ y \in Located \cup {None} /\ Ahead(x, y, m)
<1>1. PICK g : /\ g[0] = a
               /\ \A n \in 1 .. Slots : g[n] = Take(g[n - 1], s, f[s][n - 1])
               /\ ScanSector(f, s, a) = g[Slots]
  BY ScanRuns
<1>2. PICK k : /\ k[0] = b
               /\ \A n \in 1 .. Slots : k[n] = Take(k[n - 1], s, h[s][n - 1])
               /\ ScanSector(h, s, b) = k[Slots]
  BY ScanRuns
<1> DEFINE P(n) == /\ g[n] \in Located \cup {None} /\ k[n] \in Located \cup {None}
                   /\ Ahead(g[n], k[n], m)
           S == {n \in Nat : n <= Slots => P(n)}
<1>3. 0 \in S
  BY <1>1, <1>2
<1>4. ASSUME NEW n \in S PROVE n + 1 \in S
  <2> SUFFICES ASSUME n + 1 <= Slots PROVE P(n + 1)
    OBVIOUS
  <2>1. P(n) /\ n \in SlotIds /\ n + 1 \in 1 .. Slots /\ (n + 1) - 1 = n
    BY Constants DEF SlotIds
  <2> DEFINE c == f[s][n]  e == h[s][n]
  <2>2. /\ g[n + 1] = Take(g[n], s, c) /\ k[n + 1] = Take(k[n], s, e)
        /\ c \in Cells /\ e \in Cells
    BY <1>1, <1>2, <2>1 DEF Flashes
  <2>3. e = c \/ (c.kind # "record" /\ e = m)
    BY <2>1
  <2> HIDE DEF c, e
  <2>4. g[n + 1] \in Located \cup {None} /\ k[n + 1] \in Located \cup {None}
    <3> DEFINE x == g[n]  y == k[n]
    <3>1. x \in Located \cup {None} /\ y \in Located \cup {None}
      BY <2>1
    <3> HIDE DEF x, y
    <3>2. Take(x, s, c) \in Located \cup {None} /\ Take(y, s, e) \in Located \cup {None}
      BY <2>2, <3>1, TakeFacts
    <3> QED BY <2>2, <3>2 DEF x, y
  <2>5. CASE e = c
    <3>1. Ahead(g[n + 1], k[n + 1], m)
      BY <2>1, <2>2, <2>5, TakeAhead
    <3> QED BY <2>4, <3>1
  <2>6. CASE c.kind # "record" /\ e = m
    <3>1. g[n + 1] = g[n]
      BY <2>1, <2>2, <2>6, TakeFacts
    <3>2. Ahead(g[n], k[n + 1], m)
      <4> DEFINE x == g[n]  y == k[n]
      <4>1. x \in Located \cup {None} /\ y \in Located \cup {None} /\ Ahead(x, y, m)
        BY <2>1
      <4> HIDE DEF x, y
      <4>2. Ahead(x, Take(y, s, m), m)
        BY <4>1, TakeAhead
      <4>3. k[n + 1] = Take(y, s, m)
        BY <2>2, <2>6 DEF y
      <4> QED BY <4>2, <4>3 DEF x
    <3> QED BY <2>4, <3>1, <3>2
  <2> QED BY <2>3, <2>5, <2>6
<1>5. Slots \in S
  <2>1. S \in SUBSET Nat
    OBVIOUS
  <2> HIDE DEF S
  <2> QED BY <1>3, <1>4, <2>1, Induct, Constants
<1>6. P(Slots)
  <2> HIDE DEF P
  <2> QED BY <1>5, Constants
<1> QED BY <1>1, <1>2, <1>6

\* A record that appears becomes the newest, or the newest state stays.
LEMMA NewestSettled ==
    ASSUME NEW f \in Flashes, NEW h \in Flashes, NEW m \in Cells, m.kind = "record",
           \A s \in Sectors, i \in SlotIds :
             h[s][i] = f[s][i] \/ (f[s][i].kind # "record" /\ h[s][i] = m)
    PROVE  Ahead(Newest(f), Newest(h), m)
<1> DEFINE a == ScanSector(f, 0, None)  b == ScanSector(h, 0, None)
<1>1. 0 \in Sectors /\ 1 \in Sectors /\ Ahead(None, None, m)
  BY DEF Sectors, Ahead
<1>2. a \in Located \cup {None} /\ b \in Located \cup {None} /\ Ahead(a, b, m)
  BY <1>1, SectorAhead
<1> HIDE DEF a, b
<1>3. Ahead(ScanSector(f, 1, a), ScanSector(h, 1, b), m)
  BY <1>1, <1>2, SectorAhead
<1> QED BY <1>3 DEF Newest, a, b

-----------------------------------------------------------------------------
(* Initial states, and the steps that leave the flash alone. *)

LEMMA NewestOfView ==
    ASSUME NEW f \in Flashes
    PROVE  /\ View(f) \in Views
           /\ Newest(f) = None => View(f) = [state |-> None, floors |-> NoFloors]
           /\ Newest(f) # None => /\ View(f).state = Newest(f).state
                                  /\ View(f).floors = ScanReplay(f, Newest(f).sector, Newest(f).gen)
<1>1. Newest(f) \in Located \cup {None}
  BY NewestFacts
<1>2. CASE Newest(f) = None
  BY <1>2, CellsMade DEF View, Views
<1>3. CASE Newest(f) # None
  <2>1. Newest(f).state \in States /\ Newest(f).sector \in Sectors
    BY <1>1, <1>3 DEF Located
  <2>2. ScanReplay(f, Newest(f).sector, Newest(f).gen) \in Floors
    BY <2>1, ScanFacts
  <2> QED BY <1>3, <2>1, <2>2 DEF View, Views
<1> QED BY <1>2, <1>3

LEMMA UnscannedFacts ==
    /\ Unscanned \in Caches /\ Unscanned.scanned = FALSE /\ Unscanned.located = None
    /\ Unscanned.replayGen = None
  BY CellsMade DEF Unscanned, Caches

LEMMA InitHolds == Init => IInv
<1> SUFFICES ASSUME Init PROVE IInv
  OBVIOUS
<1>1. PICK blank \in {Erased, Torn} : flash = [s \in Sectors |-> [i \in SlotIds |-> blank]]
  BY DEF Init
<1>2. flash \in Flashes
  BY <1>1, CellsMade DEF Flashes
<1>3. \A s \in Sectors, i \in SlotIds : flash[s][i].kind \in {"erased", "torn"}
  BY <1>1, CellsMade
<1>4. Newest(flash) = None
  <2>1. Witnessed(flash, Newest(flash)) /\ Newest(flash) \in Located \cup {None}
    BY <1>2, NewestFacts
  <2>2. Newest(flash) # None => Newest(flash).sector \in Sectors
    BY <2>1 DEF Located
  <2> QED BY <1>3, <2>1, <2>2 DEF Witnessed
<1>5. boot = View(flash)
  BY <1>4 DEF Init, View
<1>6. GenerationsBounded(flash, None) /\ AckedHolds(flash, None, ackedLimit) /\ Late(flash) = {}
  BY <1>3 DEF GenerationsBounded, AckedHolds, Late, Init
<1>7. Typed
  <2>1. ram = Unscanned /\ op = Idle /\ faults = 0 /\ ackedLimit = 0 /\ doubt = FALSE
    BY DEF Init
  <2>2. 0 \in Nat /\ 0 \in 0 .. MaxLimit
    BY Constants
  <2> QED BY <1>2, <2>1, <2>2, UnscannedFacts DEF Typed
<1>8. LeftoversBounded(flash, None)
  BY DEF LeftoversBounded
<1>9. op = Idle /\ ram = Unscanned /\ CachesHold(ram, flash, None)
  BY UnscannedFacts DEF Init, CachesHold
<1> QED BY <1>4, <1>5, <1>6, <1>7, <1>8, <1>9 DEF IInv

\* The current record and the floors a call starts from.
LEMMA CurrentFacts ==
    ASSUME IInv, op = Idle
    PROVE  LET N == Newest(flash) IN
           /\ Current = N /\ N \in Located \cup {None}
           /\ N # None => /\ N.sector \in Sectors /\ N.gen \in Generations /\ N.state \in States
                          /\ CachedReplay(N) \in Floors
                          /\ AtMost(CachedReplay(N), ScanReplay(flash, N.sector, N.gen))
<1> DEFINE N == Newest(flash)
<1>1. flash \in Flashes /\ ram \in Caches /\ CachesHold(ram, flash, N)
  BY DEF IInv, Typed
<1>2. N \in Located \cup {None}
  BY <1>1, NewestFacts
<1>3. Current = N
  BY <1>1 DEF Current, CachesHold
<1> HIDE DEF N
<1>4. ASSUME N # None
      PROVE  /\ N.sector \in Sectors /\ N.gen \in Generations /\ N.state \in States
             /\ CachedReplay(N) \in Floors
             /\ AtMost(CachedReplay(N), ScanReplay(flash, N.sector, N.gen))
  <2>1. N.sector \in Sectors /\ N.gen \in Generations /\ N.state \in States
    BY <1>2, <1>4 DEF Located
  <2> DEFINE F == ScanReplay(flash, N.sector, N.gen)
  <2>2. F \in Floors
    BY <1>1, <2>1, ScanFacts
  <2>3. CASE ram.replayGen = N.gen
    <3>1. CachedReplay(N) = ram.replay /\ ram.replay \in Floors
      BY <1>1, <2>3 DEF CachedReplay, Caches
    <3>2. ram.replayGen # None
      BY <2>1, <2>3, Constants
    <3>3. AtMost(ram.replay, F)
      BY <1>1, <3>2, UnscannedFacts DEF CachesHold
    <3> QED BY <2>1, <3>1, <3>3
  <2>4. CASE ram.replayGen # N.gen
    <3>1. CachedReplay(N) = F
      BY <2>4 DEF CachedReplay
    <3>2. AtMost(F, F)
      BY <2>2 DEF AtMost, Floors
    <3> QED BY <2>1, <2>2, <3>1, <3>2
  <2> QED BY <2>3, <2>4
<1> QED BY <1>2, <1>3, <1>4 DEF N

LEMMA CacheStep ==
    ASSUME IInv, UNCHANGED <<flash, op, faults, boot, ackedLimit, doubt>>,
           op = Idle, ram' \in Caches, CachesHold(ram', flash, Newest(flash))
    PROVE  IInv'
<1>1. ~ram'.scanned => ram' = Unscanned
  BY DEF CachesHold
<1> QED BY <1>1 DEF IInv, Typed

LEMMA LoadKeeps == ASSUME IInv, Load PROVE IInv'
<1>1. op = Idle /\ ~ram.scanned /\ ram = Unscanned
  BY DEF Load, IInv
<1> DEFINE N == Newest(flash)
<1>2. N \in Located \cup {None}
  BY <1>1, CurrentFacts
<1> HIDE DEF N
<1>3. ram' = [ram EXCEPT !.scanned = TRUE, !.located = N]
  BY DEF Load, N
<1>4. ram' \in Caches /\ ram'.scanned = TRUE /\ ram'.located = N /\ ram'.replayGen = None
  BY <1>1, <1>2, <1>3, UnscannedFacts DEF Caches
<1>5. CachesHold(ram', flash, N)
  BY <1>4 DEF CachesHold
<1> QED BY <1>1, <1>4, <1>5, CacheStep DEF Load, N

LEMMA VisitKeeps == ASSUME IInv, Visit PROVE IInv'
<1> DEFINE N == Newest(flash)
           C == CachedReplay(N)
<1>1. op = Idle /\ N # None /\ N \in Located
  BY CurrentFacts DEF Visit
<1>2. /\ N.gen \in Generations /\ C \in Floors
      /\ AtMost(C, ScanReplay(flash, N.sector, N.gen))
  BY <1>1, CurrentFacts
<1>3. ram' = [scanned |-> TRUE, located |-> N, replayGen |-> N.gen, replay |-> C]
  BY <1>1, CurrentFacts DEF Visit
<1> HIDE DEF N, C
<1>4. ram' \in Caches
  BY <1>1, <1>2, <1>3 DEF Caches
<1>5. ram'.scanned = TRUE /\ ram'.located = N /\ ram'.replayGen = N.gen /\ ram'.replay = C
  BY <1>3
<1>6. CachesHold(ram', flash, N)
  BY <1>1, <1>2, <1>5 DEF CachesHold
<1> QED BY <1>1, <1>4, <1>6, CacheStep DEF Visit, N

-----------------------------------------------------------------------------
(* Starting a call. *)

Stored(replay) == {d \in Domains : replay[d] > 0}

\* A snapshot and its state record fit into a sector.
LEMMA StoredFits ==
    ASSUME NEW replay
    PROVE  LET n == Cardinality(Stored(replay)) IN
           /\ IsFiniteSet(Stored(replay)) /\ n \in Nat
           /\ SnapshotSlots(n) \in Nat /\ 1 + SnapshotSlots(n) <= Slots
           /\ n <= EntriesPerSlot * SnapshotSlots(n)
           /\ Stored(replay) # {} => SnapshotSlots(n) >= 1
<1> DEFINE S == Stored(replay)  n == Cardinality(S)  m == Cardinality(Domains)
<1>1. S \in SUBSET Domains
  BY DEF Stored
<1> HIDE DEF S
<1>2. IsFiniteSet(S) /\ n <= m
  BY <1>1, Constants, FS_Subset
<1>3. n \in Nat /\ m \in Nat /\ (n = 0 <=> S = {})
  BY <1>2, Constants, FS_CardinalityType, FS_EmptySet
<1> HIDE DEF n, m
<1>4. SnapshotSlots(n) \in Nat /\ n <= EntriesPerSlot * SnapshotSlots(n) /\ SnapshotSlots(m) \in Nat
  BY <1>3, SnapshotFits
<1>5. 1 + SnapshotSlots(n) <= Slots
  <2>1. SnapshotSlots(n) <= SnapshotSlots(m) /\ 1 + SnapshotSlots(m) <= Slots
    BY <1>2, <1>3, SnapshotGrows, GeometryAssumption DEF n, m
  <2> QED BY <1>4, <2>1, Constants
<1>6. n # 0 => SnapshotSlots(n) >= 1
  <2>1. CASE SnapshotSlots(n) = 0
    <3>1. EntriesPerSlot * SnapshotSlots(n) = 0
      BY <2>1, Constants
    <3> QED BY <1>3, <1>4, <3>1
  <2> QED BY <1>4, <2>1
<1> QED BY <1>2, <1>3, <1>4, <1>5, <1>6 DEF n, S

\* An erased run lies inside the sector.
LEMMA RunFacts ==
    ASSUME NEW s, NEW n \in Nat, n >= 1, ErasedRun(s, n) # None
    PROVE  /\ ErasedRun(s, n) \in 0 .. Slots - n
           /\ \A j \in ErasedRun(s, n) .. ErasedRun(s, n) + n - 1 : flash[s][j] = Erased
<1> DEFINE S == {i \in 0 .. Slots - n : \A j \in i .. i + n - 1 : flash[s][j] = Erased}
<1>1. ErasedRun(s, n) = IF S = {} THEN None ELSE Min(S)
  BY DEF ErasedRun
<1>2. S \in SUBSET Nat
  BY Constants
<1>3. \A x \in S : x \in 0 .. Slots - n /\ \A j \in x .. x + n - 1 : flash[s][j] = Erased
  OBVIOUS
<1> HIDE DEF S
<1>4. S # {} /\ ErasedRun(s, n) = Min(S)
  BY <1>1
<1>5. ErasedRun(s, n) \in S
  BY <1>2, <1>4, MinExists
<1> QED BY <1>3, <1>5

LEMMA BeginKeeps ==
    ASSUME IInv, op = Idle, op' \in Calls, CallHolds(op', flash, Newest(flash)),
           UNCHANGED <<flash, ram, faults, boot, ackedLimit, doubt>>
    PROVE  IInv'
<1>1. op' # Idle
  BY DEF Calls, Idle
<1> QED BY <1>1 DEF IInv, Typed

LEMMA GenerationBegins ==
    ASSUME IInv, op = Idle, NEW rollover \in BOOLEAN, NEW state \in States, NEW replay \in Floors,
           LET N == Newest(flash) IN
             /\ CommitGeneration(N, rollover, NextGen(N), state, replay)
             /\ NextGen(N) \in Generations
             /\ N # None => N.state.limit <= state.limit
             /\ N # None /\ ~rollover => AtMost(replay, ScanReplay(flash, N.sector, N.gen))
    PROVE  op' \in Calls /\ CallHolds(op', flash, Newest(flash))
<1> DEFINE N == Newest(flash)  g == NextGen(N)
           stored == Stored(replay)  n == Cardinality(stored)  q == SnapshotSlots(n)
           run == IF N = None \/ rollover THEN None ELSE ErasedRun(N.sector, 1 + q)
           target == IF N = None THEN 0 ELSE IF run = None THEN 1 - N.sector ELSE N.sector
           base == IF run = None THEN 0 ELSE run
           L == [gen |-> g, sector |-> target, state |-> state]
<1>1. op' = [kind |-> "generation", erase |-> run = None, base |-> base,
             slot |-> base + 1, headed |-> FALSE, left |-> stored, record |-> TRUE,
             located |-> L, replay |-> replay]
  BY DEF CommitGeneration, Stored
<1>2. /\ stored \in SUBSET Domains /\ n \in Nat /\ q \in Nat /\ 1 + q <= Slots
      /\ n <= EntriesPerSlot * q /\ (stored # {} => q >= 1)
  BY StoredFits DEF Stored
<1>3. flash \in Flashes /\ N \in Located \cup {None} /\ g \in Generations
  BY NewestFacts DEF IInv, Typed
<1> HIDE DEF N
<1>4. N # None => N.sector \in {0, 1} /\ 1 - N.sector \in {0, 1} /\ 1 - N.sector # N.sector
  BY <1>3 DEF Located, Sectors
<1>5. target \in Sectors
  BY <1>4 DEF Sectors
<1> HIDE DEF g, stored, n, q
<1>6. run # None => /\ N # None /\ ~rollover /\ run \in 0 .. Slots - (1 + q) /\ target = N.sector
                    /\ \A j \in run .. run + q : flash[N.sector][j] = Erased
  <2>1. 1 + q \in Nat /\ 1 + q >= 1
    BY <1>2
  <2>2. ASSUME run # None
        PROVE  N # None /\ ~rollover /\ run = ErasedRun(N.sector, 1 + q) /\ target = N.sector
    BY <2>2
  <2> HIDE DEF run, target
  <2>3. ASSUME run # None
        PROVE  /\ run \in 0 .. Slots - (1 + q)
               /\ \A j \in run .. run + (1 + q) - 1 : flash[N.sector][j] = Erased
    BY <2>1, <2>2, <2>3, RunFacts
  <2>4. ASSUME run # None PROVE run + (1 + q) - 1 = run + q
    BY <1>2, <2>3, <2>4
  <2> QED BY <2>2, <2>3, <2>4
<1>7. base \in SlotIds /\ base + q < Slots /\ base \in Nat
  BY <1>2, <1>6, Constants DEF SlotIds
<1>8. run = None => N = None \/ target # N.sector
  BY <1>4
<1> HIDE DEF target, base, run
<1>9. L \in Located /\ L.gen = g /\ L.sector = target /\ L.state = state
  BY <1>3, <1>5 DEF Located
<1> HIDE DEF L
<1>10. op' \in Calls
  <2>1. base + 1 \in 0 .. Slots
    BY <1>2, <1>7, Constants
  <2> QED BY <1>1, <1>2, <1>7, <1>9, <2>1 DEF Calls
<1>11. /\ op'.kind = "generation" /\ op'.base = base /\ op'.slot = base + 1 /\ op'.headed = FALSE
       /\ op'.left = stored /\ op'.record = TRUE /\ op'.located = L /\ op'.replay = replay
       /\ (op'.erase = TRUE => run = None) /\ (op'.erase = FALSE => run # None)
       /\ op'.erase \in BOOLEAN
  BY <1>1
<1> DEFINE o == op'
<1> HIDE DEF o
<1>12. /\ o.kind = "generation" /\ o.base = base /\ o.slot = base + 1 /\ o.headed = FALSE
       /\ o.left = stored /\ o.record = TRUE /\ o.located = L /\ o.replay = replay
       /\ (o.erase = TRUE => run = None) /\ (o.erase = FALSE => run # None)
       /\ o.erase \in BOOLEAN
  BY <1>11 DEF o
<1>13. \A d \in Domains \ o.left : o.replay[d] <= ScanReplay(flash, o.located.sector, o.located.gen)[d]
  <2>1. ASSUME NEW d \in Domains \ stored
        PROVE  replay[d] <= ScanReplay(flash, target, g)[d]
    <3>1. replay[d] = 0
      BY <2>1 DEF stored, Stored, Floors
    <3>2. ScanReplay(flash, target, g)[d] \in 0 .. MaxFloor
      BY <1>3, <1>5, ScanFacts DEF Floors
    <3> QED BY <3>1, <3>2
  <2> QED BY <1>9, <1>12, <2>1
<1>14. LastSlot(o) = base + q /\ FirstFree(o) = base + 1 /\ Room(o, flash) = EntriesPerSlot * q
  <2>1. LastSlot(o) = base + q
    BY <1>12 DEF LastSlot, q, n, stored, Stored
  <2>2. FirstFree(o) = base + 1
    BY <1>12 DEF FirstFree
  <2>3. LastSlot(o) - FirstFree(o) + 1 = q
    BY <1>2, <1>7, <2>1, <2>2
  <2>4. Room(o, flash) = 0 + EntriesPerSlot * q
    BY <1>12, <2>3 DEF Room
  <2> QED BY <1>2, <2>1, <2>2, <2>4, Constants
<1>15. CASE run = None
  <2>1. o.erase = TRUE /\ o.base = 0 /\ o.slot = 1
    BY <1>12, <1>15 DEF base
  <2>2. GenerationHolds(o, flash, N)
    BY <1>8, <1>9, <1>12, <1>15, <2>1 DEF GenerationHolds, g, stored, Stored, N
  <2> QED BY <1>10, <1>12, <1>13, <2>2 DEF CallHolds, o, N
<1>16. CASE run # None
  <2>1. o.erase = FALSE
    BY <1>12, <1>16
  <2>2. base = run /\ L.sector = N.sector /\ N # None
    BY <1>6, <1>9, <1>16 DEF base
  <2>3. \A j \in base .. base + q : flash[L.sector][j] = Erased
    BY <1>6, <1>16, <2>2
  <2>4. SlotReady(o, flash)
    <3>1. stored # {} => base + 1 \in SlotIds /\ base + 1 \in base .. base + q
      BY <1>2, <1>7, Constants DEF SlotIds
    <3> QED BY <1>12, <2>3, <3>1 DEF SlotReady
  <2>5. RunReady(o, flash)
    <3>1. \A i \in (base + 1) .. (base + q) : flash[L.sector][i] = Erased
      BY <1>2, <1>7, <2>3
    <3>2. flash[L.sector][base] = Erased
      BY <1>2, <1>7, <2>3
    <3>3. base < base + 1 /\ base + q < Slots /\ base + 1 <= (base + q) + 1
      BY <1>2, <1>7
    <3> QED BY <1>2, <1>12, <1>14, <3>1, <3>2, <3>3 DEF RunReady, n
  <2>6. AtMost(replay, ScanReplay(flash, N.sector, N.gen))
    BY <1>6, <1>16 DEF N
  <2>7. GenerationHolds(o, flash, N)
    BY <1>9, <1>12, <2>1, <2>2, <2>4, <2>5, <2>6 DEF GenerationHolds, g, N
  <2> QED BY <1>10, <1>12, <1>13, <2>7 DEF CallHolds, o, N
<1> QED BY <1>15, <1>16

LEMMA StoreKeeps == ASSUME IInv, NEW s \in States, Store(s) PROVE IInv'
<1> DEFINE N == Newest(flash)
           R == IF N # None /\ s.net # NoNet /\ N.state.net = s.net THEN CachedReplay(N) ELSE NoFloors
<1>1. op = Idle /\ Current = N /\ N \in Located \cup {None}
  BY CurrentFacts DEF Store
<1>2. /\ N # None => N.gen < MaxGeneration /\ N.state.limit <= s.limit
      /\ CommitGeneration(N, FALSE, IF N = None THEN 0 ELSE N.gen + 1, s, R)
      /\ UNCHANGED <<flash, ram, faults, boot, ackedLimit, doubt>>
  BY <1>1, Zenon DEF Store
<1>3. R \in Floors /\ (N # None => AtMost(R, ScanReplay(flash, N.sector, N.gen)))
  <2>1. NoFloors \in Floors
    BY CellsMade
  <2>2. N # None => CachedReplay(N) \in Floors /\ AtMost(CachedReplay(N), ScanReplay(flash, N.sector, N.gen))
    BY <1>1, CurrentFacts
  <2>3. ASSUME N # None PROVE AtMost(NoFloors, ScanReplay(flash, N.sector, N.gen))
    <3>1. ScanReplay(flash, N.sector, N.gen) \in Floors
      BY <1>1, <2>3, ScanFacts DEF IInv, Typed, Located
    <3> QED BY <3>1 DEF NoFloors, AtMost, Floors
  <2> QED BY <2>1, <2>2, <2>3
<1> HIDE DEF N, R
<1>4. NextGen(N) = (IF N = None THEN 0 ELSE N.gen + 1) /\ NextGen(N) \in Generations
  BY <1>1, <1>2, Constants DEF NextGen, Located, Generations
<1>5. CommitGeneration(N, FALSE, NextGen(N), s, R)
  BY <1>2, <1>4
<1>6. op' \in Calls /\ CallHolds(op', flash, Newest(flash))
  BY <1>1, <1>2, <1>3, <1>4, <1>5, GenerationBegins DEF N
<1> QED BY <1>1, <1>2, <1>6, BeginKeeps

LEMMA RemoveKeeps == ASSUME IInv, NEW gone \in SUBSET Domains, RemoveFloors(gone) PROVE IInv'
<1> DEFINE N == Newest(flash)
           C == CachedReplay(N)
           K == [d \in Domains |-> IF d \in gone THEN 0 ELSE C[d]]
<1>1. op = Idle /\ Current = N /\ N \in Located /\ N # None
  BY CurrentFacts DEF RemoveFloors
<1>2. /\ UNCHANGED <<flash, faults, boot, ackedLimit, doubt>>
      /\ IF N.gen < MaxGeneration
         THEN CommitGeneration(N, FALSE, N.gen + 1, N.state, K) /\ UNCHANGED ram
         ELSE ram' = Unscanned /\ UNCHANGED op
  BY <1>1, Zenon DEF RemoveFloors
<1>3. /\ C \in Floors /\ AtMost(C, ScanReplay(flash, N.sector, N.gen))
      /\ N.gen \in Generations /\ N.state \in States /\ N.sector \in Sectors
  BY <1>1, CurrentFacts
<1>4. ScanReplay(flash, N.sector, N.gen) \in Floors
  BY <1>3, ScanFacts DEF IInv, Typed
<1> HIDE DEF N, C
<1>5. K \in Floors /\ AtMost(K, ScanReplay(flash, N.sector, N.gen))
  <2> DEFINE F == ScanReplay(flash, N.sector, N.gen)
  <2>1. F \in Floors /\ AtMost(C, F)
    BY <1>3, <1>4
  <2> HIDE DEF F
  <2>2. \A d \in Domains : C[d] \in 0 .. MaxFloor /\ F[d] \in 0 .. MaxFloor /\ C[d] <= F[d]
    BY <1>3, <2>1 DEF Floors, AtMost
  <2>3. 0 \in 0 .. MaxFloor
    BY Constants
  <2>4. K \in Floors
    BY <2>2, <2>3 DEF Floors
  <2>5. \A d \in Domains : K[d] <= F[d]
    BY <2>2
  <2> QED BY <2>4, <2>5 DEF AtMost, F
<1> HIDE DEF K
<1>6. CASE N.gen < MaxGeneration
  <2>1. NextGen(N) = N.gen + 1 /\ NextGen(N) \in Generations
    BY <1>1, <1>3, <1>6, Constants DEF NextGen, Generations
  <2>2. CommitGeneration(N, FALSE, NextGen(N), N.state, K) /\ UNCHANGED ram
    BY <1>2, <1>6, <2>1
  <2>3. N.state.limit <= N.state.limit
    BY <1>3 DEF States
  <2>4. op' \in Calls /\ CallHolds(op', flash, Newest(flash))
    BY <1>1, <1>3, <1>5, <2>1, <2>2, <2>3, GenerationBegins DEF N
  <2> QED BY <1>1, <1>2, <2>2, <2>4, BeginKeeps
<1>7. CASE ~(N.gen < MaxGeneration)
  <2>1. ram' = Unscanned /\ op' = op
    BY <1>2, <1>7
  <2>2. ram' \in Caches /\ CachesHold(ram', flash, Newest(flash))
    BY <2>1, UnscannedFacts DEF CachesHold
  <2> QED BY <1>1, <1>2, <2>1, <2>2, CacheStep
<1> QED BY <1>6, <1>7

\* The position find_replay_append_position returns.
LEMMA AppendFacts ==
    ASSUME NEW s, NEW g, AppendPosition(s, g) # None
    PROVE  LET at == AppendPosition(s, g) IN
           /\ at \in SlotIds
           /\ \/ flash[s][at] = Erased
              \/ /\ flash[s][at].kind = "replay" /\ flash[s][at].gen = g
                 /\ flash[s][at].used < EntriesPerSlot /\ ~flash[s][at].torn
<1> DEFINE S == {i \in SlotIds :
                   \/ flash[s][i] = Erased
                   \/ /\ i \in ReplaySlots(flash, s, g)
                      /\ flash[s][i].used < EntriesPerSlot
                      /\ ~flash[s][i].torn}
<1>1. AppendPosition(s, g) = IF S = {} THEN None ELSE Min(S)
  BY DEF AppendPosition
<1>2. S \in SUBSET Nat
  BY Constants DEF SlotIds
<1>3. \A x \in S : /\ x \in SlotIds
                   /\ \/ flash[s][x] = Erased
                      \/ /\ flash[s][x].kind = "replay" /\ flash[s][x].gen = g
                         /\ flash[s][x].used < EntriesPerSlot /\ ~flash[s][x].torn
  BY DEF ReplaySlots
<1> HIDE DEF S
<1>4. AppendPosition(s, g) \in S
  BY <1>1, <1>2, MinExists
<1> QED BY <1>3, <1>4

\* A floor raised to a new value.
LEMMA MergeFacts ==
    ASSUME NEW r \in Floors, NEW d \in Domains, NEW v \in 0 .. MaxFloor
    PROVE  LET m == Merge(r, [domain |-> d, floor |-> v]) IN
           /\ m \in Floors /\ m[d] = MaxOf(r[d], v)
           /\ \A x \in Domains \ {d} : m[x] = r[x]
  BY DEF Merge, Floors, MaxOf

LEMMA CommitReplayKeeps == ASSUME IInv, NEW e \in Entries, CommitReplay(e) PROVE IInv'
<1> DEFINE N == Newest(flash)
           C == CachedReplay(N)
           at == AppendPosition(N.sector, N.gen)
           M == Merge(C, e)
<1>1. op = Idle /\ Current = N /\ N \in Located /\ N # None
  BY CurrentFacts DEF CommitReplay
<1>2. /\ UNCHANGED <<flash, ram, faults, boot, ackedLimit, doubt>>
      /\ IF at # None
         THEN AppendEntry(N, at, M, e.domain)
         ELSE N.gen < MaxGeneration /\ CommitGeneration(N, TRUE, N.gen + 1, N.state, M)
  BY <1>1, Zenon DEF CommitReplay
<1>3. /\ C \in Floors /\ AtMost(C, ScanReplay(flash, N.sector, N.gen))
      /\ N.gen \in Generations /\ N.state \in States /\ N.sector \in Sectors
  BY <1>1, CurrentFacts
<1>4. e.domain \in Domains /\ e.floor \in 0 .. MaxFloor /\ e = [domain |-> e.domain, floor |-> e.floor]
  BY DEF Entries
<1> HIDE DEF N, C
<1>5. M \in Floors /\ \A x \in Domains \ {e.domain} : M[x] = C[x]
  BY <1>3, <1>4, MergeFacts
<1> HIDE DEF M
<1>6. CASE at # None
  <2>1. /\ at \in SlotIds
        /\ \/ flash[N.sector][at] = Erased
           \/ /\ flash[N.sector][at].kind = "replay" /\ flash[N.sector][at].gen = N.gen
              /\ flash[N.sector][at].used < EntriesPerSlot /\ ~flash[N.sector][at].torn
    BY <1>6, AppendFacts
  <2>2. AppendEntry(N, at, M, e.domain)
    BY <1>2, <1>6
  <2> HIDE DEF at
  <2>3. op' = [kind |-> "append", erase |-> FALSE, base |-> at, slot |-> at,
               headed |-> flash[N.sector][at] # Erased, left |-> {e.domain}, record |-> FALSE,
               located |-> N, replay |-> M]
    BY <2>2 DEF AppendEntry
  <2>4. at \in 0 .. Slots
    BY <2>1, Constants DEF SlotIds
  <2>5. op' \in Calls
    BY <1>1, <1>4, <1>5, <2>1, <2>3, <2>4 DEF Calls
  <2> DEFINE o == op'
  <2> HIDE DEF o
  <2>6. /\ o.kind = "append" /\ o.erase = FALSE /\ o.slot = at
        /\ o.left = {e.domain} /\ o.record = FALSE /\ o.located = N /\ o.replay = M
        /\ o.headed = (flash[N.sector][at] # Erased)
    BY <2>3 DEF o
  <2>7. SlotReady(o, flash)
    <3>1. CASE flash[N.sector][at] = Erased
      BY <2>1, <2>6, <3>1 DEF SlotReady
    <3>2. CASE flash[N.sector][at] # Erased
      <4>1. flash[N.sector][at] \in Cells /\ flash[N.sector][at].kind = "replay"
        BY <1>3, <2>1, <3>2 DEF IInv, Typed, Flashes
      <4>2. flash[N.sector][at].torn \in BOOLEAN
        BY <4>1, CellFacts
      <4> QED BY <2>1, <2>6, <3>2, <4>2 DEF SlotReady
    <3> QED BY <3>1, <3>2
  <2>8. AppendHolds(o, flash, N)
    BY <1>1, <1>4, <2>1, <2>6, <2>7 DEF AppendHolds
  <2>9. \A d \in Domains \ o.left : o.replay[d] <= ScanReplay(flash, o.located.sector, o.located.gen)[d]
    BY <1>3, <1>5, <2>6 DEF AtMost
  <2>10. CallHolds(o, flash, N)
    BY <2>6, <2>8, <2>9 DEF CallHolds
  <2> QED BY <1>1, <1>2, <2>5, <2>10, BeginKeeps DEF o, N
<1>7. CASE at = None
  <2>1. N.gen < MaxGeneration /\ CommitGeneration(N, TRUE, N.gen + 1, N.state, M)
    BY <1>2, <1>7
  <2>2. NextGen(N) = N.gen + 1 /\ NextGen(N) \in Generations
    BY <1>1, <1>3, <2>1, Constants DEF NextGen, Generations
  <2>3. CommitGeneration(N, TRUE, NextGen(N), N.state, M)
    BY <2>1, <2>2
  <2>4. N.state.limit <= N.state.limit
    BY <1>3 DEF States
  <2>5. op' \in Calls /\ CallHolds(op', flash, Newest(flash))
    BY <1>1, <1>3, <1>5, <2>2, <2>3, <2>4, GenerationBegins DEF N
  <2> QED BY <1>1, <1>2, <2>5, BeginKeeps
<1> QED BY <1>6, <1>7

-----------------------------------------------------------------------------
(* What a write may leave behind. *)

LEMMA LateFacts ==
    ASSUME NEW f, NEW st
    PROVE  st \in Late(f) <=> \E s \in Sectors, i \in SlotIds : f[s][i].kind = "marginal" /\ f[s][i].state = st
<1>1. ASSUME st \in Late(f)
      PROVE  \E s \in Sectors, i \in SlotIds : f[s][i].kind = "marginal" /\ f[s][i].state = st
  <2>1. PICK x \in Sectors \X SlotIds : f[x[1]][x[2]].kind = "marginal" /\ f[x[1]][x[2]].state = st
    BY <1>1 DEF Late
  <2>2. x[1] \in Sectors /\ x[2] \in SlotIds
    BY <2>1
  <2> QED BY <2>1, <2>2
<1>2. ASSUME NEW s \in Sectors, NEW i \in SlotIds, f[s][i].kind = "marginal", f[s][i].state = st
      PROVE  st \in Late(f)
  <2> DEFINE x == <<s, i>>
  <2>1. x \in Sectors \X SlotIds /\ x[1] = s /\ x[2] = i
    OBVIOUS
  <2> HIDE DEF x
  <2>2. f[x[1]][x[2]].kind = "marginal" /\ f[x[1]][x[2]].state = st
    BY <1>2, <2>1
  <2> QED BY <2>1, <2>2 DEF Late
<1> QED BY <1>1, <1>2

LEMMA LateGrows ==
    ASSUME NEW f, NEW h, NEW X,
           \A s \in Sectors, i \in SlotIds :
             h[s][i].kind = "marginal" => h[s][i] = f[s][i] \/ h[s][i].state \in X
    PROVE  Late(h) \subseteq Late(f) \cup X
<1> SUFFICES ASSUME NEW st \in Late(h) PROVE st \in Late(f) \cup X
  OBVIOUS
<1>1. PICK s \in Sectors, i \in SlotIds : h[s][i].kind = "marginal" /\ h[s][i].state = st
  BY LateFacts
<1>2. CASE h[s][i] = f[s][i]
  <2>1. f[s][i].kind = "marginal" /\ f[s][i].state = st
    BY <1>1, <1>2
  <2> QED BY <2>1, LateFacts
<1> QED BY <1>1, <1>2

FlashHolds(h) ==
    /\ h \in Flashes
    /\ GenerationsBounded(h, Newest(h))
    /\ AckedHolds(h, Newest(h), ackedLimit)
    /\ ~doubt /\ Late(h) = {} => LeftoversBounded(h, Newest(h))

\* The call had no effect yet; or this was its commit point.
Aborts(h) == View(h) = boot /\ Late(h) \subseteq Late(flash) \cup {op.located.state}
Silent(h) == View(h) = boot /\ Late(h) \subseteq Late(flash)
Commits(h) ==
    /\ View(h) \in Views /\ View(h).state = op.located.state
    /\ AtMost(op.replay, View(h).floors)
    /\ ~doubt => \A d \in Domains : View(h).floors[d] <= MaxOf(boot.floors[d], op.replay[d])
    /\ Late(h) \subseteq Late(flash)

LEMMA Calling ==
    ASSUME IInv, op # Idle
    PROVE  LET N == Newest(flash)  L == op.located IN
           /\ flash \in Flashes /\ N \in Located \cup {None} /\ op \in Calls
           /\ op.kind \in {"append", "generation"} /\ op.base \in SlotIds /\ op.slot \in 0 .. Slots
           /\ op.left \in SUBSET Domains /\ op.replay \in Floors
           /\ op.erase \in BOOLEAN /\ op.headed \in BOOLEAN
           /\ L \in Located /\ L.sector \in Sectors /\ L.gen \in Generations /\ L.state \in States
           /\ L.state.limit \in 0 .. MaxLimit
           /\ CallHolds(op, flash, N) /\ GenerationsBounded(flash, N)
           /\ AckedHolds(flash, N, ackedLimit) /\ ackedLimit \in 0 .. MaxLimit
           /\ ~doubt => LeftoversBounded(flash, N) /\ Late(flash) = {}
           /\ boot = View(flash)
           /\ L.gen <= NextGen(N)
<1> DEFINE N == Newest(flash)
<1>1. /\ flash \in Flashes /\ op \in Calls /\ CallHolds(op, flash, N) /\ GenerationsBounded(flash, N)
      /\ AckedHolds(flash, N, ackedLimit) /\ ackedLimit \in 0 .. MaxLimit
      /\ ~doubt => LeftoversBounded(flash, N) /\ Late(flash) = {}
      /\ boot = View(flash)
  BY DEF IInv, Typed
<1>2. N \in Located \cup {None}
  BY <1>1, NewestFacts
<1> HIDE DEF N
<1>3. /\ op.kind \in {"append", "generation"} /\ op.base \in SlotIds /\ op.slot \in 0 .. Slots
      /\ op.left \in SUBSET Domains /\ op.replay \in Floors
      /\ op.erase \in BOOLEAN /\ op.headed \in BOOLEAN /\ op.located \in Located
  BY <1>1 DEF Calls
<1>4. /\ op.located.sector \in Sectors /\ op.located.gen \in Generations
      /\ op.located.state \in States /\ op.located.state.limit \in 0 .. MaxLimit
  BY <1>3 DEF Located, States
<1>5. op.located.gen <= NextGen(N)
  <2>1. CASE op.kind = "append"
    BY <1>1, <1>2, <1>4, <2>1 DEF CallHolds, AppendHolds, NextGen, Generations
  <2>2. CASE op.kind = "generation"
    BY <1>1, <1>4, <2>2 DEF CallHolds, GenerationHolds, Generations
  <2> QED BY <1>3, <2>1, <2>2
<1> QED BY <1>1, <1>2, <1>3, <1>4, <1>5 DEF N

\* A write, complete or not, after which every scan reads the same: a header, or
\* something undecodable or unverified in an erased slot or after the last entry.
LEMMA QuietOutcome ==
    ASSUME IInv, op # Idle, NEW k \in SlotIds, NEW c \in Cells,
           LET L == op.located  old == flash[L.sector][k] IN
             /\ c.kind # "record"
             /\ \/ /\ old.kind = "replay" /\ old.gen = L.gen
                   /\ c.kind = "replay" /\ c.gen = L.gen /\ c.floors = old.floors
                \/ /\ old.kind = "erased"
                   /\ c.kind = "replay" => c.gen = L.gen /\ c.floors = NoFloors
             /\ c.kind = "marginal" => op.kind = "generation" /\ c.gen = L.gen /\ c.state = L.state
    PROVE  LET h == Program(k, c) IN
           /\ FlashHolds(h) /\ Newest(h) = Newest(flash)
           /\ \A s \in Sectors, g \in Nat : ScanReplay(h, s, g) = ScanReplay(flash, s, g)
           /\ Aborts(h)
           /\ c.kind # "marginal" => Silent(h)
<1> DEFINE N == Newest(flash)  L == op.located  t == L.sector  old == flash[t][k]
           h == Program(k, c)
<1>1. /\ flash \in Flashes /\ N \in Located \cup {None} /\ op \in Calls
      /\ t \in Sectors /\ L.gen \in Generations /\ L.state \in States
      /\ L.state.limit \in 0 .. MaxLimit
      /\ CallHolds(op, flash, N) /\ GenerationsBounded(flash, N)
      /\ AckedHolds(flash, N, ackedLimit) /\ ackedLimit \in 0 .. MaxLimit
      /\ ~doubt => LeftoversBounded(flash, N) /\ Late(flash) = {}
      /\ boot = View(flash) /\ L.gen <= NextGen(N)
  BY Calling
<1>2. /\ c.kind # "record" /\ old.kind \in {"replay", "erased"}
      /\ old.kind = "replay" => /\ old.gen = L.gen
                                /\ c.kind = "replay" /\ c.gen = L.gen /\ c.floors = old.floors
      /\ old.kind = "erased" => (c.kind = "replay" => c.gen = L.gen /\ c.floors = NoFloors)
      /\ c.kind = "marginal" => op.kind = "generation" /\ c.gen = L.gen /\ c.state = L.state
  OBVIOUS
<1>3. /\ h \in Flashes /\ h[t][k] = c
      /\ \A s \in Sectors, i \in SlotIds : s # t \/ i # k => h[s][i] = flash[s][i]
  BY <1>1, Programmed DEF Program
<1> HIDE DEF N, L, h
<1>4. Newest(h) = N
  <2>1. \A s \in Sectors, i \in SlotIds :
          \/ h[s][i] = flash[s][i]
          \/ h[s][i].kind # "record" /\ flash[s][i].kind # "record"
    BY <1>2, <1>3
  <2> QED BY <2>1, NewestSame DEF N
<1>5. ASSUME NEW s \in Sectors, NEW g \in Nat
      PROVE  ScanReplay(h, s, g) = ScanReplay(flash, s, g)
  <2>1. CASE old.kind = "erased" /\ c.kind = "replay" /\ g = L.gen /\ s = t
    <3>1. k \in ReplaySlots(h, s, g) /\ k \notin ReplaySlots(flash, s, g)
      BY <1>2, <1>3, <2>1 DEF ReplaySlots
    <3>2. \A i \in SlotIds \ {k} : h[s][i] = flash[s][i]
      BY <1>3, <2>1
    <3>3. ASSUME NEW d \in Domains PROVE ScanReplay(h, s, g)[d] = ScanReplay(flash, s, g)[d]
      <4>1. ScanReplay(h, s, g)[d] = MaxOf(ScanReplay(flash, s, g)[d], h[s][k].floors[d])
        BY <1>1, <1>3, <3>1, <3>2, ScanExtend
      <4>2. h[s][k].floors[d] = 0
        BY <1>2, <1>3, <2>1 DEF NoFloors
      <4>3. ScanReplay(flash, s, g)[d] \in 0 .. MaxFloor
        BY <1>1, ScanFacts DEF Floors
      <4> QED BY <4>1, <4>2, <4>3 DEF MaxOf
    <3>4. ScanReplay(h, s, g) \in Floors /\ ScanReplay(flash, s, g) \in Floors
      BY <1>1, <1>3, ScanFacts
    <3> QED BY <3>3, <3>4 DEF Floors
  <2>2. CASE ~(old.kind = "erased" /\ c.kind = "replay" /\ g = L.gen /\ s = t)
    <3>1. \A i \in SlotIds :
             \/ h[s][i] = flash[s][i]
             \/ i \notin ReplaySlots(h, s, g) /\ i \notin ReplaySlots(flash, s, g)
             \/ /\ i \in ReplaySlots(h, s, g) /\ i \in ReplaySlots(flash, s, g)
                /\ h[s][i].floors = flash[s][i].floors
      <4> SUFFICES ASSUME NEW i \in SlotIds, h[s][i] # flash[s][i]
                   PROVE  \/ i \notin ReplaySlots(h, s, g) /\ i \notin ReplaySlots(flash, s, g)
                          \/ /\ i \in ReplaySlots(h, s, g) /\ i \in ReplaySlots(flash, s, g)
                             /\ h[s][i].floors = flash[s][i].floors
        OBVIOUS
      <4>1. s = t /\ i = k /\ h[s][i] = c /\ flash[s][i] = old
        BY <1>3
      <4>2. CASE old.kind = "replay"
        BY <1>2, <4>1, <4>2 DEF ReplaySlots
      <4>3. CASE old.kind = "erased"
        BY <1>2, <2>2, <4>1, <4>3 DEF ReplaySlots
      <4> QED BY <1>2, <4>2, <4>3
    <3> QED BY <3>1, ScanSame
  <2> QED BY <2>1, <2>2
<1>6. N # None => N.sector \in Sectors /\ N.gen \in Nat /\ N.gen + 1 \in Nat /\ NextGen(N) = N.gen + 1
  BY <1>1, Constants DEF Located, Generations, NextGen
<1>7. View(h) = View(flash)
  <2>1. CASE N = None
    BY <1>4, <2>1 DEF View, N
  <2>2. CASE N # None
    <3>1. ScanReplay(h, N.sector, N.gen) = ScanReplay(flash, N.sector, N.gen)
      BY <1>5, <1>6, <2>2
    <3>2. Newest(flash) = N
      BY DEF N
    <3> QED BY <1>4, <2>2, <3>1, <3>2 DEF View
  <2> QED BY <2>1, <2>2
<1>8. GenerationsBounded(h, N)
  <2>1. ASSUME NEW s \in Sectors, NEW i \in SlotIds, h[s][i].kind \in {"record", "marginal", "replay"}
        PROVE  h[s][i].gen <= NextGen(N)
    <3>1. CASE s = t /\ i = k
      BY <1>1, <1>2, <1>3, <2>1, <3>1
    <3>2. CASE ~(s = t /\ i = k)
      BY <1>1, <1>3, <2>1, <3>2 DEF GenerationsBounded
    <3> QED BY <3>1, <3>2
  <2> QED BY <2>1 DEF GenerationsBounded
<1>9. AckedHolds(h, N, ackedLimit)
  <2>1. ASSUME NEW s \in Sectors, NEW i \in SlotIds, h[s][i].kind = "marginal", h[s][i].gen = NextGen(N)
        PROVE  ackedLimit <= h[s][i].state.limit
    <3>1. CASE s = t /\ i = k
      <4>1. h[s][i].state = L.state /\ op.kind = "generation"
        BY <1>2, <1>3, <2>1, <3>1
      <4>2. N # None => N.state.limit <= L.state.limit
        BY <1>1, <4>1 DEF CallHolds, GenerationHolds, L
      <4>3. N # None => N.state.limit \in Int
        BY <1>1 DEF Located, States
      <4> QED BY <1>1, <4>1, <4>2, <4>3 DEF AckedHolds
    <3>2. CASE ~(s = t /\ i = k)
      BY <1>1, <1>3, <2>1, <3>2 DEF AckedHolds
    <3> QED BY <3>1, <3>2
  <2> QED BY <1>1, <2>1 DEF AckedHolds
<1>10. ~doubt => LeftoversBounded(h, N)
  BY <1>1, <1>5, <1>6 DEF LeftoversBounded
<1>11. Late(h) \subseteq Late(flash) \cup (IF c.kind = "marginal" THEN {L.state} ELSE {})
  <2> DEFINE X == IF c.kind = "marginal" THEN {L.state} ELSE {}
  <2>1. \A s \in Sectors, i \in SlotIds :
          h[s][i].kind = "marginal" => h[s][i] = flash[s][i] \/ h[s][i].state \in X
    BY <1>2, <1>3
  <2> HIDE DEF X
  <2>2. Late(h) \subseteq Late(flash) \cup X
    BY <2>1, LateGrows
  <2> QED BY <2>2 DEF X
<1>12. FlashHolds(h)
  BY <1>3, <1>4, <1>8, <1>9, <1>10 DEF FlashHolds
<1>13. Aborts(h) /\ (c.kind # "marginal" => Silent(h))
  BY <1>1, <1>7, <1>11 DEF Aborts, Silent, L
<1> QED BY <1>4, <1>5, <1>12, <1>13 DEF h, N

\* An erase, complete or not: the sector erased never holds the newest state.
LEMMA EraseOutcome ==
    ASSUME IInv, op # Idle, op.erase = TRUE, NEW h \in Flashes, NEW m \in Nat,
           \A s \in Sectors, i \in SlotIds :
             IF s = op.located.sector /\ i < m THEN h[s][i].kind \in {"erased", "torn"}
             ELSE h[s][i] = flash[s][i]
    PROVE  /\ op.kind = "generation"
           /\ FlashHolds(h) /\ Newest(h) = Newest(flash)
           /\ Silent(h)
<1> DEFINE N == Newest(flash)  t == op.located.sector
<1>1. /\ flash \in Flashes /\ N \in Located \cup {None}
      /\ t \in Sectors /\ op.kind \in {"append", "generation"}
      /\ CallHolds(op, flash, N) /\ GenerationsBounded(flash, N)
      /\ AckedHolds(flash, N, ackedLimit)
      /\ ~doubt => LeftoversBounded(flash, N) /\ Late(flash) = {}
      /\ boot = View(flash)
  BY Calling
<1> HIDE DEF N
<1>2. op.kind = "generation"
  BY <1>1 DEF CallHolds, AppendHolds
<1>3. N # None => N.sector # t
  BY <1>1, <1>2 DEF CallHolds, GenerationHolds
<1>4. Newest(h) = N
  <2>1. Newest(flash) # None => Newest(flash).sector # t
    BY <1>3 DEF N
  <2>2. \A s \in Sectors, i \in SlotIds :
             IF s = t /\ i < m THEN h[s][i].kind # "record" ELSE h[s][i] = flash[s][i]
    OBVIOUS
  <2> HIDE DEF t
  <2>3. Newest(h) = Newest(flash)
    BY <1>1, <2>1, <2>2, NewestErased
  <2> QED BY <2>3 DEF N
<1>5. ASSUME NEW s \in Sectors, NEW i \in SlotIds, h[s][i].kind \in {"record", "marginal", "replay"}
      PROVE  h[s][i] = flash[s][i]
  BY <1>5
<1>6. ASSUME NEW s \in Sectors, s # t, NEW g PROVE ScanReplay(h, s, g) = ScanReplay(flash, s, g)
  <2>1. \A i \in SlotIds : h[s][i] = flash[s][i]
    BY <1>6
  <2> QED BY <2>1, ScanSame
<1>7. N # None => N.sector \in Sectors
  BY <1>1 DEF Located
<1>8. View(h) = View(flash)
  <2>1. CASE N = None
    BY <1>4, <2>1 DEF View, N
  <2>2. CASE N # None
    <3>1. ScanReplay(h, N.sector, N.gen) = ScanReplay(flash, N.sector, N.gen)
      BY <1>3, <1>6, <1>7, <2>2
    <3>2. Newest(flash) = N
      BY DEF N
    <3> QED BY <1>4, <2>2, <3>1, <3>2 DEF View
  <2> QED BY <2>1, <2>2
<1>9. GenerationsBounded(h, N)
  BY <1>1, <1>5 DEF GenerationsBounded
<1>10. AckedHolds(h, N, ackedLimit)
  <2>1. ASSUME NEW s \in Sectors, NEW i \in SlotIds, h[s][i].kind = "marginal", h[s][i].gen = NextGen(N)
        PROVE  ackedLimit <= h[s][i].state.limit
    <3>1. h[s][i] = flash[s][i]
      BY <1>5, <2>1
    <3> QED BY <1>1, <2>1, <3>1 DEF AckedHolds
  <2> QED BY <1>1, <2>1 DEF AckedHolds
<1>11. ~doubt => LeftoversBounded(h, N)
  BY <1>1, <1>3, <1>6, <1>7 DEF LeftoversBounded
<1>12. Late(h) \subseteq Late(flash)
  <2>1. \A s \in Sectors, i \in SlotIds :
          h[s][i].kind = "marginal" => h[s][i] = flash[s][i] \/ h[s][i].state \in {}
    BY <1>5
  <2>2. Late(h) \subseteq Late(flash) \cup {}
    BY <2>1, LateGrows
  <2> QED BY <2>2
<1> QED BY <1>1, <1>2, <1>4, <1>8, <1>9, <1>10, <1>11, <1>12 DEF FlashHolds, Silent, N

LEMMA ReadyToWrite ==
    ASSUME IInv, op # Idle, op.erase = FALSE
    PROVE  SlotReady(op, flash)
<1> DEFINE N == Newest(flash)
<1>1. op.kind \in {"append", "generation"} /\ CallHolds(op, flash, N)
  BY Calling
<1> HIDE DEF N
<1>2. CASE op.kind = "append"
  BY <1>1, <1>2 DEF CallHolds, AppendHolds
<1>3. CASE op.kind = "generation"
  BY <1>1, <1>3 DEF CallHolds, GenerationHolds
<1> QED BY <1>1, <1>2, <1>3

\* One more entry.  For an append it is the commit point; for a generation it
\* stays unread until the record.
LEMMA EntryOutcome ==
    ASSUME IInv, op # Idle, op.erase = FALSE, op.headed = TRUE, NEW d \in op.left
    PROVE  LET L == op.located
               cell == flash[L.sector][op.slot]
               c == WithEntry(cell, d, op.replay[d])
               h == Program(op.slot, c)
               scan == ScanReplay(flash, L.sector, L.gen)
           IN
           /\ FlashHolds(h) /\ Newest(h) = Newest(flash)
           /\ op.slot \in SlotIds /\ cell.used \in 0 .. EntriesPerSlot - 1
           /\ h[L.sector][op.slot] = c /\ c.kind = "replay" /\ c.gen = L.gen
           /\ c.torn = FALSE /\ c.used = cell.used + 1
           /\ \A s \in Sectors, i \in SlotIds :
                s # L.sector \/ i # op.slot => h[s][i] = flash[s][i]
           /\ \A x \in Domains : ScanReplay(h, L.sector, L.gen)[x] =
                                   IF x = d THEN MaxOf(scan[x], op.replay[x]) ELSE scan[x]
           /\ \A s \in Sectors, g \in Nat :
                s # L.sector \/ g # L.gen => ScanReplay(h, s, g) = ScanReplay(flash, s, g)
           /\ op.kind = "generation" => Silent(h)
           /\ op.kind = "append" => Commits(h)
<1> DEFINE N == Newest(flash)  L == op.located  t == L.sector  k == op.slot
           cell == flash[t][k]
           c == WithEntry(cell, d, op.replay[d])
           h == Program(k, c)
           scan == ScanReplay(flash, t, L.gen)
           now == ScanReplay(h, t, L.gen)
<1>1. /\ flash \in Flashes /\ N \in Located \cup {None} /\ op \in Calls
      /\ op.kind \in {"append", "generation"} /\ op.left \in SUBSET Domains /\ op.replay \in Floors
      /\ L \in Located /\ t \in Sectors /\ L.gen \in Generations /\ L.state \in States
      /\ CallHolds(op, flash, N) /\ GenerationsBounded(flash, N)
      /\ AckedHolds(flash, N, ackedLimit)
      /\ ~doubt => LeftoversBounded(flash, N) /\ Late(flash) = {}
      /\ boot = View(flash) /\ L.gen <= NextGen(N)
  BY Calling
<1>2. d \in Domains /\ op.replay[d] \in 0 .. MaxFloor
  BY <1>1 DEF Floors
<1>3. SlotReady(op, flash)
  BY ReadyToWrite
<1>4. /\ k \in SlotIds /\ cell.kind = "replay" /\ cell.gen = L.gen
      /\ cell.torn = FALSE /\ cell.used < EntriesPerSlot
  BY <1>3 DEF SlotReady
<1>5. cell \in Cells
  BY <1>1, <1>4 DEF Flashes
<1> HIDE DEF N, L, h, cell
<1>6. cell.used \in 0 .. EntriesPerSlot - 1 /\ cell.floors \in Floors
  BY <1>4, <1>5, CellFacts, Constants
<1> DEFINE fl == Merge(cell.floors, [domain |-> d, floor |-> op.replay[d]])
<1>7. /\ fl \in Floors /\ fl[d] = MaxOf(cell.floors[d], op.replay[d])
      /\ \A x \in Domains \ {d} : fl[x] = cell.floors[x]
  BY <1>2, <1>6, MergeFacts
<1>8. c = ReplaySlot(L.gen, cell.used + 1, FALSE, fl)
  BY <1>4 DEF WithEntry
<1> HIDE DEF fl, c
<1>9. /\ c \in Cells /\ c.kind = "replay" /\ c.gen = L.gen /\ c.torn = FALSE
      /\ c.used = cell.used + 1 /\ c.floors = fl
  <2>1. cell.used + 1 \in 0 .. EntriesPerSlot
    BY <1>6, Constants
  <2>2. /\ \A b \in BOOLEAN : ReplaySlot(L.gen, cell.used + 1, b, fl) \in Cells
        /\ \A b \in BOOLEAN : ReplaySlot(L.gen, cell.used + 1, b, fl).kind = "replay"
    BY <1>1, <1>7, <2>1, CellsMade
  <2> QED BY <1>8, <2>2 DEF ReplaySlot
<1>10. /\ h \in Flashes /\ h[t][k] = c
       /\ \A s \in Sectors, i \in SlotIds : s # t \/ i # k => h[s][i] = flash[s][i]
  BY <1>1, <1>4, <1>9, Programmed DEF Program, h, L
<1>11. Newest(h) = N
  <2>1. \A s \in Sectors, i \in SlotIds :
          \/ h[s][i] = flash[s][i]
          \/ h[s][i].kind # "record" /\ flash[s][i].kind # "record"
    BY <1>4, <1>9, <1>10 DEF cell
  <2> QED BY <2>1, NewestSame DEF N
<1>12. ASSUME NEW s \in Sectors, NEW g \in Nat, s # t \/ g # L.gen
       PROVE  ScanReplay(h, s, g) = ScanReplay(flash, s, g)
  <2>1. ASSUME NEW i \in SlotIds
        PROVE  \/ h[s][i] = flash[s][i]
               \/ i \notin ReplaySlots(h, s, g) /\ i \notin ReplaySlots(flash, s, g)
    <3>1. CASE s = t /\ i = k
      <4>1. h[s][i] = c /\ flash[s][i] = cell /\ g # L.gen
        BY <1>10, <1>12, <3>1 DEF cell
      <4> QED BY <1>4, <1>9, <4>1 DEF ReplaySlots
    <3>2. CASE ~(s = t /\ i = k)
      BY <1>10, <3>2
    <3> QED BY <3>1, <3>2
  <2> QED BY <2>1, ScanSame
<1>13. scan \in Floors /\ now \in Floors
  BY <1>1, <1>10, ScanFacts
<1>14. ASSUME NEW x \in Domains
       PROVE  now[x] = IF x = d THEN MaxOf(scan[x], op.replay[x]) ELSE scan[x]
  <2>1. k \in ReplaySlots(h, t, L.gen) /\ k \in ReplaySlots(flash, t, L.gen)
    BY <1>4, <1>9, <1>10 DEF ReplaySlots, cell
  <2>2. ASSUME NEW y \in Domains
        PROVE  /\ cell.floors[y] \in 0 .. MaxFloor /\ scan[y] \in 0 .. MaxFloor
               /\ cell.floors[y] <= scan[y]
    <3>1. flash[t][k].floors[y] <= scan[y]
      BY <1>1, <2>1, ScanFacts
    <3> QED BY <1>6, <1>13, <3>1 DEF Floors, cell
  <2>3. AtMost(cell.floors, fl)
    <3>1. ASSUME NEW y \in Domains PROVE cell.floors[y] <= fl[y]
      BY <1>2, <1>7, <2>2, Constants DEF MaxOf
    <3> QED BY <3>1 DEF AtMost
  <2>4. AtMost(flash[t][k].floors, h[t][k].floors)
    BY <1>9, <1>10, <2>3 DEF cell
  <2>5. \A i \in SlotIds \ {k} : h[t][i] = flash[t][i]
    BY <1>1, <1>10
  <2>6. now[x] = MaxOf(scan[x], h[t][k].floors[x])
    BY <1>1, <1>4, <1>10, <2>1, <2>4, <2>5, ScanExtend
  <2>7. h[t][k].floors = fl
    BY <1>9, <1>10
  <2>8. now[x] = MaxOf(scan[x], fl[x])
    BY <2>6, <2>7
  <2> HIDE DEF now, scan
  <2>9. CASE x = d
    BY <1>2, <1>7, <2>2, <2>8, <2>9, Constants DEF MaxOf
  <2>10. CASE x # d
    <3>1. fl[x] = cell.floors[x]
      BY <1>7, <2>10
    <3> QED BY <2>2, <2>8, <2>10, <3>1, Constants DEF MaxOf
  <2> QED BY <2>9, <2>10
<1>15. /\ L.gen \in Nat
       /\ N # None => /\ N.sector \in Sectors /\ N.gen \in Nat /\ N.gen + 1 \in Nat
                      /\ NextGen(N) = N.gen + 1
  BY <1>1, Constants DEF Located, Generations, NextGen
<1>16. GenerationsBounded(h, N)
  <2>1. ASSUME NEW s \in Sectors, NEW i \in SlotIds, h[s][i].kind \in {"record", "marginal", "replay"}
        PROVE  h[s][i].gen <= NextGen(N)
    <3>1. CASE s = t /\ i = k
      BY <1>1, <1>9, <1>10, <3>1
    <3>2. CASE ~(s = t /\ i = k)
      BY <1>1, <1>10, <2>1, <3>2 DEF GenerationsBounded
    <3> QED BY <3>1, <3>2
  <2> QED BY <2>1 DEF GenerationsBounded
<1>17. ASSUME NEW s \in Sectors, NEW i \in SlotIds, h[s][i].kind = "marginal"
       PROVE  h[s][i] = flash[s][i]
  BY <1>9, <1>10, <1>17
<1>18. AckedHolds(h, N, ackedLimit)
  <2>1. ASSUME NEW s \in Sectors, NEW i \in SlotIds, h[s][i].kind = "marginal", h[s][i].gen = NextGen(N)
        PROVE  ackedLimit <= h[s][i].state.limit
    <3>1. h[s][i] = flash[s][i]
      BY <1>17, <2>1
    <3> QED BY <1>1, <2>1, <3>1 DEF AckedHolds
  <2> QED BY <1>1, <2>1 DEF AckedHolds
<1>19. Late(h) \subseteq Late(flash)
  <2>1. \A s \in Sectors, i \in SlotIds :
          h[s][i].kind = "marginal" => h[s][i] = flash[s][i] \/ h[s][i].state \in {}
    BY <1>17
  <2>2. Late(h) \subseteq Late(flash) \cup {}
    BY <2>1, LateGrows
  <2> QED BY <2>2
<1>20. ASSUME NEW x \in Domains
       PROVE  /\ scan[x] \in 0 .. MaxFloor /\ now[x] \in 0 .. MaxFloor /\ op.replay[x] \in 0 .. MaxFloor
              /\ scan[x] <= now[x]
  <2>1. scan[x] \in 0 .. MaxFloor /\ now[x] \in 0 .. MaxFloor /\ op.replay[x] \in 0 .. MaxFloor
    BY <1>1, <1>13 DEF Floors
  <2>2. now[x] = IF x = d THEN MaxOf(scan[x], op.replay[x]) ELSE scan[x]
    BY <1>14
  <2> HIDE DEF scan, now
  <2> QED BY <2>1, <2>2, Constants DEF MaxOf
<1>21. CASE op.kind = "generation"
  <2>1. /\ L.gen = NextGen(N)
        /\ N # None /\ t = N.sector => AtMost(op.replay, ScanReplay(flash, N.sector, N.gen))
    BY <1>1, <1>21 DEF CallHolds, GenerationHolds, L
  <2>2. View(h) = View(flash)
    <3>1. CASE N = None
      BY <1>11, <3>1 DEF View, N
    <3>2. CASE N # None
      <4>1. ScanReplay(h, N.sector, N.gen) = ScanReplay(flash, N.sector, N.gen)
        BY <1>12, <1>15, <2>1, <3>2
      <4>2. Newest(flash) = N
        BY DEF N
      <4> QED BY <1>11, <3>2, <4>1, <4>2 DEF View
    <3> QED BY <3>1, <3>2
  <2>3. ASSUME ~doubt, N # None
        PROVE  AtMost(ScanReplay(h, N.sector, NextGen(N)), ScanReplay(h, N.sector, N.gen))
    <3>1. ScanReplay(h, N.sector, N.gen) = ScanReplay(flash, N.sector, N.gen)
      BY <1>12, <1>15, <2>1, <2>3
    <3>2. AtMost(ScanReplay(flash, N.sector, NextGen(N)), ScanReplay(flash, N.sector, N.gen))
      BY <1>1, <2>3 DEF LeftoversBounded
    <3>3. CASE t # N.sector
      <4>1. ScanReplay(h, N.sector, NextGen(N)) = ScanReplay(flash, N.sector, NextGen(N))
        BY <1>12, <1>15, <2>3, <3>3
      <4> QED BY <3>1, <3>2, <4>1
    <3>4. CASE t = N.sector
      <4> DEFINE cur == ScanReplay(flash, t, N.gen)
      <4>1. AtMost(op.replay, cur) /\ AtMost(scan, cur)
        BY <2>1, <2>3, <3>2, <3>4
      <4>2. ASSUME NEW x \in Domains PROVE now[x] <= cur[x]
        <5>1. now[x] = IF x = d THEN MaxOf(scan[x], op.replay[x]) ELSE scan[x]
          BY <1>14
        <5>2. op.replay[x] <= cur[x] /\ scan[x] <= cur[x]
          BY <4>1 DEF AtMost
        <5> HIDE DEF now, scan, cur
        <5> QED BY <5>1, <5>2 DEF MaxOf
      <4>3. AtMost(now, cur)
        BY <4>2 DEF AtMost
      <4> QED BY <2>1, <3>1, <3>4, <4>3
    <3> QED BY <3>3, <3>4
  <2>4. FlashHolds(h)
    BY <1>10, <1>11, <1>16, <1>18, <2>3 DEF FlashHolds, LeftoversBounded
  <2>5. Silent(h)
    BY <1>1, <1>19, <2>2 DEF Silent
  <2>6. op.kind # "append"
    BY <1>21
  <2> HIDE DEF scan, now
  <2> QED BY <1>4, <1>6, <1>9, <1>10, <1>11, <1>12, <1>14, <2>4, <2>5, <2>6
          DEF L, N, cell, c, h, scan, now
<1>22. CASE op.kind = "append"
  <2>1. /\ L = N /\ N # None /\ op.left = {d}
        /\ \A x \in Domains \ op.left : op.replay[x] <= ScanReplay(flash, t, L.gen)[x]
    <3>1. /\ op.located = N /\ N # None /\ \E e \in Domains : op.left = {e}
          /\ \A x \in Domains \ op.left :
               op.replay[x] <= ScanReplay(flash, op.located.sector, op.located.gen)[x]
      BY <1>1, <1>22 DEF CallHolds, AppendHolds
    <3>2. op.left = {d}
      BY <3>1
    <3> QED BY <3>1, <3>2 DEF L
  <2>2. View(h) = [state |-> L.state, floors |-> now]
    BY <1>11, <2>1 DEF View
  <2>3. boot = [state |-> L.state, floors |-> scan]
    BY <1>1, <2>1 DEF View, N
  <2>4. ASSUME NEW x \in Domains
        PROVE  op.replay[x] <= now[x] /\ now[x] <= MaxOf(scan[x], op.replay[x])
    <3>1. /\ scan[x] \in 0 .. MaxFloor /\ now[x] \in 0 .. MaxFloor /\ op.replay[x] \in 0 .. MaxFloor
          /\ now[x] = IF x = d THEN MaxOf(scan[x], op.replay[x]) ELSE scan[x]
      BY <1>14, <1>20
    <3>2. x # d => op.replay[x] <= scan[x]
      BY <2>1
    <3> HIDE DEF now, scan
    <3> QED BY <3>1, <3>2, Constants DEF MaxOf
  <2>5. View(h) \in Views
    BY <1>10, NewestOfView
  <2>6. View(h).state = L.state /\ View(h).floors = now /\ boot.floors = scan
    BY <2>2, <2>3
  <2>7. Commits(h)
    <3> HIDE DEF now, scan
    <3>1. AtMost(op.replay, View(h).floors)
      BY <2>4, <2>6 DEF AtMost
    <3>2. \A x \in Domains : View(h).floors[x] <= MaxOf(boot.floors[x], op.replay[x])
      BY <2>4, <2>6
    <3> QED BY <1>19, <2>5, <2>6, <3>1, <3>2 DEF Commits, L
  <2>8. ~doubt => LeftoversBounded(h, N)
    <3> SUFFICES ASSUME ~doubt PROVE AtMost(ScanReplay(h, N.sector, NextGen(N)), now)
      BY <2>1 DEF LeftoversBounded
    <3>1. ScanReplay(h, N.sector, NextGen(N)) = ScanReplay(flash, N.sector, NextGen(N))
      BY <1>12, <1>15, <2>1
    <3>2. AtMost(ScanReplay(flash, N.sector, NextGen(N)), scan)
      BY <1>1, <2>1 DEF LeftoversBounded
    <3>3. ScanReplay(flash, N.sector, NextGen(N)) \in Floors
      BY <1>1, <1>15, <2>1, ScanFacts
    <3> DEFINE left == ScanReplay(flash, N.sector, NextGen(N))
    <3>4. ASSUME NEW x \in Domains PROVE left[x] <= now[x]
      <4>1. left[x] \in 0 .. MaxFloor /\ left[x] <= scan[x]
        BY <3>2, <3>3 DEF AtMost, Floors
      <4>2. scan[x] \in 0 .. MaxFloor /\ now[x] \in 0 .. MaxFloor /\ scan[x] <= now[x]
        BY <1>20
      <4> HIDE DEF left, scan, now
      <4> QED BY <4>1, <4>2, Constants
    <3> QED BY <3>1, <3>4 DEF AtMost
  <2>9. FlashHolds(h)
    BY <1>10, <1>11, <1>16, <1>18, <2>8 DEF FlashHolds
  <2>10. op.kind # "generation"
    BY <1>22
  <2> HIDE DEF scan, now
  <2> QED BY <1>4, <1>6, <1>9, <1>10, <1>11, <1>12, <1>14, <2>7, <2>9, <2>10
          DEF L, N, cell, c, h, scan, now
<1> QED BY <1>1, <1>21, <1>22

\* The state record: the commit point of a generation.
LEMMA RecordOutcome ==
    ASSUME IInv, op # Idle, op.erase = FALSE, op.left = {}
    PROVE  LET L == op.located
               h == Program(op.base, StateRecord(L.gen, L.state))
           IN
           /\ op.kind = "generation" /\ op.record = TRUE
           /\ FlashHolds(h) /\ Newest(h) = L
           /\ AckedHolds(h, L, MaxOf(ackedLimit, L.state.limit))
           /\ AtMost(op.replay, ScanReplay(h, L.sector, L.gen))
           /\ Commits(h)
<1> DEFINE N == Newest(flash)  L == op.located  t == L.sector  k == op.base
           c == StateRecord(L.gen, L.state)
           h == Program(k, c)
           scan == ScanReplay(flash, t, L.gen)
<1>1. /\ flash \in Flashes /\ N \in Located \cup {None} /\ op \in Calls
      /\ op.kind \in {"append", "generation"} /\ k \in SlotIds /\ op.replay \in Floors
      /\ L \in Located /\ t \in Sectors /\ L.gen \in Generations /\ L.state \in States
      /\ L.state.limit \in 0 .. MaxLimit
      /\ CallHolds(op, flash, N) /\ GenerationsBounded(flash, N)
      /\ AckedHolds(flash, N, ackedLimit) /\ ackedLimit \in 0 .. MaxLimit
      /\ ~doubt => LeftoversBounded(flash, N) /\ Late(flash) = {}
      /\ boot = View(flash)
  BY Calling
<1>2. op.kind = "generation"
  <2>1. op.kind # "append"
    BY <1>1 DEF CallHolds, AppendHolds
  <2> QED BY <1>1, <2>1
<1>3. /\ op.record = TRUE /\ L.gen = NextGen(N)
      /\ N # None => N.state.limit <= L.state.limit
      /\ flash[t][k] = Erased
      /\ N = None \/ t # N.sector => AtMost(scan, op.replay)
      /\ \A d \in Domains : op.replay[d] <= scan[d]
  <2> HIDE DEF N
  <2> QED BY <1>1, <1>2 DEF CallHolds, GenerationHolds, RunReady
<1>4. /\ L.gen \in Nat
      /\ N # None => /\ N.sector \in Sectors /\ N.gen \in Nat /\ N.gen + 1 \in Nat
                     /\ N.state.limit \in 0 .. MaxLimit /\ NextGen(N) = N.gen + 1
      /\ N = None => NextGen(N) = 0
      /\ L # None /\ NextGen(L) = L.gen + 1
  BY <1>1, Constants DEF Located, States, Generations, NextGen
<1>5. c \in Cells /\ c.kind = "record" /\ c.gen = L.gen /\ c.state = L.state
  BY <1>1, CellsMade
<1>6. /\ h \in Flashes /\ h[t][k] = c
      /\ \A s \in Sectors, i \in SlotIds : s # t \/ i # k => h[s][i] = flash[s][i]
  <2> HIDE DEF c
  <2> QED BY <1>1, <1>5, Programmed DEF Program
<1>7. ASSUME NEW s \in Sectors, NEW i \in SlotIds, flash[s][i].kind = "record"
      PROVE  flash[s][i].gen < L.gen
  <2>1. Dominates(N, flash[s][i])
    BY <1>1, NewestFacts
  <2>2. flash[s][i].gen \in Nat
    <3>1. flash[s][i] \in Cells
      BY <1>1 DEF Flashes
    <3> QED BY <1>7, <3>1, CellFacts DEF Generations
  <2> HIDE DEF N, L
  <2>3. N # None /\ flash[s][i].gen <= N.gen
    BY <1>4, <1>7, <2>1, <2>2 DEF Dominates
  <2> QED BY <1>3, <1>4, <2>2, <2>3
<1> HIDE DEF N, L, h, c
<1>8. Newest(h) = L
  <2>1. \A s \in Sectors, i \in SlotIds :
             s # t \/ i # k => /\ h[s][i] = flash[s][i]
                               /\ flash[s][i].kind = "record" => flash[s][i].gen < h[t][k].gen
    BY <1>5, <1>6, <1>7
  <2>2. h[t][k].kind = "record"
    BY <1>5, <1>6
  <2>3. Newest(h) = [gen |-> h[t][k].gen, sector |-> t, state |-> h[t][k].state]
    BY <1>1, <1>6, <2>1, <2>2, NewestWritten
  <2>4. L = [gen |-> L.gen, sector |-> L.sector, state |-> L.state]
    BY <1>1 DEF Located
  <2> QED BY <1>5, <1>6, <2>3, <2>4
<1>9. ASSUME NEW s \in Sectors, NEW i \in SlotIds, h[s][i].kind \in {"record", "marginal", "replay"}
      PROVE  h[s][i].gen <= L.gen /\ h[s][i].gen \in Nat
  <2>1. CASE s = t /\ i = k
    BY <1>4, <1>5, <1>6, <2>1
  <2>2. CASE ~(s = t /\ i = k)
    <3>1. h[s][i] = flash[s][i] /\ flash[s][i].gen <= NextGen(N)
      BY <1>1, <1>6, <1>9, <2>2 DEF GenerationsBounded
    <3>2. h[s][i] \in Cells
      BY <1>6 DEF Flashes
    <3>3. h[s][i].gen \in Nat
      BY <1>9, <3>2, CellFacts DEF Generations
    <3> QED BY <1>3, <3>1, <3>3
  <2> QED BY <2>1, <2>2
<1>10. GenerationsBounded(h, L)
  <2>1. ASSUME NEW s \in Sectors, NEW i \in SlotIds, h[s][i].kind \in {"record", "marginal", "replay"}
        PROVE  h[s][i].gen <= NextGen(L)
    BY <1>4, <1>9, <2>1
  <2> QED BY <2>1 DEF GenerationsBounded
<1>11. ackedLimit <= L.state.limit
  BY <1>1, <1>3, <1>4 DEF AckedHolds
<1>12. ASSUME NEW a, a <= L.state.limit PROVE AckedHolds(h, L, a)
  <2>1. ASSUME NEW s \in Sectors, NEW i \in SlotIds, h[s][i].kind = "marginal", h[s][i].gen = NextGen(L)
        PROVE  FALSE
    BY <1>4, <1>9, <2>1
  <2> QED BY <1>4, <1>12, <2>1 DEF AckedHolds
<1>13. /\ AckedHolds(h, L, ackedLimit)
       /\ AckedHolds(h, L, MaxOf(ackedLimit, L.state.limit))
  <2>1. MaxOf(ackedLimit, L.state.limit) <= L.state.limit
    BY <1>1, <1>11 DEF MaxOf
  <2> QED BY <1>11, <1>12, <2>1
<1>14. ScanReplay(h, t, L.gen) = scan
  <2>1. ASSUME NEW i \in SlotIds
        PROVE  \/ h[t][i] = flash[t][i]
               \/ i \notin ReplaySlots(h, t, L.gen) /\ i \notin ReplaySlots(flash, t, L.gen)
    <3>1. CASE i = k
      BY <1>3, <1>5, <1>6, <3>1, CellsMade DEF ReplaySlots
    <3>2. CASE i # k
      BY <1>1, <1>6, <3>2
    <3> QED BY <3>1, <3>2
  <2> QED BY <2>1, ScanSame
<1>15. scan \in Floors
  BY <1>1, ScanFacts
<1>16. LeftoversBounded(h, L)
  <2> DEFINE next == ScanReplay(h, t, NextGen(L))
  <2>1. ReplaySlots(h, t, NextGen(L)) = {}
    <3>1. ASSUME NEW i \in SlotIds, h[t][i].kind = "replay", h[t][i].gen = NextGen(L) PROVE FALSE
      BY <1>1, <1>4, <1>9, <3>1
    <3> QED BY <3>1 DEF ReplaySlots
  <2>2. \A d \in Domains : next[d] = 0
    BY <1>1, <1>6, <2>1, ScanFacts
  <2>3. \A d \in Domains : scan[d] \in 0 .. MaxFloor
    BY <1>15 DEF Floors
  <2>4. AtMost(next, scan)
    <3> HIDE DEF next, scan
    <3> QED BY <2>2, <2>3 DEF AtMost
  <2> QED BY <1>14, <2>4 DEF LeftoversBounded
<1>17. Late(h) \subseteq Late(flash)
  <2>1. \A s \in Sectors, i \in SlotIds :
          h[s][i].kind = "marginal" => h[s][i] = flash[s][i] \/ h[s][i].state \in {}
    BY <1>5, <1>6
  <2>2. Late(h) \subseteq Late(flash) \cup {}
    BY <2>1, LateGrows
  <2> QED BY <2>2
<1>18. AtMost(op.replay, scan)
  BY <1>3 DEF AtMost
<1>19. View(h) \in Views /\ View(h).state = L.state /\ View(h).floors = scan
  BY <1>4, <1>6, <1>8, <1>14, NewestOfView
<1>20. ASSUME ~doubt, NEW d \in Domains
       PROVE  scan[d] <= MaxOf(boot.floors[d], op.replay[d])
  <2>1. /\ scan[d] \in 0 .. MaxFloor /\ op.replay[d] \in 0 .. MaxFloor
        /\ boot.floors[d] \in 0 .. MaxFloor
    <3>1. boot.floors \in Floors
      BY <1>1, NewestOfView DEF Views
    <3> QED BY <1>1, <1>15, <3>1 DEF Floors
  <2>2. CASE N # None /\ t = N.sector
    <3>1. boot.floors = ScanReplay(flash, N.sector, N.gen)
      BY <1>1, <2>2, NewestOfView DEF N
    <3>2. AtMost(scan, ScanReplay(flash, N.sector, N.gen))
      BY <1>1, <1>3, <1>20, <2>2 DEF LeftoversBounded
    <3>3. scan[d] <= boot.floors[d]
      BY <3>1, <3>2 DEF AtMost
    <3> HIDE DEF scan
    <3> QED BY <2>1, <3>3, Constants DEF MaxOf
  <2>3. CASE ~(N # None /\ t = N.sector)
    <3>1. scan[d] <= op.replay[d]
      BY <1>3, <2>3 DEF AtMost
    <3> HIDE DEF scan
    <3> QED BY <2>1, <3>1, Constants DEF MaxOf
  <2> QED BY <2>2, <2>3
<1>21. Commits(h)
  BY <1>17, <1>18, <1>19, <1>20 DEF Commits, L
<1>22. FlashHolds(h)
  BY <1>6, <1>8, <1>10, <1>13, <1>16 DEF FlashHolds
<1> QED BY <1>2, <1>3, <1>8, <1>13, <1>14, <1>18, <1>21, <1>22 DEF L, c, h

-----------------------------------------------------------------------------
(* Each write, when it succeeds. *)

LEMMA WriteSteps ==
    /\ EraseStep.write = "erase" /\ HeaderStep.write = "header" /\ RecordStep.write = "record"
    /\ \A d : EntryStep(d).write = "entry" /\ EntryStep(d).domain = d
BY DEF EraseStep, HeaderStep, RecordStep, EntryStep

LEMMA WritesCases ==
    ASSUME IInv, op # Idle, NEW w \in Writes(op)
    PROVE  \/ w = EraseStep /\ op.erase = TRUE
           \/ w = HeaderStep /\ op.erase = FALSE /\ op.headed = FALSE /\ op.left # {}
           \/ op.erase = FALSE /\ op.headed = TRUE /\ \E d \in op.left : w = EntryStep(d)
           \/ w = RecordStep /\ op.erase = FALSE /\ op.left = {}
<1>1. op.erase \in BOOLEAN /\ op.headed \in BOOLEAN
  BY Calling
<1>2. CASE op.erase = TRUE
  BY <1>2 DEF Writes
<1>3. CASE op.erase = FALSE /\ op.left = {}
  BY <1>3 DEF Writes
<1>4. CASE op.erase = FALSE /\ op.left # {} /\ op.headed = TRUE
  BY <1>4 DEF Writes, SnapshotWrites
<1>5. CASE op.erase = FALSE /\ op.left # {} /\ op.headed = FALSE
  BY <1>5 DEF Writes, SnapshotWrites
<1> QED BY <1>1, <1>2, <1>3, <1>4, <1>5

\* What holds after a successful write: of a completed call, and of the rest o
\* of one that goes on.
Done(h) ==
    /\ Newest(h) = op.located /\ Commits(h)
    /\ AtMost(op.replay, ScanReplay(h, op.located.sector, op.located.gen))
    /\ op.kind = "generation" =>
         AckedHolds(h, op.located, MaxOf(ackedLimit, op.located.state.limit))
GoesOn(h, o) ==
    /\ Silent(h) /\ o \in Calls /\ o.located = op.located /\ o.replay = op.replay
    /\ CallHolds(o, h, Newest(h))
Succeeds(h, o) ==
    /\ FlashHolds(h)
    /\ op.kind = "append" => Newest(h) = op.located
    /\ IF Completed(o) THEN Done(h) ELSE GoesOn(h, o)

LEMMA EraseWritten ==
    ASSUME IInv, op # Idle, op.erase = TRUE
    PROVE  Succeeds(Written(EraseStep), Advance(EraseStep))
<1> DEFINE N == Newest(flash)  L == op.located  t == L.sector
           h == [flash EXCEPT ![t] = [i \in SlotIds |-> Erased]]
           o == [op EXCEPT !.erase = FALSE]
<1>1. Written(EraseStep) = h /\ Advance(EraseStep) = o
  BY WriteSteps DEF Written, Advance
<1>2. /\ flash \in Flashes /\ N \in Located \cup {None} /\ op \in Calls
      /\ op.left \in SUBSET Domains /\ op.replay \in Floors
      /\ L \in Located /\ t \in Sectors /\ L.gen \in Generations
      /\ CallHolds(op, flash, N)
  BY Calling
<1>3. h \in Flashes /\ \A s \in Sectors, i \in SlotIds :
          IF s = t THEN h[s][i] = Erased ELSE h[s][i] = flash[s][i]
  BY <1>2, CellsMade DEF Flashes
<1>4. /\ o \in Calls /\ o.kind = op.kind /\ o.erase = FALSE /\ o.base = op.base /\ o.slot = op.slot
      /\ o.headed = op.headed /\ o.left = op.left /\ o.record = op.record
      /\ o.located = op.located /\ o.replay = op.replay
  BY <1>2 DEF Calls
<1> HIDE DEF N, h, o
<1>5. op.kind = "generation" /\ FlashHolds(h) /\ Newest(h) = N /\ Silent(h)
  <2>1. ASSUME NEW s \in Sectors, NEW i \in SlotIds
        PROVE  IF s = op.located.sector /\ i < Slots THEN h[s][i].kind \in {"erased", "torn"}
               ELSE h[s][i] = flash[s][i]
    <3>1. i < Slots
      BY Constants DEF SlotIds
    <3> QED BY <1>3, <3>1, CellsMade
  <2>2. Slots \in Nat
    BY Constants
  <2> QED BY <1>3, <2>1, <2>2, EraseOutcome DEF N
<1>6. GenerationHolds(op, flash, N)
  BY <1>2, <1>5 DEF CallHolds
<1>7. /\ op.record = TRUE /\ L.gen = NextGen(N)
      /\ N # None => N.state.limit <= L.state.limit
      /\ N # None => L.sector # N.sector
      /\ op.base = 0 /\ op.slot = 1 /\ op.headed = FALSE
      /\ op.left = Stored(op.replay)
  BY <1>6 DEF GenerationHolds, Stored
<1> DEFINE n == SnapshotSlots(Cardinality(Stored(op.replay)))
<1>8. /\ Cardinality(Stored(op.replay)) \in Nat /\ n \in Nat /\ 1 + n <= Slots
      /\ Cardinality(Stored(op.replay)) <= EntriesPerSlot * n
      /\ Stored(op.replay) # {} => n >= 1
  BY StoredFits
<1> HIDE DEF n
<1>9. LastSlot(o) = n
  BY <1>4, <1>7, <1>8 DEF LastSlot, Stored, n
<1>10. SlotReady(o, h)
  <2>1. o.left # {} => o.slot \in SlotIds
    BY <1>4, <1>7, <1>8, Constants DEF SlotIds
  <2>2. o.slot \in SlotIds => h[o.located.sector][o.slot] = Erased
    BY <1>2, <1>3, <1>4
  <2> QED BY <1>4, <1>7, <2>1, <2>2 DEF SlotReady
<1>11. RunReady(o, h)
  <2>1. FirstFree(o) = 1
    BY <1>4, <1>7 DEF FirstFree
  <2>2. Room(o, h) = EntriesPerSlot * n
    <3>1. Room(o, h) = 0 + EntriesPerSlot * (n - 1 + 1)
      BY <1>4, <1>7, <1>9, <2>1 DEF Room
    <3>2. n - 1 + 1 = n
      BY <1>8
    <3>3. 0 + EntriesPerSlot * n = EntriesPerSlot * n
      BY <1>8, Constants
    <3> QED BY <3>1, <3>2, <3>3
  <2>3. \A i \in 0 .. n : i \in SlotIds /\ h[o.located.sector][i] = Erased
    <3>1. \A i \in 0 .. n : i \in SlotIds
      BY <1>8, Constants DEF SlotIds
    <3> QED BY <1>2, <1>3, <1>4, <3>1
  <2>4. h[o.located.sector][o.base] = Erased
    BY <1>4, <1>7, <1>8, <2>3
  <2>5. \A i \in FirstFree(o) .. LastSlot(o) : h[o.located.sector][i] = Erased
    BY <1>8, <1>9, <2>1, <2>3
  <2>6. o.base < o.slot /\ LastSlot(o) < Slots /\ FirstFree(o) <= LastSlot(o) + 1
    BY <1>4, <1>7, <1>8, <1>9, <2>1, Constants
  <2>7. Cardinality(o.left) <= Room(o, h)
    BY <1>4, <1>7, <1>8, <2>2
  <2> QED BY <2>4, <2>5, <2>6, <2>7 DEF RunReady
<1>12. \A d \in Domains : ScanReplay(h, t, L.gen)[d] = 0
  <2>1. ReplaySlots(h, t, L.gen) = {}
    BY <1>2, <1>3, CellsMade DEF ReplaySlots
  <2> QED BY <1>2, <1>3, <2>1, ScanFacts
<1>13. \A d \in Domains : op.replay[d] \in 0 .. MaxFloor
  BY <1>2 DEF Floors
<1>14. AtMost(ScanReplay(h, t, L.gen), op.replay)
  BY <1>12, <1>13 DEF AtMost
<1>15. GenerationHolds(o, h, N)
  BY <1>4, <1>7, <1>10, <1>11, <1>14 DEF GenerationHolds
<1>16. \A d \in Domains \ o.left :
         o.replay[d] <= ScanReplay(h, o.located.sector, o.located.gen)[d]
  <2>1. ASSUME NEW d \in Domains \ o.left PROVE op.replay[d] = 0
    BY <1>4, <1>7, <1>13 DEF Stored
  <2> QED BY <1>4, <1>12, <2>1
<1>17. CallHolds(o, h, N)
  BY <1>4, <1>5, <1>15, <1>16 DEF CallHolds
<1>18. ~Completed(o)
  BY <1>4, <1>7 DEF Completed
<1> QED BY <1>1, <1>4, <1>5, <1>17, <1>18 DEF Succeeds, GoesOn

LEMMA OneSlotLess ==
    ASSUME NEW x \in Int
    PROVE  EntriesPerSlot + EntriesPerSlot * (x - 1) = EntriesPerSlot * x
<1>1. EntriesPerSlot \in Int
  BY Constants
<1>2. \A E \in Int : E + E * (x - 1) = E * x
  OBVIOUS
<1> QED BY <1>1, <1>2

LEMMA LastSlotFacts ==
    ASSUME NEW o, o.base \in SlotIds
    PROVE  LastSlot(o) \in Nat /\ o.base <= LastSlot(o)
<1>1. SnapshotSlots(Cardinality(Stored(o.replay))) \in Nat
  BY StoredFits
<1>2. o.base \in Nat
  BY Constants DEF SlotIds
<1> QED BY <1>1, <1>2 DEF LastSlot, Stored

LEMMA CountLeft ==
    ASSUME NEW S \in SUBSET Domains
    PROVE  /\ Cardinality(S) \in Nat
           /\ S # {} => Cardinality(S) >= 1
           /\ \A d \in S : Cardinality(S \ {d}) = Cardinality(S) - 1
<1>1. IsFiniteSet(S)
  BY Constants, FS_Subset
<1>2. Cardinality(S) \in Nat
  BY <1>1, FS_CardinalityType
<1>3. S # {} => Cardinality(S) # 0
  BY <1>1, FS_EmptySet
<1>4. \A d \in S : Cardinality(S \ {d}) = Cardinality(S) - 1
  BY <1>1, FS_RemoveElement
<1> QED BY <1>2, <1>3, <1>4

LEMMA HeaderWritten ==
    ASSUME IInv, op # Idle, op.erase = FALSE, op.headed = FALSE, op.left # {}
    PROVE  Succeeds(Written(HeaderStep), Advance(HeaderStep))
<1> DEFINE N == Newest(flash)  L == op.located  t == L.sector  k == op.slot
           c == ReplaySlot(L.gen, 0, FALSE, NoFloors)
           h == Program(k, c)
           o == [op EXCEPT !.headed = TRUE]
<1>1. Written(HeaderStep) = h /\ Advance(HeaderStep) = o
  BY WriteSteps DEF Written, Advance
<1>2. /\ flash \in Flashes /\ N \in Located \cup {None} /\ op \in Calls
      /\ op.kind \in {"append", "generation"} /\ op.base \in SlotIds
      /\ op.left \in SUBSET Domains /\ op.replay \in Floors
      /\ L \in Located /\ t \in Sectors /\ L.gen \in Generations
      /\ CallHolds(op, flash, N)
  BY Calling
<1>3. k \in SlotIds /\ flash[t][k] = Erased
  BY ReadyToWrite DEF SlotReady
<1>4. /\ c \in Cells /\ c.kind = "replay" /\ c.gen = L.gen /\ c.used = 0 /\ c.torn = FALSE
      /\ c.floors = NoFloors
  <2>1. 0 \in 0 .. EntriesPerSlot
    BY Constants
  <2>2. c \in Cells
    BY <1>2, <2>1, CellsMade
  <2> QED BY <2>2 DEF ReplaySlot
<1> HIDE DEF c
<1>5. /\ h \in Flashes /\ h[t][k] = c
      /\ \A s \in Sectors, i \in SlotIds : s # t \/ i # k => h[s][i] = flash[s][i]
  BY <1>2, <1>3, <1>4, Programmed DEF Program
<1>6. /\ o \in Calls /\ o.kind = op.kind /\ o.erase = FALSE /\ o.base = op.base /\ o.slot = op.slot
      /\ o.headed = TRUE /\ o.left = op.left /\ o.record = op.record
      /\ o.located = op.located /\ o.replay = op.replay
  BY <1>2 DEF Calls
<1>7. /\ FlashHolds(h) /\ Newest(h) = N /\ Silent(h)
      /\ \A s \in Sectors, g \in Nat : ScanReplay(h, s, g) = ScanReplay(flash, s, g)
  <2>1. LET old == flash[op.located.sector][k] IN
             /\ c.kind # "record"
             /\ \/ /\ old.kind = "replay" /\ old.gen = op.located.gen
                   /\ c.kind = "replay" /\ c.gen = op.located.gen /\ c.floors = old.floors
                \/ /\ old.kind = "erased"
                   /\ c.kind = "replay" => c.gen = op.located.gen /\ c.floors = NoFloors
             /\ c.kind = "marginal" => op.kind = "generation" /\ c.gen = op.located.gen /\ c.state = op.located.state
    BY <1>3, <1>4, CellsMade
  <2>2. c.kind # "marginal"
    BY <1>4
  <2> HIDE DEF k
  <2> QED BY <1>3, <1>4, <2>1, <2>2, QuietOutcome
<1> HIDE DEF N, h, o
<1>8. SlotReady(o, h)
  <2>1. EntriesPerSlot > 0
    BY Constants
  <2> QED BY <1>3, <1>4, <1>5, <1>6, <2>1 DEF SlotReady
<1>9. L.gen \in Nat /\ (N # None => N.sector \in Sectors /\ N.gen \in Nat)
  BY <1>2, Constants DEF Located, Generations
<1>10. ASSUME op.kind = "generation" PROVE GenerationHolds(o, h, N)
  <2>1. GenerationHolds(op, flash, N)
    BY <1>2, <1>10 DEF CallHolds
  <2>2. RunReady(op, flash)
    BY <2>1 DEF GenerationHolds
  <2> DEFINE last == LastSlot(op)
  <2>3. LastSlot(o) = last /\ last \in Nat /\ k \in Nat /\ op.base \in Nat
    BY <1>2, <1>3, <1>6, LastSlotFacts, Constants DEF LastSlot, SlotIds
  <2>4. FirstFree(op) = k /\ FirstFree(o) = k + 1
    BY <1>6 DEF FirstFree
  <2>5. /\ op.base < k /\ last < Slots /\ k <= last + 1
        /\ flash[t][op.base] = Erased /\ \A i \in k .. last : flash[t][i] = Erased
        /\ Cardinality(op.left) <= Room(op, flash)
    BY <2>2, <2>4 DEF RunReady
  <2> HIDE DEF last
  <2> DEFINE x == last - k + 1
  <2>6. Room(op, flash) = EntriesPerSlot * x
    <3>1. Room(op, flash) = 0 + EntriesPerSlot * x
      BY <2>4 DEF Room, last
    <3>2. EntriesPerSlot * x \in Int
      BY <2>3, Constants
    <3> QED BY <3>1, <3>2
  <2>7. Room(o, h) = EntriesPerSlot * x
    <3>1. Room(o, h) = (EntriesPerSlot - 0) + EntriesPerSlot * (last - (k + 1) + 1)
      BY <1>4, <1>5, <1>6, <2>3, <2>4 DEF Room
    <3>2. last - (k + 1) + 1 = x - 1 /\ x \in Int
      BY <2>3
    <3>3. EntriesPerSlot - 0 = EntriesPerSlot
      BY Constants
    <3> HIDE DEF x
    <3>4. EntriesPerSlot + EntriesPerSlot * (x - 1) = EntriesPerSlot * x
      BY <3>2, OneSlotLess
    <3> QED BY <3>1, <3>2, <3>3, <3>4
  <2>8. k <= last
    <3>1. Cardinality(op.left) >= 1 /\ Cardinality(op.left) \in Nat
      BY <1>2, CountLeft
    <3>2. x = 0 => EntriesPerSlot * x = 0
      BY Constants
    <3>3. x # 0
      <4> HIDE DEF x
      <4> QED BY <2>5, <2>6, <3>1, <3>2
    <3> QED BY <2>3, <2>5, <3>3
  <2> HIDE DEF x
  <2>9. RunReady(o, h)
    <3>1. h[t][op.base] = Erased
      BY <1>2, <1>5, <2>3, <2>5
    <3>2. ASSUME NEW i \in k + 1 .. last PROVE h[t][i] = Erased
      <4>1. i \in SlotIds /\ i # k /\ i \in k .. last
        BY <2>3, <2>5, Constants DEF SlotIds
      <4> QED BY <1>2, <1>5, <2>5, <4>1
    <3>3. k + 1 <= last + 1
      BY <2>3, <2>8
    <3>4. Cardinality(o.left) <= Room(o, h)
      BY <1>6, <2>5, <2>6, <2>7
    <3> QED BY <1>6, <2>3, <2>4, <2>5, <3>1, <3>2, <3>3, <3>4 DEF RunReady
  <2>10. /\ N # None => ScanReplay(h, N.sector, N.gen) = ScanReplay(flash, N.sector, N.gen)
         /\ ScanReplay(h, t, L.gen) = ScanReplay(flash, t, L.gen)
    BY <1>2, <1>7, <1>9
  <2> QED BY <1>6, <1>8, <2>1, <2>9, <2>10 DEF GenerationHolds
<1>11. ASSUME op.kind = "append" PROVE AppendHolds(o, h, N) /\ Newest(h) = op.located
  <2>1. AppendHolds(op, flash, N)
    BY <1>2, <1>11 DEF CallHolds
  <2> QED BY <1>6, <1>7, <1>8, <2>1 DEF AppendHolds
<1>12. \A d \in Domains \ o.left :
         o.replay[d] <= ScanReplay(h, o.located.sector, o.located.gen)[d]
  <2>1. ScanReplay(h, t, L.gen) = ScanReplay(flash, t, L.gen)
    BY <1>2, <1>7, <1>9
  <2> QED BY <1>2, <1>6, <2>1 DEF CallHolds
<1>13. CallHolds(o, h, N)
  BY <1>6, <1>10, <1>11, <1>12 DEF CallHolds
<1>14. ~Completed(o)
  BY <1>6 DEF Completed
<1> QED BY <1>1, <1>6, <1>7, <1>11, <1>13, <1>14 DEF Succeeds, GoesOn

LEMMA EntryWritten ==
    ASSUME IInv, op # Idle, op.erase = FALSE, op.headed = TRUE, NEW d \in op.left
    PROVE  Succeeds(Written(EntryStep(d)), Advance(EntryStep(d)))
<1> DEFINE N == Newest(flash)  L == op.located  t == L.sector  k == op.slot
           cell == flash[t][k]
           c == WithEntry(cell, d, op.replay[d])
           h == Program(k, c)
           full == cell.used + 1 = EntriesPerSlot
           o == [op EXCEPT !.left = @ \ {d}, !.headed = ~full, !.slot = IF full THEN @ + 1 ELSE @]
           scan == ScanReplay(flash, t, L.gen)
           now == ScanReplay(h, t, L.gen)
<1>1. Written(EntryStep(d)) = h /\ Advance(EntryStep(d)) = o
  BY WriteSteps DEF Written, Advance
<1>2. /\ flash \in Flashes /\ N \in Located \cup {None} /\ op \in Calls
      /\ op.kind \in {"append", "generation"} /\ op.base \in SlotIds
      /\ op.left \in SUBSET Domains /\ op.replay \in Floors
      /\ L \in Located /\ t \in Sectors /\ L.gen \in Generations
      /\ CallHolds(op, flash, N)
  BY Calling
<1>3. /\ FlashHolds(h) /\ Newest(h) = N
      /\ k \in SlotIds /\ cell.used \in 0 .. EntriesPerSlot - 1
      /\ h[t][k] = c /\ c.kind = "replay" /\ c.gen = L.gen
      /\ c.torn = FALSE /\ c.used = cell.used + 1
      /\ \A s \in Sectors, i \in SlotIds : s # t \/ i # k => h[s][i] = flash[s][i]
      /\ \A x \in Domains : now[x] = IF x = d THEN MaxOf(scan[x], op.replay[x]) ELSE scan[x]
      /\ \A s \in Sectors, g \in Nat :
           s # t \/ g # L.gen => ScanReplay(h, s, g) = ScanReplay(flash, s, g)
      /\ op.kind = "generation" => Silent(h)
      /\ op.kind = "append" => Commits(h)
  BY EntryOutcome
<1> HIDE DEF cell
<1>4. k \in Nat /\ k + 1 \in 0 .. Slots /\ cell.used \in Nat
  BY <1>3, Constants DEF SlotIds
<1>5. /\ o \in Calls /\ o.kind = op.kind /\ o.erase = FALSE /\ o.base = op.base
      /\ o.slot = (IF full THEN k + 1 ELSE k) /\ o.slot \in Nat
      /\ o.headed = ~full /\ o.left = op.left \ {d} /\ o.record = op.record
      /\ o.located = op.located /\ o.replay = op.replay
  <2> HIDE DEF full
  <2>1. (IF full THEN k + 1 ELSE k) \in 0 .. Slots
    BY <1>3, <1>4, Constants DEF SlotIds
  <2>2. (~full) \in BOOLEAN /\ op.left \ {d} \in SUBSET Domains
    BY <1>2
  <2>3. o = [op EXCEPT !.left = op.left \ {d}, !.headed = ~full,
                       !.slot = IF full THEN k + 1 ELSE k]
    BY Zenon
  <2>4. (IF full THEN k + 1 ELSE k) \in Nat
    BY <1>4
  <2> HIDE DEF o
  <2> DEFINE a == op.left \ {d}
             b == ~full
             e == IF full THEN k + 1 ELSE k
             q == [op EXCEPT !.left = a, !.headed = b, !.slot = e]
  <2>5. a \in SUBSET Domains /\ b \in BOOLEAN /\ e \in 0 .. Slots /\ e \in Nat /\ o = q
    BY <2>1, <2>2, <2>3, <2>4
  <2> HIDE DEF a, b, e
  <2>6. /\ q \in Calls /\ q.kind = op.kind /\ q.erase = op.erase /\ q.base = op.base
        /\ q.slot = e /\ q.headed = b /\ q.left = a
        /\ q.record = op.record /\ q.located = op.located /\ q.replay = op.replay
    BY <1>2, <2>5 DEF Calls
  <2> HIDE DEF q
  <2>7. /\ o \in Calls /\ o.kind = op.kind /\ o.erase = op.erase /\ o.base = op.base
        /\ o.slot = e /\ o.headed = b /\ o.left = a
        /\ o.record = op.record /\ o.located = op.located /\ o.replay = op.replay
    BY <2>5, <2>6
  <2> QED BY <2>5, <2>7 DEF a, b, e
<1> HIDE DEF N, h, o, c
<1>6. ASSUME NEW x \in Domains
      PROVE  /\ scan[x] \in 0 .. MaxFloor /\ now[x] \in 0 .. MaxFloor /\ op.replay[x] \in 0 .. MaxFloor
             /\ x = d => op.replay[x] <= now[x]
             /\ x # d => now[x] = scan[x]
  <2>1. scan \in Floors /\ now \in Floors
    <3>1. h \in Flashes
      BY <1>3 DEF FlashHolds
    <3> QED BY <1>2, <3>1, ScanFacts
  <2>2. scan[x] \in 0 .. MaxFloor /\ now[x] \in 0 .. MaxFloor /\ op.replay[x] \in 0 .. MaxFloor
    BY <1>2, <2>1 DEF Floors
  <2>3. now[x] = IF x = d THEN MaxOf(scan[x], op.replay[x]) ELSE scan[x]
    BY <1>3
  <2> HIDE DEF scan, now
  <2> QED BY <2>2, <2>3, Constants DEF MaxOf
<1>7. ASSUME NEW x \in Domains, x \notin o.left PROVE op.replay[x] <= now[x]
  <2>1. CASE x = d
    BY <1>6, <2>1
  <2>2. CASE x # d
    <3>1. x \notin op.left
      BY <1>5, <1>7, <2>2
    <3>2. op.replay[x] <= scan[x]
      BY <1>2, <3>1 DEF CallHolds
    <3> QED BY <1>6, <2>2, <3>2
  <2> QED BY <2>1, <2>2
<1>8. CASE op.kind = "append"
  <2>1. AppendHolds(op, flash, N)
    BY <1>2, <1>8 DEF CallHolds
  <2>2. op.record = FALSE /\ op.located = N /\ o.left = {}
    <3>1. PICK e \in Domains : op.left = {e}
      BY <2>1 DEF AppendHolds
    <3> QED BY <1>5, <2>1, <3>1 DEF AppendHolds
  <2>3. Completed(o)
    BY <1>5, <2>2 DEF Completed
  <2>4. AtMost(op.replay, now)
    BY <1>7, <2>2 DEF AtMost
  <2> HIDE DEF now
  <2> QED BY <1>1, <1>3, <1>8, <2>2, <2>3, <2>4 DEF Succeeds, Done, now
<1>9. CASE op.kind = "generation"
  <2>1. GenerationHolds(op, flash, N)
    BY <1>2, <1>9 DEF CallHolds
  <2>2. RunReady(op, flash) /\ op.record = TRUE /\ L.gen = NextGen(N)
    BY <2>1 DEF GenerationHolds
  <2>3. L.gen \in Nat /\ (N # None => N.sector \in Sectors /\ N.gen \in Nat /\ N.gen # L.gen)
    BY <1>2, <2>2, Constants DEF Located, Generations, NextGen
  <2> DEFINE last == LastSlot(op)
  <2>4. LastSlot(o) = last /\ last \in Nat /\ op.base \in Nat
    BY <1>2, <1>5, LastSlotFacts, Constants DEF LastSlot, SlotIds
  <2>5. FirstFree(op) = k + 1 /\ FirstFree(o) = k + 1
    BY <1>5 DEF FirstFree
  <2>6. /\ op.base < k /\ last < Slots /\ k + 1 <= last + 1
        /\ flash[t][op.base] = Erased /\ \A i \in k + 1 .. last : flash[t][i] = Erased
        /\ Cardinality(op.left) <= Room(op, flash)
    BY <2>2, <2>5 DEF RunReady
  <2> HIDE DEF last
  <2> DEFINE rest == EntriesPerSlot * (last - (k + 1) + 1)
  <2>7. Room(op, flash) = (EntriesPerSlot - cell.used) + rest
    BY <2>5 DEF Room, last, cell
  <2>8. Room(o, h) = (IF full THEN 0 ELSE EntriesPerSlot - (cell.used + 1)) + rest
    <3>1. ~full => h[o.located.sector][o.slot].used = cell.used + 1
      BY <1>3, <1>5
    <3> HIDE DEF full
    <3> QED BY <1>5, <2>4, <2>5, <3>1 DEF Room
  <2>9. rest \in Int
    BY <1>4, <2>4, Constants
  <2>10. rest > 0 => k + 1 <= last
    <3>1. CASE last - (k + 1) + 1 = 0
      BY <3>1, Constants
    <3>2. CASE last - (k + 1) + 1 # 0
      BY <1>4, <2>4, <2>6, <3>2
    <3> QED BY <3>1, <3>2
  <2> HIDE DEF rest
  <2>11. /\ Cardinality(o.left) \in Nat /\ Cardinality(o.left) <= Room(o, h)
         /\ o.left # {} => Cardinality(o.left) >= 1
    <3>1. /\ Cardinality(op.left) \in Nat /\ Cardinality(o.left) = Cardinality(op.left) - 1
          /\ Cardinality(o.left) \in Nat /\ (o.left # {} => Cardinality(o.left) >= 1)
      <4>1. o.left \in SUBSET Domains
        BY <1>2, <1>5
      <4> QED BY <1>2, <1>5, <4>1, CountLeft
    <3> QED BY <1>4, <2>6, <2>7, <2>8, <2>9, <3>1, Constants
  <2>12. SlotReady(o, h)
    <3>1. CASE full
      <4>1. ASSUME o.left # {} PROVE o.slot \in SlotIds /\ h[o.located.sector][o.slot] = Erased
        <5>1. rest > 0
          BY <2>8, <2>9, <2>11, <3>1, <4>1
        <5>2. k + 1 <= last /\ k + 1 \in SlotIds
          BY <1>4, <2>4, <2>6, <2>10, <5>1, Constants DEF SlotIds
        <5>3. flash[t][k + 1] = Erased
          BY <1>4, <2>4, <2>6, <5>2
        <5>4. h[t][k + 1] = flash[t][k + 1]
          BY <1>2, <1>3, <1>4, <5>2
        <5> QED BY <1>5, <3>1, <5>2, <5>3, <5>4
      <4>2. o.headed = FALSE
        BY <1>5, <3>1
      <4> QED BY <4>1, <4>2 DEF SlotReady
    <3>2. CASE ~full
      <4>1. o.headed = TRUE /\ o.slot = k
        BY <1>5, <3>2
      <4>2. cell.used + 1 < EntriesPerSlot
        BY <1>3, <3>2, Constants
      <4> HIDE DEF full
      <4> QED BY <1>3, <1>5, <4>1, <4>2 DEF SlotReady
    <3> QED BY <3>1, <3>2
  <2>13. RunReady(o, h)
    <3>1. h[t][op.base] = Erased
      BY <1>2, <1>3, <1>4, <2>4, <2>6
    <3>2. ASSUME NEW i \in k + 1 .. last PROVE h[t][i] = Erased
      <4>1. i \in SlotIds /\ i # k
        BY <1>4, <2>4, <2>6, Constants DEF SlotIds
      <4> QED BY <1>2, <1>3, <2>6, <4>1
    <3>3. o.base < o.slot
      <4> HIDE DEF full
      <4> QED BY <1>4, <1>5, <2>4, <2>6
    <3> QED BY <1>5, <2>4, <2>5, <2>6, <2>11, <3>1, <3>2, <3>3 DEF RunReady
  <2>14. N # None => ScanReplay(h, N.sector, N.gen) = ScanReplay(flash, N.sector, N.gen)
    BY <1>3, <2>3
  <2>15. AtMost(scan, op.replay) => AtMost(now, op.replay)
    <3>1. ASSUME AtMost(scan, op.replay), NEW x \in Domains PROVE now[x] <= op.replay[x]
      <4>1. scan[x] <= op.replay[x]
        BY <3>1 DEF AtMost
      <4>2. now[x] = IF x = d THEN MaxOf(scan[x], op.replay[x]) ELSE scan[x]
        BY <1>3
      <4>3. scan[x] \in 0 .. MaxFloor /\ op.replay[x] \in 0 .. MaxFloor
        BY <1>6
      <4> HIDE DEF scan, now
      <4> QED BY <4>1, <4>2, <4>3, Constants DEF MaxOf
    <3> QED BY <3>1 DEF AtMost
  <2>16. GenerationHolds(o, h, N)
    <3>1. /\ o.erase = FALSE /\ o.record = TRUE /\ o.located = L /\ o.replay = op.replay
      BY <1>5, <2>2
    <3>2. /\ N # None => N.state.limit <= L.state.limit
          /\ N # None /\ t = N.sector => AtMost(op.replay, ScanReplay(h, N.sector, N.gen))
          /\ N = None \/ t # N.sector => AtMost(now, op.replay)
      BY <2>1, <2>14, <2>15 DEF GenerationHolds
    <3> QED BY <2>2, <2>12, <2>13, <3>1, <3>2 DEF GenerationHolds
  <2>17. \A x \in Domains \ o.left :
           o.replay[x] <= ScanReplay(h, o.located.sector, o.located.gen)[x]
    BY <1>5, <1>7
  <2>18. CallHolds(o, h, N)
    BY <1>5, <1>9, <2>16, <2>17 DEF CallHolds
  <2>19. ~Completed(o)
    BY <1>5, <2>2 DEF Completed
  <2> QED BY <1>1, <1>3, <1>5, <1>9, <2>18, <2>19 DEF Succeeds, GoesOn
<1> QED BY <1>2, <1>8, <1>9

LEMMA RecordWritten ==
    ASSUME IInv, op # Idle, op.erase = FALSE, op.left = {}
    PROVE  Succeeds(Written(RecordStep), Advance(RecordStep))
<1> DEFINE h == Program(op.base, StateRecord(op.located.gen, op.located.state))
           o == [op EXCEPT !.record = FALSE]
<1>1. Written(RecordStep) = h /\ Advance(RecordStep) = o
  BY WriteSteps DEF Written, Advance
<1>2. op \in Calls
  BY Calling
<1>3. o.record = FALSE /\ o.left = {}
  BY <1>2 DEF Calls
<1>4. Completed(o)
  BY <1>3 DEF Completed
<1>5. /\ op.kind = "generation" /\ FlashHolds(h) /\ Newest(h) = op.located
      /\ AckedHolds(h, op.located, MaxOf(ackedLimit, op.located.state.limit))
      /\ AtMost(op.replay, ScanReplay(h, op.located.sector, op.located.gen))
      /\ Commits(h)
  BY RecordOutcome
<1> HIDE DEF h, o
<1> QED BY <1>1, <1>4, <1>5 DEF Succeeds, Done

LEMMA WriteOutcome ==
    ASSUME IInv, op # Idle, NEW w \in Writes(op)
    PROVE  Succeeds(Written(w), Advance(w))
BY WritesCases, EraseWritten, HeaderWritten, EntryWritten, RecordWritten

-----------------------------------------------------------------------------
(* A fault in the middle of a write. *)

Fails(h) ==
    /\ FlashHolds(h)
    /\ op.kind = "append" => Newest(h) = op.located
    /\ Aborts(h) \/ Commits(h)

LEMMA SilentAborts ==
    ASSUME NEW h, Silent(h)
    PROVE  Aborts(h)
BY DEF Silent, Aborts

LEMMA AppendsToNewest ==
    ASSUME IInv, op # Idle, op.kind = "append"
    PROVE  Newest(flash) = op.located
<1> DEFINE N == Newest(flash)
<1>1. CallHolds(op, flash, N)
  BY Calling
<1> HIDE DEF N
<1>2. op.located = N
  BY <1>1 DEF CallHolds, AppendHolds
<1> QED BY <1>2 DEF N

\* Nothing was written, or everything.
LEMMA WholeWrites ==
    ASSUME IInv, op # Idle, NEW w \in Writes(op)
    PROVE  Fails(flash) /\ Fails(Written(w))
<1>1. Fails(flash)
  <2>1. /\ flash \in Flashes /\ GenerationsBounded(flash, Newest(flash))
        /\ AckedHolds(flash, Newest(flash), ackedLimit)
        /\ ~doubt => LeftoversBounded(flash, Newest(flash))
        /\ boot = View(flash)
    BY Calling
  <2> QED BY <2>1, AppendsToNewest DEF Fails, FlashHolds, Aborts
<1>2. Fails(Written(w))
  <2> DEFINE h == Written(w)
  <2>1. Succeeds(h, Advance(w))
    BY WriteOutcome
  <2> HIDE DEF h
  <2>2. Aborts(h) \/ Commits(h)
    BY <2>1, SilentAborts DEF Succeeds, Done, GoesOn
  <2>3. Fails(h)
    BY <2>1, <2>2 DEF Succeeds, Fails
  <2> QED BY <2>3 DEF h
<1> QED BY <1>1, <1>2

LEMMA EraseInterrupted ==
    ASSUME IInv, op # Idle, op.erase = TRUE, NEW h \in Interrupted(EraseStep),
           h # flash, h # Written(EraseStep)
    PROVE  Fails(h)
<1> DEFINE t == op.located.sector
<1>1. flash \in Flashes /\ t \in Sectors
  BY Calling
<1>2. PICK n \in SlotIds :
        h = [flash EXCEPT ![t] = [i \in SlotIds |-> IF i < n THEN Erased ELSE IF i = n THEN Torn
                                                    ELSE flash[t][i]]]
  BY WriteSteps DEF Interrupted
<1>3. n \in Nat
  BY Constants DEF SlotIds
<1>4. h \in Flashes
  BY <1>1, <1>2, CellsMade DEF Flashes
<1>5. ASSUME NEW s \in Sectors, NEW i \in SlotIds
      PROVE  IF s = t /\ i < n + 1 THEN h[s][i].kind \in {"erased", "torn"}
             ELSE h[s][i] = flash[s][i]
  <2>1. i \in Nat
    BY Constants DEF SlotIds
  <2>2. s # t => h[s][i] = flash[s][i]
    BY <1>1, <1>2 DEF Flashes
  <2>3. s = t => h[s][i] = IF i < n THEN Erased ELSE IF i = n THEN Torn ELSE flash[t][i]
    BY <1>1, <1>2 DEF Flashes
  <2> QED BY <1>3, <2>1, <2>2, <2>3, CellsMade
<1>6. /\ op.kind = "generation" /\ FlashHolds(h) /\ Silent(h)
  <2>1. n + 1 \in Nat
    BY <1>3
  <2> QED BY <1>4, <1>5, <2>1, EraseOutcome
<1> QED BY <1>6, SilentAborts DEF Fails

\* The write left something that no scan reads.
LEMMA CellInterrupted ==
    ASSUME IInv, op # Idle, NEW k \in SlotIds, NEW c \in Cells,
           LET L == op.located  old == flash[L.sector][k] IN
             /\ c.kind # "record"
             /\ \/ /\ old.kind = "replay" /\ old.gen = L.gen
                   /\ c.kind = "replay" /\ c.gen = L.gen /\ c.floors = old.floors
                \/ old.kind = "erased" /\ c.kind # "replay"
             /\ c.kind = "marginal" => op.kind = "generation" /\ c.gen = L.gen /\ c.state = L.state
    PROVE  Fails(Program(k, c))
<1> DEFINE h == Program(k, c)
<1>1. FlashHolds(h) /\ Newest(h) = Newest(flash) /\ Aborts(h)
  BY QuietOutcome
<1> HIDE DEF h
<1>2. Fails(h)
  BY <1>1, AppendsToNewest DEF Fails
<1> QED BY <1>2 DEF h

LEMMA HeaderInterrupted ==
    ASSUME IInv, op # Idle, op.erase = FALSE, op.headed = FALSE, op.left # {},
           NEW h \in Interrupted(HeaderStep), h # flash, h # Written(HeaderStep)
    PROVE  Fails(h)
<1>1. h = Program(op.slot, Torn)
  BY WriteSteps DEF Interrupted
<1>2. op.slot \in SlotIds /\ flash[op.located.sector][op.slot] = Erased
  BY ReadyToWrite DEF SlotReady
<1> QED BY <1>1, <1>2, CellsMade, CellInterrupted

LEMMA EntryInterrupted ==
    ASSUME IInv, op # Idle, op.erase = FALSE, op.headed = TRUE, NEW d \in op.left,
           NEW h \in Interrupted(EntryStep(d)), h # flash, h # Written(EntryStep(d))
    PROVE  Fails(h)
<1> DEFINE L == op.located
           cell == flash[L.sector][op.slot]
           c == ReplaySlot(cell.gen, cell.used + 1, TRUE, cell.floors)
<1>1. h = Program(op.slot, c)
  BY WriteSteps DEF Interrupted
<1>2. /\ op.slot \in SlotIds /\ cell.kind = "replay" /\ cell.gen = L.gen
      /\ cell.used < EntriesPerSlot
  BY ReadyToWrite DEF SlotReady
<1>3. cell \in Cells
  <2>1. flash \in Flashes /\ L.sector \in Sectors
    BY Calling
  <2> QED BY <1>2, <2>1 DEF Flashes
<1> HIDE DEF cell
<1>4. cell.gen \in Generations /\ cell.used + 1 \in 0 .. EntriesPerSlot /\ cell.floors \in Floors
  BY <1>2, <1>3, CellFacts, Constants
<1>5. c \in Cells /\ c.kind = "replay" /\ c.gen = cell.gen /\ c.floors = cell.floors
  <2>1. c \in Cells
    BY <1>4, CellsMade
  <2> QED BY <2>1 DEF ReplaySlot
<1> HIDE DEF c
<1>6. Fails(Program(op.slot, c))
  <2>1. c.kind # "record" /\ c.kind # "marginal"
    BY <1>5
  <2>2. LET old == flash[op.located.sector][op.slot] IN
          /\ old.kind = "replay" /\ old.gen = op.located.gen
          /\ c.kind = "replay" /\ c.gen = op.located.gen /\ c.floors = old.floors
    BY <1>2, <1>5 DEF cell
  <2> QED BY <1>2, <1>5, <2>1, <2>2, CellInterrupted
<1> QED BY <1>1, <1>6

LEMMA RecordInterrupted ==
    ASSUME IInv, op # Idle, op.erase = FALSE, op.left = {},
           NEW h \in Interrupted(RecordStep), h # flash, h # Written(RecordStep)
    PROVE  Fails(h)
<1> DEFINE N == Newest(flash)  L == op.located
<1>1. /\ op.base \in SlotIds /\ L.gen \in Generations /\ L.state \in States
      /\ CallHolds(op, flash, N)
  BY Calling
<1>2. op.kind = "generation"
  BY RecordOutcome
<1>3. flash[L.sector][op.base] = Erased
  <2> HIDE DEF N
  <2> QED BY <1>1, <1>2 DEF CallHolds, GenerationHolds, RunReady
<1>4. h = Program(op.base, Torn) \/ h = Program(op.base, MarginalRecord(L.gen, L.state))
  BY WriteSteps DEF Interrupted
<1>5. CASE h = Program(op.base, Torn)
  BY <1>1, <1>3, <1>5, CellsMade, CellInterrupted
<1>6. CASE h = Program(op.base, MarginalRecord(L.gen, L.state))
  <2> DEFINE c == MarginalRecord(L.gen, L.state)
  <2>1. c \in Cells /\ c.kind = "marginal" /\ c.gen = L.gen /\ c.state = L.state
    BY <1>1, CellsMade
  <2> HIDE DEF c
  <2>2. Fails(Program(op.base, c))
    BY <1>1, <1>2, <1>3, <2>1, CellsMade, CellInterrupted
  <2> QED BY <1>6, <2>2 DEF c
<1> QED BY <1>4, <1>5, <1>6

LEMMA FaultOutcome ==
    ASSUME IInv, op # Idle, NEW w \in Writes(op), NEW h \in Interrupted(w)
    PROVE  Fails(h)
<1>1. CASE h = flash \/ h = Written(w)
  BY <1>1, WholeWrites
<1>2. CASE h # flash /\ h # Written(w)
  BY <1>2, WritesCases, EraseInterrupted, HeaderInterrupted, EntryInterrupted, RecordInterrupted
<1> QED BY <1>1, <1>2

-----------------------------------------------------------------------------
(* Every step keeps the invariant. *)

LEMMA CallsAreNotIdle ==
    ASSUME NEW o \in Calls
    PROVE  o # Idle
<1>1. o.kind \in {"append", "generation"}
  BY DEF Calls
<1>2. Idle.kind = "idle"
  BY DEF Idle
<1> QED BY <1>1, <1>2

LEMMA WriteSucceedsKeeps == ASSUME IInv, WriteSucceeds PROVE IInv'
<1> DEFINE h == flash'  N == Newest(h)
<1>1. /\ op # Idle /\ boot' = View(h) /\ faults' = faults /\ doubt' = doubt
  BY DEF WriteSucceeds
<1>2. PICK w \in Writes(op) :
        /\ h = Written(w)
        /\ IF Completed(Advance(w))
           THEN /\ op' = Idle
                /\ ram' = [scanned |-> TRUE, located |-> op.located,
                           replayGen |-> op.located.gen, replay |-> op.replay]
                /\ ackedLimit' = IF op.kind = "generation"
                                 THEN MaxOf(ackedLimit, op.located.state.limit)
                                 ELSE ackedLimit
           ELSE op' = Advance(w) /\ ram' = ram /\ ackedLimit' = ackedLimit
  BY DEF WriteSucceeds
<1>3. Succeeds(h, Advance(w))
  BY <1>1, <1>2, WriteOutcome
<1>4. /\ op \in Calls /\ op.kind \in {"append", "generation"} /\ op.replay \in Floors
      /\ op.located \in Located /\ op.located.gen \in Generations
      /\ op.located.state.limit \in 0 .. MaxLimit /\ ackedLimit \in 0 .. MaxLimit
      /\ ~doubt => Late(flash) = {}
  BY <1>1, Calling
<1>5. /\ ram \in Caches /\ faults \in Nat /\ doubt \in BOOLEAN
      /\ ~ram.scanned => ram = Unscanned
  BY DEF IInv, Typed
<1>6. h \in Flashes /\ GenerationsBounded(h, N) /\ AckedHolds(h, N, ackedLimit)
  BY <1>3 DEF Succeeds, FlashHolds
<1>7. Late(h) \subseteq Late(flash)
  BY <1>3 DEF Succeeds, Done, GoesOn, Commits, Silent
<1>8. ~doubt => LeftoversBounded(h, N) /\ Late(h) = {}
  BY <1>3, <1>4, <1>7 DEF Succeeds, FlashHolds
<1>9. CASE Completed(Advance(w))
  <2>1. Done(h)
    BY <1>3, <1>9 DEF Succeeds
  <2>2. /\ op' = Idle
        /\ ram' = [scanned |-> TRUE, located |-> op.located,
                   replayGen |-> op.located.gen, replay |-> op.replay]
    BY <1>2, <1>9
  <2>3. ram' \in Caches
    BY <1>4, <2>2 DEF Caches
  <2>4. /\ ram'.scanned = TRUE /\ ram'.located = op.located /\ ram'.replayGen = op.located.gen
        /\ ram'.replay = op.replay
    BY <2>2
  <2>5. N = op.located /\ N # None
    BY <1>4, <2>1, Constants DEF Done
  <2>6. AtMost(ram'.replay, ScanReplay(h, N.sector, N.gen))
    BY <2>1, <2>4, <2>5 DEF Done
  <2>7. CachesHold(ram', h, N)
    BY <2>4, <2>5, <2>6 DEF CachesHold
  <2>8. ackedLimit' \in 0 .. MaxLimit /\ AckedHolds(h, N, ackedLimit')
    <3>1. CASE op.kind = "generation"
      <4>1. ackedLimit' = MaxOf(ackedLimit, op.located.state.limit)
        BY <1>2, <1>9, <3>1
      <4>2. ackedLimit' \in 0 .. MaxLimit
        BY <1>4, <4>1 DEF MaxOf
      <4>3. AckedHolds(h, op.located, MaxOf(ackedLimit, op.located.state.limit))
        BY <2>1, <3>1 DEF Done
      <4> QED BY <2>5, <4>1, <4>2, <4>3
    <3>2. CASE op.kind # "generation"
      <4>1. ackedLimit' = ackedLimit
        BY <1>2, <1>9, <3>2
      <4> QED BY <1>4, <1>6, <4>1
    <3> QED BY <3>1, <3>2
  <2>9. ~ram'.scanned => ram' = Unscanned
    BY <2>4
  <2> QED BY <1>1, <1>5, <1>6, <1>8, <2>2, <2>3, <2>7, <2>8, <2>9 DEF IInv, Typed
<1>10. CASE ~Completed(Advance(w))
  <2>1. op' = Advance(w) /\ ram' = ram /\ ackedLimit' = ackedLimit
    BY <1>2, <1>10
  <2>2. op' \in Calls /\ CallHolds(op', h, N)
    BY <1>3, <1>10, <2>1 DEF Succeeds, GoesOn
  <2>3. op' # Idle
    BY <2>2, CallsAreNotIdle
  <2> QED BY <1>1, <1>4, <1>5, <1>6, <1>8, <2>1, <2>2, <2>3 DEF IInv, Typed
<1> QED BY <1>9, <1>10

LEMMA FaultFacts ==
    ASSUME IInv, Fault
    PROVE  op # Idle /\ Fails(flash')
<1>1. op # Idle /\ \E w \in Writes(op) : flash' \in Interrupted(w)
  BY DEF Fault
<1>2. PICK w \in Writes(op) : flash' \in Interrupted(w)
  BY <1>1
<1> QED BY <1>1, <1>2, FaultOutcome

LEMMA FaultKeeps ==
    ASSUME IInv, Fault, ram' \in Caches, CachesHold(ram', flash', Newest(flash'))
    PROVE  IInv'
<1> DEFINE h == flash'  N == Newest(h)
<1>1. /\ op' = Idle /\ boot' = View(h) /\ faults' = faults + 1 /\ ackedLimit' = ackedLimit
      /\ doubt' = (doubt \/ Late(h) # {})
  BY DEF Fault
<1>2. /\ h \in Flashes /\ GenerationsBounded(h, N) /\ AckedHolds(h, N, ackedLimit)
      /\ ~doubt /\ Late(h) = {} => LeftoversBounded(h, N)
  BY FaultFacts DEF Fails, FlashHolds
<1>3. faults \in Nat /\ ackedLimit \in 0 .. MaxLimit
  BY DEF IInv, Typed
<1>4. doubt' \in BOOLEAN /\ (~doubt' => LeftoversBounded(h, N) /\ Late(h) = {})
  BY <1>1, <1>2
<1>5. ~ram'.scanned => ram' = Unscanned
  BY DEF CachesHold
<1> QED BY <1>1, <1>2, <1>3, <1>4, <1>5 DEF IInv, Typed

LEMMA Forgotten ==
    ASSUME NEW f, NEW N
    PROVE  CachesHold(Unscanned, f, N)
BY UnscannedFacts DEF CachesHold

LEMMA WriteFailsKeeps == ASSUME IInv, WriteFails PROVE IInv'
<1>1. Fault /\ ram' = IF op.kind = "append"
                      THEN [Unscanned EXCEPT !.scanned = TRUE, !.located = op.located]
                      ELSE Unscanned
  BY DEF WriteFails
<1>2. CASE op.kind = "append"
  <2>1. op # Idle /\ Newest(flash') = op.located
    BY <1>1, <1>2, FaultFacts DEF Fails
  <2>2. op.located \in Located
    BY <2>1, Calling
  <2>3. /\ ram' \in Caches /\ ram'.scanned = TRUE /\ ram'.located = op.located
        /\ ram'.replayGen = None
    BY <1>1, <1>2, <2>2, CellsMade DEF Unscanned, Caches
  <2>4. CachesHold(ram', flash', Newest(flash'))
    BY <2>1, <2>3 DEF CachesHold
  <2> QED BY <1>1, <2>3, <2>4, FaultKeeps
<1>3. CASE op.kind # "append"
  <2>1. ram' = Unscanned
    BY <1>1, <1>3
  <2>2. ram' \in Caches /\ CachesHold(ram', flash', Newest(flash'))
    BY <2>1, UnscannedFacts, Forgotten
  <2> QED BY <1>1, <2>2, FaultKeeps
<1> QED BY <1>2, <1>3

LEMMA PowerCutKeeps == ASSUME IInv, PowerCut PROVE IInv'
<1>1. ram' = Unscanned
  BY DEF PowerCut
<1>2. ram' \in Caches /\ CachesHold(ram', flash', Newest(flash'))
  BY <1>1, UnscannedFacts, Forgotten
<1>3. CASE Fault
  BY <1>2, <1>3, FaultKeeps
<1>4. CASE op = Idle /\ UNCHANGED <<flash, op, faults, boot, ackedLimit, doubt>>
  <2>1. CachesHold(ram', flash, Newest(flash))
    BY <1>1, Forgotten
  <2> QED BY <1>2, <1>4, <2>1, CacheStep
<1> QED BY <1>3, <1>4 DEF PowerCut

\* The record that settles may become the newest one, with the floors its call
\* wrote; an acknowledged reservation survives because the marker's was as large.
LEMMA SettledFacts ==
    ASSUME IInv, NEW s \in Sectors, NEW i \in SlotIds, flash[s][i].kind = "marginal"
    PROVE  LET c == flash[s][i]
               h == [flash EXCEPT ![s][i] = StateRecord(c.gen, c.state)]
           IN
           /\ h \in Flashes /\ GenerationsBounded(h, Newest(h)) /\ AckedHolds(h, Newest(h), ackedLimit)
           /\ Newest(h) \in Located /\ Newest(h).state \in {c.state, boot.state}
           /\ c.state \in Late(flash) /\ Late(h) \subseteq Late(flash) /\ doubt = TRUE
<1> DEFINE N == Newest(flash)  c == flash[s][i]  m == StateRecord(c.gen, c.state)
           h == [flash EXCEPT ![s][i] = m]  M == Newest(h)
<1>1. /\ flash \in Flashes /\ boot = View(flash) /\ GenerationsBounded(flash, N)
      /\ AckedHolds(flash, N, ackedLimit) /\ ackedLimit \in 0 .. MaxLimit
      /\ doubt \in BOOLEAN /\ (~doubt => Late(flash) = {})
  BY DEF IInv, Typed
<1>2. c \in Cells
  BY <1>1 DEF Flashes
<1>3. c.gen \in Generations /\ c.state \in States /\ c.state.limit \in 0 .. MaxLimit
  <2> HIDE DEF c
  <2> QED BY <1>2, CellFacts DEF c
<1>4. m \in Cells /\ m.kind = "record" /\ m.gen = c.gen /\ m.state = c.state
  BY <1>3, CellsMade
<1> HIDE DEF m
<1>5. /\ h \in Flashes /\ h[s][i] = m
      /\ \A t \in Sectors, j \in SlotIds : t # s \/ j # i => h[t][j] = flash[t][j]
  BY <1>1, <1>4, Programmed
<1>6. c.state \in Late(flash)
  BY LateFacts
<1>7. doubt = TRUE
  BY <1>1, <1>6
<1> HIDE DEF h
<1>8. Late(h) \subseteq Late(flash)
  <2>1. \A t \in Sectors, j \in SlotIds :
          h[t][j].kind = "marginal" => h[t][j] = flash[t][j] \/ h[t][j].state \in {}
    BY <1>4, <1>5
  <2>2. Late(h) \subseteq Late(flash) \cup {}
    BY <2>1, LateGrows
  <2> QED BY <2>2
<1>9. Ahead(N, M, m)
  <2>1. \A t \in Sectors, j \in SlotIds :
          h[t][j] = flash[t][j] \/ (flash[t][j].kind # "record" /\ h[t][j] = m)
    BY <1>5
  <2> QED BY <1>1, <1>4, <1>5, <2>1, NewestSettled
<1>10. N \in Located \cup {None} /\ M \in Located \cup {None}
  BY <1>1, <1>5, NewestFacts
<1>11. M # None
  <2>1. Dominates(M, h[s][i])
    BY <1>5, NewestFacts
  <2> QED BY <1>4, <1>5, <2>1 DEF Dominates
<1>12. boot.state = IF N = None THEN None ELSE N.state
  BY <1>1, NewestOfView
<1>13. c.gen \in Nat /\ c.gen <= NextGen(N)
  <2> HIDE DEF N
  <2> QED BY <1>1, <1>3 DEF GenerationsBounded, Generations
<1> HIDE DEF N, M, c
<1>14. /\ M.gen \in Nat /\ M.state.limit \in 0 .. MaxLimit /\ NextGen(M) = M.gen + 1
       /\ N # None => N.gen \in Nat /\ N.state.limit \in 0 .. MaxLimit /\ NextGen(N) = N.gen + 1
       /\ N = None => NextGen(N) = 0
  BY <1>10, <1>11, Constants DEF Located, States, Generations, NextGen
<1>15. M.state \in {c.state, boot.state}
  BY <1>4, <1>9, <1>11, <1>12 DEF Ahead
<1>16. NextGen(N) <= NextGen(M)
  BY <1>4, <1>9, <1>11, <1>13, <1>14 DEF Ahead
<1>17. ASSUME NEW t \in Sectors, NEW j \in SlotIds, h[t][j].kind \in {"record", "marginal", "replay"}
       PROVE  h[t][j].gen \in Nat /\ h[t][j].gen <= NextGen(N)
  <2>1. CASE t = s /\ j = i
    BY <1>4, <1>5, <1>13, <2>1
  <2>2. CASE ~(t = s /\ j = i)
    <3>1. h[t][j] = flash[t][j] /\ h[t][j] \in Cells
      BY <1>5, <2>2 DEF Flashes
    <3>2. h[t][j].gen \in Generations
      BY <1>17, <3>1, CellFacts
    <3> QED BY <1>1, <1>17, <3>1, <3>2 DEF GenerationsBounded, Generations
  <2> QED BY <2>1, <2>2
<1>18. NextGen(N) \in Nat /\ NextGen(M) \in Nat
  BY <1>14
<1>19. GenerationsBounded(h, M)
  <2>1. ASSUME NEW t \in Sectors, NEW j \in SlotIds, h[t][j].kind \in {"record", "marginal", "replay"}
        PROVE  h[t][j].gen <= NextGen(M)
    BY <1>16, <1>17, <1>18, <2>1
  <2> QED BY <2>1 DEF GenerationsBounded
<1>20. ackedLimit <= M.state.limit
  <2>1. c.gen = NextGen(N) => ackedLimit <= c.state.limit
    BY <1>1 DEF AckedHolds, c
  <2>2. (N = None => ackedLimit = 0) /\ (N # None => ackedLimit <= N.state.limit)
    BY <1>1 DEF AckedHolds
  <2>3. CASE N = None
    BY <1>14, <2>2, <2>3
  <2>4. CASE N # None
    BY <1>1, <1>3, <1>4, <1>9, <1>11, <1>13, <1>14, <2>1, <2>2, <2>4 DEF Ahead
  <2> QED BY <2>3, <2>4
<1>21. AckedHolds(h, M, ackedLimit)
  <2>1. ASSUME NEW t \in Sectors, NEW j \in SlotIds, h[t][j].kind = "marginal", h[t][j].gen = NextGen(M)
        PROVE  ackedLimit <= h[t][j].state.limit
    <3>1. h[t][j] = flash[t][j]
      BY <1>4, <1>5, <2>1
    <3>2. h[t][j].gen = NextGen(N)
      BY <1>16, <1>17, <1>18, <2>1
    <3> QED BY <1>1, <2>1, <3>1, <3>2 DEF AckedHolds
  <2> QED BY <1>11, <1>20, <2>1 DEF AckedHolds
<1> QED BY <1>5, <1>6, <1>7, <1>8, <1>10, <1>11, <1>15, <1>19, <1>21 DEF M, h, m, c

LEMMA SettlesKeeps ==
    ASSUME IInv, NEW s \in Sectors, NEW i \in SlotIds, MarginalSettles(s, i)
    PROVE  IInv'
<1> DEFINE h == flash'
<1>1. /\ op = Idle /\ op' = op /\ ram' = ram /\ ~ram.scanned /\ flash[s][i].kind = "marginal"
      /\ h = [flash EXCEPT ![s][i] = StateRecord(flash[s][i].gen, flash[s][i].state)]
      /\ boot' = View(h) /\ faults' = faults /\ ackedLimit' = ackedLimit /\ doubt' = doubt
  BY DEF MarginalSettles, IInv, Typed, Flashes
<1>2. /\ h \in Flashes /\ GenerationsBounded(h, Newest(h)) /\ AckedHolds(h, Newest(h), ackedLimit)
      /\ doubt = TRUE
  BY <1>1, SettledFacts
<1>3. /\ ram = Unscanned /\ ram \in Caches /\ faults \in Nat /\ ackedLimit \in 0 .. MaxLimit
  BY <1>1 DEF IInv, Typed
<1>4. CachesHold(ram, h, Newest(h))
  BY <1>3, Forgotten
<1> QED BY <1>1, <1>2, <1>3, <1>4 DEF IInv, Typed

LEMMA StepKeeps == ASSUME IInv, [Next]_vars PROVE IInv'
<1>1. CASE Load
  BY <1>1, LoadKeeps
<1>2. CASE Visit
  BY <1>2, VisitKeeps
<1>3. ASSUME NEW s \in States, Store(s) PROVE IInv'
  BY <1>3, StoreKeeps
<1>4. ASSUME NEW e \in Entries, CommitReplay(e) PROVE IInv'
  BY <1>4, CommitReplayKeeps
<1>5. ASSUME NEW gone \in SUBSET Domains, RemoveFloors(gone) PROVE IInv'
  BY <1>5, RemoveKeeps
<1>6. CASE WriteSucceeds
  BY <1>6, WriteSucceedsKeeps
<1>7. CASE WriteFails
  BY <1>7, WriteFailsKeeps
<1>8. CASE PowerCut
  BY <1>8, PowerCutKeeps
<1>9. ASSUME NEW s \in Sectors, NEW i \in SlotIds, MarginalSettles(s, i) PROVE IInv'
  BY <1>9, SettlesKeeps
<1>10. CASE UNCHANGED vars
  BY <1>10 DEF vars, IInv, Typed, Late
<1> QED BY <1>1, <1>2, <1>3, <1>4, <1>5, <1>6, <1>7, <1>8, <1>9, <1>10 DEF Next

-----------------------------------------------------------------------------
(* What the invariant says. *)

LEMMA InvTyped == IInv => TypeOK
<1> SUFFICES ASSUME IInv PROVE TypeOK
  OBVIOUS
<1>1. flash \in Flashes /\ ram \in Caches /\ ackedLimit \in 0 .. MaxLimit
  BY DEF IInv, Typed
<1>2. \A s \in Sectors, i \in SlotIds : flash[s][i] \in Cells
  BY <1>1 DEF Flashes
<1> QED BY <1>1, <1>2 DEF TypeOK, Caches

LEMMA InvErased == IInv => WritesErasedFlash
<1> SUFFICES ASSUME IInv, op # Idle, NEW w \in Writes(op)
             PROVE  LET cell(i) == flash[op.located.sector][i] IN
                    CASE w.write = "header" -> cell(op.slot) = Erased
                      [] w.write = "record" -> cell(op.base) = Erased
                      [] w.write = "entry" ->
                           cell(op.slot).kind = "replay" /\ cell(op.slot).used < EntriesPerSlot
                      [] OTHER -> TRUE
  BY Zenon DEF WritesErasedFlash
<1>1. CASE w = EraseStep
  BY <1>1, WriteSteps
<1>2. CASE w = HeaderStep /\ op.erase = FALSE /\ op.headed = FALSE /\ op.left # {}
  <2>1. flash[op.located.sector][op.slot] = Erased
    BY <1>2, ReadyToWrite DEF SlotReady
  <2> QED BY <1>2, <2>1, WriteSteps
<1>3. CASE op.erase = FALSE /\ op.headed = TRUE /\ \E d \in op.left : w = EntryStep(d)
  <2>1. /\ flash[op.located.sector][op.slot].kind = "replay"
        /\ flash[op.located.sector][op.slot].used < EntriesPerSlot
    BY <1>3, ReadyToWrite DEF SlotReady
  <2>2. w.write = "entry"
    BY <1>3, WriteSteps
  <2> QED BY <2>1, <2>2
<1>4. CASE w = RecordStep /\ op.erase = FALSE /\ op.left = {}
  <2>1. flash[op.located.sector][op.base] = Erased
    <3> DEFINE N == Newest(flash)
    <3>1. CallHolds(op, flash, N)
      BY Calling
    <3>2. op.kind = "generation"
      BY <1>4, RecordOutcome
    <3> HIDE DEF N
    <3> QED BY <1>4, <3>1, <3>2 DEF CallHolds, GenerationHolds, RunReady
  <2> QED BY <1>4, <2>1, WriteSteps
<1> QED BY <1>1, <1>2, <1>3, <1>4, WritesCases

LEMMA InvCaches == IInv => CacheIsDurable
<1> SUFFICES ASSUME IInv, ram.scanned, op = Idle
             PROVE  /\ ram.located = Newest(flash)
                    /\ ram.replayGen # None => \A d \in Domains : ram.replay[d] <= boot.floors[d]
  BY DEF CacheIsDurable
<1> DEFINE N == Newest(flash)
<1>1. CachesHold(ram, flash, N) /\ flash \in Flashes /\ boot = View(flash)
  BY DEF IInv, Typed
<1>2. N # None => boot.floors = ScanReplay(flash, N.sector, N.gen)
  BY <1>1, NewestOfView
<1> HIDE DEF N
<1>3. /\ ram.located = N
      /\ ram.replayGen # None => \A d \in Domains : ram.replay[d] <= boot.floors[d]
  BY <1>1, <1>2 DEF CachesHold, AtMost
<1> QED BY <1>3 DEF N

LEMMA InvReservation == IInv => ReservationSurvives
<1> SUFFICES ASSUME IInv, ackedLimit > 0
             PROVE  boot.state # None /\ boot.state.limit >= ackedLimit
  BY DEF ReservationSurvives
<1> DEFINE N == Newest(flash)
<1>1. AckedHolds(flash, N, ackedLimit) /\ flash \in Flashes /\ boot = View(flash)
  BY DEF IInv, Typed
<1>2. N \in Located \cup {None} /\ (N # None => boot.state = N.state)
  BY <1>1, NewestFacts, NewestOfView
<1> HIDE DEF N
<1>3. N # None /\ ackedLimit <= N.state.limit
  BY <1>1 DEF AckedHolds
<1>4. N.state # None
  BY <1>2, <1>3, Constants DEF Located
<1>5. N.state.limit \in Int /\ ackedLimit \in Int
  BY <1>2, <1>3 DEF Located, States, IInv, Typed
<1> QED BY <1>2, <1>3, <1>4, <1>5

-----------------------------------------------------------------------------
(* Every step is one of DurableStore. *)

Pending(o) == IF o = Idle THEN None ELSE [state |-> o.located.state, floors |-> o.replay]

LEMMA PendingFacts ==
    ASSUME NEW o \in Calls
    PROVE  /\ Pending(o) \in Views /\ Pending(o) # None
           /\ Pending(o).state = o.located.state /\ Pending(o).floors = o.replay
<1>1. o # Idle /\ o.located.state \in States /\ o.replay \in Floors
  BY CallsAreNotIdle DEF Calls, Located
<1>2. Pending(o) = [state |-> o.located.state, floors |-> o.replay]
  BY <1>1 DEF Pending
<1>3. Pending(o) \in Views
  BY <1>1, <1>2 DEF Views
<1> QED BY <1>2, <1>3, Constants

LEMMA IdlePending == Pending(Idle) = None
BY DEF Pending

\* The state of the abstract store, spelled out.
LEMMA AbstractVars ==
    /\ UNCHANGED <<boot, Pending(op), Late(flash), doubt>> => UNCHANGED Durable!absVars
    /\ Durable!Values = Views
BY DEF Durable!absVars, Durable!Values, Durable!Floors, Views, Floors, Pending

LEMMA BeginRefines ==
    ASSUME IInv, IInv', op = Idle, UNCHANGED <<flash, boot, doubt>>
    PROVE  [Durable!Next]_(Durable!absVars)
<1>1. Late(flash)' = Late(flash) /\ boot' = boot /\ doubt' = doubt
  BY DEF Late
<1>2. CASE op' = Idle
  <2>1. Pending(op)' = Pending(op)
    BY <1>2
  <2> QED BY <1>1, <2>1, AbstractVars
<1>3. CASE op' # Idle
  <2>1. op' \in Calls
    BY <1>3 DEF IInv, Typed
  <2>2. Pending(op') \in Views /\ Pending(op) = None
    BY <2>1, PendingFacts, IdlePending
  <2>3. Durable!Begin
    BY <1>1, <2>2, AbstractVars DEF Durable!Begin, Pending
  <2> QED BY <2>3 DEF Durable!Next
<1> QED BY <1>2, <1>3

LEMMA CommitRefines ==
    ASSUME IInv, op # Idle, op' = Idle, boot' = View(flash'), Commits(flash'),
           doubt' = doubt \/ doubt' = (doubt \/ Late(flash') # {})
    PROVE  Durable!Commit
<1>1. op \in Calls /\ (~doubt => Late(flash) = {}) /\ doubt \in BOOLEAN
  BY DEF IInv, Typed
<1>2. /\ boot' \in Views /\ boot'.state = op.located.state
      /\ \A d \in Domains :
           /\ op.replay[d] <= boot'.floors[d]
           /\ ~doubt => boot'.floors[d] <= MaxOf(boot.floors[d], op.replay[d])
      /\ Late(flash') \subseteq Late(flash)
  BY DEF Commits, AtMost
<1>3. doubt' = doubt
  BY <1>1, <1>2
<1>4. /\ Pending(op) # None /\ Pending(op).state = op.located.state
      /\ Pending(op).floors = op.replay /\ Pending(op') = None
  BY <1>1, PendingFacts, IdlePending
<1>5. \A a, b : Durable!Larger(a, b) = MaxOf(a, b)
  BY DEF Durable!Larger, MaxOf
<1>6. /\ Pending(op) # None /\ Pending(op') = None
      /\ Late(flash') \subseteq Late(flash)
      /\ boot' \in Durable!Values /\ boot'.state = Pending(op).state
      /\ \A d \in Domains :
           /\ Pending(op).floors[d] <= boot'.floors[d]
           /\ ~doubt => boot'.floors[d] <= Durable!Larger(boot.floors[d], Pending(op).floors[d])
      /\ doubt' = doubt
  BY <1>2, <1>3, <1>4, <1>5, AbstractVars
<1> QED BY <1>6, Zenon DEF Durable!Commit, Pending

LEMMA AbortRefines ==
    ASSUME IInv, op # Idle, op' = Idle, boot' = View(flash'), Aborts(flash'),
           doubt' = (doubt \/ Late(flash') # {})
    PROVE  Durable!Abort
<1>1. op \in Calls
  BY DEF IInv, Typed
<1>2. Pending(op) # None /\ Pending(op).state = op.located.state /\ Pending(op') = None
  BY <1>1, PendingFacts, IdlePending
<1>3. boot' = boot /\ Late(flash') \subseteq Late(flash) \cup {Pending(op).state}
  BY <1>2 DEF Aborts
<1> QED BY <1>2, <1>3 DEF Durable!Abort, Pending

LEMMA SucceedsRefines ==
    ASSUME IInv, WriteSucceeds
    PROVE  Durable!Next
<1>1. op # Idle /\ boot' = View(flash') /\ doubt' = doubt
  BY DEF WriteSucceeds
<1>2. PICK w \in Writes(op) :
        /\ flash' = Written(w)
        /\ Completed(Advance(w)) => op' = Idle
        /\ ~Completed(Advance(w)) => op' = Advance(w)
  BY DEF WriteSucceeds
<1>3. Succeeds(flash', Advance(w))
  BY <1>1, <1>2, WriteOutcome
<1>4. CASE Completed(Advance(w))
  <2>1. op' = Idle /\ Commits(flash')
    BY <1>2, <1>3, <1>4 DEF Succeeds, Done
  <2>2. Durable!Commit
    BY <1>1, <2>1, CommitRefines
  <2> QED BY <2>2 DEF Durable!Next
<1>5. CASE ~Completed(Advance(w))
  <2>1. /\ op' \in Calls /\ op'.located = op.located /\ op'.replay = op.replay
        /\ boot' = boot /\ Late(flash') \subseteq Late(flash)
    BY <1>1, <1>2, <1>3, <1>5 DEF Succeeds, GoesOn, Silent
  <2>2. Pending(op') = Pending(op)
    BY <1>1, <2>1, CallsAreNotIdle DEF Pending
  <2>3. Durable!Forget
    BY <1>1, <2>1, <2>2 DEF Durable!Forget, Pending
  <2> QED BY <2>3 DEF Durable!Next
<1> QED BY <1>4, <1>5

LEMMA FaultRefines ==
    ASSUME IInv, Fault
    PROVE  Durable!Next
<1>1. op # Idle /\ op' = Idle /\ boot' = View(flash') /\ doubt' = (doubt \/ Late(flash') # {})
  BY DEF Fault
<1>2. Aborts(flash') \/ Commits(flash')
  BY FaultFacts DEF Fails
<1>3. Durable!Abort \/ Durable!Commit
  BY <1>1, <1>2, AbortRefines, CommitRefines
<1> QED BY <1>3 DEF Durable!Next

LEMMA SettlesRefines ==
    ASSUME IInv, NEW s \in Sectors, NEW i \in SlotIds, MarginalSettles(s, i)
    PROVE  Durable!Next
<1>1. /\ op' = op /\ flash[s][i].kind = "marginal" /\ boot' = View(flash') /\ doubt' = doubt
      /\ flash' = [flash EXCEPT ![s][i] = StateRecord(flash[s][i].gen, flash[s][i].state)]
  BY DEF MarginalSettles, IInv, Typed, Flashes
<1>2. /\ flash' \in Flashes /\ Newest(flash') \in Located
      /\ Newest(flash').state \in {flash[s][i].state, boot.state}
      /\ flash[s][i].state \in Late(flash) /\ Late(flash') \subseteq Late(flash)
  BY <1>1, SettledFacts
<1>3. boot' \in Views /\ boot'.state = Newest(flash').state
  BY <1>1, <1>2, NewestOfView, Constants
<1>4. boot'.state \in Late(flash) \cup {boot.state}
  BY <1>2, <1>3
<1>5. Pending(op') = Pending(op)
  BY <1>1
<1>6. Durable!Surface
  BY <1>1, <1>2, <1>3, <1>4, <1>5, AbstractVars DEF Durable!Surface, Pending
<1> QED BY <1>6 DEF Durable!Next

LEMMA StepRefines ==
    ASSUME IInv, IInv', [Next]_vars
    PROVE  [Durable!Next]_(Durable!absVars)
<1>1. CASE /\ op = Idle
           /\ UNCHANGED <<flash, boot, doubt>>
  BY <1>1, BeginRefines
<1>2. CASE WriteSucceeds
  BY <1>2, SucceedsRefines
<1>3. CASE Fault
  BY <1>3, FaultRefines
<1>4. ASSUME NEW s \in Sectors, NEW i \in SlotIds, MarginalSettles(s, i) PROVE Durable!Next
  BY <1>4, SettlesRefines
<1>5. CASE UNCHANGED vars
  <2>1. UNCHANGED <<boot, Pending(op), Late(flash), doubt>>
    BY <1>5 DEF vars, Late
  <2> QED BY <2>1, AbstractVars
<1>6. CASE Load \/ Visit \/ (PowerCut /\ ~Fault)
  <2>1. op = Idle /\ UNCHANGED <<flash, boot, doubt>>
    BY <1>6 DEF Load, Visit, PowerCut
  <2> QED BY <1>1, <2>1
<1>7. ASSUME NEW s \in States, Store(s) PROVE op = Idle /\ UNCHANGED <<flash, boot, doubt>>
  BY <1>7 DEF Store
<1>8. ASSUME NEW e \in Entries, CommitReplay(e) PROVE op = Idle /\ UNCHANGED <<flash, boot, doubt>>
  BY <1>8 DEF CommitReplay
<1>9. ASSUME NEW gone \in SUBSET Domains, RemoveFloors(gone)
      PROVE  op = Idle /\ UNCHANGED <<flash, boot, doubt>>
  BY <1>9 DEF RemoveFloors
<1>10. WriteFails => Fault
  BY DEF WriteFails
<1> QED BY <1>1, <1>2, <1>3, <1>4, <1>5, <1>6, <1>7, <1>8, <1>9, <1>10 DEF Next

-----------------------------------------------------------------------------
(* The theorems. *)

\* The inductive invariant: the caches, the call under way and the flash agree
\* whatever sequence of calls, faults, power cuts and settling markers led here.
THEOREM JournalInvariant == Spec => []IInv
<1>1. Init => IInv
  BY InitHolds
<1>2. IInv /\ [Next]_vars => IInv'
  BY StepKeeps
<1> QED BY <1>1, <1>2, PTL DEF Spec

\* Every slot decodes to something the journal wrote, no replay slot holds more
\* entries than fit (write_replay_entry), and the caches hold decoded values.
THEOREM JournalTyped == Spec => []TypeOK
BY JournalInvariant, InvTyped, PTL

\* No write goes over bytes programmed since the last erase: neither the run
\* find_erased_run chose nor the entry find_replay_append_position chose can be
\* taken by anything else before the call gets to it.
THEOREM JournalWritesErased == Spec => []WritesErasedFlash
BY JournalInvariant, InvErased, PTL

\* The caches of the journal object never run ahead of flash: a failed call, a
\* power cut or a late commit marker invalidates what it makes stale.
THEOREM JournalCachesDurable == Spec => []CacheIsDurable
BY JournalInvariant, InvCaches, PTL

\* A reservation reported durable is never lost: newest() finds one at least as
\* large after any number of faults, erases and settled markers.
THEOREM JournalReservationSurvives == Spec => []ReservationSurvives
BY JournalInvariant, InvReservation, PTL

\* The journal implements DurableStore: each call changes the durable value at
\* one flash write, or not at all.
THEOREM JournalRefinesStore == Spec => RefinesDurableStore
<1>1. Init => Durable!Init
  <2> SUFFICES ASSUME Init PROVE Durable!Init
    OBVIOUS
  <2>1. op = Idle /\ doubt = FALSE /\ boot = [state |-> None, floors |-> NoFloors]
    BY DEF Init
  <2>2. Late(flash) = {}
    <3>1. IInv
      BY InitHolds
    <3> QED BY <2>1, <3>1 DEF IInv
  <2> QED BY <2>1, <2>2 DEF Durable!Init, Durable!NoFloors, NoFloors
<1>2. IInv /\ IInv' /\ [Next]_vars => [Durable!Next]_(Durable!absVars)
  BY StepRefines
<1>3. Spec => []IInv
  BY JournalInvariant
<1> QED BY <1>1, <1>2, <1>3, PTL DEF Spec, RefinesDurableStore, Durable!Spec

=============================================================================
