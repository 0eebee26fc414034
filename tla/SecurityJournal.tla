--------------------------- MODULE SecurityJournal ---------------------------
(***************************************************************************)
(* The two-sector NOR-flash journal that stores the security state and the *)
(* incoming APS replay floors (zigbee-runtime/src/security_journal.rs).    *)
(*                                                                         *)
(* A call computes where to write and then performs one flash write after  *)
(* the other; power may be cut, or the flash may report an error, at each  *)
(* of them, leaving the old content, the new content or an undecodable     *)
(* slot.  One generation is a state record plus the replay slots that      *)
(* carry its generation number in the same sector.                         *)
(*                                                                         *)
(* The payload of a record is abstracted to what the journal looks at: the *)
(* network the state belongs to (NoNet: not commissioned) and the outgoing *)
(* counter reservation.  A list of replay entries is abstracted to the     *)
(* highest floor of each domain, 0 for none, which is what merge_replay    *)
(* keeps of it; the order in which a snapshot writes its domains is open.  *)
(***************************************************************************)
EXTENDS Integers, FiniteSets, FiniteSetsExt

CONSTANTS
    Slots,            \* SLOTS_PER_SECTOR
    EntriesPerSlot,   \* REPLAY_ENTRIES_PER_SLOT
    Domains,          \* replay domains of authenticated APS frames
    MaxFloor,         \* bound on the replay counters
    Nets,             \* networks (extended PAN id and own address)
    NoNet,            \* not commissioned
    MaxLimit,         \* bound on the counter reservation
    MaxGeneration,    \* u32::MAX, where checked_add fails
    None,             \* Option::None
    MaxFaults,        \* bound on interrupted and failed writes
    MarginalCommits   \* commit markers may fail to verify and read back later

VARIABLES
    flash,        \* sector -> slot -> content
    ram,          \* the journal object's caches
    op,           \* the call under way and the writes it has left
    faults,       \* interrupted and failed writes so far
    boot,         \* what a boot would read: a function of flash, see View
    ackedLimit,   \* history: largest reservation a call reported durable
    doubt         \* history: a commit marker was left that did not verify

vars == <<flash, ram, op, faults, boot, ackedLimit, doubt>>

Sectors == {0, 1}
SlotIds == 0 .. Slots - 1
States == [net : Nets \cup {NoNet}, limit : 0 .. MaxLimit]
Generations == 0 .. MaxGeneration
Entries == [domain : Domains, floor : 1 .. MaxFloor]
Floors == [Domains -> 0 .. MaxFloor]
NoFloors == [d \in Domains |-> 0]
Located == [gen : Generations, sector : Sectors, state : States]

SnapshotSlots(n) == (n + EntriesPerSlot - 1) \div EntriesPerSlot

ASSUME GeometryAssumption ==
    /\ Slots \in Nat /\ EntriesPerSlot \in Nat \ {0}
    /\ IsFiniteSet(Domains)
    /\ 1 + SnapshotSlots(Cardinality(Domains)) <= Slots
    /\ MaxFloor \in Nat /\ MaxLimit \in Nat /\ MaxGeneration \in Nat
    /\ MaxFaults \in Nat
    /\ NoNet \notin Nets /\ MarginalCommits \in BOOLEAN

\* Option::None is none of the values it stands in for.
ASSUME NoneAssumption ==
    /\ None \notin Nat /\ None \notin Located /\ None \notin States
    /\ None \notin [state : States \cup {None}, floors : Floors]

Erased == [kind |-> "erased"]
Torn == [kind |-> "torn"]
StateRecord(g, s) == [kind |-> "record", gen |-> g, state |-> s]
MarginalRecord(g, s) == [kind |-> "marginal", gen |-> g, state |-> s]
\* A replay slot: its header, how many entries are written, whether the last of
\* them is undecodable, and the floors of the others.
ReplaySlot(g, n, torn, fl) ==
    [kind |-> "replay", gen |-> g, used |-> n, torn |-> torn, floors |-> fl]

Idle == [kind |-> "idle"]
Unscanned == [scanned |-> FALSE, located |-> None, replayGen |-> None, replay |-> NoFloors]

Init ==
    /\ \E blank \in {Erased, Torn} : flash = [s \in Sectors |-> [i \in SlotIds |-> blank]]
    /\ ram = Unscanned
    /\ op = Idle
    /\ faults = 0
    /\ boot = [state |-> None, floors |-> NoFloors]
    /\ ackedLimit = 0
    /\ doubt = FALSE

-----------------------------------------------------------------------------
(* Reading the flash.                                                      *)

MaxOf(a, b) == IF a >= b THEN a ELSE b

\* Mutant: of two records with one generation the first one found wins.
ResolveFirstWins(first, second) == first

\* resolve_duplicate_generation: `second` is the later position.  The larger
\* reservation wins, so with one reservation nothing is left to raise.
Resolve(first, second) ==
    IF first.state = second.state \/ second.state.limit < first.state.limit
    THEN first ELSE second

\* One slot of newest: the record with the highest generation so far.
Take(newest, sector, cell) ==
    LET candidate == [gen |-> cell.gen, sector |-> sector, state |-> cell.state] IN
    IF cell.kind # "record" THEN newest
    ELSE IF newest = None THEN candidate
    ELSE IF cell.gen > newest.gen THEN candidate
    ELSE IF cell.gen = newest.gen THEN Resolve(newest, candidate)
    ELSE newest

\* newest: sector 0, then sector 1, each slot by slot.
ScanSector(f, sector, start) ==
    LET newest[n \in 0 .. Slots] ==
          IF n = 0 THEN start ELSE Take(newest[n - 1], sector, f[sector][n - 1])
    IN newest[Slots]
Newest(f) == ScanSector(f, 1, ScanSector(f, 0, None))

\* merge_replay.
Merge(replay, e) == [replay EXCEPT ![e.domain] = MaxOf(@, e.floor)]

\* scan_replay_into_cache: every slot of the sector with this generation.
ReplaySlots(f, sector, gen) ==
    {i \in SlotIds : f[sector][i].kind = "replay" /\ f[sector][i].gen = gen}
ScanReplay(f, sector, gen) ==
    [d \in Domains |->
       Max({0} \cup {f[sector][i].floors[d] : i \in ReplaySlots(f, sector, gen)})]

\* What a boot would find in flash f.
View(f) ==
    LET loc == Newest(f) IN
    IF loc = None
    THEN [state |-> None, floors |-> NoFloors]
    ELSE [state |-> loc.state, floors |-> ScanReplay(f, loc.sector, loc.gen)]

\* current() and ensure_replay_cache().
Current == IF ram.scanned THEN ram.located ELSE Newest(flash)
CachedReplay(loc) ==
    IF ram.replayGen = loc.gen THEN ram.replay
    ELSE ScanReplay(flash, loc.sector, loc.gen)

-----------------------------------------------------------------------------
(* The writes of a call.                                                   *)

\* Mutant: the last slot of the run is not looked at.
ErasedRunShort(sector, n) ==
    LET starts == {i \in 0 .. Slots - n :
                     \A j \in i .. i + n - 2 : flash[sector][j] = Erased}
    IN IF starts = {} THEN None ELSE Min(starts)

\* find_erased_run: the first slot of a run of n erased ones, or None.
ErasedRun(sector, n) ==
    LET starts == {i \in 0 .. Slots - n :
                     \A j \in i .. i + n - 1 : flash[sector][j] = Erased}
    IN IF starts = {} THEN None ELSE Min(starts)

\* Mutant: a full replay slot is taken for one with a free entry.
AppendPositionUnbounded(sector, gen) ==
    LET free == {i \in SlotIds :
                   flash[sector][i] = Erased \/ i \in ReplaySlots(flash, sector, gen)}
    IN IF free = {} THEN None ELSE Min(free)

\* find_replay_append_position: the first erased slot, or the first free entry
\* of a replay slot of this generation, whichever comes first.
AppendPosition(sector, gen) ==
    LET free == {i \in SlotIds :
                   \/ flash[sector][i] = Erased
                   \/ /\ i \in ReplaySlots(flash, sector, gen)
                      /\ flash[sector][i].used < EntriesPerSlot
                      /\ ~flash[sector][i].torn}
    IN IF free = {} THEN None ELSE Min(free)

\* write_generation: an erased run of the current sector, or slot 0 of the
\* other one after erasing it.  The snapshot starts behind the state record.
CommitGeneration(loc, rollover, gen, state, replay) ==
    LET stored == {d \in Domains : replay[d] > 0}
        run == IF loc = None \/ rollover THEN None
               ELSE ErasedRun(loc.sector, 1 + SnapshotSlots(Cardinality(stored)))
        target == IF loc = None THEN 0
                  ELSE IF run = None THEN 1 - loc.sector ELSE loc.sector
        base == IF run = None THEN 0 ELSE run
    IN op' = [kind |-> "generation", erase |-> run = None, base |-> base,
              slot |-> base + 1, headed |-> FALSE, left |-> stored, record |-> TRUE,
              located |-> [gen |-> gen, sector |-> target, state |-> state],
              replay |-> replay]

\* One entry for the current generation.
AppendEntry(loc, at, replay, domain) ==
    op' = [kind |-> "append", erase |-> FALSE, base |-> at, slot |-> at,
           headed |-> flash[loc.sector][at] # Erased, left |-> {domain}, record |-> FALSE,
           located |-> loc, replay |-> replay]

EraseStep == [write |-> "erase"]
HeaderStep == [write |-> "header"]
EntryStep(d) == [write |-> "entry", domain |-> d]
RecordStep == [write |-> "record"]

\* write_replay_snapshot.
SnapshotWrites(o) == IF o.headed THEN {EntryStep(d) : d \in o.left} ELSE {HeaderStep}

\* Mutant: the state record before the snapshot.
WritesRecordFirst(o) ==
    IF o.erase THEN {EraseStep}
    ELSE IF o.record THEN {RecordStep}
    ELSE SnapshotWrites(o)

\* activate_generation: the snapshot first, the state record last.
Writes(o) ==
    IF o.erase THEN {EraseStep}
    ELSE IF o.left # {} THEN SnapshotWrites(o)
    ELSE {RecordStep}

-----------------------------------------------------------------------------
(* The calls of SecurityStateStore.                                        *)

\* load and visit_replay_counters only fill the caches.
Load ==
    /\ op = Idle /\ ~ram.scanned
    /\ ram' = [ram EXCEPT !.scanned = TRUE, !.located = Newest(flash)]
    /\ UNCHANGED <<flash, op, faults, boot, ackedLimit, doubt>>

Visit ==
    /\ op = Idle /\ Current # None
    /\ ram' = [scanned |-> TRUE, located |-> Current, replayGen |-> Current.gen,
               replay |-> CachedReplay(Current)]
    /\ UNCHANGED <<flash, op, faults, boot, ackedLimit, doubt>>

\* store.  Callers never lower the reservation (CounterReservation,
\* NwkLimitNeverShrinks).  The floors survive only within one network.
Store(s) ==
    /\ op = Idle
    /\ Current # None => Current.gen < MaxGeneration /\ Current.state.limit <= s.limit
    /\ CommitGeneration(Current, FALSE, IF Current = None THEN 0 ELSE Current.gen + 1, s,
         IF Current # None /\ s.net # NoNet /\ Current.state.net = s.net
         THEN CachedReplay(Current) ELSE NoFloors)
    /\ UNCHANGED <<flash, ram, faults, boot, ackedLimit, doubt>>

\* commit_replay_counter of an APS floor: append an entry to the current
\* generation, or roll over when the sector is full.
CommitReplay(e) ==
    LET replay == CachedReplay(Current)
        at == AppendPosition(Current.sector, Current.gen)
    IN
    /\ op = Idle /\ Current # None
    /\ Current.state.net # NoNet
    /\ replay[e.domain] < e.floor
    /\ IF at # None
       THEN AppendEntry(Current, at, Merge(replay, e), e.domain)
       ELSE /\ Current.gen < MaxGeneration
            /\ CommitGeneration(Current, TRUE, Current.gen + 1, Current.state,
                                Merge(replay, e))
    /\ UNCHANGED <<flash, ram, faults, boot, ackedLimit, doubt>>

\* tombstone_replay_counters and retain_replay_counters: a new generation
\* without the floors of the domains `gone`.
RemoveFloors(gone) ==
    LET replay == CachedReplay(Current)
        kept == [d \in Domains |-> IF d \in gone THEN 0 ELSE replay[d]]
    IN
    /\ op = Idle /\ Current # None
    /\ kept # replay
    /\ IF Current.gen < MaxGeneration
       THEN /\ CommitGeneration(Current, FALSE, Current.gen + 1, Current.state, kept)
            /\ UNCHANGED ram
       ELSE ram' = Unscanned /\ UNCHANGED op
    /\ UNCHANGED <<flash, faults, boot, ackedLimit, doubt>>

-----------------------------------------------------------------------------
(* Flash writes.                                                           *)

\* The flash with cell c in the slot the call writes to.
Program(i, c) == [flash EXCEPT ![op.located.sector][i] = c]

\* write_replay_entry: the slot with one more entry.
WithEntry(cell, d, floor) ==
    ReplaySlot(cell.gen, cell.used + 1, cell.torn, Merge(cell.floors, [domain |-> d, floor |-> floor]))

\* Flash content after write w of the call completed.
Written(w) ==
    CASE w.write = "erase" ->
           [flash EXCEPT ![op.located.sector] = [i \in SlotIds |-> Erased]]
      [] w.write = "header" ->
           Program(op.slot, ReplaySlot(op.located.gen, 0, FALSE, NoFloors))
      [] w.write = "entry" ->
           Program(op.slot, WithEntry(flash[op.located.sector][op.slot], w.domain,
                                      op.replay[w.domain]))
      [] w.write = "record" ->
           Program(op.base, StateRecord(op.located.gen, op.located.state))

\* Flash contents that an interrupted or failed write w can leave.
Interrupted(w) ==
    {flash, Written(w)} \cup
    CASE w.write = "erase" ->
           {[flash EXCEPT ![op.located.sector] =
               [i \in SlotIds |-> IF i < n THEN Erased ELSE IF i = n THEN Torn ELSE @[i]]]
               : n \in SlotIds}
      [] w.write = "header" ->
           {Program(op.slot, Torn)}
      [] w.write = "entry" ->
           LET cell == flash[op.located.sector][op.slot] IN
           {Program(op.slot, ReplaySlot(cell.gen, cell.used + 1, TRUE, cell.floors))}
      [] w.write = "record" ->
           {Program(op.base, Torn)} \cup
           (IF MarginalCommits
            THEN {Program(op.base, MarginalRecord(op.located.gen, op.located.state))}
            ELSE {})

\* What is left of the call after write w: a full replay slot is followed by
\* the header of the next one.
Advance(w) ==
    CASE w.write = "erase" -> [op EXCEPT !.erase = FALSE]
      [] w.write = "header" -> [op EXCEPT !.headed = TRUE]
      [] w.write = "entry" ->
           LET full == flash[op.located.sector][op.slot].used + 1 = EntriesPerSlot IN
           [op EXCEPT !.left = @ \ {w.domain},
                      !.headed = ~full,
                      !.slot = IF full THEN @ + 1 ELSE @]
      [] w.write = "record" -> [op EXCEPT !.record = FALSE]

Completed(o) == o.left = {} /\ ~o.record

\* The next write succeeds and verifies; the last one completes the call.
WriteSucceeds ==
    /\ op # Idle
    /\ \E w \in Writes(op) :
         /\ flash' = Written(w)
         /\ IF Completed(Advance(w))
            THEN /\ op' = Idle
                 /\ ram' = [scanned |-> TRUE, located |-> op.located,
                            replayGen |-> op.located.gen, replay |-> op.replay]
                 /\ ackedLimit' = IF op.kind = "generation"
                                  THEN MaxOf(ackedLimit, op.located.state.limit)
                                  ELSE ackedLimit
            ELSE op' = Advance(w) /\ UNCHANGED <<ram, ackedLimit>>
    /\ boot' = View(flash')
    /\ UNCHANGED <<faults, doubt>>

\* The states of commit markers that did not verify.
Late(f) == {f[x[1]][x[2]].state :
              x \in {y \in Sectors \X SlotIds : f[y[1]][y[2]].kind = "marginal"}}

\* A fault in the middle of a call.
Fault ==
    /\ op # Idle /\ op' = Idle
    /\ faults < MaxFaults /\ faults' = faults + 1
    /\ \E w \in Writes(op) : flash' \in Interrupted(w)
    /\ boot' = View(flash')
    /\ doubt' = (doubt \/ Late(flash') # {})
    /\ UNCHANGED ackedLimit

\* Mutant: the caches survive the failure.
WriteFailsKeepsCaches == Fault /\ UNCHANGED ram

\* The next write, or its verification, fails: the call returns Hardware.  A
\* failed generation forgets every cache, a failed append the replay cache.
WriteFails ==
    /\ Fault
    /\ ram' = IF op.kind = "append"
              THEN [Unscanned EXCEPT !.scanned = TRUE, !.located = op.located]
              ELSE Unscanned

PowerCut ==
    /\ Fault \/ (op = Idle /\ UNCHANGED <<flash, op, faults, boot, ackedLimit, doubt>>)
    /\ ram' = Unscanned

\* A marginal commit marker reads back as programmed after all.  Only a scan
\* looks at it, so it shows when the caches are empty.
MarginalSettles(s, i) ==
    /\ op = Idle /\ ~ram.scanned
    /\ flash[s][i].kind = "marginal"
    /\ flash' = [flash EXCEPT ![s][i] = StateRecord(@.gen, @.state)]
    /\ boot' = View(flash')
    /\ UNCHANGED <<ram, op, faults, ackedLimit, doubt>>

Next ==
    \/ Load \/ Visit
    \/ \E s \in States : Store(s)
    \/ \E e \in Entries : CommitReplay(e)
    \/ \E gone \in SUBSET Domains : RemoveFloors(gone)
    \/ WriteSucceeds \/ WriteFails \/ PowerCut
    \/ \E s \in Sectors, i \in SlotIds : MarginalSettles(s, i)

Spec == Init /\ [][Next]_vars

-----------------------------------------------------------------------------
(* Properties.                                                             *)

\* The type invariant: every slot holds something the journal can have written
\* (write_record, write_replay_header, write_replay_entry), no replay slot more
\* entries than fit, and the caches hold decoded floors only.
Cells ==
    {Erased, Torn}
      \cup [kind : {"record", "marginal"}, gen : Generations, state : States]
      \cup [kind : {"replay"}, gen : Generations, used : 0 .. EntriesPerSlot,
            torn : BOOLEAN, floors : Floors]
TypeOK ==
    /\ \A s \in Sectors, i \in SlotIds : flash[s][i] \in Cells
    /\ ram \in [scanned : BOOLEAN, located : Located \cup {None},
               replayGen : Generations \cup {None}, replay : Floors]
    /\ ackedLimit \in 0 .. MaxLimit

\* NOR flash can only clear bits between erases: every write of the call under
\* way, other than an erase, goes to bytes that are still erased.
WritesErasedFlash ==
    op # Idle =>
      \A w \in Writes(op) :
        LET cell(i) == flash[op.located.sector][i] IN
        CASE w.write = "header" -> cell(op.slot) = Erased
          [] w.write = "record" -> cell(op.base) = Erased
          [] w.write = "entry" -> cell(op.slot).kind = "replay" /\ cell(op.slot).used < EntriesPerSlot
          [] OTHER -> TRUE

\* The cached state is the one a reboot would read, and the cached floors claim
\* nothing that flash does not hold: a frame accepted below the cached floor
\* would be a replay the reboot lets through.
CacheIsDurable ==
    ram.scanned /\ op = Idle =>
      /\ ram.located = Newest(flash)
      /\ ram.replayGen # None => \A d \in Domains : ram.replay[d] <= boot.floors[d]

\* Exact agreement of the replay cache with flash: what a completed tombstone
\* removed stays removed, because no leftover of an earlier, interrupted
\* attempt at the same generation number becomes part of the new generation.
CacheMatchesFlash ==
    /\ ram.scanned /\ op = Idle /\ ram.replayGen # None
    /\ boot.state # None /\ boot.state.net # NoNet
    => ram.replay = boot.floors

\* The reservation a boot finds is never below one that a call reported
\* durable, wherever power was cut and also when a marginal record settles.
ReservationSurvives ==
    ackedLimit > 0 => boot.state # None /\ boot.state.limit >= ackedLimit

Durable == INSTANCE DurableStore WITH
    NoValue <- None,
    durable <- boot,
    pending <- IF op = Idle THEN None
               ELSE [state |-> op.located.state, floors |-> op.replay],
    late <- Late(flash)

\* Every call of the journal is one atomic change of the durable value, at its
\* last flash write, or none (DurableStore), wherever it is interrupted.
RefinesDurableStore == Durable!Spec
=============================================================================
