--------------------------- MODULE NwkReplayProofs ---------------------------
(***************************************************************************)
(* Theorems about the replay table of NwkSecurity: no frame is accepted     *)
(* again, a frame that was handled gets its floor, an end device always has *)
(* room for its parent, and a newcomer leaves a router the room it needs    *)
(* for its parents and children.  They hold for any sets of senders and     *)
(* keys, any sequence numbers, table capacities and counter bound, and for  *)
(* both builds.                                                             *)
(***************************************************************************)
EXTENDS NwkSecurityProofs, FiniteSetTheorems

Floors == [source : Sources, seq : Seqs, counter : Counters, silent : 0..StaleSecs]

\* The fields of a key set and of a floor.
LEMMA Fields ==
    ASSUME NEW x \in SecurityType
    PROVE  /\ x.active \in Keys \cup {NoKey} /\ x.second \in Keys \cup {NoKey}
           /\ x.staged \in Seqs \cup {NoSeq} /\ x.table \subseteq Floors
           /\ \A e \in x.table : e \in Floors /\ e.source \in Sources
                /\ e.seq \in Seqs /\ e.counter \in Int /\ e.counter >= 1
BY DEF SecurityType, Floors, Counters

\* Sequence numbers are never NoSeq, and no key is NoKey.
LEMMA Names ==
    /\ NoSeq \notin Seqs /\ NoKey \notin Keys
    /\ \A k \in Keys : KeySeq[k] \in Seqs /\ KeySeq[k] # NoSeq /\ k # NoKey
BY SecurityAssumption, KeySeqType DEF Seqs

-----------------------------------------------------------------------------
(* What is known of a key set x and the counters h heard under its keys *)

\* The two keys have different sequence numbers, so a floor belongs to one key.
DistinctSeqs(x) ==
    x.active # NoKey /\ x.second # NoKey => KeySeq[x.active] # KeySeq[x.second]

\* Every counter heard under an installed key is at or below the floor of its
\* sender, and a sender without a floor is refused: its key is the sealed
\* previous one.
Guarded(x, h) ==
    /\ \A k \in Installed(x), e \in x.table :
         e.seq = KeySeq[k] => e.counter >= h[<<e.source, k>>]
    /\ \A k \in Installed(x), s \in Sources : h[<<s, k>>] > 0 =>
         Has(x, s, KeySeq[k]) \/ (router /\ SealedAgainst(x, KeySeq[k]))
    /\ \A k \in Keys \ Installed(x), s \in Sources : h[<<s, k>>] = 0

Heards == [Domains -> 0..MaxCounter]

\* A value of the history.
LEMMA HeardValue ==
    ASSUME NEW h \in Heards, NEW s \in Sources, NEW k \in Keys
    PROVE  /\ <<s, k>> \in Domains
           /\ h[<<s, k>>] \in Int /\ h[<<s, k>>] >= 0
<1>1. <<s, k>> \in Domains
  BY DEF Domains
<1>2. h[<<s, k>>] \in 0..MaxCounter
  BY <1>1 DEF Heards
<1> QED BY <1>1, <1>2, SecurityAssumption

\* The installed keys are keys.
LEMMA InstalledKeys ==
    ASSUME NEW x \in SecurityType
    PROVE  /\ Installed(x) \subseteq Keys
           /\ \A k : k \in Installed(x) <=> (k \in Keys /\ k \in {x.active, x.second})
BY Fields, Names DEF Installed

\* Only the previous key is ever sealed: not the active one, not a staged one.
LEMMA SealOnlyPrevious ==
    ASSUME NEW x \in SecurityType, NEW k \in Keys, SealedAgainst(x, KeySeq[k])
    PROVE  /\ x.second # NoKey /\ KeySeq[k] = KeySeq[x.second]
           /\ x.staged # KeySeq[x.second] /\ x.sealed
           /\ DistinctSeqs(x) => k # x.active
BY Names DEF SealedAgainst, PreviousSeq, DistinctSeqs

\* Nothing heard: nothing to guard.
LEMMA NothingHeard ==
    ASSUME NEW x \in SecurityType, NEW h,
           \A s \in Sources, k \in Keys : h[<<s, k>>] = 0
    PROVE  Guarded(x, h)
<1>1. ASSUME NEW k \in Installed(x), NEW e \in x.table
      PROVE  e.counter >= h[<<e.source, k>>]
  <2>1. e.source \in Sources /\ k \in Keys /\ e.counter \in Int /\ e.counter >= 1
    BY Fields, InstalledKeys
  <2> QED BY <2>1
<1>2. ASSUME NEW k \in Installed(x), NEW s \in Sources
      PROVE  ~(h[<<s, k>>] > 0)
  BY InstalledKeys
<1> QED BY <1>1, <1>2 DEF Guarded

\* A step that keeps the keys, gives every sender the floor it had or a higher
\* one, and lifts no seal that counts, keeps the guard.
LEMMA CarriedOver ==
    ASSUME NEW x \in SecurityType, NEW y \in SecurityType, NEW h \in Heards,
           Guarded(x, h), Installed(y) = Installed(x),
           \A e \in y.table : \E d \in x.table :
               d.source = e.source /\ d.seq = e.seq /\ d.counter <= e.counter,
           \A d \in x.table : \E e \in y.table : d.source = e.source /\ d.seq = e.seq,
           \A k \in Keys : SealedAgainst(x, KeySeq[k]) => SealedAgainst(y, KeySeq[k])
    PROVE  Guarded(y, h)
<1>1. ASSUME NEW k \in Installed(y), NEW e \in y.table, e.seq = KeySeq[k]
      PROVE  e.counter >= h[<<e.source, k>>]
  <2>1. PICK d \in x.table : d.source = e.source /\ d.seq = e.seq /\ d.counter <= e.counter
    OBVIOUS
  <2>2. d.counter >= h[<<e.source, k>>]
    BY <1>1, <2>1 DEF Guarded
  <2>3. /\ d.counter \in Int /\ e.counter \in Int /\ h[<<e.source, k>>] \in Int
    BY Fields, HeardValue, InstalledKeys
  <2> QED BY <2>1, <2>2, <2>3
<1>2. ASSUME NEW k \in Installed(y), NEW s \in Sources, h[<<s, k>>] > 0
      PROVE  Has(y, s, KeySeq[k]) \/ (router /\ SealedAgainst(y, KeySeq[k]))
  <2>1. k \in Keys
    BY InstalledKeys
  <2>2. Has(x, s, KeySeq[k]) \/ (router /\ SealedAgainst(x, KeySeq[k]))
    BY <1>2 DEF Guarded
  <2>3. Has(x, s, KeySeq[k]) => Has(y, s, KeySeq[k])
    BY DEF Has
  <2> QED BY <2>1, <2>2, <2>3
<1> QED BY <1>1, <1>2 DEF Guarded

\* The same table, and no seal that counts is lifted.
LEMMA SameFloors ==
    ASSUME NEW x \in SecurityType, NEW y \in SecurityType, NEW h \in Heards,
           Guarded(x, h), Installed(y) = Installed(x), y.table = x.table,
           \A k \in Keys : SealedAgainst(x, KeySeq[k]) => SealedAgainst(y, KeySeq[k])
    PROVE  Guarded(y, h)
<1>1. \A e \in y.table : e \in x.table /\ e.counter <= e.counter
  BY Fields
<1> QED BY <1>1, CarriedOver

-----------------------------------------------------------------------------
(* The key operations *)

\* The fields after the fence is raised or lowered.
LEMMA FenceFields ==
    ASSUME NEW x \in SecurityType, NEW b \in BOOLEAN
    PROVE  /\ [x EXCEPT !.fence = b] \in SecurityType
           /\ [x EXCEPT !.fence = b].active = x.active
           /\ [x EXCEPT !.fence = b].second = x.second
           /\ [x EXCEPT !.fence = b].staged = x.staged
           /\ [x EXCEPT !.fence = b].table = x.table
           /\ [x EXCEPT !.fence = b].sealed = x.sealed
BY DEF SecurityType

\* The guard does not depend on the fence.
LEMMA FenceGuarded ==
    ASSUME NEW x \in SecurityType, NEW h \in Heards, NEW b \in BOOLEAN,
           Guarded(x, h), DistinctSeqs(x)
    PROVE  /\ Guarded([x EXCEPT !.fence = b], h) /\ DistinctSeqs([x EXCEPT !.fence = b])
<1> DEFINE y == [x EXCEPT !.fence = b]
<1>1. /\ y \in SecurityType
      /\ y.active = x.active /\ y.second = x.second /\ y.staged = x.staged
      /\ y.table = x.table /\ y.sealed = x.sealed
  BY FenceFields
<1> HIDE DEF y
<1>2. /\ Installed(y) = Installed(x) /\ PreviousSeq(y) = PreviousSeq(x)
  BY <1>1 DEF Installed, PreviousSeq
<1>3. \A q : SealedAgainst(y, q) <=> SealedAgainst(x, q)
  BY <1>1, <1>2 DEF SealedAgainst
<1>4. Guarded(y, h)
  BY <1>1, <1>2, <1>3, SameFloors
<1>5. DistinctSeqs(y)
  BY <1>1 DEF DistinctSeqs
<1> QED BY <1>4, <1>5 DEF y

\* The fields after the two keys change places.
LEMMA SwapFields ==
    ASSUME NEW x \in SecurityType
    PROVE  /\ Swapped(x) \in SecurityType
           /\ Swapped(x).active = x.second /\ Swapped(x).second = x.active
           /\ Swapped(x).staged = NoSeq /\ ~Swapped(x).sealed
           /\ Swapped(x).table = x.table
BY DEF Swapped, SecurityType

\* Switching to the staged key keeps every floor; a staged key is not sealed,
\* so lifting the seal loses nothing.
LEMMA SwapGuarded ==
    ASSUME NEW x \in SecurityType, NEW h \in Heards, Guarded(x, h), DistinctSeqs(x),
           x.second # NoKey, x.staged = KeySeq[x.second]
    PROVE  Guarded(Swapped(x), h) /\ DistinctSeqs(Swapped(x))
<1> DEFINE y == Swapped(x)
<1>1. /\ y.active = x.second /\ y.second = x.active /\ y.table = x.table
      /\ y \in SecurityType
  BY SwapFields
<1> HIDE DEF y
<1>2. Installed(y) = Installed(x)
  BY <1>1 DEF Installed
<1>3. \A k \in Keys : ~SealedAgainst(x, KeySeq[k])
  BY SealOnlyPrevious
<1>5. Guarded(y, h)
  BY <1>1, <1>2, <1>3, SameFloors
<1>6. DistinctSeqs(y)
  BY <1>1 DEF DistinctSeqs
<1> QED BY <1>5, <1>6 DEF y

\* The fields after a key is put into the other slot.
LEMMA PutSecondFields ==
    ASSUME NEW x \in SecurityType, NEW k \in Keys, NEW q \in Seqs \cup {NoSeq}
    PROVE  /\ PutSecond(x, k, q) \in SecurityType
           /\ PutSecond(x, k, q).active = x.active
           /\ PutSecond(x, k, q).second = k
           /\ PutSecond(x, k, q).staged = q
           /\ ~PutSecond(x, k, q).sealed
           /\ PutSecond(x, k, q).table =
                {e \in x.table : e.seq # KeySeq[k] /\ x.active # NoKey
                                /\ e.seq = KeySeq[x.active]}
<1> DEFINE z == [x EXCEPT !.second = k, !.staged = q,
                 !.table = clear_frame_counters_for_key(@, KeySeq[k])]
           y == PutSecond(x, k, q)
<1>1. /\ z.active = x.active /\ z.second = k /\ z.staged = q /\ z.sealed = x.sealed
      /\ z.table = {e \in x.table : e.seq # KeySeq[k]}
      /\ z \in SecurityType
  BY DEF SecurityType, clear_frame_counters_for_key
<1>2. y = retain_frame_counters_for_installed_keys(z)
  BY DEF PutSecond
<1>4. y \in SecurityType
  BY PutSecondPreserves
<1> HIDE DEF z, y
<1>3. /\ y.active = z.active /\ y.second = z.second /\ y.staged = z.staged
      /\ ~y.sealed
      /\ y.table = {e \in z.table : \E i \in Installed(z) : e.seq = KeySeq[i]}
  BY <1>1, <1>2 DEF retain_frame_counters_for_installed_keys, SecurityType
<1>5. Installed(z) = {x.active, k} \ {NoKey}
  BY <1>1 DEF Installed
<1>6. /\ y \in SecurityType
      /\ y.active = x.active /\ y.second = k /\ y.staged = q /\ ~y.sealed
      /\ y.table = {e \in x.table : e.seq # KeySeq[k] /\ x.active # NoKey
                                     /\ e.seq = KeySeq[x.active]}
  BY <1>1, <1>3, <1>4, <1>5
<1> QED BY <1>6 DEF y

\* A key put into the other slot has no history; the active key keeps its own.
LEMMA PutSecondGuarded ==
    ASSUME NEW x \in SecurityType, NEW h \in Heards, NEW g \in Heards,
           NEW k \in Keys, NEW q \in Seqs \cup {NoSeq},
           Guarded(x, h), DistinctSeqs(x),
           x.active \in Keys, KeySeq[k] # KeySeq[x.active],
           \A s \in Sources : g[<<s, x.active>>] = h[<<s, x.active>>],
           \A s \in Sources, i \in Keys \ {x.active} : g[<<s, i>>] = 0
    PROVE  Guarded(PutSecond(x, k, q), g)
<1> DEFINE y == PutSecond(x, k, q)
<1>1. /\ y.active = x.active /\ y.second = k /\ ~y.sealed /\ y \in SecurityType
      /\ y.table = {e \in x.table : e.seq # KeySeq[k] /\ x.active # NoKey
                                     /\ e.seq = KeySeq[x.active]}
  BY PutSecondFields
<1> DEFINE a == x.active
<1> HIDE DEF y
<1>2. a \in Installed(x) /\ a \in Keys /\ a # NoKey
  BY InstalledKeys, Names
<1>3. \A i \in Installed(y) : i \in {a, k}
  BY <1>1, InstalledKeys
<1>4. \A s \in Sources : Has(x, s, KeySeq[a]) => Has(y, s, KeySeq[a])
  BY <1>1, <1>2 DEF Has
<1>5. ASSUME NEW i \in Installed(y), NEW e \in y.table, e.seq = KeySeq[i]
      PROVE  e.counter >= g[<<e.source, i>>]
  <2>1. e \in x.table /\ e.source \in Sources /\ e.counter \in Int /\ e.counter >= 1
    BY <1>1, Fields
  <2>2. CASE i = a
    <3>1. e.counter >= h[<<e.source, a>>]
      BY <1>2, <1>5, <2>1, <2>2 DEF Guarded
    <3> QED BY <2>1, <2>2, <3>1
  <2>3. CASE i = k /\ k # a
    <3>1. g[<<e.source, i>>] = 0
      BY <2>1, <2>3
    <3> QED BY <2>1, <3>1
  <2> QED BY <1>3, <2>2, <2>3
<1>6. ASSUME NEW i \in Installed(y), NEW s \in Sources, g[<<s, i>>] > 0
      PROVE  Has(y, s, KeySeq[i])
  <2>1. i = a
    <3>1. i \in Keys
      BY <1>1, InstalledKeys
    <3>2. i # a => g[<<s, i>>] = 0
      BY <3>1
    <3> QED BY <1>6, <3>2
  <2>2. h[<<s, a>>] > 0
    BY <1>6, <2>1
  <2>3. ~SealedAgainst(x, KeySeq[a])
    BY <1>2, SealOnlyPrevious
  <2> QED BY <1>2, <1>4, <2>1, <2>2, <2>3 DEF Guarded
<1>7. ASSUME NEW i \in Keys \ Installed(y), NEW s \in Sources
      PROVE  g[<<s, i>>] = 0
  BY <1>1, <1>2, InstalledKeys
<1>8. Guarded(y, g)
  BY <1>5, <1>6, <1>7 DEF Guarded
<1> QED BY <1>8 DEF y

\* A new active key takes its predecessor's number, or its predecessor keeps another.
LEMMA SetDistinct ==
    ASSUME NEW x \in SecurityType, NEW k \in Keys, DistinctSeqs(x)
    PROVE  DistinctSeqs(set_network_key(x, k))
<1> DEFINE y == set_network_key(x, k)
<1>1. CASE x.active # NoKey /\ KeySeq[x.active] = KeySeq[k]
  <2>1. y.active = k /\ y.second = x.second
    BY <1>1 DEF set_network_key, SecurityType
  <2> HIDE DEF y
  <2>2. DistinctSeqs(y)
    BY <1>1, <2>1 DEF DistinctSeqs
  <2> QED BY <2>2 DEF y
<1>2. CASE ~(x.active # NoKey /\ KeySeq[x.active] = KeySeq[k]) /\ x.second = k
  <2>1. y = Swapped(x)
    BY <1>2 DEF set_network_key
  <2>2. Swapped(x).active = x.second /\ Swapped(x).second = x.active
    BY SwapFields
  <2> QED BY <2>1, <2>2 DEF DistinctSeqs
<1>3. CASE ~(x.active # NoKey /\ KeySeq[x.active] = KeySeq[k]) /\ x.second # k
  <2>1. y.active = k /\ y.second = x.active
    BY <1>3 DEF set_network_key, retain_frame_counters_for_installed_keys, SecurityType
  <2> HIDE DEF y
  <2>2. DistinctSeqs(y)
    BY <1>3, <2>1 DEF DistinctSeqs
  <2> QED BY <2>2 DEF y
<1> QED BY <1>1, <1>2, <1>3

\* The key put into the other slot never has the active key's number.
LEMMA PutSecondDistinct ==
    ASSUME NEW x \in SecurityType, NEW k \in Keys, NEW q \in Seqs \cup {NoSeq},
           KeySeq[k] # KeySeq[x.active]
    PROVE  DistinctSeqs(PutSecond(x, k, q))
BY PutSecondFields DEF DistinctSeqs

\* The fields after the number of the staged key is recorded.
LEMMA StagedFields ==
    ASSUME NEW x \in SecurityType, NEW q \in Seqs \cup {NoSeq}
    PROVE  /\ [x EXCEPT !.staged = q] \in SecurityType
           /\ [x EXCEPT !.staged = q].active = x.active
           /\ [x EXCEPT !.staged = q].second = x.second
           /\ [x EXCEPT !.staged = q].staged = q
           /\ [x EXCEPT !.staged = q].table = x.table
           /\ [x EXCEPT !.staged = q].sealed = x.sealed
BY DEF SecurityType

\* Staging a key leaves the key set, marks its number, or overwrites the other slot.
LEMMA StageCases ==
    ASSUME NEW x \in SecurityType, NEW k \in Keys
    PROVE  \/ stage_network_key(x, k) = x
           \/ /\ KeySeq[k] # KeySeq[x.active] /\ x.second = k
              /\ stage_network_key(x, k) = [x EXCEPT !.staged = KeySeq[k]]
           \/ /\ KeySeq[k] # KeySeq[x.active] /\ x.second # k
              /\ stage_network_key(x, k) = PutSecond(x, k, KeySeq[k])
BY DEF stage_network_key

LEMMA StageDistinct ==
    ASSUME NEW x \in SecurityType, NEW k \in Keys, DistinctSeqs(x)
    PROVE  DistinctSeqs(stage_network_key(x, k))
<1>1. CASE stage_network_key(x, k) = x
  BY <1>1
<1>2. CASE stage_network_key(x, k) = [x EXCEPT !.staged = KeySeq[k]]
  BY <1>2, KeySeqType, StagedFields DEF DistinctSeqs
<1>3. CASE /\ KeySeq[k] # KeySeq[x.active]
           /\ stage_network_key(x, k) = PutSecond(x, k, KeySeq[k])
  BY <1>3, KeySeqType, PutSecondDistinct
<1> QED BY <1>1, <1>2, <1>3, StageCases

LEMMA RestoreDistinct ==
    ASSUME NEW x \in SecurityType, NEW k \in Keys, DistinctSeqs(x)
    PROVE  DistinctSeqs(restore_previous_network_key(x, k))
BY PutSecondDistinct DEF restore_previous_network_key

LEMMA InstallDistinct ==
    ASSUME NEW x \in SecurityType, NEW st, DistinctSeqs(x),
           st.active \in Keys, st.second \in Keys \cup {NoKey}
    PROVE  DistinctSeqs(install_restored_network_security(x, st))
<1> DEFINE y == set_network_key(x, st.active)
<1>1. y \in SecurityType /\ DistinctSeqs(y)
  BY SetKeyPreserves, SetDistinct
<1>2. \/ install_restored_network_security(x, st) = y
      \/ /\ st.second \in Keys
         /\ \/ install_restored_network_security(x, st) = restore_previous_network_key(y, st.second)
            \/ install_restored_network_security(x, st) = stage_network_key(y, st.second)
  BY DEF install_restored_network_security
<1> HIDE DEF y
<1> QED BY <1>1, <1>2, StageDistinct, RestoreDistinct

\* A Transport-Key: a key that is staged for the first time has no history, and
\* the seal of a key that is staged again is given up with its history.
LEMMA StageGuarded ==
    ASSUME NEW x \in SecurityType, NEW h \in Heards, NEW g \in Heards, NEW k \in Keys,
           Guarded(x, h), DistinctSeqs(x), x.active # NoKey,
           g = [d \in Domains |->
                  IF d[2] \notin Installed(stage_network_key(x, k))
                     \/ (x.sealed /\ d[2] = k /\ stage_network_key(x, k).staged = KeySeq[k])
                  THEN 0 ELSE h[d]]
    PROVE  Guarded(stage_network_key(x, k), g)
<1> DEFINE y == stage_network_key(x, k)
<1>1. /\ y \in SecurityType /\ y.active = x.active /\ x.active \in Keys
  BY StagePreserves, Fields
<1>2. ASSUME NEW s \in Sources, NEW i \in Keys
      PROVE  /\ g[<<s, i>>] = IF i \notin Installed(y)
                                 \/ (x.sealed /\ i = k /\ y.staged = KeySeq[k])
                              THEN 0 ELSE h[<<s, i>>]
  BY HeardValue
<1>3. CASE y = x
  <2>1. ASSUME NEW s \in Sources, NEW i \in Keys
        PROVE  g[<<s, i>>] = 0 \/ g[<<s, i>>] = h[<<s, i>>]
    BY <1>2, <1>3
  <2>2. ASSUME NEW s \in Sources, NEW i \in Keys \ Installed(x)
        PROVE  g[<<s, i>>] = 0
    BY <1>2, <1>3
  <2>3. ASSUME NEW i \in Installed(x), NEW e \in x.table, e.seq = KeySeq[i]
        PROVE  e.counter >= g[<<e.source, i>>]
    <3>1. /\ i \in Keys /\ e.source \in Sources /\ e.counter \in Int /\ e.counter >= 1
      BY Fields, InstalledKeys
    <3>2. e.counter >= h[<<e.source, i>>]
      BY <2>3 DEF Guarded
    <3>3. g[<<e.source, i>>] = 0 \/ g[<<e.source, i>>] = h[<<e.source, i>>]
      BY <2>1, <3>1
    <3> QED BY <3>1, <3>2, <3>3
  <2>4. ASSUME NEW i \in Installed(x), NEW s \in Sources, g[<<s, i>>] > 0
        PROVE  Has(x, s, KeySeq[i]) \/ (router /\ SealedAgainst(x, KeySeq[i]))
    <3>1. i \in Keys
      BY InstalledKeys
    <3>2. h[<<s, i>>] > 0
      BY <2>1, <2>4, <3>1
    <3> QED BY <3>2 DEF Guarded
  <2>5. Guarded(x, g)
    BY <2>2, <2>3, <2>4 DEF Guarded
  <2> QED BY <1>3, <2>5
<1>4. CASE /\ KeySeq[k] # KeySeq[x.active] /\ x.second = k
           /\ y = [x EXCEPT !.staged = KeySeq[k]]
  <2>1. /\ y.second = k /\ y.table = x.table /\ y.sealed = x.sealed /\ y.staged = KeySeq[k]
    BY <1>4, KeySeqType, StagedFields
  <2> HIDE DEF y
  <2>2. Installed(y) = Installed(x)
    BY <1>1, <1>4, <2>1 DEF Installed
  <2>3. \A s \in Sources, i \in Keys \ Installed(y) : g[<<s, i>>] = 0
    BY <1>2
  <2>4. ASSUME NEW i \in Installed(y), NEW e \in y.table, e.seq = KeySeq[i]
        PROVE  e.counter >= g[<<e.source, i>>]
    <3>1. /\ i \in Keys /\ e.source \in Sources /\ e.counter \in Int /\ e.counter >= 1
      BY <1>1, Fields, InstalledKeys
    <3>2. e.counter >= h[<<e.source, i>>]
      BY <2>1, <2>2, <2>4 DEF Guarded
    <3>3. g[<<e.source, i>>] = 0 \/ g[<<e.source, i>>] = h[<<e.source, i>>]
      BY <1>2, <3>1
    <3> QED BY <3>1, <3>2, <3>3
  <2>5. ASSUME NEW i \in Installed(y), NEW s \in Sources, g[<<s, i>>] > 0
        PROVE  Has(y, s, KeySeq[i])
    <3>1. i \in Keys
      BY <1>1, InstalledKeys
    <3>2. ~(x.sealed /\ i = k) /\ g[<<s, i>>] = h[<<s, i>>]
      BY <1>2, <2>1, <2>5, <3>1
    <3>3. Has(x, s, KeySeq[i]) \/ SealedAgainst(x, KeySeq[i])
      BY <2>2, <2>5, <3>2 DEF Guarded
    <3>4. ~SealedAgainst(x, KeySeq[i])
      <4>1. i = x.active \/ i = k
        BY <1>1, <2>1, InstalledKeys
      <4> QED BY <1>4, <3>1, <3>2, <4>1, SealOnlyPrevious
    <3> QED BY <2>1, <3>3, <3>4 DEF Has
  <2>6. Guarded(y, g)
    BY <2>3, <2>4, <2>5 DEF Guarded
  <2> QED BY <2>6 DEF y
<1>5. CASE /\ KeySeq[k] # KeySeq[x.active] /\ x.second # k
           /\ y = PutSecond(x, k, KeySeq[k])
  <2>1. y.second = k
    BY <1>5, KeySeqType, PutSecondFields
  <2> HIDE DEF y
  <2>2. x.active # k
    BY <1>5
  <2>3. ASSUME NEW s \in Sources PROVE g[<<s, x.active>>] = h[<<s, x.active>>]
    <3>1. x.active \in Installed(y)
      BY <1>1, InstalledKeys
    <3> QED BY <1>1, <1>2, <2>2, <3>1
  <2>4. ASSUME NEW s \in Sources, NEW i \in Keys \ {x.active} PROVE g[<<s, i>>] = 0
    <3>1. CASE i = k
      <4>1. k \notin Installed(x)
        BY <1>5, <2>2, InstalledKeys
      <4>2. h[<<s, k>>] = 0
        BY <4>1 DEF Guarded
      <4> QED BY <1>2, <3>1, <4>2
    <3>2. CASE i # k
      <4>1. i \notin Installed(y)
        BY <1>1, <2>1, <3>2, InstalledKeys
      <4> QED BY <1>2, <4>1
    <3> QED BY <3>1, <3>2
  <2>5. Guarded(PutSecond(x, k, KeySeq[k]), g)
    BY <1>1, <1>5, <2>3, <2>4, KeySeqType, PutSecondGuarded
  <2> QED BY <1>5, <2>5 DEF y
<1> QED BY <1>3, <1>4, <1>5, StageCases

-----------------------------------------------------------------------------
(* commit_replay_floor *)

\* The fields after a floor replaced another one.
LEMMA ReplacedFields ==
    ASSUME NEW x \in SecurityType, NEW e, NEW f
    PROVE  /\ Replaced(x, e, f).active = x.active
           /\ Replaced(x, e, f).second = x.second
           /\ Replaced(x, e, f).staged = x.staged
           /\ Replaced(x, e, f).table = (x.table \ {e}) \cup {f}
           /\ x.sealed => Replaced(x, e, f).sealed
           /\ router /\ e.seq = PreviousSeq(x) /\ f.seq # e.seq => Replaced(x, e, f).sealed
BY DEF Replaced, SecurityType

\* The fields after the floor of a sender was raised, or added.
LEMMA TableFields ==
    ASSUME NEW x \in SecurityType, NEW t
    PROVE  /\ [x EXCEPT !.table = t].active = x.active
           /\ [x EXCEPT !.table = t].second = x.second
           /\ [x EXCEPT !.table = t].staged = x.staged
           /\ [x EXCEPT !.table = t].sealed = x.sealed
           /\ [x EXCEPT !.table = t].table = t
BY DEF SecurityType

\* The four ways commit_replay_floor ends: the floor is raised, it cannot be
\* recorded, it takes a free slot, or it takes the slot of a victim.
LEMMA CommitCases ==
    ASSUME NEW x, NEW s, NEW q, NEW c, NEW r, NEW y \in Commits(x, s, q, c, r)
    PROVE  \/ Has(x, s, q) /\ y = Raised(x, s, q, c)
           \/ ~Has(x, s, q) /\ y = x
           \/ /\ ~Has(x, s, q) /\ Recordable(x, s, q, r) /\ Free(x) > 0
              /\ y = [x EXCEPT !.table = @ \cup {Floor(s, q, c)}]
           \/ /\ ~Has(x, s, q) /\ Recordable(x, s, q, r) /\ ~(Free(x) > 0)
              /\ \E e \in Victims(x, s, q) : y = Replaced(x, e, Floor(s, q, c))
BY DEF Commits

\* Recording a floor never changes the keys and never lifts the seal.
LEMMA CommitKeys ==
    ASSUME NEW x \in SecurityType, NEW s, NEW q, NEW c, NEW r,
           NEW y \in Commits(x, s, q, c, r)
    PROVE  /\ y.active = x.active /\ y.second = x.second /\ y.staged = x.staged
           /\ x.sealed => y.sealed
<1>1. CASE y = Raised(x, s, q, c)
  BY <1>1, TableFields DEF Raised
<1>2. CASE y = x
  BY <1>2
<1>3. CASE y = [x EXCEPT !.table = @ \cup {Floor(s, q, c)}]
  BY <1>3, TableFields
<1>4. CASE \E e \in Victims(x, s, q) : y = Replaced(x, e, Floor(s, q, c))
  BY <1>4, ReplacedFields
<1> QED BY <1>1, <1>2, <1>3, <1>4, CommitCases

\* A floor afterwards is one of before, or that of the frame: then it is at or
\* above the counter of the frame and any floor its sender had.
LEMMA CommitFloors ==
    ASSUME NEW x \in SecurityType, NEW s \in Sources, NEW q \in Seqs,
           NEW c \in Counters, NEW r, NEW y \in Commits(x, s, q, c, r), NEW e \in y.table
    PROVE  \/ e \in x.table /\ ~(e.source = s /\ e.seq = q)
           \/ /\ e.source = s /\ e.seq = q /\ e.counter >= c
              /\ \/ \E d \in x.table : d.source = s /\ d.seq = q /\ e.counter >= d.counter
                 \/ ~Has(x, s, q) /\ Recordable(x, s, q, r)
<1>0. c \in Int
  BY DEF Counters
<1>1. CASE Has(x, s, q) /\ y = Raised(x, s, q, c)
  <2>1. y.table = {IF d.source = s /\ d.seq = q
                   THEN Floor(s, q, IF c > d.counter THEN c ELSE d.counter)
                   ELSE d : d \in x.table}
    BY <1>1, TableFields DEF Raised
  <2>2. PICK d \in x.table :
          e = IF d.source = s /\ d.seq = q
              THEN Floor(s, q, IF c > d.counter THEN c ELSE d.counter) ELSE d
    BY <2>1
  <2>3. d.counter \in Int
    BY Fields
  <2>4. CASE d.source = s /\ d.seq = q
    <3>1. /\ e.source = s /\ e.seq = q
          /\ e.counter = IF c > d.counter THEN c ELSE d.counter
      BY <2>2, <2>4 DEF Floor
    <3>2. e.counter >= c /\ e.counter >= d.counter
      BY <1>0, <2>3, <3>1
    <3> QED BY <2>4, <3>1, <3>2
  <2>5. CASE ~(d.source = s /\ d.seq = q)
    BY <2>2, <2>5
  <2> QED BY <2>4, <2>5
<1>2. CASE ~Has(x, s, q) /\ y = x
  BY <1>2 DEF Has
<1>3. CASE /\ ~Has(x, s, q) /\ Recordable(x, s, q, r)
           /\ y.table \subseteq x.table \cup {Floor(s, q, c)}
  <2>1. CASE e \in x.table
    BY <1>3, <2>1 DEF Has
  <2>2. CASE e = Floor(s, q, c)
    <3>1. e.source = s /\ e.seq = q /\ e.counter = c
      BY <2>2 DEF Floor
    <3> QED BY <1>0, <1>3, <3>1
  <2> QED BY <1>3, <2>1, <2>2
<1>4. ASSUME y = [x EXCEPT !.table = @ \cup {Floor(s, q, c)}]
      PROVE  y.table \subseteq x.table \cup {Floor(s, q, c)}
  BY <1>4, TableFields
<1>5. ASSUME NEW d, y = Replaced(x, d, Floor(s, q, c))
      PROVE  y.table \subseteq x.table \cup {Floor(s, q, c)}
  BY <1>5, ReplacedFields
<1> QED BY <1>1, <1>2, <1>3, <1>4, <1>5, CommitCases

\* A sender loses its floor only to a newcomer, as a victim; when it is a floor
\* of the previous key lost to another key on a router, the key is sealed.
LEMMA CommitLosses ==
    ASSUME NEW x \in SecurityType, NEW s \in Sources, NEW q \in Seqs,
           NEW c \in Counters, NEW r, NEW y \in Commits(x, s, q, c, r),
           NEW d \in x.table, ~Has(y, d.source, d.seq)
    PROVE  /\ ~Has(x, s, q) /\ d \in Victims(x, s, q)
           /\ Has(y, s, q)
           /\ router /\ d.seq = PreviousSeq(x) /\ q # d.seq => y.sealed
<1>1. CASE Has(x, s, q) /\ y = Raised(x, s, q, c)
  <2> DEFINE u == IF d.source = s /\ d.seq = q
                  THEN Floor(s, q, IF c > d.counter THEN c ELSE d.counter) ELSE d
  <2>1. u \in y.table
    BY <1>1, TableFields DEF Raised
  <2>2. u.source = d.source /\ u.seq = d.seq
    BY DEF Floor
  <2> HIDE DEF u
  <2> QED BY <2>1, <2>2 DEF Has
<1>2. CASE y = x
  BY <1>2 DEF Has
<1>3. CASE y = [x EXCEPT !.table = @ \cup {Floor(s, q, c)}]
  <2>1. d \in y.table
    BY <1>3, TableFields
  <2> QED BY <2>1 DEF Has
<1>4. ASSUME NEW e \in Victims(x, s, q), y = Replaced(x, e, Floor(s, q, c)), ~Has(x, s, q)
      PROVE  /\ ~Has(x, s, q) /\ d \in Victims(x, s, q)
             /\ Has(y, s, q)
             /\ router /\ d.seq = PreviousSeq(x) /\ q # d.seq => y.sealed
  <2> DEFINE f == Floor(s, q, c)
  <2>1. y.table = (x.table \ {e}) \cup {f}
    BY <1>4, ReplacedFields
  <2>2. f.seq = q /\ f.source = s
    BY DEF Floor
  <2>3. d = e
    <3>1. d # e => d \in y.table
      BY <2>1
    <3> QED BY <3>1 DEF Has
  <2>4. router /\ e.seq = PreviousSeq(x) /\ f.seq # e.seq => y.sealed
    BY <1>4, ReplacedFields
  <2>5. f \in y.table
    BY <2>1
  <2> HIDE DEF f
  <2>6. Has(y, s, q)
    BY <2>2, <2>5 DEF Has
  <2> QED BY <1>4, <2>2, <2>3, <2>4, <2>6
<1> QED BY <1>1, <1>2, <1>3, <1>4, CommitCases

\* Recording the floor of a frame of s under k keeps the guard.
LEMMA CommitGuarded ==
    ASSUME NEW x \in SecurityType, NEW h \in Heards, NEW g \in Heards,
           NEW s \in Sources, NEW k \in Keys, NEW c \in Counters, NEW r,
           NEW y \in Commits(x, s, KeySeq[k], c, r),
           Guarded(x, h),
           g = [d \in Domains |-> IF d = <<s, k>> /\ k \in Installed(x)
                                     /\ Has(y, s, KeySeq[k]) THEN c
                                  ELSE IF GivenUp(x, y, KeySeq[k], d) THEN 0
                                  ELSE h[d]]
    PROVE  Guarded(y, g)
<1> DEFINE q == KeySeq[k]
<1>1. q \in Seqs /\ c \in Int
  BY KeySeqType DEF Counters
<1>2. y \in SecurityType
  BY <1>1, CommitPreserves
<1>3. /\ y.active = x.active /\ y.second = x.second /\ y.staged = x.staged
      /\ x.sealed => y.sealed
  BY CommitKeys
<1>4. Installed(y) = Installed(x) /\ PreviousSeq(y) = PreviousSeq(x)
  BY <1>3 DEF Installed, PreviousSeq
<1>5. ASSUME NEW u \in Sources, NEW i \in Keys
      PROVE  g[<<u, i>>] = IF u = s /\ i = k /\ k \in Installed(x) /\ Has(y, s, q) THEN c
                           ELSE IF GivenUp(x, y, q, <<u, i>>) THEN 0
                           ELSE h[<<u, i>>]
  BY HeardValue
<1>6. ASSUME NEW u \in Sources, NEW i \in Installed(y), g[<<u, i>>] > 0
      PROVE  Has(y, u, KeySeq[i]) \/ (router /\ SealedAgainst(y, KeySeq[i]))
  <2>1. i \in Keys
    BY <1>2, InstalledKeys
  <2>2. CASE u = s /\ i = k /\ k \in Installed(x) /\ Has(y, s, q)
    BY <2>2
  <2>3. CASE ~(u = s /\ i = k /\ k \in Installed(x) /\ Has(y, s, q)) /\ ~Has(y, u, KeySeq[i])
    <3>1. ~GivenUp(x, y, q, <<u, i>>) /\ h[<<u, i>>] > 0
      BY <1>5, <1>6, <2>1, <2>3
    <3>2. Has(x, u, KeySeq[i]) \/ (router /\ SealedAgainst(x, KeySeq[i]))
      BY <1>4, <3>1 DEF Guarded
    <3>3. CASE Has(x, u, KeySeq[i])
      <4>1. router /\ KeySeq[i] = PreviousSeq(x) /\ KeySeq[i] # q
        BY <2>3, <3>1, <3>3 DEF GivenUp
      <4>2. PICK d \in x.table : d.source = u /\ d.seq = KeySeq[i]
        BY <3>3 DEF Has
      <4>3. y.sealed
        BY <1>1, <2>3, <4>1, <4>2, CommitLosses
      <4> QED BY <1>4, <4>1, <4>3 DEF SealedAgainst
    <3>4. CASE router /\ SealedAgainst(x, KeySeq[i])
      BY <1>3, <1>4, <3>4 DEF SealedAgainst
    <3> QED BY <3>2, <3>3, <3>4
  <2> QED BY <2>2, <2>3
<1>7. ASSUME NEW i \in Installed(y), NEW e \in y.table, e.seq = KeySeq[i]
      PROVE  e.counter >= g[<<e.source, i>>]
  <2>1. i \in Keys /\ e.source \in Sources /\ e.counter \in Int /\ e.counter >= 1
    BY <1>2, InstalledKeys, Fields
  <2>2. \/ e \in x.table /\ ~(e.source = s /\ e.seq = q)
        \/ /\ e.source = s /\ e.seq = q /\ e.counter >= c
           /\ \/ \E d \in x.table : d.source = s /\ d.seq = q /\ e.counter >= d.counter
              \/ ~Has(x, s, q) /\ Recordable(x, s, q, r)
    BY <1>1, CommitFloors
  <2>3. h[<<e.source, i>>] \in Int /\ h[<<e.source, i>>] >= 0
    BY <2>1, HeardValue
  <2>4. CASE e \in x.table /\ ~(e.source = s /\ e.seq = q)
    <3>1. e.counter >= h[<<e.source, i>>]
      BY <1>4, <1>7, <2>4 DEF Guarded
    <3>2. g[<<e.source, i>>] = 0 \/ g[<<e.source, i>>] = h[<<e.source, i>>]
      BY <1>5, <1>7, <2>1, <2>4
    <3> QED BY <2>1, <3>1, <3>2
  <2>5. CASE /\ e.source = s /\ e.seq = q /\ e.counter >= c
             /\ \E d \in x.table : d.source = s /\ d.seq = q /\ e.counter >= d.counter
    <3>1. PICK d \in x.table : d.source = s /\ d.seq = q /\ e.counter >= d.counter
      BY <2>5
    <3>2. d.counter >= h[<<e.source, i>>] /\ d.counter \in Int
      BY <1>4, <1>7, <2>5, <3>1, Fields DEF Guarded
    <3>3. e.counter >= h[<<e.source, i>>]
      BY <2>1, <2>3, <3>1, <3>2
    <3>4. g[<<e.source, i>>] \in {c, 0, h[<<e.source, i>>]}
      BY <1>5, <2>1
    <3> QED BY <2>1, <2>5, <3>3, <3>4
  <2>6. CASE /\ e.source = s /\ e.seq = q /\ e.counter >= c
             /\ ~Has(x, s, q) /\ Recordable(x, s, q, r)
    <3>1. ~(router /\ SealedAgainst(x, q))
      BY <2>6 DEF Recordable
    <3>2. ~(h[<<e.source, i>>] > 0)
      BY <1>4, <1>7, <2>1, <2>6, <3>1 DEF Guarded
    <3>3. g[<<e.source, i>>] \in {c, 0, h[<<e.source, i>>]}
      BY <1>5, <2>1
    <3> QED BY <1>1, <2>1, <2>3, <2>6, <3>2, <3>3
  <2> QED BY <2>2, <2>4, <2>5, <2>6
<1>8. ASSUME NEW i \in Keys \ Installed(y), NEW u \in Sources
      PROVE  g[<<u, i>>] = 0
  <2>1. h[<<u, i>>] = 0
    BY <1>4 DEF Guarded
  <2>2. ~(i = k /\ k \in Installed(x))
    BY <1>4
  <2> QED BY <1>5, <2>1, <2>2
<1> QED BY <1>6, <1>7, <1>8 DEF Guarded

-----------------------------------------------------------------------------
(* A Trust Center rejoin that fails while the keys are live *)

\* The stored keys are installed over the same live keys: the active key keeps its
\* floors, a staged key stays (staged, or as the previous key), and the previous
\* key starts over without floors and without history.
LEMMA ReinstallGuarded ==
    ASSUME NEW x \in SecurityType, NEW h \in Heards, NEW g \in Heards,
           Guarded(x, h), DistinctSeqs(x), x.active # NoKey,
           g = [d \in Domains |-> IF Snapshot(x).previous /\ d[2] = Snapshot(x).second
                                  THEN 0 ELSE h[d]]
    PROVE  Guarded(install_restored_network_security(x, Snapshot(x)), g)
<1> DEFINE y == install_restored_network_security(x, Snapshot(x))
           z == [x EXCEPT !.staged = NoSeq]
           prev == x.second # NoKey /\ x.staged # KeySeq[x.second]
<1>1. /\ Snapshot(x).active = x.active /\ Snapshot(x).second = x.second
      /\ Snapshot(x).previous <=> prev
  BY DEF Snapshot
<1>2. /\ z \in SecurityType /\ z.active = x.active /\ z.second = x.second
      /\ z.staged = NoSeq /\ z.table = x.table /\ z.sealed = x.sealed
  BY StagedFields
<1>3. set_network_key(x, x.active) = z
  <2>1. set_network_key(x, x.active)
          = [x EXCEPT !.active = x.active, !.staged = NoSeq, !.table = x.table]
    BY DEF set_network_key
  <2> QED BY <2>1 DEF SecurityType
<1>4. x.active \in Keys /\ x.second \in Keys \cup {NoKey} /\ x.active # NoKey
  BY Fields
<1>5. y = IF x.second = NoKey THEN z
          ELSE IF prev THEN restore_previous_network_key(z, x.second)
          ELSE stage_network_key(z, x.second)
  BY <1>1, <1>3 DEF install_restored_network_security
<1>6. ASSUME NEW s \in Sources, NEW i \in Keys
      PROVE  g[<<s, i>>] = IF prev /\ i = x.second THEN 0 ELSE h[<<s, i>>]
  BY <1>1, HeardValue
<1>7. Installed(z) = Installed(x) /\ DistinctSeqs(z)
  BY <1>2 DEF Installed, DistinctSeqs
<1> HIDE DEF y, z, prev
<1>8. CASE ~prev
  <2>1. g = h
    <3>1. \A d \in Domains : g[d] = h[d]
      BY <1>1, <1>8
    <3> QED BY <3>1 DEF Heards
  <2>2. \A k \in Keys : ~SealedAgainst(x, KeySeq[k])
    BY <1>8, SealOnlyPrevious DEF prev
  <2>3. Guarded(z, h)
    BY <1>2, <1>7, <2>2, SameFloors
  <2>4. CASE y = z
    BY <2>1, <2>3, <2>4 DEF y
  <2>5. CASE x.second # NoKey /\ y = stage_network_key(z, x.second)
    <3> DEFINE w == [z EXCEPT !.staged = KeySeq[x.second]]
    <3>1. x.second \in Keys /\ z.second = x.second
      BY <1>2, <1>4, <2>5
    <3>2. y = z \/ y = w
      BY <1>2, <2>5, <3>1, StageCases
    <3>3. /\ w \in SecurityType /\ w.active = x.active /\ w.second = x.second
          /\ w.table = x.table
      BY <1>2, <3>1, KeySeqType, StagedFields
    <3> HIDE DEF w
    <3>4. Installed(w) = Installed(x)
      BY <3>3 DEF Installed
    <3>5. Guarded(w, h)
      BY <2>2, <3>3, <3>4, SameFloors
    <3>6. Guarded(y, g)
      BY <2>1, <2>3, <3>2, <3>5
    <3> QED BY <3>6 DEF y
  <2> QED BY <1>5, <1>8, <2>4, <2>5
<1>9. CASE prev
  <2>1. /\ x.second \in Keys /\ x.second # NoKey /\ KeySeq[x.second] # KeySeq[x.active]
    BY <1>4, <1>9 DEF prev, DistinctSeqs
  <2>2. y = PutSecond(z, x.second, NoSeq)
    BY <1>2, <1>5, <1>9, <2>1 DEF restore_previous_network_key
  <2>3. \A k \in Keys : SealedAgainst(x, KeySeq[k]) => SealedAgainst(z, KeySeq[k])
    <3>1. PreviousSeq(x) = KeySeq[x.second]
      BY <1>9 DEF prev, PreviousSeq
    <3>2. PreviousSeq(z) = KeySeq[x.second]
      BY <1>2, <2>1, Names DEF PreviousSeq
    <3> QED BY <1>2, <3>1, <3>2 DEF SealedAgainst
  <2>4. Guarded(z, h)
    BY <1>2, <1>7, <2>3, SameFloors
  <2>5. ASSUME NEW s \in Sources PROVE g[<<s, z.active>>] = h[<<s, z.active>>]
    BY <1>2, <1>4, <1>6, <2>1
  <2>6. ASSUME NEW s \in Sources, NEW i \in Keys \ {z.active} PROVE g[<<s, i>>] = 0
    <3>1. CASE i = x.second
      BY <1>6, <1>9, <3>1
    <3>2. CASE i # x.second
      <4>1. i \notin Installed(x)
        BY <1>2, <3>2, InstalledKeys
      <4>2. h[<<s, i>>] = 0
        BY <4>1 DEF Guarded
      <4> QED BY <1>6, <3>2, <4>2
    <3> QED BY <3>1, <3>2
  <2>7. Guarded(PutSecond(z, x.second, NoSeq), g)
    <3>1. z.active \in Keys /\ KeySeq[x.second] # KeySeq[z.active]
      BY <1>2, <1>4, <2>1
    <3> QED BY <1>2, <1>7, <2>1, <2>4, <2>5, <2>6, <3>1, PutSecondGuarded
  <2> QED BY <2>2, <2>7 DEF y
<1> QED BY <1>8, <1>9

-----------------------------------------------------------------------------
(* No frame is accepted again *)

ReplayInv == Guarded(sec, heard) /\ DistinctSeqs(sec)

\* The guard of the next state, for the build never changes.
LEMMA ReplayInvNext ==
    ASSUME router' = router, Guarded(sec', heard'), DistinctSeqs(sec')
    PROVE  ReplayInv'
BY DEF ReplayInv, Guarded, DistinctSeqs, Installed, Has, SealedAgainst, PreviousSeq

\* What every step can use.
LEMMA ReplayFacts ==
    ASSUME Inv, ReplayInv
    PROVE  /\ sec \in SecurityType /\ heard \in Heards
           /\ Guarded(sec, heard) /\ DistinctSeqs(sec)
           /\ pending # NoFrame => pending \in FrameType
           /\ sec.active = NoKey =>
                 \A s \in Sources, k \in Keys : heard[<<s, k>>] = 0
<1>1. /\ sec \in SecurityType /\ heard \in Heards /\ KeyInv
      /\ pending # NoFrame => pending \in FrameType
  BY TypeParts DEF Inv, HeardOK, Heards, PendingOK
<1>2. ASSUME sec.active = NoKey, NEW s \in Sources, NEW k \in Keys
      PROVE  heard[<<s, k>>] = 0
  <2>1. k \notin Installed(sec)
    BY <1>1, <1>2, Names DEF KeyInv, Installed
  <2> QED BY <2>1 DEF ReplayInv, Guarded
<1> QED BY <1>1, <1>2 DEF ReplayInv

\* The history of the next state is well formed.
LEMMA HeardNext ==
    ASSUME Inv' PROVE sec' \in SecurityType /\ heard' \in Heards
BY TypePartsNext DEF Inv, HeardOK, Heards

\* The pending frame is recorded.
LEMMA CompleteReplay ==
    ASSUME Inv, Inv', ReplayInv, router' = router, pending # NoFrame, Complete
    PROVE  ReplayInv'
<1>1. /\ sec \in SecurityType /\ heard \in Heards
      /\ Guarded(sec, heard) /\ DistinctSeqs(sec) /\ pending \in FrameType
  BY ReplayFacts
<1>2. PICK s \in Sources, k \in Keys, c \in Counters :
          s = pending.source /\ k = pending.key /\ c = pending.counter
  BY <1>1 DEF FrameType
<1>3. PICK y \in Commits(sec, s, KeySeq[k], c, NoNode) :
          sec' = [y EXCEPT !.fence = FALSE] /\ HeardRecording(sec, y, s, k, c)
  BY <1>2 DEF Complete
<1>4. heard' \in Heards
  BY HeardNext
<1>5. Guarded(y, heard')
  BY <1>1, <1>3, <1>4, CommitGuarded DEF HeardRecording
<1>6. y \in SecurityType
  BY <1>1, <1>3, KeySeqType, CommitPreserves
<1>7. DistinctSeqs(y)
  BY <1>1, <1>3, CommitKeys DEF DistinctSeqs
<1>8. Guarded(sec', heard') /\ DistinctSeqs(sec')
  BY <1>3, <1>4, <1>5, <1>6, <1>7, FenceGuarded
<1> QED BY <1>8, ReplayInvNext

\* A frame is admitted: it waits, and may switch the keys, or is recorded at once.
LEMMA ReceiveReplay ==
    ASSUME Inv, Inv', ReplayInv, router' = router,
           NEW s \in Sources, NEW k \in Keys, NEW c \in Counters,
           NEW kind, NEW own, Receive(s, k, c, kind, own)
    PROVE  ReplayInv'
<1>1. /\ sec \in SecurityType /\ heard \in Heards
      /\ Guarded(sec, heard) /\ DistinctSeqs(sec)
  BY ReplayFacts
<1>2. heard' \in Heards
  BY HeardNext
<1> DEFINE y == IF CanActivate(sec, KeySeq[k]) THEN [Swapped(sec) EXCEPT !.fence = TRUE]
                ELSE sec
<1>3. \/ sec' = y /\ heard' = heard
      \/ /\ sec' \in Commits(sec, s, KeySeq[k], c, NoNode)
         /\ HeardRecording(sec, sec', s, k, c)
  BY DEF Receive
<1>4. CASE sec' = sec /\ heard' = heard
  BY <1>1, <1>4, ReplayInvNext
<1>5. CASE /\ CanActivate(sec, KeySeq[k]) /\ heard' = heard
           /\ sec' = [Swapped(sec) EXCEPT !.fence = TRUE]
  <2>1. sec.second # NoKey /\ sec.staged = KeySeq[sec.second]
    BY <1>5 DEF CanActivate
  <2>2. Guarded(Swapped(sec), heard) /\ DistinctSeqs(Swapped(sec))
    BY <1>1, <2>1, SwapGuarded
  <2>3. Guarded(sec', heard') /\ DistinctSeqs(sec')
    BY <1>1, <1>5, <2>2, SwapFields, FenceGuarded
  <2> QED BY <2>3, ReplayInvNext
<1>6. CASE /\ sec' \in Commits(sec, s, KeySeq[k], c, NoNode)
           /\ HeardRecording(sec, sec', s, k, c)
  <2>1. Guarded(sec', heard')
    BY <1>1, <1>2, <1>6, CommitGuarded DEF HeardRecording
  <2>2. DistinctSeqs(sec')
    BY <1>1, <1>6, CommitKeys DEF DistinctSeqs
  <2> QED BY <2>1, <2>2, ReplayInvNext
<1> QED BY <1>3, <1>4, <1>5, <1>6

\* The key commands a data frame may carry.
LEMMA KeyCommandReplay ==
    ASSUME Inv, Inv', ReplayInv, router' = router,
           \/ \E k \in Keys : TransportKey(k)
           \/ \E q \in Seqs : SwitchKey(q)
    PROVE  ReplayInv'
<1>1. /\ sec \in SecurityType /\ heard \in Heards
      /\ Guarded(sec, heard) /\ DistinctSeqs(sec)
  BY ReplayFacts
<1>2. heard' \in Heards
  BY HeardNext
<1>3. ASSUME NEW k \in Keys, TransportKey(k) PROVE ReplayInv'
  <2>1. /\ sec.active # NoKey /\ sec' = stage_network_key(sec, k)
        /\ HeardStaging(sec, sec', k)
    BY <1>3 DEF TransportKey
  <2>2. Guarded(sec', heard')
    BY <1>1, <1>2, <2>1, StageGuarded DEF HeardStaging
  <2>3. DistinctSeqs(sec')
    BY <1>1, <2>1, StageDistinct
  <2> QED BY <2>2, <2>3, ReplayInvNext
<1>4. ASSUME NEW q \in Seqs, SwitchKey(q) PROVE ReplayInv'
  <2>1. sec' = activate_network_key(sec, q) /\ heard' = heard
    BY <1>4 DEF SwitchKey
  <2>2. CASE CanActivate(sec, q)
    <3>1. sec' = Swapped(sec) /\ sec.second # NoKey /\ sec.staged = KeySeq[sec.second]
      BY <2>1, <2>2 DEF activate_network_key, CanActivate
    <3>2. Guarded(sec', heard') /\ DistinctSeqs(sec')
      BY <1>1, <2>1, <3>1, SwapGuarded
    <3> QED BY <3>2, ReplayInvNext
  <2>3. CASE ~CanActivate(sec, q)
    <3>1. sec' = sec
      BY <2>1, <2>3 DEF activate_network_key
    <3> QED BY <1>1, <2>1, <3>1, ReplayInvNext
  <2> QED BY <2>2, <2>3
<1> QED BY <1>3, <1>4

\* Rejoins: the answer is recorded, the keys are dropped, or stored keys return.
LEMMA RejoinReplay ==
    ASSUME Inv, Inv', ReplayInv, router' = router,
           \/ \E p \in Sources, k \in Keys, c \in Counters, accepted \in BOOLEAN :
                  SecureRejoin(p, k, c, accepted)
           \/ \E p \in Sources : TcRejoin(p)
           \/ \E k \in Keys : TcKeyStored(k) \/ TcKeyNotStored(k)
           \/ TcRejoinFails
    PROVE  ReplayInv'
<1>1. /\ sec \in SecurityType /\ heard \in Heards
      /\ Guarded(sec, heard) /\ DistinctSeqs(sec)
      /\ sec.active = NoKey => \A s \in Sources, k \in Keys : heard[<<s, k>>] = 0
  BY ReplayFacts
<1>2. heard' \in Heards /\ sec' \in SecurityType
  BY HeardNext
<1>3. ASSUME NEW p \in Sources, NEW k \in Keys, NEW c \in Counters,
             NEW accepted \in BOOLEAN, SecureRejoin(p, k, c, accepted)
      PROVE  ReplayInv'
  <2>1. /\ sec' \in Commits(sec, p, KeySeq[k], c, p)
        /\ HeardRecording(sec, sec', p, k, c)
    BY <1>3 DEF SecureRejoin
  <2>2. Guarded(sec', heard')
    BY <1>1, <1>2, <2>1, CommitGuarded DEF HeardRecording
  <2>3. DistinctSeqs(sec')
    BY <1>1, <2>1, CommitKeys DEF DistinctSeqs
  <2> QED BY <2>2, <2>3, ReplayInvNext
<1>4. ASSUME NEW p \in Sources, TcRejoin(p) PROVE ReplayInv'
  <2>1. sec' = NewSecurity /\ HeardUnder(sec')
    BY <1>4 DEF TcRejoin, clear_network_keys
  <2>2. Installed(sec') = {} /\ DistinctSeqs(sec')
    BY <2>1 DEF NewSecurity, Installed, DistinctSeqs
  <2>3. \A s \in Sources, k \in Keys : heard'[<<s, k>>] = 0
    BY <1>1, <2>1, <2>2, HeardValue DEF HeardUnder
  <2> QED BY <1>2, <2>2, <2>3, NothingHeard, ReplayInvNext
<1>5. ASSUME NEW k \in Keys, TcKeyStored(k) PROVE ReplayInv'
  <2>1. sec.active = NoKey /\ sec' = set_network_key(sec, k) /\ heard' = heard
    BY <1>5 DEF TcKeyStored, history
  <2>2. DistinctSeqs(sec')
    BY <1>1, <2>1, SetDistinct
  <2> QED BY <1>1, <1>2, <2>1, <2>2, NothingHeard, ReplayInvNext
<1>6. ASSUME NEW k \in Keys, TcKeyNotStored(k) PROVE ReplayInv'
  <2>1. /\ sec.active = NoKey /\ heard' = heard /\ saved # NoState
        /\ sec' = install_restored_network_security(set_network_key(sec, k), saved)
    BY <1>6 DEF TcKeyNotStored, history
  <2>2. saved.active \in Keys /\ saved.second \in Keys \cup {NoKey}
    BY <2>1, StoredRecord
  <2>3. DistinctSeqs(sec')
    BY <1>1, <2>1, <2>2, SetDistinct, SetKeyPreserves, InstallDistinct
  <2> QED BY <1>1, <1>2, <2>1, <2>3, NothingHeard, ReplayInvNext
<1>7. ASSUME TcRejoinFails PROVE ReplayInv'
  <2>1. /\ saved # NoState
        /\ saved' = IF sec.active = NoKey THEN saved ELSE refresh_security_state(sec)
        /\ sec' = install_restored_network_security(sec, saved')
        /\ heard' = [d \in Domains |-> IF saved'.previous /\ d[2] = saved'.second
                                       THEN 0 ELSE heard[d]]
    BY <1>7 DEF TcRejoinFails
  <2>2. saved.active \in Keys /\ saved.second \in Keys \cup {NoKey}
    BY <2>1, StoredRecord
  <2>3. CASE sec.active = NoKey
    <3>1. saved' = saved
      BY <2>1, <2>3
    <3>2. DistinctSeqs(sec')
      BY <1>1, <2>1, <2>2, <3>1, InstallDistinct
    <3>3. ASSUME NEW s \in Sources, NEW k \in Keys PROVE heard'[<<s, k>>] = 0
      BY <1>1, <2>1, <2>3, HeardValue
    <3> QED BY <1>2, <3>2, <3>3, NothingHeard, ReplayInvNext
  <2>4. CASE sec.active # NoKey
    <3>1. saved' = Snapshot(sec)
      BY <2>1, <2>2, <2>4, Names DEF refresh_security_state
    <3>2. Guarded(sec', heard')
      BY <1>1, <1>2, <2>1, <2>4, <3>1, ReinstallGuarded
    <3>3. Snapshot(sec).active \in Keys /\ Snapshot(sec).second \in Keys \cup {NoKey}
      BY <1>1, <2>4, Fields DEF Snapshot
    <3>4. DistinctSeqs(sec')
      BY <1>1, <2>1, <3>1, <3>3, InstallDistinct
    <3> QED BY <3>2, <3>4, ReplayInvNext
  <2> QED BY <2>3, <2>4
<1> QED BY <1>3, <1>4, <1>5, <1>6, <1>7

\* Ageing keeps every floor; a child that is admitted anew or evicted loses its
\* floors together with its history.
LEMMA MaintenanceReplay ==
    ASSUME Inv, Inv', ReplayInv, router' = router,
           \/ age_replay_floors
           \/ \E s \in Sources : AdmitChild(s) \/ evict_child(s) \/ age_router_child(s)
    PROVE  ReplayInv'
<1>1. /\ sec \in SecurityType /\ heard \in Heards
      /\ Guarded(sec, heard) /\ DistinctSeqs(sec)
  BY ReplayFacts
<1>2. heard' \in Heards /\ sec' \in SecurityType
  BY HeardNext
<1>3. ASSUME NEW t, sec' = [sec EXCEPT !.table = t]
      PROVE  /\ Installed(sec') = Installed(sec) /\ DistinctSeqs(sec')
             /\ \A q : SealedAgainst(sec, q) <=> SealedAgainst(sec', q)
             /\ sec'.table = t
  <2>1. /\ sec'.active = sec.active /\ sec'.second = sec.second
        /\ sec'.staged = sec.staged /\ sec'.sealed = sec.sealed /\ sec'.table = t
    BY <1>1, <1>3, TableFields
  <2>2. PreviousSeq(sec') = PreviousSeq(sec)
    BY <2>1 DEF PreviousSeq
  <2> QED BY <1>1, <2>1, <2>2 DEF Installed, DistinctSeqs, SealedAgainst
<1>4. CASE age_replay_floors
  <2> DEFINE Aged(e) == [e EXCEPT !.silent = IF e.silent < StaleSecs
                                             THEN e.silent + 1 ELSE e.silent]
             t == {Aged(e) : e \in sec.table}
  <2>1. sec' = [sec EXCEPT !.table = t] /\ heard' = heard
    BY <1>4 DEF age_replay_floors, history
  <2>2. ASSUME NEW e \in sec.table
        PROVE  /\ Aged(e).source = e.source /\ Aged(e).seq = e.seq
               /\ Aged(e).counter = e.counter /\ e.counter <= e.counter
    <3>1. e \in Floors /\ e.counter \in Int
      BY <1>1, Fields
    <3> QED BY <3>1 DEF Floors
  <2>3. sec'.table = t /\ Installed(sec') = Installed(sec) /\ DistinctSeqs(sec')
        /\ \A q : SealedAgainst(sec, q) <=> SealedAgainst(sec', q)
    BY <1>3, <2>1
  <2> HIDE DEF Aged
  <2>4. \A e \in sec'.table : \E d \in sec.table :
            d.source = e.source /\ d.seq = e.seq /\ d.counter <= e.counter
    BY <2>2, <2>3
  <2>5. \A d \in sec.table : \E e \in sec'.table : d.source = e.source /\ d.seq = e.seq
    BY <2>2, <2>3
  <2>6. Guarded(sec', heard)
    BY <1>1, <1>2, <2>3, <2>4, <2>5, CarriedOver
  <2> QED BY <2>1, <2>3, <2>6, ReplayInvNext
<1>5. ASSUME NEW s \in Sources, ForgetFloors(s) PROVE ReplayInv'
  <2> DEFINE t == {e \in sec.table : e.source # s}
  <2>1. sec' = [sec EXCEPT !.table = t] /\ HeardWithout(s)
    BY <1>5 DEF ForgetFloors
  <2>2. sec'.table = t /\ Installed(sec') = Installed(sec) /\ DistinctSeqs(sec')
        /\ \A q : SealedAgainst(sec, q) <=> SealedAgainst(sec', q)
    BY <1>3, <2>1
  <2>3. ASSUME NEW u \in Sources, NEW k \in Keys
        PROVE  heard'[<<u, k>>] = IF u = s THEN 0 ELSE heard[<<u, k>>]
    BY <1>1, <2>1, HeardValue DEF HeardWithout
  <2>4. ASSUME NEW k \in Installed(sec'), NEW e \in sec'.table, e.seq = KeySeq[k]
        PROVE  e.counter >= heard'[<<e.source, k>>]
    <3>1. e \in sec.table /\ e.source # s /\ e.source \in Sources /\ k \in Keys
      BY <1>1, <1>2, <2>2, Fields, InstalledKeys
    <3>2. e.counter >= heard[<<e.source, k>>]
      BY <1>1, <2>2, <2>4, <3>1 DEF Guarded
    <3> QED BY <2>3, <3>1, <3>2
  <2>5. ASSUME NEW k \in Installed(sec'), NEW u \in Sources, heard'[<<u, k>>] > 0
        PROVE  Has(sec', u, KeySeq[k]) \/ (router /\ SealedAgainst(sec', KeySeq[k]))
    <3>1. k \in Keys /\ u # s /\ heard[<<u, k>>] > 0
      BY <1>2, <2>3, <2>5, InstalledKeys
    <3>2. Has(sec, u, KeySeq[k]) \/ (router /\ SealedAgainst(sec, KeySeq[k]))
      BY <1>1, <2>2, <3>1 DEF Guarded
    <3>3. Has(sec, u, KeySeq[k]) => Has(sec', u, KeySeq[k])
      BY <2>2, <3>1 DEF Has
    <3> QED BY <2>2, <3>2, <3>3
  <2>6. ASSUME NEW k \in Keys \ Installed(sec'), NEW u \in Sources
        PROVE  heard'[<<u, k>>] = 0
    <3>1. heard[<<u, k>>] = 0
      BY <1>1, <2>2 DEF Guarded
    <3> QED BY <2>3, <3>1
  <2>7. Guarded(sec', heard')
    BY <2>4, <2>5, <2>6 DEF Guarded
  <2> QED BY <2>2, <2>7, ReplayInvNext
<1>6. ASSUME NEW s \in Sources, AdmitChild(s) \/ evict_child(s) PROVE ReplayInv'
  BY <1>5, <1>6 DEF AdmitChild, evict_child
<1>7. ASSUME NEW s \in Sources, age_router_child(s) PROVE ReplayInv'
  <2>1. sec' = sec /\ heard' = heard
    BY <1>7 DEF age_router_child, history
  <2> QED BY <1>1, <2>1, ReplayInvNext
<1> QED BY <1>4, <1>6, <1>7

\* Joining, leaving and restarting: nothing was heard under the keys installed then.
LEMMA PowerReplay ==
    ASSUME Inv, Inv', ReplayInv, router' = router,
           \/ \E p \in Sources, k \in Keys : Join(p, k)
           \/ Reboot
           \/ \E rejoin \in BOOLEAN : Leave(rejoin)
    PROVE  ReplayInv'
<1>1. /\ sec \in SecurityType /\ heard \in Heards
      /\ Guarded(sec, heard) /\ DistinctSeqs(sec)
      /\ sec.active = NoKey => \A s \in Sources, k \in Keys : heard[<<s, k>>] = 0
  BY ReplayFacts
<1>2. heard' \in Heards /\ sec' \in SecurityType
  BY HeardNext
<1>3. Installed(NewSecurity) = {} /\ DistinctSeqs(NewSecurity)
  BY DEF NewSecurity, Installed, DistinctSeqs
<1>4. ASSUME NEW p \in Sources, NEW k \in Keys, Join(p, k) PROVE ReplayInv'
  <2>1. sec.active = NoKey /\ sec' = set_network_key(sec, k) /\ heard' = heard
    BY <1>4 DEF Join, history
  <2>2. DistinctSeqs(sec')
    BY <1>1, <2>1, SetDistinct
  <2> QED BY <1>1, <1>2, <2>1, <2>2, NothingHeard, ReplayInvNext
<1>5. ASSUME Reboot PROVE ReplayInv'
  <2>1. /\ heard' = [d \in Domains |-> 0]
        /\ sec' = IF saved = NoState THEN NewSecurity
                  ELSE install_restored_network_security(NewSecurity, saved)
    BY <1>5 DEF Reboot
  <2>2. \A s \in Sources, k \in Keys : heard'[<<s, k>>] = 0
    BY <1>1, <2>1, HeardValue
  <2>3. DistinctSeqs(sec')
    BY <1>3, <2>1, StoredRecord, NewSecurityType, InstallDistinct
  <2> QED BY <1>2, <2>2, <2>3, NothingHeard, ReplayInvNext
<1>6. ASSUME NEW rejoin \in BOOLEAN, Leave(rejoin) PROVE ReplayInv'
  <2>1. CASE rejoin
    <3>1. sec' = sec /\ heard' = heard
      BY <1>6, <2>1 DEF Leave, history
    <3> QED BY <1>1, <3>1, ReplayInvNext
  <2>2. CASE ~rejoin
    <3>1. sec' = NewSecurity /\ HeardUnder(sec')
      BY <1>6, <2>2 DEF Leave
    <3>2. \A s \in Sources, k \in Keys : heard'[<<s, k>>] = 0
      BY <1>1, <1>3, <3>1, HeardValue DEF HeardUnder
    <3> QED BY <1>2, <1>3, <3>1, <3>2, NothingHeard, ReplayInvNext
  <2> QED BY <2>1, <2>2
<1> QED BY <1>4, <1>5, <1>6

\* Every step keeps the guard.
LEMMA NextReplay ==
    ASSUME Inv, Inv', ReplayInv, [Next]_vars
    PROVE  ReplayInv'
<1>1. /\ sec \in SecurityType /\ heard \in Heards
      /\ Guarded(sec, heard) /\ DistinctSeqs(sec)
  BY ReplayFacts
<1>2. ASSUME sec' = sec, heard' = heard, router' = router PROVE ReplayInv'
  BY <1>1, <1>2, ReplayInvNext
<1>3. CASE UNCHANGED vars
  BY <1>2, <1>3 DEF vars
<1>4. CASE Next
  <2>1. router' = router
    BY <1>4 DEF Next
  <2>2. ASSUME Commission \/ PersistFails PROVE ReplayInv'
    BY <1>2, <2>1, <2>2 DEF Commission, PersistFails, history
  <2>3. ASSUME Persist \/ PersistChild PROVE ReplayInv'
    <3>1. pending # NoFrame /\ ((sec' = sec /\ heard' = heard) \/ Complete)
      BY <2>3 DEF Persist, PersistChild
    <3> QED BY <1>2, <2>1, <3>1, CompleteReplay
  <2>4. \/ \/ \E k \in Keys : TransportKey(k)
           \/ \E q \in Seqs : SwitchKey(q)
        \/ Commission \/ PersistFails \/ Persist \/ PersistChild
        \/ \E s \in Sources, k \in Keys, c \in Counters,
               kind \in FrameKinds, own \in {TRUE, ~router} : Receive(s, k, c, kind, own)
        \/ \/ \E p \in Sources, k \in Keys, c \in Counters, accepted \in BOOLEAN :
                  SecureRejoin(p, k, c, accepted)
           \/ \E p \in Sources : TcRejoin(p)
           \/ \E k \in Keys : TcKeyStored(k) \/ TcKeyNotStored(k)
           \/ TcRejoinFails
        \/ \/ age_replay_floors
           \/ \E s \in Sources : AdmitChild(s) \/ evict_child(s) \/ age_router_child(s)
        \/ \/ \E p \in Sources, k \in Keys : Join(p, k)
           \/ Reboot
           \/ \E rejoin \in BOOLEAN : Leave(rejoin)
    BY <1>4 DEF Next
  <2> QED BY <2>1, <2>2, <2>3, <2>4, KeyCommandReplay, ReceiveReplay, RejoinReplay,
             MaintenanceReplay, PowerReplay
<1> QED BY <1>3, <1>4

LEMMA InitReplay == Init => ReplayInv
<1> SUFFICES ASSUME Init PROVE ReplayInv
  OBVIOUS
<1>1. sec = NewSecurity /\ \A s \in Sources, k \in Keys : heard[<<s, k>>] = 0
  BY DEF Init, Domains
<1> QED BY <1>1, NewSecurityType, NothingHeard DEF ReplayInv, DistinctSeqs, NewSecurity

\* The guard refuses every counter that was heard.
LEMMA ReplayRefused == ASSUME Inv, ReplayInv PROVE NoSilentReplay
<1>1. /\ sec \in SecurityType /\ heard \in Heards /\ Guarded(sec, heard)
  BY ReplayFacts
<1>2. ASSUME NEW s \in Sources, NEW k \in Keys, NEW c \in Counters,
             k \in Installed(sec), Fresh(sec, s, KeySeq[k], c, NoNode)
      PROVE  c > heard[<<s, k>>]
  <2>1. c \in Int /\ c >= 1 /\ heard[<<s, k>>] \in Int
    BY <1>1, HeardValue DEF Counters
  <2>2. CASE Has(sec, s, KeySeq[k])
    <3>1. PICK e \in sec.table : e.source = s /\ e.seq = KeySeq[k]
      BY <2>2 DEF Has
    <3>2. c > e.counter /\ e.counter >= heard[<<s, k>>] /\ e.counter \in Int
      BY <1>1, <1>2, <3>1, Fields DEF Fresh, Guarded
    <3> QED BY <2>1, <3>2
  <2>3. CASE ~Has(sec, s, KeySeq[k])
    <3>1. ~(router /\ SealedAgainst(sec, KeySeq[k]))
      BY <1>2, <2>3 DEF Fresh, AdmitsNewDomain
    <3>2. ~(heard[<<s, k>>] > 0)
      BY <1>1, <1>2, <2>3, <3>1 DEF Guarded
    <3> QED BY <2>1, <3>2
  <2> QED BY <2>2, <2>3
<1> QED BY <1>2 DEF NoSilentReplay

\* A frame is never accepted at or below a counter already accepted from its
\* sender under its key (incoming_replay_admission), whatever keys are staged,
\* switched, adopted or installed again, whatever the store does, and however
\* full the table is: where a floor is given up silently, its key is sealed.
THEOREM NoFrameAcceptedAgain == Spec => []NoSilentReplay
<1>1. Inv /\ ReplayInv /\ [Next]_vars => Inv' /\ ReplayInv'
  BY NextInv, NextReplay
<1>2. Inv /\ ReplayInv => NoSilentReplay
  BY ReplayRefused
<1>3. Init => Inv /\ ReplayInv
  BY InitInv, InitReplay
<1> QED BY <1>1, <1>2, <1>3, PTL DEF Spec

-----------------------------------------------------------------------------
(* The shape of the table and of the neighbours *)

\* A sender has one floor per key sequence.
OneFloor(x) == \A e, f \in x.table : e.source = f.source /\ e.seq = f.seq => e = f

\* Every floor belongs to an installed key.
Covered(x) == \A e \in x.table : \E k \in Installed(x) : e.seq = KeySeq[k]

\* Every floor does, but for those under one other number.
NearlyCovered(x) ==
    \E z : \A e \in x.table : e.seq = z \/ \E k \in Installed(x) : e.seq = KeySeq[k]

\* A frame whose own key was removed while it waited is recorded all the same:
\* floors under its number are the only ones that belong to no installed key.
TableInv ==
    /\ OneFloor(sec) /\ NearlyCovered(sec)
    /\ pending # NoFrame /\ pending.key \notin Installed(sec) => Covered(sec)
    /\ sec.active = NoKey => sec.table = {}

\* What the key operations do to the table: floors are only removed, and when
\* a key is removed so are all floors of keys that are not installed.
KeyStep(x, y) ==
    /\ y.table \subseteq x.table
    /\ Installed(y) = Installed(x) \/ Covered(y)

\* Removing floors, and keys with their floors, keeps the shape of the table.
LEMMA KeyStepShape ==
    ASSUME NEW x \in SecurityType, NEW y \in SecurityType,
           OneFloor(x), NearlyCovered(x), KeyStep(x, y)
    PROVE  /\ OneFloor(y) /\ NearlyCovered(y)
           /\ Covered(x) => Covered(y)
<1>1. OneFloor(y)
  BY DEF OneFloor, KeyStep
<1>2. Covered(x) => Covered(y)
  BY DEF Covered, KeyStep
<1>3. CASE Covered(y)
  BY <1>1, <1>3 DEF Covered, NearlyCovered
<1>4. CASE Installed(y) = Installed(x)
  BY <1>1, <1>2, <1>4 DEF KeyStep, NearlyCovered
<1> QED BY <1>2, <1>3, <1>4 DEF KeyStep

\* The shape of the table of the next state.
LEMMA TableNext ==
    ASSUME sec \in SecurityType, sec' \in SecurityType, TableInv, KeyStep(sec, sec'),
           sec'.active = NoKey => sec'.table = {},
           \/ pending' = NoFrame
           \/ pending # NoFrame /\ pending'.key = pending.key
           \/ pending'.key \in Installed(sec)
    PROVE  TableInv'
<1>1. OneFloor(sec) /\ NearlyCovered(sec)
  BY DEF TableInv
<1>2. OneFloor(sec') /\ NearlyCovered(sec') /\ (Covered(sec) => Covered(sec'))
  BY <1>1, KeyStepShape
<1>3. ASSUME pending' # NoFrame, pending'.key \notin Installed(sec') PROVE Covered(sec')
  <2>1. CASE Installed(sec') = Installed(sec)
    BY <1>2, <1>3, <2>1 DEF TableInv
  <2> QED BY <2>1 DEF KeyStep
<1> QED BY <1>2, <1>3 DEF TableInv, OneFloor, NearlyCovered, Covered, Installed

\* Nothing recorded is nothing to give up.
LEMMA EmptyKeyStep ==
    ASSUME NEW x, NEW y, y.table = {} PROVE KeyStep(x, y)
BY DEF KeyStep, Covered

LEMMA SameKeyStep ==
    ASSUME NEW x, NEW y, y.table \subseteq x.table, y.active = x.active, y.second = x.second
    PROVE  KeyStep(x, y)
BY DEF KeyStep, Installed

LEMMA SwapKeyStep ==
    ASSUME NEW x \in SecurityType PROVE KeyStep(x, Swapped(x))
<1>1. /\ Swapped(x).active = x.second /\ Swapped(x).second = x.active
      /\ Swapped(x).table = x.table
  BY SwapFields
<1> QED BY <1>1 DEF KeyStep, Installed

LEMMA PutSecondKeyStep ==
    ASSUME NEW x \in SecurityType, NEW k \in Keys, NEW q \in Seqs \cup {NoSeq}
    PROVE  KeyStep(x, PutSecond(x, k, q))
<1> DEFINE y == PutSecond(x, k, q)
<1>1. /\ y.active = x.active /\ y \in SecurityType
      /\ y.table = {e \in x.table : e.seq # KeySeq[k] /\ x.active # NoKey
                                     /\ e.seq = KeySeq[x.active]}
  BY PutSecondFields
<1> HIDE DEF y
<1>2. KeyStep(x, y)
  BY <1>1 DEF KeyStep, Covered, Installed
<1> QED BY <1>2 DEF y

LEMMA StageKeyStep ==
    ASSUME NEW x \in SecurityType, NEW k \in Keys PROVE KeyStep(x, stage_network_key(x, k))
<1>1. KeyStep(x, x)
  BY DEF KeyStep
<1>2. KeyStep(x, [x EXCEPT !.staged = KeySeq[k]])
  <2> DEFINE y == [x EXCEPT !.staged = KeySeq[k]]
  <2>1. y.active = x.active /\ y.second = x.second /\ y.table = x.table
    BY KeySeqType, StagedFields
  <2> HIDE DEF y
  <2>2. KeyStep(x, y)
    BY <2>1, SameKeyStep
  <2> QED BY <2>2 DEF y
<1>3. KeyStep(x, PutSecond(x, k, KeySeq[k]))
  BY KeySeqType, PutSecondKeyStep
<1> QED BY <1>1, <1>2, <1>3, StageCases

\* Keys installed without any floor leave none.
LEMMA SetEmpty ==
    ASSUME NEW x \in SecurityType, NEW k \in Keys, x.table = {}
    PROVE  set_network_key(x, k).table = {}
<1>1. CASE x.active # NoKey /\ KeySeq[x.active] = KeySeq[k]
  BY <1>1 DEF set_network_key, clear_frame_counters_for_key, SecurityType
<1>2. CASE ~(x.active # NoKey /\ KeySeq[x.active] = KeySeq[k]) /\ x.second = k
  BY <1>2, SwapFields DEF set_network_key
<1>3. CASE ~(x.active # NoKey /\ KeySeq[x.active] = KeySeq[k]) /\ x.second # k
  BY <1>3 DEF set_network_key, clear_frame_counters_for_key,
              retain_frame_counters_for_installed_keys, SecurityType
<1> QED BY <1>1, <1>2, <1>3

LEMMA InstallEmpty ==
    ASSUME NEW x \in SecurityType, NEW st, x.table = {},
           st.active \in Keys, st.second \in Keys \cup {NoKey}
    PROVE  install_restored_network_security(x, st).table = {}
<1> DEFINE y == set_network_key(x, st.active)
<1>1. y \in SecurityType /\ y.table = {}
  BY SetKeyPreserves, SetEmpty
<1>2. \/ install_restored_network_security(x, st) = y
      \/ /\ st.second \in Keys
         /\ \/ install_restored_network_security(x, st) = restore_previous_network_key(y, st.second)
            \/ install_restored_network_security(x, st) = stage_network_key(y, st.second)
  BY DEF install_restored_network_security
<1> HIDE DEF y
<1>3. ASSUME NEW k \in Keys PROVE stage_network_key(y, k).table = {}
  BY <1>1, StageKeyStep DEF KeyStep
<1>4. ASSUME NEW k \in Keys PROVE restore_previous_network_key(y, k).table = {}
  BY <1>1, PutSecondKeyStep DEF KeyStep, restore_previous_network_key
<1> QED BY <1>1, <1>2, <1>3, <1>4

\* The stored keys are installed over the same live keys.
LEMMA ReinstallKeyStep ==
    ASSUME NEW x \in SecurityType, DistinctSeqs(x), x.active # NoKey
    PROVE  KeyStep(x, install_restored_network_security(x, Snapshot(x)))
<1> DEFINE y == install_restored_network_security(x, Snapshot(x))
           z == [x EXCEPT !.staged = NoSeq]
<1>1. /\ Snapshot(x).active = x.active /\ Snapshot(x).second = x.second
  BY DEF Snapshot
<1>2. /\ z \in SecurityType /\ z.active = x.active /\ z.second = x.second
      /\ z.table = x.table
  BY StagedFields
<1>3. set_network_key(x, x.active) = z
  <2>1. set_network_key(x, x.active)
          = [x EXCEPT !.active = x.active, !.staged = NoSeq, !.table = x.table]
    BY DEF set_network_key
  <2> QED BY <2>1 DEF SecurityType
<1>4. x.active \in Keys /\ x.second \in Keys \cup {NoKey}
  BY Fields
<1>5. \/ y = z
      \/ /\ x.second \in Keys
         /\ \/ y = restore_previous_network_key(z, x.second)
            \/ y = stage_network_key(z, x.second)
  BY <1>1, <1>3, <1>4 DEF install_restored_network_security
<1> HIDE DEF y, z
<1>6. KeyStep(z, y)
  <2>1. KeyStep(z, z)
    BY DEF KeyStep
  <2>2. ASSUME NEW k \in Keys PROVE KeyStep(z, restore_previous_network_key(z, k))
    BY <1>2, <2>1, PutSecondKeyStep DEF restore_previous_network_key
  <2> QED BY <1>2, <1>5, <2>1, <2>2, StageKeyStep
<1>7. KeyStep(x, y)
  BY <1>2, <1>6 DEF KeyStep, Installed
<1> QED BY <1>7 DEF y

\* Recording a floor keeps the shape of the table.
LEMMA CommitShape ==
    ASSUME NEW x \in SecurityType, NEW s \in Sources, NEW k \in Keys,
           NEW c \in Counters, NEW r, NEW y \in Commits(x, s, KeySeq[k], c, r),
           OneFloor(x), NearlyCovered(x), k \notin Installed(x) => Covered(x)
    PROVE  OneFloor(y) /\ NearlyCovered(y)
<1> DEFINE q == KeySeq[k]
<1>0. q \in Seqs
  BY KeySeqType
<1>1. Installed(y) = Installed(x)
  BY CommitKeys DEF Installed
<1>2. NearlyCovered(y)
  <2>1. \A e \in y.table : e.seq = q \/ e \in x.table
    BY <1>0, CommitFloors
  <2>2. CASE k \in Installed(x)
    BY <1>1, <2>1, <2>2 DEF NearlyCovered
  <2>3. CASE k \notin Installed(x)
    BY <1>1, <2>1, <2>3 DEF NearlyCovered, Covered
  <2> QED BY <2>2, <2>3
<1>3. CASE y = Raised(x, s, q, c)
  <2> DEFINE R(d) == IF d.source = s /\ d.seq = q
                     THEN Floor(s, q, IF c > d.counter THEN c ELSE d.counter) ELSE d
  <2>1. y.table = {R(d) : d \in x.table}
    BY <1>3, TableFields DEF Raised
  <2>2. \A d : R(d).source = d.source /\ R(d).seq = d.seq
    BY DEF Floor
  <2> HIDE DEF R
  <2>3. ASSUME NEW e \in y.table, NEW f \in y.table, e.source = f.source, e.seq = f.seq
        PROVE  e = f
    <3>1. PICK d \in x.table : e = R(d)
      BY <2>1
    <3>2. PICK g \in x.table : f = R(g)
      BY <2>1
    <3>3. d = g
      BY <2>2, <2>3, <3>1, <3>2 DEF OneFloor
    <3> QED BY <3>1, <3>2, <3>3
  <2> QED BY <1>2, <2>3 DEF OneFloor
<1>4. CASE y = x
  BY <1>2, <1>4
<1>5. CASE ~Has(x, s, q) /\ y.table \subseteq x.table \cup {Floor(s, q, c)}
  <2>1. Floor(s, q, c).source = s /\ Floor(s, q, c).seq = q
    BY DEF Floor
  <2>2. OneFloor(y)
    BY <1>5, <2>1 DEF OneFloor, Has
  <2> QED BY <1>2, <2>2
<1>6. ASSUME y = [x EXCEPT !.table = @ \cup {Floor(s, q, c)}]
      PROVE  y.table \subseteq x.table \cup {Floor(s, q, c)}
  BY <1>6, TableFields
<1>7. ASSUME NEW d, y = Replaced(x, d, Floor(s, q, c))
      PROVE  y.table \subseteq x.table \cup {Floor(s, q, c)}
  BY <1>7, ReplacedFields
<1> QED BY <1>3, <1>4, <1>5, <1>6, <1>7, CommitCases

\* Ageing changes no floor's sender, number or counter.
LEMMA AgedTable ==
    ASSUME sec \in SecurityType, age_replay_floors
    PROVE  /\ sec'.active = sec.active /\ sec'.second = sec.second
           /\ sec'.staged = sec.staged /\ sec'.sealed = sec.sealed
           /\ \E f \in [sec.table -> sec'.table] :
                /\ sec'.table = {f[e] : e \in sec.table}
                /\ \A e \in sec.table : f[e].source = e.source /\ f[e].seq = e.seq
<1> DEFINE Aged(e) == [e EXCEPT !.silent = IF e.silent < StaleSecs
                                           THEN e.silent + 1 ELSE e.silent]
           t == {Aged(e) : e \in sec.table}
           f == [e \in sec.table |-> Aged(e)]
<1>1. sec' = [sec EXCEPT !.table = t]
  BY DEF age_replay_floors
<1>2. /\ sec'.active = sec.active /\ sec'.second = sec.second
      /\ sec'.staged = sec.staged /\ sec'.sealed = sec.sealed /\ sec'.table = t
  BY <1>1, TableFields
<1>3. ASSUME NEW e \in sec.table
      PROVE  Aged(e).source = e.source /\ Aged(e).seq = e.seq
  <2>1. e \in Floors
    BY Fields
  <2> QED BY <2>1 DEF Floors
<1>4. \A e \in sec.table : f[e] = Aged(e)
  OBVIOUS
<1> HIDE DEF Aged
<1>5. t = {f[e] : e \in sec.table} /\ f \in [sec.table -> t]
  BY <1>4
<1>6. \A e \in sec.table : f[e].source = e.source /\ f[e].seq = e.seq
  BY <1>3, <1>4
<1> HIDE DEF f, t
<1>7. \E g \in [sec.table -> sec'.table] :
        /\ sec'.table = {g[e] : e \in sec.table}
        /\ \A e \in sec.table : g[e].source = e.source /\ g[e].seq = e.seq
  BY <1>2, <1>5, <1>6
<1> QED BY <1>2, <1>7

\* Every step keeps the shape of the table.
LEMMA NextTable ==
    ASSUME Inv, Inv', ReplayInv, TableInv, [Next]_vars
    PROVE  TableInv'
<1>1. /\ sec \in SecurityType /\ DistinctSeqs(sec) /\ KeyInv
      /\ pending # NoFrame => pending \in FrameType
  BY ReplayFacts DEF Inv
<1>2. sec' \in SecurityType /\ KeyInv'
  BY HeardNext DEF Inv
<1>3. ASSUME KeyStep(sec, sec'), sec'.active = NoKey => sec'.table = {},
             \/ pending' = NoFrame
             \/ pending # NoFrame /\ pending'.key = pending.key
             \/ pending'.key \in Installed(sec)
      PROVE  TableInv'
  BY <1>1, <1>2, <1>3, TableNext
<1>4. KeyStep(sec, sec)
  BY DEF KeyStep
<1>5. sec.active = NoKey => sec.table = {}
  BY DEF TableInv
<1>6. ASSUME sec' = sec, pending' = NoFrame \/ pending' = pending PROVE TableInv'
  BY <1>3, <1>4, <1>5, <1>6
<1>7. CASE UNCHANGED vars
  BY <1>6, <1>7 DEF vars
<1>8. ASSUME NEW s \in Sources, NEW k \in Keys, NEW c \in Counters, NEW r,
             NEW y \in Commits(sec, s, KeySeq[k], c, r), NEW b \in BOOLEAN,
             k \notin Installed(sec) => Covered(sec),
             sec' = y \/ sec' = [y EXCEPT !.fence = b],
             sec.active # NoKey, pending' = NoFrame
      PROVE  TableInv'
  <2>1. OneFloor(y) /\ NearlyCovered(y)
    BY <1>1, <1>8, CommitShape DEF TableInv
  <2>2. y \in SecurityType /\ y.active = sec.active
    BY <1>1, KeySeqType, CommitPreserves
  <2>3. /\ sec'.active = y.active /\ sec'.second = y.second /\ sec'.table = y.table
    <3> DEFINE z == [y EXCEPT !.fence = b]
    <3>1. z.active = y.active /\ z.second = y.second /\ z.table = y.table
      BY <2>2, FenceFields
    <3>2. sec' = y \/ sec' = z
      BY <1>8
    <3> HIDE DEF z
    <3> QED BY <3>1, <3>2
  <2>4. OneFloor(sec') /\ NearlyCovered(sec')
    BY <2>1, <2>3 DEF OneFloor, NearlyCovered, Installed
  <2>5. OneFloor(sec)' /\ NearlyCovered(sec)'
    BY <2>4 DEF OneFloor, NearlyCovered, Installed
  <2>6. sec'.active # NoKey /\ pending' = NoFrame
    BY <1>8, <2>2, <2>3
  <2> QED BY <2>5, <2>6 DEF TableInv
<1>9. CASE Next
  <2>1. ASSUME Commission \/ PersistFails \/ \E s \in Sources : age_router_child(s)
        PROVE  TableInv'
    <3>1. sec' = sec /\ (pending' = NoFrame \/ pending' = pending)
      BY <2>1 DEF Commission, PersistFails, age_router_child
    <3> QED BY <1>6, <3>1
  <2>2. ASSUME NEW p \in Sources, NEW k \in Keys, Join(p, k) PROVE TableInv'
    <3>1. sec' = set_network_key(sec, k) /\ sec.active = NoKey /\ pending' = pending
      BY <2>2 DEF Join
    <3>2. sec'.table = {} /\ pending' = NoFrame
      BY <1>1, <1>5, <3>1, SetEmpty DEF KeyInv
    <3> QED BY <1>3, <3>2, EmptyKeyStep
  <2>3. ASSUME NEW s \in Sources, NEW k \in Keys, NEW c \in Counters,
               NEW kind, NEW own, Receive(s, k, c, kind, own)
        PROVE  TableInv'
    <3> DEFINE w == [Swapped(sec) EXCEPT !.fence = TRUE]
    <3>1. k \in Installed(sec) /\ pending = NoFrame
      BY <2>3 DEF Receive
    <3>2. sec.active # NoKey
      BY <1>1, <3>1, Names DEF KeyInv, Installed
    <3>3. \/ pending'.key = k /\ (sec' = sec \/ (CanActivate(sec, KeySeq[k]) /\ sec' = w))
          \/ pending' = pending /\ sec' \in Commits(sec, s, KeySeq[k], c, NoNode)
      <4>1. \/ /\ sec' = IF CanActivate(sec, KeySeq[k]) THEN w ELSE sec
               /\ \E m, v : pending' = [source |-> s, key |-> k, counter |-> c,
                                        moved |-> m, waits |-> v]
            \/ pending' = pending /\ sec' \in Commits(sec, s, KeySeq[k], c, NoNode)
        BY <2>3 DEF Receive
      <4> QED BY <4>1
    <3>4. CASE pending'.key = k /\ sec' = sec
      BY <1>3, <1>4, <1>5, <3>1, <3>4
    <3>5. CASE pending'.key = k /\ CanActivate(sec, KeySeq[k]) /\ sec' = w
      <4>1. sec'.active = sec.second /\ sec'.second = sec.active /\ sec'.table = sec.table
        BY <1>1, <3>5, SwapFields, FenceFields
      <4>2. KeyStep(sec, sec')
        BY <4>1 DEF KeyStep, Installed
      <4>3. sec'.active # NoKey
        BY <3>5, <4>1 DEF CanActivate
      <4> QED BY <1>3, <3>1, <3>5, <4>2, <4>3
    <3>6. CASE pending' = pending /\ sec' \in Commits(sec, s, KeySeq[k], c, NoNode)
      BY <1>8, <3>1, <3>2, <3>6
    <3> QED BY <3>3, <3>4, <3>5, <3>6
  <2>4. ASSUME NEW k \in Keys, TransportKey(k) PROVE TableInv'
    <3>1. /\ sec' = stage_network_key(sec, k) /\ sec.active # NoKey /\ pending # NoFrame
          /\ pending' = [pending EXCEPT !.waits = "SecurityState"]
      BY <2>4 DEF TransportKey, Handling, Handled
    <3>2. pending'.key = pending.key
      BY <1>1, <3>1 DEF FrameType
    <3>3. KeyStep(sec, sec') /\ sec'.active # NoKey
      BY <1>1, <3>1, StageKeyStep, StagePreserves
    <3> QED BY <1>3, <3>1, <3>2, <3>3
  <2>5. ASSUME NEW q \in Seqs, SwitchKey(q) PROVE TableInv'
    <3>1. /\ sec' = activate_network_key(sec, q) /\ pending # NoFrame
          /\ pending' = [pending EXCEPT !.waits = "SecurityState"]
      BY <2>5 DEF SwitchKey, Handling, Handled
    <3>2. pending'.key = pending.key
      BY <1>1, <3>1 DEF FrameType
    <3>3. sec' = sec \/ (sec.second # NoKey /\ sec' = Swapped(sec))
      BY <3>1 DEF activate_network_key, CanActivate
    <3>4. KeyStep(sec, sec') /\ (sec'.active = NoKey => sec'.table = {})
      BY <1>1, <1>4, <1>5, <3>3, SwapKeyStep, SwapFields
    <3> QED BY <1>3, <3>1, <3>2, <3>4
  <2>6. ASSUME Persist \/ PersistChild PROVE TableInv'
    <3>1. /\ pending # NoFrame
          /\ \/ sec' = sec /\ pending' = [pending EXCEPT !.waits = "ChildSaved"]
             \/ Complete
      BY <2>6 DEF Persist, PersistChild
    <3>2. CASE sec' = sec /\ pending' = [pending EXCEPT !.waits = "ChildSaved"]
      <4>1. pending'.key = pending.key
        BY <1>1, <3>1, <3>2 DEF FrameType
      <4> QED BY <1>3, <1>4, <1>5, <3>1, <3>2, <4>1
    <3>3. CASE Complete
      <4>1. PICK s \in Sources, k \in Keys, c \in Counters :
              s = pending.source /\ k = pending.key /\ c = pending.counter
        BY <1>1, <3>1 DEF FrameType
      <4>2. PICK y \in Commits(sec, s, KeySeq[k], c, NoNode) :
              sec' = [y EXCEPT !.fence = FALSE] /\ pending' = NoFrame
        BY <3>3, <4>1 DEF Complete
      <4>3. k \notin Installed(sec) => Covered(sec)
        BY <3>1, <4>1 DEF TableInv
      <4>4. sec.active # NoKey
        BY <1>1, <3>1 DEF KeyInv
      <4> QED BY <1>8, <4>2, <4>3, <4>4
    <3> QED BY <3>1, <3>2, <3>3
  <2>7. ASSUME NEW p \in Sources, NEW k \in Keys, NEW c \in Counters,
               NEW accepted \in BOOLEAN, SecureRejoin(p, k, c, accepted)
        PROVE  TableInv'
    <3>1. /\ sec' \in Commits(sec, p, KeySeq[k], c, p) /\ k \in Installed(sec)
          /\ pending' = NoFrame
      BY <2>7 DEF SecureRejoin
    <3>2. sec.active # NoKey
      BY <1>1, <3>1, Names DEF KeyInv, Installed
    <3> QED BY <1>8, <3>1, <3>2
  <2>8. ASSUME NEW p \in Sources, TcRejoin(p) PROVE TableInv'
    <3>1. sec' = NewSecurity /\ pending' = NoFrame
      BY <2>8 DEF TcRejoin, clear_network_keys
    <3>2. sec'.table = {}
      BY <3>1 DEF NewSecurity
    <3> QED BY <1>3, <3>1, <3>2, EmptyKeyStep
  <2>9. ASSUME NEW k \in Keys, TcKeyStored(k) \/ TcKeyNotStored(k) PROVE TableInv'
    <3> DEFINE y == set_network_key(sec, k)
    <3>1. /\ sec.active = NoKey /\ pending' = pending /\ saved # NoState
          /\ sec' = y \/ sec' = install_restored_network_security(y, saved)
      BY <2>9 DEF TcKeyStored, TcKeyNotStored
    <3>2. y \in SecurityType /\ y.table = {}
      BY <1>1, <1>5, <3>1, SetEmpty, SetKeyPreserves
    <3> HIDE DEF y
    <3>3. sec'.table = {}
      BY <3>1, <3>2, StoredRecord, InstallEmpty
    <3>4. pending' = NoFrame
      BY <1>1, <3>1 DEF KeyInv
    <3> QED BY <1>3, <3>3, <3>4, EmptyKeyStep
  <2>10. ASSUME TcRejoinFails PROVE TableInv'
    <3>1. /\ saved # NoState /\ pending' = NoFrame
          /\ saved' = IF sec.active = NoKey THEN saved ELSE refresh_security_state(sec)
          /\ sec' = install_restored_network_security(sec, saved')
      BY <2>10 DEF TcRejoinFails
    <3>2. saved.active \in Keys /\ saved.second \in Keys \cup {NoKey}
      BY <3>1, StoredRecord
    <3>3. CASE sec.active = NoKey
      <4>1. sec'.table = {}
        BY <1>1, <1>5, <3>1, <3>2, <3>3, InstallEmpty
      <4> QED BY <1>3, <3>1, <4>1, EmptyKeyStep
    <3>4. CASE sec.active # NoKey
      <4>1. saved' = Snapshot(sec)
        BY <3>1, <3>2, <3>4, Names DEF refresh_security_state
      <4>2. KeyStep(sec, sec')
        BY <1>1, <3>1, <3>4, <4>1, ReinstallKeyStep
      <4>3. Snapshot(sec).active \in Keys /\ Snapshot(sec).second \in Keys \cup {NoKey}
        BY <1>1, <3>4, Fields DEF Snapshot
      <4>4. sec'.active # NoKey
        BY <1>1, <3>1, <4>1, <4>3, Names, InstallPreserves
      <4> QED BY <1>3, <3>1, <4>2, <4>4
    <3> QED BY <3>3, <3>4
  <2>11. ASSUME age_replay_floors PROVE TableInv'
    <3>1. /\ sec'.active = sec.active /\ sec'.second = sec.second
      BY <1>1, <2>11, AgedTable
    <3>2. PICK f \in [sec.table -> sec'.table] :
                   /\ sec'.table = {f[e] : e \in sec.table}
                   /\ \A e \in sec.table : f[e].source = e.source /\ f[e].seq = e.seq
      BY <1>1, <2>11, AgedTable
    <3>3. pending' = NoFrame
      BY <2>11 DEF age_replay_floors
    <3>4. OneFloor(sec')
      <4>1. ASSUME NEW e \in sec'.table, NEW g \in sec'.table,
                   e.source = g.source, e.seq = g.seq
            PROVE  e = g
        <5>1. PICK d \in sec.table : e = f[d]
          BY <3>2
        <5>2. PICK u \in sec.table : g = f[u]
          BY <3>2
        <5>3. d = u
          BY <3>2, <4>1, <5>1, <5>2 DEF TableInv, OneFloor
        <5> QED BY <5>1, <5>2, <5>3
      <4> QED BY <4>1 DEF OneFloor
    <3>5. NearlyCovered(sec')
      <4>1. PICK z : \A e \in sec.table :
                e.seq = z \/ \E k \in Installed(sec) : e.seq = KeySeq[k]
        BY DEF TableInv, NearlyCovered
      <4>2. Installed(sec') = Installed(sec)
        BY <3>1 DEF Installed
      <4>3. \A e \in sec'.table : e.seq = z \/ \E k \in Installed(sec') : e.seq = KeySeq[k]
        BY <3>2, <4>1, <4>2
      <4> QED BY <4>3 DEF NearlyCovered
    <3>6. sec'.active = NoKey => sec'.table = {}
      BY <1>5, <3>1, <3>2
    <3> QED BY <3>3, <3>4, <3>5, <3>6 DEF TableInv, OneFloor, NearlyCovered, Installed
  <2>12. ASSUME NEW s \in Sources, AdmitChild(s) \/ evict_child(s) PROVE TableInv'
    <3>1. /\ sec' = [sec EXCEPT !.table = {e \in @ : e.source # s}] /\ pending' = pending
      BY <2>12 DEF AdmitChild, evict_child, ForgetFloors
    <3>2. /\ sec'.table \subseteq sec.table
          /\ sec'.active = sec.active /\ sec'.second = sec.second
      BY <1>1, <3>1, TableFields
    <3>3. KeyStep(sec, sec')
      BY <3>2, SameKeyStep
    <3>4. sec'.active = NoKey => sec'.table = {}
      BY <1>5, <3>2
    <3> QED BY <1>3, <3>1, <3>3, <3>4
  <2>13. ASSUME Reboot \/ \E rejoin \in BOOLEAN : Leave(rejoin) PROVE TableInv'
    <3>1. /\ pending' = NoFrame
          /\ \/ sec' = sec \/ sec' = NewSecurity
             \/ saved # NoState /\ sec' = install_restored_network_security(NewSecurity, saved)
      BY <2>13 DEF Reboot, Leave
    <3>2. NewSecurity.table = {}
      BY DEF NewSecurity
    <3>3. sec' = sec \/ sec'.table = {}
      BY <3>1, <3>2, StoredRecord, NewSecurityType, InstallEmpty
    <3> QED BY <1>3, <1>6, <3>1, <3>3, EmptyKeyStep
  <2> QED BY <1>9, <2>1, <2>2, <2>3, <2>4, <2>5, <2>6, <2>7, <2>8, <2>9, <2>10,
             <2>11, <2>12, <2>13 DEF Next
<1> QED BY <1>7, <1>9

\* The parent that is looked up is one of the parents, and an end device has no
\* children.
NeighborInv ==
    /\ parents # {} => lookedUp \in parents
    /\ ~router => children = {} /\ joining = {}

LEMMA AddParentNeighbor ==
    ASSUME NeighborInv, router' = router, NEW p, AddParent(p) PROVE NeighborInv'
<1>1. lookedUp' \in parents'
  <2>1. CASE parents \subseteq {p}
    BY <2>1 DEF AddParent
  <2>2. CASE ~(parents \subseteq {p})
    BY <2>2 DEF AddParent, NeighborInv
  <2> QED BY <2>1, <2>2
<1>2. ~router' => children' = {} /\ joining' = {}
  BY DEF AddParent, NeighborInv
<1> QED BY <1>1, <1>2 DEF NeighborInv

LEMMA DropNeighborNeighbor ==
    ASSUME NeighborInv, router' = router, NEW s, DropNeighbor(s) PROVE NeighborInv'
<1>1. parents' # {} => lookedUp' \in parents'
  <2>1. CASE lookedUp # s
    BY <2>1 DEF DropNeighbor, NeighborInv
  <2>2. CASE lookedUp = s
    BY <2>2 DEF DropNeighbor
  <2> QED BY <2>1, <2>2
<1>2. ~router' => children' = {} /\ joining' = {}
  BY DEF DropNeighbor, NeighborInv
<1> QED BY <1>1, <1>2 DEF NeighborInv

\* Every step keeps the neighbours in order.
LEMMA NextNeighbor ==
    ASSUME NeighborInv, [Next]_vars PROVE NeighborInv'
<1>1. CASE UNCHANGED vars
  BY <1>1 DEF vars, NeighborInv
<1>2. CASE Next
  <2>1. router' = router
    BY <1>2 DEF Next
  <2>2. ASSUME UNCHANGED neighbors PROVE NeighborInv'
    BY <2>1, <2>2 DEF neighbors, NeighborInv
  <2>3. ASSUME NEW s \in Sources, NEW k \in Keys, NEW c \in Counters,
               NEW kind, NEW own, Receive(s, k, c, kind, own)
        PROVE  NeighborInv'
    <3> DEFINE f == (IF CanActivate(sec, KeySeq[k]) THEN [Swapped(sec) EXCEPT !.fence = TRUE]
                     ELSE sec).fence
    <3>1. NeighborEffect(s, kind, own, f) /\ (kind \in {"announce", "rejoin"} => router)
      BY <2>3 DEF Receive
    <3> HIDE DEF f
    <3>2. CASE Leaves(kind)
      <4>1. DropNeighbor(s)
        BY <3>1, <3>2 DEF NeighborEffect
      <4> QED BY <2>1, <4>1, DropNeighborNeighbor
    <3>3. CASE ~Leaves(kind)
      <4>1. parents' = parents /\ lookedUp' = lookedUp
        BY <3>1, <3>3 DEF NeighborEffect
      <4>2. CASE router
        BY <2>1, <4>1, <4>2 DEF NeighborInv
      <4>3. CASE ~router
        <5>1. ~Promotes(s, kind, own, f)
          BY <3>1, <4>3 DEF Promotes, NeighborInv
        <5>2. children' = children /\ joining' = joining
          BY <3>1, <3>3, <5>1 DEF NeighborEffect
        <5> QED BY <2>1, <4>1, <5>2 DEF NeighborInv
      <4> QED BY <4>2, <4>3
    <3> QED BY <3>2, <3>3
  <2>4. ASSUME \/ \E p \in Sources, k \in Keys : Join(p, k)
               \/ \E p \in Sources : TcRejoin(p)
        PROVE  NeighborInv'
    BY <2>1, <2>4, AddParentNeighbor DEF Join, TcRejoin
  <2>5. ASSUME NEW p \in Sources, NEW k \in Keys, NEW c \in Counters,
               NEW accepted \in BOOLEAN, SecureRejoin(p, k, c, accepted)
        PROVE  NeighborInv'
    <3>1. AddParent(p) \/ UNCHANGED neighbors
      BY <2>5 DEF SecureRejoin
    <3> QED BY <2>1, <2>2, <3>1, AddParentNeighbor
  <2>6. ASSUME NEW s \in Sources, AdmitChild(s) \/ evict_child(s) PROVE NeighborInv'
    BY <2>1, <2>6 DEF AdmitChild, evict_child, ForgetFloors, NeighborInv
  <2>7. ASSUME NEW s \in Sources, age_router_child(s) PROVE NeighborInv'
    BY <2>1, <2>7, DropNeighborNeighbor DEF age_router_child
  <2>8. ASSUME Reboot \/ \E rejoin \in BOOLEAN : Leave(rejoin) PROVE NeighborInv'
    BY <2>1, <2>8 DEF Reboot, Leave, NeighborInv
  <2>9. ASSUME \/ Commission \/ Persist \/ PersistFails \/ PersistChild
               \/ TcRejoinFails \/ age_replay_floors
               \/ \E k \in Keys : TransportKey(k) \/ TcKeyStored(k) \/ TcKeyNotStored(k)
               \/ \E q \in Seqs : SwitchKey(q)
        PROVE  NeighborInv'
    <3>1. UNCHANGED neighbors
      BY <2>9 DEF Commission, Persist, PersistFails, PersistChild, TcRejoinFails,
                  age_replay_floors, TransportKey, TcKeyStored, TcKeyNotStored, SwitchKey
    <3> QED BY <2>2, <3>1
  <2> QED BY <1>2, <2>3, <2>4, <2>5, <2>6, <2>7, <2>8, <2>9 DEF Next
<1> QED BY <1>1, <1>2

-----------------------------------------------------------------------------
(* The first parent of an end device *)

\* With floors of the parent only, and none under q, the table holds at most two.
LEMMA ParentFloors ==
    ASSUME NEW x \in SecurityType, NEW p, NEW k \in Installed(x),
           OneFloor(x), NearlyCovered(x), ~Has(x, p, KeySeq[k]),
           \A e \in x.table : e.source = p
    PROVE  IsFiniteSet(x.table) /\ Cardinality(x.table) <= 2
<1>1. PICK z : \A e \in x.table : e.seq = z \/ \E i \in Installed(x) : e.seq = KeySeq[i]
  BY DEF NearlyCovered
<1>2. PICK w : \A e \in x.table : e.seq = z \/ e.seq = w
  <2>1. \E i : Installed(x) \subseteq {k, i}
    BY DEF Installed
  <2>2. PICK i : Installed(x) \subseteq {k, i}
    BY <2>1
  <2>3. \A e \in x.table : e.seq # KeySeq[k]
    BY DEF Has
  <2>4. \A e \in x.table : e.seq = z \/ e.seq = KeySeq[i]
    BY <1>1, <2>2, <2>3
  <2> QED BY <2>4
<1>3. \E a, b : x.table \subseteq {a, b}
  <2> DEFINE A(n) == CHOOSE e \in x.table : e.seq = n
  <2>1. ASSUME NEW e \in x.table PROVE e = A(e.seq)
    <3>1. A(e.seq) \in x.table /\ A(e.seq).seq = e.seq
      OBVIOUS
    <3> HIDE DEF A
    <3> QED BY <3>1 DEF OneFloor
  <2> HIDE DEF A
  <2>2. \A e \in x.table : e = A(z) \/ e = A(w)
    BY <1>2, <2>1
  <2>3. x.table \subseteq {A(z), A(w)}
    BY <2>2
  <2> QED BY <2>3
<1>4. PICK a, b : x.table \subseteq {a, b}
  BY <1>3
<1>5. IsFiniteSet({a}) /\ Cardinality({a}) = 1
  BY FS_Singleton
<1>6. IsFiniteSet({a} \cup {b}) /\ Cardinality({a} \cup {b}) <= 2
  <2>1. /\ IsFiniteSet({a} \cup {b})
        /\ Cardinality({a} \cup {b}) = IF b \in {a} THEN Cardinality({a})
                                       ELSE Cardinality({a}) + 1
    BY <1>5, FS_AddElement
  <2> QED BY <1>5, <2>1
<1>7. x.table \in SUBSET ({a} \cup {b})
  BY <1>4
<1>8. IsFiniteSet(x.table) /\ Cardinality(x.table) <= Cardinality({a} \cup {b})
  BY <1>6, <1>7, FS_Subset
<1>9. Cardinality(x.table) \in Nat /\ Cardinality({a} \cup {b}) \in Nat
  BY <1>6, <1>8, FS_CardinalityType
<1> QED BY <1>6, <1>8, <1>9

\* With more than two slots there is a free one, or one of another sender.
LEMMA ParentAdmitted ==
    ASSUME Inv, TableInv, NeighborInv, LeafFloors > 2 PROVE FirstParentAdmitted
<1> SUFFICES ASSUME ~router, parents = {parent},
                    NEW k \in Installed(sec), NEW c \in Counters,
                    ~Has(sec, parent, KeySeq[k])
             PROVE  Fresh(sec, parent, KeySeq[k], c, NoNode)
  BY DEF FirstParentAdmitted
<1>1. sec \in SecurityType
  BY TypeParts DEF Inv
<1>2. lookedUp = parent
  BY DEF NeighborInv
<1>3. Free(sec) > 0 \/ \E e \in sec.table : e.source # parent
  <2>1. ASSUME \A e \in sec.table : e.source = parent PROVE Free(sec) > 0
    <3>1. IsFiniteSet(sec.table) /\ Cardinality(sec.table) <= 2
      BY <1>1, <2>1, ParentFloors DEF TableInv
    <3>2. Cardinality(sec.table) \in Nat
      BY <3>1, FS_CardinalityType
    <3> QED BY <3>1, <3>2, SecurityAssumption DEF Free, MAX_FRAME_COUNTER_ENTRIES
  <2> QED BY <2>1
<1>4. leaf_admits_new_domain(sec, parent, KeySeq[k], parent)
  <2>1. parent # NoNode
    BY TypeParts, SecurityAssumption DEF Inv, NeighborsOK
  <2> QED BY <1>3, <2>1 DEF leaf_admits_new_domain
<1>5. AdmitsNewDomain(sec, parent, KeySeq[k], NoNode)
  BY <1>2, <1>4 DEF AdmitsNewDomain, ReservingParent
<1>6. \A e \in sec.table : ~(e.source = parent /\ e.seq = KeySeq[k])
  BY DEF Has
<1> QED BY <1>5, <1>6 DEF Fresh

LEMMA InitTable == Init => TableInv /\ NeighborInv
BY DEF Init, NewSecurity, TableInv, OneFloor, NearlyCovered, NeighborInv

\* An end device that never changed its parent has room for the first frame of
\* its parent under any installed key (leaf_admits_new_domain), however full the
\* table is, when the table has more than two slots: that is what keys that were
\* removed may leave behind.  The code has sixteen.
THEOREM ParentAlwaysAdmitted == LeafFloors > 2 => (Spec => []FirstParentAdmitted)
<1> SUFFICES ASSUME LeafFloors > 2 PROVE Spec => []FirstParentAdmitted
  OBVIOUS
<1> DEFINE J == Inv /\ ReplayInv /\ TableInv /\ NeighborInv
<1>1. J /\ [Next]_vars => J'
  BY NextInv, NextReplay, NextTable, NextNeighbor
<1>2. J => FirstParentAdmitted
  BY ParentAdmitted
<1>3. Init => J
  BY InitInv, InitReplay, InitTable
<1> HIDE DEF J
<1> QED BY <1>1, <1>2, <1>3, PTL DEF Spec

-----------------------------------------------------------------------------
(* The table never outgrows its capacity *)

SizeInv == IsFiniteSet(sec.table) /\ Cardinality(sec.table) <= MAX_FRAME_COUNTER_ENTRIES

\* The capacity is a positive number.
LEMMA Capacity ==
    MAX_FRAME_COUNTER_ENTRIES \in Nat /\ MAX_FRAME_COUNTER_ENTRIES >= 1
BY SecurityAssumption DEF MAX_FRAME_COUNTER_ENTRIES

\* The image of a finite set is finite and no larger.
LEMMA ImageSize ==
    ASSUME NEW S, NEW T, IsFiniteSet(S), NEW f \in [S -> T], T = {f[e] : e \in S}
    PROVE  IsFiniteSet(T) /\ Cardinality(T) <= Cardinality(S)
<1>1. f \in Surjection(S, T)
  BY DEF Surjection
<1> QED BY <1>1, FS_Surjection

\* Fewer floors take fewer slots.
LEMMA SubsetSize ==
    ASSUME NEW S, NEW T, IsFiniteSet(S), T \subseteq S
    PROVE  /\ IsFiniteSet(T) /\ Cardinality(T) \in Nat /\ Cardinality(S) \in Nat
           /\ Cardinality(T) <= Cardinality(S)
           /\ T # S => Cardinality(T) < Cardinality(S)
<1>1. /\ IsFiniteSet(T) /\ Cardinality(T) <= Cardinality(S)
      /\ Cardinality(S) = Cardinality(T) => S = T
  BY FS_Subset
<1>2. Cardinality(T) \in Nat /\ Cardinality(S) \in Nat
  BY <1>1, FS_CardinalityType
<1> QED BY <1>1, <1>2

\* commit_replay_floor keeps the table within its capacity.
LEMMA CommitSize ==
    ASSUME NEW x \in SecurityType, NEW s \in Sources, NEW q \in Seqs,
           NEW c \in Counters, NEW r, NEW y \in Commits(x, s, q, c, r),
           IsFiniteSet(x.table), Cardinality(x.table) <= MAX_FRAME_COUNTER_ENTRIES
    PROVE  IsFiniteSet(y.table) /\ Cardinality(y.table) <= MAX_FRAME_COUNTER_ENTRIES
<1>1. Cardinality(x.table) \in Nat /\ MAX_FRAME_COUNTER_ENTRIES \in Nat
  BY FS_CardinalityType, Capacity
<1>2. CASE y = Raised(x, s, q, c)
  <2> DEFINE R(e) == IF e.source = s /\ e.seq = q
                     THEN Floor(s, q, IF c > e.counter THEN c ELSE e.counter) ELSE e
             f == [e \in x.table |-> R(e)]
  <2>0. y.table = {R(e) : e \in x.table}
    BY <1>2, TableFields DEF Raised
  <2> HIDE DEF R
  <2>1. y.table = {f[e] : e \in x.table}
    BY <2>0
  <2>2. f \in [x.table -> y.table]
    BY <2>0
  <2> HIDE DEF f
  <2>3. IsFiniteSet(y.table) /\ Cardinality(y.table) <= Cardinality(x.table)
    BY <2>1, <2>2, ImageSize
  <2>4. Cardinality(y.table) \in Nat
    BY <2>3, FS_CardinalityType
  <2> QED BY <1>1, <2>3, <2>4
<1>3. CASE y = x
  BY <1>3
<1>4. CASE Free(x) > 0 /\ y = [x EXCEPT !.table = @ \cup {Floor(s, q, c)}]
  <2>1. y.table = x.table \cup {Floor(s, q, c)}
    BY <1>4, TableFields
  <2>2. /\ IsFiniteSet(y.table)
        /\ Cardinality(y.table) <= Cardinality(x.table) + 1
        /\ Cardinality(y.table) \in Nat
    <3>1. /\ IsFiniteSet(y.table)
          /\ Cardinality(y.table) = IF Floor(s, q, c) \in x.table THEN Cardinality(x.table)
                                    ELSE Cardinality(x.table) + 1
      BY <2>1, FS_AddElement
    <3> QED BY <1>1, <3>1
  <2>3. Cardinality(x.table) < MAX_FRAME_COUNTER_ENTRIES
    BY <1>1, <1>4 DEF Free
  <2> QED BY <1>1, <2>2, <2>3
<1>5. ASSUME NEW e \in Victims(x, s, q), y = Replaced(x, e, Floor(s, q, c))
      PROVE  IsFiniteSet(y.table) /\ Cardinality(y.table) <= MAX_FRAME_COUNTER_ENTRIES
  <2>1. e \in x.table
    BY DEF Victims, Reclaimable, Stale
  <2>2. y.table = (x.table \ {e}) \cup {Floor(s, q, c)}
    BY <1>5, ReplacedFields
  <2> DEFINE t == x.table \ {e}
             f == Floor(s, q, c)
  <2>3. IsFiniteSet(t) /\ Cardinality(t) = Cardinality(x.table) - 1
    BY <2>1, FS_RemoveElement
  <2> HIDE DEF t, f
  <2>4. /\ IsFiniteSet(t \cup {f})
        /\ Cardinality(t \cup {f}) = IF f \in t THEN Cardinality(t) ELSE Cardinality(t) + 1
    BY <2>3, FS_AddElement
  <2>5. y.table = t \cup {f}
    BY <2>2 DEF t, f
  <2> QED BY <1>1, <2>3, <2>4, <2>5
<1> QED BY <1>2, <1>3, <1>4, <1>5, CommitCases

\* The steps that record the floor of a frame: its receipt, the completion of
\* what it waited for, and the answer to a secured rejoin.
Records(s, k, c, y) ==
    \/ /\ \E kind, own : Receive(s, k, c, kind, own)
       /\ y \in Commits(sec, s, KeySeq[k], c, NoNode) /\ sec' = y
    \/ /\ pending # NoFrame /\ UNCHANGED neighbors
       /\ s = pending.source /\ k = pending.key /\ c = pending.counter
       /\ y \in Commits(sec, s, KeySeq[k], c, NoNode) /\ sec' = [y EXCEPT !.fence = FALSE]
    \/ /\ \E accepted \in BOOLEAN : SecureRejoin(s, k, c, accepted)
       /\ y \in Commits(sec, s, KeySeq[k], c, s) /\ sec' = y

\* What any step does to the table: it removes floors, records one, or ages them.
LEMMA TableChange ==
    ASSUME Inv, ReplayInv, TableInv, Next
    PROVE  \/ sec'.table \subseteq sec.table
           \/ \E s \in Sources, k \in Keys, c \in Counters : \E y : Records(s, k, c, y)
           \/ age_replay_floors
<1> DEFINE Goal == \/ sec'.table \subseteq sec.table
                   \/ \E s \in Sources, k \in Keys, c \in Counters : \E y : Records(s, k, c, y)
                   \/ age_replay_floors
<1>1. /\ sec \in SecurityType /\ DistinctSeqs(sec) /\ KeyInv
      /\ pending # NoFrame => pending \in FrameType
      /\ sec.active = NoKey => sec.table = {}
  BY ReplayFacts DEF Inv, TableInv
<1>2. NewSecurity.table = {}
  BY DEF NewSecurity
<1>3. ASSUME \/ Commission \/ PersistFails \/ \E s \in Sources : age_router_child(s)
      PROVE  sec' = sec
  BY <1>3 DEF Commission, PersistFails, age_router_child
<1>4. ASSUME NEW p \in Sources, NEW k \in Keys, Join(p, k) PROVE sec'.table = {}
  BY <1>1, <1>4, SetEmpty DEF Join
<1>5. ASSUME NEW s \in Sources, NEW k \in Keys, NEW c \in Counters,
             NEW kind, NEW own, Receive(s, k, c, kind, own)
      PROVE  Goal
  <2>1. \/ sec' = sec \/ sec' = [Swapped(sec) EXCEPT !.fence = TRUE]
        \/ sec' \in Commits(sec, s, KeySeq[k], c, NoNode)
    BY <1>5 DEF Receive
  <2>2. [Swapped(sec) EXCEPT !.fence = TRUE].table = sec.table
    BY <1>1, SwapFields, FenceFields
  <2>3. ASSUME sec' \in Commits(sec, s, KeySeq[k], c, NoNode) PROVE Records(s, k, c, sec')
    BY <1>5, <2>3 DEF Records
  <2> QED BY <2>1, <2>2, <2>3
<1>6. ASSUME NEW k \in Keys, TransportKey(k) PROVE sec'.table \subseteq sec.table
  BY <1>1, <1>6, StageKeyStep DEF TransportKey, KeyStep
<1>7. ASSUME NEW q \in Seqs, SwitchKey(q) PROVE sec'.table \subseteq sec.table
  <2>1. sec' = sec \/ sec' = Swapped(sec)
    BY <1>7 DEF SwitchKey, activate_network_key
  <2> QED BY <1>1, <2>1, SwapFields
<1>8. ASSUME Persist \/ PersistChild PROVE Goal
  <2>1. pending # NoFrame /\ UNCHANGED neighbors /\ (sec' = sec \/ Complete)
    BY <1>8 DEF Persist, PersistChild
  <2>2. ASSUME Complete PROVE Goal
    <3>1. PICK s \in Sources, k \in Keys, c \in Counters :
            s = pending.source /\ k = pending.key /\ c = pending.counter
      BY <1>1, <2>1 DEF FrameType
    <3>2. PICK y \in Commits(sec, s, KeySeq[k], c, NoNode) :
            sec' = [y EXCEPT !.fence = FALSE]
      BY <2>2, <3>1 DEF Complete
    <3>3. Records(s, k, c, y)
      BY <2>1, <3>1, <3>2 DEF Records
    <3> QED BY <3>3
  <2> QED BY <2>1, <2>2
<1>9. ASSUME NEW p \in Sources, NEW k \in Keys, NEW c \in Counters,
             NEW accepted \in BOOLEAN, SecureRejoin(p, k, c, accepted)
      PROVE  Goal
  <2>1. sec' \in Commits(sec, p, KeySeq[k], c, p)
    BY <1>9 DEF SecureRejoin
  <2>2. Records(p, k, c, sec')
    BY <1>9, <2>1 DEF Records
  <2> QED BY <2>2
<1>10. ASSUME NEW p \in Sources, TcRejoin(p) PROVE sec'.table = {}
  BY <1>2, <1>10 DEF TcRejoin, clear_network_keys
<1>11. ASSUME NEW k \in Keys, TcKeyStored(k) \/ TcKeyNotStored(k) PROVE sec'.table = {}
  <2> DEFINE y == set_network_key(sec, k)
  <2>1. /\ sec.active = NoKey /\ saved # NoState
        /\ sec' = y \/ sec' = install_restored_network_security(y, saved)
    BY <1>11 DEF TcKeyStored, TcKeyNotStored
  <2>2. y \in SecurityType /\ y.table = {}
    BY <1>1, <2>1, SetEmpty, SetKeyPreserves
  <2> HIDE DEF y
  <2> QED BY <2>1, <2>2, StoredRecord, InstallEmpty
<1>12. ASSUME TcRejoinFails PROVE sec'.table \subseteq sec.table
  <2>1. /\ saved # NoState
        /\ saved' = IF sec.active = NoKey THEN saved ELSE refresh_security_state(sec)
        /\ sec' = install_restored_network_security(sec, saved')
    BY <1>12 DEF TcRejoinFails
  <2>2. saved.active \in Keys /\ saved.second \in Keys \cup {NoKey}
    BY <2>1, StoredRecord
  <2>3. CASE sec.active = NoKey
    BY <1>1, <2>1, <2>2, <2>3, InstallEmpty
  <2>4. CASE sec.active # NoKey
    <3>1. saved' = Snapshot(sec)
      BY <2>1, <2>2, <2>4, Names DEF refresh_security_state
    <3> QED BY <1>1, <2>1, <2>4, <3>1, ReinstallKeyStep DEF KeyStep
  <2> QED BY <2>3, <2>4
<1>13. ASSUME NEW s \in Sources, AdmitChild(s) \/ evict_child(s)
       PROVE  sec'.table \subseteq sec.table
  <2>1. sec' = [sec EXCEPT !.table = {e \in @ : e.source # s}]
    BY <1>13 DEF AdmitChild, evict_child, ForgetFloors
  <2> QED BY <1>1, <2>1, TableFields
<1>14. ASSUME Reboot \/ \E rejoin \in BOOLEAN : Leave(rejoin)
       PROVE  sec'.table \subseteq sec.table
  <2>1. \/ sec' = sec \/ sec' = NewSecurity
        \/ saved # NoState /\ sec' = install_restored_network_security(NewSecurity, saved)
    BY <1>14 DEF Reboot, Leave
  <2> QED BY <1>2, <2>1, StoredRecord, NewSecurityType, InstallEmpty
<1> HIDE DEF Goal
<1>15. ASSUME sec'.table \subseteq sec.table \/ sec'.table = {} \/ age_replay_floors
       PROVE  Goal
  BY <1>15 DEF Goal
<1>16. Goal
  BY <1>3, <1>4, <1>5, <1>6, <1>7, <1>8, <1>9, <1>10, <1>11, <1>12, <1>13, <1>14, <1>15
     DEF Next
<1> QED BY <1>16 DEF Goal

\* What is recorded is one of the states commit_replay_floor may leave, but for
\* the fence.
LEMMA RecordsCommit ==
    ASSUME sec \in SecurityType, NEW s \in Sources, NEW k \in Keys, NEW c \in Counters,
           NEW y, Records(s, k, c, y)
    PROVE  /\ \E r : y \in Commits(sec, s, KeySeq[k], c, r)
           /\ sec'.table = y.table /\ sec'.active = y.active /\ sec'.second = y.second
           /\ sec'.staged = y.staged
<1>1. PICK r : y \in Commits(sec, s, KeySeq[k], c, r)
  BY DEF Records
<1>2. y \in SecurityType
  BY <1>1, KeySeqType, CommitPreserves
<1>3. sec' = y \/ sec' = [y EXCEPT !.fence = FALSE]
  BY DEF Records
<1>4. /\ sec'.table = y.table /\ sec'.active = y.active /\ sec'.second = y.second
      /\ sec'.staged = y.staged
  BY <1>2, <1>3, FenceFields
<1> QED BY <1>1, <1>4

\* Every step keeps the table within its capacity.
LEMMA NextSize ==
    ASSUME Inv, ReplayInv, TableInv, SizeInv, [Next]_vars PROVE SizeInv'
<1>1. sec \in SecurityType
  BY ReplayFacts
<1>2. Cardinality(sec.table) \in Nat /\ MAX_FRAME_COUNTER_ENTRIES \in Nat
  BY FS_CardinalityType, Capacity DEF SizeInv
<1>3. router' = router => MAX_FRAME_COUNTER_ENTRIES' = MAX_FRAME_COUNTER_ENTRIES
  BY DEF MAX_FRAME_COUNTER_ENTRIES
<1>4. CASE UNCHANGED vars
  BY <1>4 DEF vars, SizeInv, MAX_FRAME_COUNTER_ENTRIES
<1>5. CASE Next
  <2>1. router' = router
    BY <1>5 DEF Next
  <2>2. CASE sec'.table \subseteq sec.table
    <3>1. IsFiniteSet(sec'.table) /\ Cardinality(sec'.table) <= Cardinality(sec.table)
          /\ Cardinality(sec'.table) \in Nat
      BY <2>2, SubsetSize DEF SizeInv
    <3>2. Cardinality(sec'.table) <= MAX_FRAME_COUNTER_ENTRIES
      BY <1>2, <3>1 DEF SizeInv
    <3> QED BY <1>3, <2>1, <3>1, <3>2 DEF SizeInv
  <2>3. ASSUME NEW s \in Sources, NEW k \in Keys, NEW c \in Counters, NEW y,
               Records(s, k, c, y)
        PROVE  SizeInv'
    <3>1. PICK r : y \in Commits(sec, s, KeySeq[k], c, r) /\ sec'.table = y.table
      BY <1>1, <2>3, RecordsCommit
    <3>2. IsFiniteSet(y.table) /\ Cardinality(y.table) <= MAX_FRAME_COUNTER_ENTRIES
      BY <1>1, <3>1, KeySeqType, CommitSize DEF SizeInv
    <3> QED BY <1>3, <2>1, <3>1, <3>2 DEF SizeInv
  <2>4. CASE age_replay_floors
    <3>1. PICK f \in [sec.table -> sec'.table] : sec'.table = {f[e] : e \in sec.table}
      BY <1>1, <2>4, AgedTable
    <3>2. IsFiniteSet(sec'.table) /\ Cardinality(sec'.table) <= Cardinality(sec.table)
      BY <3>1, ImageSize DEF SizeInv
    <3>3. Cardinality(sec'.table) \in Nat
      BY <3>2, FS_CardinalityType
    <3>4. Cardinality(sec'.table) <= MAX_FRAME_COUNTER_ENTRIES
      BY <1>2, <3>2, <3>3 DEF SizeInv
    <3> QED BY <1>3, <2>1, <3>2, <3>4 DEF SizeInv
  <2> QED BY <1>5, <2>2, <2>3, <2>4, TableChange
<1> QED BY <1>4, <1>5

-----------------------------------------------------------------------------
(* A handled frame gets its floor *)

\* Recordable, of given neighbours: those protected and the parent looked up.
CanRecord(kin, up, x, s, q) ==
    \/ Has(x, s, q)
    \/ IF router
       THEN /\ ~SealedAgainst(x, q)
            /\ Free(x) > 0 \/ Reclaimable(x, q) # {} \/ Stale(x, q, kin) # {}
       ELSE leaf_admits_new_domain(x, s, q, up)

LEMMA RecordableNow ==
    ASSUME NEW x, NEW s, NEW q
    PROVE  Recordable(x, s, q, NoNode) <=> CanRecord(Kin, lookedUp, x, s, q)
<1>1. CASE router
  <2>1. Victims(x, s, q) # {} <=> Reclaimable(x, q) # {} \/ Stale(x, q, Kin) # {}
    BY <1>1 DEF Victims
  <2> QED BY <1>1, <2>1 DEF Recordable, CanRecord
<1>2. CASE ~router
  BY <1>2 DEF Recordable, CanRecord, ReservingParent
<1> QED BY <1>1, <1>2

\* The same of the next state.
LEMMA RecordableNext ==
    ASSUME NEW s, NEW q, router' = router, CanRecord(Kin', lookedUp', sec', s, q)
    PROVE  Recordable(sec, s, q, NoNode)'
<1>1. /\ Has(sec, s, q)' <=> Has(sec', s, q)
      /\ SealedAgainst(sec, q)' <=> SealedAgainst(sec', q)
      /\ Free(sec)' = Free(sec')
      /\ Reclaimable(sec, q)' = Reclaimable(sec', q)
      /\ Stale(sec, q, Kin)' = Stale(sec', q, Kin')
  BY DEF Has, SealedAgainst, PreviousSeq, Free, MAX_FRAME_COUNTER_ENTRIES, Reclaimable,
         Stale, Kin
<1>2. CASE router
  <2>1. Victims(sec, s, q)' # {} <=>
            Reclaimable(sec, q)' # {} \/ Stale(sec, q, Kin)' # {}
    BY <1>2 DEF Victims
  <2> QED BY <1>1, <1>2, <2>1 DEF Recordable, CanRecord
<1>3. CASE ~router
  <2>1. leaf_admits_new_domain(sec', s, q, lookedUp') <=>
            leaf_admits_new_domain(sec, s, q, lookedUp)'
    BY <1>1 DEF leaf_admits_new_domain, Has
  <2> QED BY <1>1, <1>3, <2>1 DEF Recordable, CanRecord, ReservingParent
<1> QED BY <1>2, <1>3

\* Admission reserved room.
LEMMA AdmittedCanRecord ==
    ASSUME sec \in SecurityType, NeighborsOK, SizeInv,
           NEW s \in Sources, NEW q \in Seqs, NEW c, Fresh(sec, s, q, c, NoNode)
    PROVE  CanRecord(Kin, lookedUp, sec, s, q)
<1>1. CASE Has(sec, s, q)
  BY <1>1 DEF CanRecord
<1>2. CASE ~Has(sec, s, q) /\ ~router
  BY <1>2 DEF Fresh, AdmitsNewDomain, ReservingParent, CanRecord
<1>3. CASE ~Has(sec, s, q) /\ router
  <2> DEFINE n == replay_slots_reserved_for(sec, s, q)
  <2>1. ~SealedAgainst(sec, q) /\ Room(sec, q, Kin) > n
    BY <1>3 DEF Fresh, AdmitsNewDomain
  <2>2. n \in Nat
    <3>1. IsFiniteSet({p \in Kin : ~Has(sec, p, q)})
      BY SecurityAssumption, FS_Subset DEF NeighborsOK, Kin
    <3> QED BY <3>1, FS_CardinalityType DEF replay_slots_reserved_for
  <2>3. ASSUME Reclaimable(sec, q) = {}, Stale(sec, q, Kin) = {}
        PROVE  Free(sec) > 0
    <3>1. Cardinality(Reclaimable(sec, q)) = 0 /\ Cardinality(Stale(sec, q, Kin)) = 0
      BY <2>3, FS_EmptySet
    <3>2. Free(sec) + 0 + 0 > n
      BY <2>1, <3>1 DEF Room
    <3>3. Free(sec) \in Int
      BY FS_CardinalityType, Capacity DEF SizeInv, Free
    <3> HIDE DEF n
    <3> QED BY <2>2, <3>2, <3>3
  <2> QED BY <1>3, <2>1, <2>3 DEF CanRecord
<1> QED BY <1>1, <1>2, <1>3

\* A staged key has no room to reclaim and is not sealed.
LEMMA StagedNoRoom ==
    ASSUME NEW x \in SecurityType, x.second # NoKey, x.staged = KeySeq[x.second],
           NEW q \in Seqs
    PROVE  Reclaimable(x, q) = {} /\ ~SealedAgainst(x, q)
<1>1. PreviousSeq(x) = NoSeq
  BY DEF PreviousSeq
<1>2. \A e \in x.table : e.seq # NoSeq
  BY Fields, Names
<1> QED BY <1>1, <1>2, Names DEF Reclaimable, SealedAgainst

\* Whether an end device records a floor depends on its table only.
LEMMA LeafSameTable ==
    ASSUME NEW x, NEW y, y.table = x.table, NEW s, NEW q, NEW up,
           leaf_admits_new_domain(x, s, q, up)
    PROVE  leaf_admits_new_domain(y, s, q, up)
<1>1. Free(y) = Free(x) /\ (Has(y, up, q) <=> Has(x, up, q))
  BY DEF Free, Has
<1> QED BY <1>1 DEF leaf_admits_new_domain

\* With the same table, no seal, and no lost reclaimable floor, the floor can
\* still be recorded: a stale one stays stale or becomes reclaimable.
LEMMA SameTableRecord ==
    ASSUME NEW x, NEW y, NEW s, NEW q, NEW kin, NEW kin2, NEW up,
           CanRecord(kin, up, x, s, q), y.table = x.table, kin2 \subseteq kin,
           ~SealedAgainst(x, q) => ~SealedAgainst(y, q),
           Reclaimable(x, q) \subseteq Reclaimable(y, q)
    PROVE  CanRecord(kin2, up, y, s, q)
<1>1. Has(x, s, q) => Has(y, s, q)
  BY DEF Has
<1>2. Free(y) = Free(x)
  BY DEF Free
<1>3. Stale(x, q, kin) \subseteq Stale(y, q, kin2) \cup Reclaimable(y, q)
  BY DEF Stale
<1> QED BY <1>1, <1>2, <1>3, LeafSameTable DEF CanRecord

\* Switching keys between admission and commit.
LEMMA SwapRecord ==
    ASSUME NEW x \in SecurityType, x.second # NoKey, x.staged = KeySeq[x.second],
           NEW s, NEW q \in Seqs, NEW kin, NEW up, CanRecord(kin, up, x, s, q)
    PROVE  CanRecord(kin, up, Swapped(x), s, q)
<1> DEFINE y == Swapped(x)
<1>1. y.table = x.table /\ ~y.sealed
  BY SwapFields
<1> HIDE DEF y
<1>2. Reclaimable(x, q) \subseteq Reclaimable(y, q) /\ ~SealedAgainst(y, q)
  BY <1>1, StagedNoRoom DEF SealedAgainst
<1>3. CanRecord(kin, up, y, s, q)
  BY <1>1, <1>2, SameTableRecord
<1> QED BY <1>3 DEF y

LEMMA FenceRecord ==
    ASSUME NEW x \in SecurityType, NEW b \in BOOLEAN,
           NEW s, NEW q, NEW kin, NEW up, CanRecord(kin, up, x, s, q)
    PROVE  CanRecord(kin, up, [x EXCEPT !.fence = b], s, q)
<1> DEFINE y == [x EXCEPT !.fence = b]
<1>1. /\ y.table = x.table /\ y.sealed = x.sealed
      /\ y.second = x.second /\ y.staged = x.staged
  BY FenceFields
<1> HIDE DEF y
<1>2. Reclaimable(x, q) \subseteq Reclaimable(y, q) /\ (SealedAgainst(y, q) <=> SealedAgainst(x, q))
  BY <1>1 DEF Reclaimable, PreviousSeq, SealedAgainst
<1>3. CanRecord(kin, up, y, s, q)
  BY <1>1, <1>2, SameTableRecord
<1> QED BY <1>3 DEF y

\* A Transport-Key stages the key that is already in the other slot, which has
\* no floors.
LEMMA RestageRecord ==
    ASSUME NEW x \in SecurityType, NEW k \in Keys, x.second = k,
           \A e \in x.table : e.seq # KeySeq[k],
           NEW s, NEW q \in Seqs, NEW kin, NEW up, CanRecord(kin, up, x, s, q)
    PROVE  CanRecord(kin, up, [x EXCEPT !.staged = KeySeq[k]], s, q)
<1> DEFINE y == [x EXCEPT !.staged = KeySeq[k]]
<1>1. y \in SecurityType /\ y.table = x.table /\ y.second = k /\ y.staged = KeySeq[k]
  BY KeySeqType, StagedFields
<1> HIDE DEF y
<1>2. y.second # NoKey
  BY <1>1, Names
<1>3. ~SealedAgainst(y, q)
  BY <1>1, <1>2, StagedNoRoom
<1>4. Reclaimable(x, q) = {}
  <2>1. PreviousSeq(x) \in {NoSeq, KeySeq[k]}
    BY DEF PreviousSeq
  <2>2. \A e \in x.table : e.seq # NoSeq
    BY Fields, Names
  <2> QED BY <2>1, <2>2 DEF Reclaimable
<1>5. CanRecord(kin, up, y, s, q)
  BY <1>1, <1>3, <1>4, SameTableRecord
<1> QED BY <1>5 DEF y

\* A table that lost a floor, but none of the sender or under q, has room.
LEMMA SmallerTableRecord ==
    ASSUME NEW x, NEW y, NEW s, NEW q, NEW kin, NEW kin2, NEW up,
           CanRecord(kin, up, x, s, q),
           IsFiniteSet(x.table), Cardinality(x.table) <= MAX_FRAME_COUNTER_ENTRIES,
           y.table \subseteq x.table, y.table # x.table,
           Has(x, s, q) => Has(y, s, q),
           ~router => (Has(x, up, q) => Has(y, up, q)),
           ~SealedAgainst(x, q) => ~SealedAgainst(y, q)
    PROVE  CanRecord(kin2, up, y, s, q)
<1>1. /\ Cardinality(y.table) \in Nat /\ Cardinality(x.table) \in Nat
      /\ Cardinality(y.table) < Cardinality(x.table)
      /\ MAX_FRAME_COUNTER_ENTRIES \in Nat
  BY SubsetSize, Capacity
<1>2. /\ Free(y) \in Int /\ Free(x) \in Int /\ Free(y) > 0 /\ Free(y) > Free(x)
  BY <1>1 DEF Free
<1>3. CASE router
  BY <1>2, <1>3 DEF CanRecord
<1>4. CASE ~router /\ ~Has(x, s, q)
  <2>1. leaf_admits_new_domain(x, s, q, up)
    BY <1>4 DEF CanRecord
  <2>2. Has(x, up, q) => Has(y, up, q)
    BY <1>4
  <2>3. leaf_admits_new_domain(y, s, q, up)
    BY <1>2, <2>1, <2>2 DEF leaf_admits_new_domain
  <2> QED BY <1>4, <2>3 DEF CanRecord
<1> QED BY <1>3, <1>4 DEF CanRecord

\* A Transport-Key overwrites the other slot: a frame under the active key still
\* gets its floor, for either floors are dropped or they were none to reclaim.
LEMMA PutSecondRecord ==
    ASSUME NEW x \in SecurityType, NEW k \in Keys, x.active \in Keys,
           KeySeq[k] # KeySeq[x.active],
           IsFiniteSet(x.table), Cardinality(x.table) <= MAX_FRAME_COUNTER_ENTRIES,
           NEW s, NEW kin, NEW up, CanRecord(kin, up, x, s, KeySeq[x.active])
    PROVE  CanRecord(kin, up, PutSecond(x, k, KeySeq[k]), s, KeySeq[x.active])
<1> DEFINE y == PutSecond(x, k, KeySeq[k])
           q == KeySeq[x.active]
<1>1. /\ y \in SecurityType /\ y.second = k /\ y.staged = KeySeq[k] /\ ~y.sealed
      /\ y.table = {e \in x.table : e.seq # KeySeq[k] /\ x.active # NoKey
                                     /\ e.seq = KeySeq[x.active]}
  BY KeySeqType, PutSecondFields
<1> HIDE DEF y
<1>2. q \in Seqs /\ x.active # NoKey
  BY Names
<1>3. y.table = {e \in x.table : e.seq = q}
  BY <1>1, <1>2
<1> HIDE DEF q
<1>4. ~SealedAgainst(y, q)
  BY <1>1 DEF SealedAgainst
<1>5. CASE y.table = x.table
  <2>1. Reclaimable(x, q) = {}
    BY <1>3, <1>5 DEF Reclaimable
  <2>2. CanRecord(kin, up, y, s, q)
    BY <1>4, <1>5, <2>1, SameTableRecord DEF q
  <2> QED BY <2>2 DEF y, q
<1>6. CASE y.table # x.table
  <2>1. \A u : Has(x, u, q) => Has(y, u, q)
    BY <1>3 DEF Has
  <2>2. y.table \subseteq x.table
    BY <1>3
  <2>3. CanRecord(kin, up, x, s, q)
    BY DEF q
  <2>4. CanRecord(kin, up, y, s, q)
    BY <1>4, <1>6, <2>1, <2>2, <2>3, SmallerTableRecord
  <2> QED BY <2>4 DEF y, q
<1> QED BY <1>5, <1>6

\* A frame that is handled keeps its key; one that waits can be recorded, but for
\* the exceptions of SettledIsRecordable.
SettledInv ==
    pending # NoFrame =>
        /\ pending.waits = "LocalData" => pending.key \in Installed(sec)
        /\ pending.key \in Installed(sec) /\ ~pending.moved =>
              \/ Recordable(sec, pending.source, KeySeq[pending.key], NoNode)
              \/ pending.waits = "SecurityState" /\ StagedHasFloors

\* How the invariant is established: the frame that waits next, and its room.
LEMMA SettledNext ==
    ASSUME router' = router,
           pending' # NoFrame =>
              /\ pending'.waits = "LocalData" => pending'.key \in Installed(sec')
              /\ pending'.key \in Installed(sec') /\ ~pending'.moved =>
                    \/ CanRecord(Kin', lookedUp', sec', pending'.source, KeySeq[pending'.key])
                    \/ /\ pending'.waits = "SecurityState"
                       /\ \E e \in sec'.table : e.seq = sec'.staged
    PROVE  SettledInv'
<1> SUFFICES ASSUME pending' # NoFrame
             PROVE  /\ pending'.waits = "LocalData" => pending'.key \in Installed(sec')
                    /\ pending'.key \in Installed(sec') /\ ~pending'.moved =>
                        \/ Recordable(sec, pending.source, KeySeq[pending.key], NoNode)'
                        \/ pending'.waits = "SecurityState" /\ StagedHasFloors'
  BY DEF SettledInv, Installed
<1>1. PICK s, k : s = pending'.source /\ k = pending'.key
  OBVIOUS
<1>2. ASSUME CanRecord(Kin', lookedUp', sec', s, KeySeq[k])
      PROVE  Recordable(sec, pending.source, KeySeq[pending.key], NoNode)'
  <2>1. Recordable(sec, s, KeySeq[k], NoNode)'
    BY <1>2, RecordableNext
  <2> QED BY <1>1, <2>1 DEF Recordable, Has, SealedAgainst, PreviousSeq, Free,
                 MAX_FRAME_COUNTER_ENTRIES, Victims, Reclaimable, Stale, Kin,
                 leaf_admits_new_domain, ReservingParent
<1>3. (\E e \in sec'.table : e.seq = sec'.staged) => StagedHasFloors'
  BY DEF StagedHasFloors
<1> QED BY <1>1, <1>2, <1>3

\* A frame that starts to wait has the room it was admitted with.
LEMMA ReceiveSettled ==
    ASSUME Inv, ReplayInv, SizeInv, router' = router,
           NEW s \in Sources, NEW k \in Keys, NEW c \in Counters,
           NEW kind, NEW own, Receive(s, k, c, kind, own)
    PROVE  SettledInv'
<1> DEFINE q == KeySeq[k]
           w == [Swapped(sec) EXCEPT !.fence = TRUE]
           y == IF CanActivate(sec, q) THEN w ELSE sec
<1>1. sec \in SecurityType /\ NeighborsOK
  BY TypeParts DEF Inv
<1>2. /\ pending = NoFrame /\ k \in Installed(sec) /\ Fresh(sec, s, q, c, NoNode)
      /\ NeighborEffect(s, kind, own, y.fence)
      /\ \/ pending' = pending
         \/ /\ sec' = y
            /\ \E v : pending' = [source |-> s, key |-> k, counter |-> c,
                                  moved |-> Leaves(kind) \/ Promotes(s, kind, own, y.fence),
                                  waits |-> v]
  BY DEF Receive
<1>3. q \in Seqs
  BY KeySeqType
<1>4. CanRecord(Kin, lookedUp, sec, s, q)
  BY <1>1, <1>2, <1>3, AdmittedCanRecord
<1>5. Installed(y) = Installed(sec) /\ CanRecord(Kin, lookedUp, y, s, q)
  <2>1. CASE CanActivate(sec, q)
    <3>1. sec.second # NoKey /\ sec.staged = KeySeq[sec.second] /\ y = w
      BY <2>1 DEF CanActivate
    <3>2. w.active = sec.second /\ w.second = sec.active
      BY <1>1, SwapFields, FenceFields
    <3>3. CanRecord(Kin, lookedUp, Swapped(sec), s, q)
      BY <1>1, <1>3, <1>4, <3>1, SwapRecord
    <3>4. CanRecord(Kin, lookedUp, w, s, q)
      BY <1>1, <3>3, SwapFields, FenceRecord
    <3> HIDE DEF w, y
    <3> QED BY <3>1, <3>2, <3>4 DEF Installed
  <2>2. CASE ~CanActivate(sec, q)
    BY <1>4, <2>2
  <2> QED BY <2>1, <2>2
<1> HIDE DEF y, w, q
<1>6. CASE pending' = pending
  BY <1>2, <1>6, SettledNext
<1>7. ASSUME sec' = y, NEW v,
             pending' = [source |-> s, key |-> k, counter |-> c,
                         moved |-> Leaves(kind) \/ Promotes(s, kind, own, y.fence),
                         waits |-> v]
      PROVE  SettledInv'
  <2>1. /\ pending'.source = s /\ pending'.key = k
        /\ pending'.moved <=> Leaves(kind) \/ Promotes(s, kind, own, y.fence)
    BY <1>7
  <2>2. k \in Installed(sec')
    BY <1>2, <1>5, <1>7
  <2>3. ASSUME ~pending'.moved PROVE CanRecord(Kin', lookedUp', sec', s, q)
    <3>1. ~Leaves(kind) /\ ~Promotes(s, kind, own, y.fence)
      BY <2>1, <2>3
    <3>2. parents' = parents /\ children' = children /\ lookedUp' = lookedUp
      BY <1>2, <3>1 DEF NeighborEffect
    <3>3. Kin' = Kin
      BY <3>2 DEF Kin
    <3> QED BY <1>5, <1>7, <3>2, <3>3
  <2> QED BY <2>1, <2>2, <2>3, SettledNext DEF q
<1> QED BY <1>2, <1>6, <1>7

\* Key commands handled by the frame that waits.
LEMMA HandledSettled ==
    ASSUME Inv, ReplayInv, SizeInv, SettledInv, router' = router,
           \/ \E k \in Keys : TransportKey(k)
           \/ \E n \in Seqs : SwitchKey(n)
    PROVE  SettledInv'
<1>1. /\ sec \in SecurityType /\ DistinctSeqs(sec)
      /\ IsFiniteSet(sec.table) /\ Cardinality(sec.table) <= MAX_FRAME_COUNTER_ENTRIES
  BY ReplayFacts DEF SizeInv
<1>2. /\ pending # NoFrame /\ pending.waits = "LocalData"
      /\ pending' = [pending EXCEPT !.waits = "SecurityState"]
      /\ parents' = parents /\ children' = children /\ lookedUp' = lookedUp
  BY DEF TransportKey, SwitchKey, Handling, Handled, neighbors
<1>3. pending \in FrameType
  BY <1>2, ReplayFacts
<1>4. PICK s \in Sources, i \in Keys : s = pending.source /\ i = pending.key
  BY <1>3 DEF FrameType
<1>5. /\ pending'.source = s /\ pending'.key = i /\ pending'.moved = pending.moved
      /\ pending'.waits = "SecurityState"
  BY <1>2, <1>3, <1>4 DEF FrameType
<1>6. Kin' = Kin
  BY <1>2 DEF Kin
<1> DEFINE q == KeySeq[i]
<1>7. q \in Seqs
  BY KeySeqType
<1>8. /\ i \in Installed(sec)
      /\ ~pending.moved => CanRecord(Kin, lookedUp, sec, s, q)
  BY <1>2, <1>4, RecordableNow DEF SettledInv
<1> HIDE DEF q
<1>9. ASSUME \/ ~pending.moved /\ i \in Installed(sec') =>
                    CanRecord(Kin, lookedUp, sec', s, q)
             \/ \E e \in sec'.table : e.seq = sec'.staged
      PROVE  SettledInv'
  BY <1>2, <1>5, <1>6, <1>9, SettledNext DEF q
<1>10. CASE pending.moved \/ sec' = sec
  BY <1>8, <1>9, <1>10
<1>11. ASSUME NEW k \in Keys, TransportKey(k), ~pending.moved PROVE SettledInv'
  <2>1. sec' = stage_network_key(sec, k) /\ sec.active # NoKey /\ sec.active \in Keys
    BY <1>1, <1>11, Fields DEF TransportKey
  <2>2. CASE sec.second = k /\ sec' = [sec EXCEPT !.staged = KeySeq[k]]
    <3>1. sec'.table = sec.table /\ sec'.staged = KeySeq[k]
      BY <1>1, <2>2, KeySeqType, StagedFields
    <3>2. CASE \A e \in sec.table : e.seq # KeySeq[k]
      <4>1. CanRecord(Kin, lookedUp, sec', s, q)
        BY <1>1, <1>7, <1>8, <1>11, <2>2, <3>2, RestageRecord
      <4> QED BY <1>9, <4>1
    <3>3. CASE ~\A e \in sec.table : e.seq # KeySeq[k]
      BY <1>9, <3>1, <3>3
    <3> QED BY <3>2, <3>3
  <2>3. CASE /\ KeySeq[k] # KeySeq[sec.active] /\ sec.second # k
             /\ sec' = PutSecond(sec, k, KeySeq[k])
    <3>1. ASSUME i \in Installed(sec') PROVE i = sec.active
      <4>1. sec'.active = sec.active /\ sec'.second = k
        BY <1>1, <2>3, KeySeqType, PutSecondFields
      <4> QED BY <1>8, <2>3, <3>1, <4>1 DEF Installed
    <3>2. ASSUME i \in Installed(sec') PROVE CanRecord(Kin, lookedUp, sec', s, q)
      <4>1. i = sec.active /\ CanRecord(Kin, lookedUp, sec, s, KeySeq[sec.active])
        BY <1>8, <1>11, <3>1, <3>2 DEF q
      <4>2. CanRecord(Kin, lookedUp, sec', s, KeySeq[sec.active])
        BY <1>1, <2>1, <2>3, <4>1, PutSecondRecord
      <4> QED BY <4>1, <4>2 DEF q
    <3> QED BY <1>9, <3>2
  <2> QED BY <1>1, <1>10, <2>1, <2>2, <2>3, StageCases
<1>12. ASSUME NEW n \in Seqs, SwitchKey(n), ~pending.moved PROVE SettledInv'
  <2>1. CASE CanActivate(sec, n)
    <3>1. sec' = Swapped(sec) /\ sec.second # NoKey /\ sec.staged = KeySeq[sec.second]
      BY <1>12, <2>1 DEF SwitchKey, activate_network_key, CanActivate
    <3>2. CanRecord(Kin, lookedUp, sec', s, q)
      BY <1>1, <1>7, <1>8, <1>12, <3>1, SwapRecord
    <3> QED BY <1>9, <3>2
  <2>2. CASE ~CanActivate(sec, n)
    BY <1>10, <1>12, <2>2 DEF SwitchKey, activate_network_key
  <2> QED BY <2>1, <2>2
<1> QED BY <1>10, <1>11, <1>12

\* A child is evicted while the frame that says so waits for the child journal.
LEMMA EvictSettled ==
    ASSUME Inv, ReplayInv, SizeInv, NeighborInv, SettledInv, router' = router,
           NEW u \in Sources, evict_child(u)
    PROVE  SettledInv'
<1>1. /\ sec \in SecurityType
      /\ IsFiniteSet(sec.table) /\ Cardinality(sec.table) <= MAX_FRAME_COUNTER_ENTRIES
      /\ pending # NoFrame => pending \in FrameType
  BY ReplayFacts DEF SizeInv
<1>2. /\ pending' = pending /\ parents' = parents /\ lookedUp' = lookedUp
      /\ children' = children \ {u}
      /\ sec' = [sec EXCEPT !.table = {e \in @ : e.source # u}]
      /\ u \in children \cup joining
      /\ pending # NoFrame => pending.waits = "ChildSaved" /\ u # pending.source
  BY DEF evict_child, ForgetFloors
<1>3. router
  BY <1>2 DEF NeighborInv
<1>4. Kin' \subseteq Kin
  BY <1>2 DEF Kin
<1>5. /\ sec'.active = sec.active /\ sec'.second = sec.second /\ sec'.staged = sec.staged
      /\ sec'.sealed = sec.sealed /\ sec'.table = {e \in sec.table : e.source # u}
  BY <1>1, <1>2, TableFields
<1>6. Installed(sec') = Installed(sec) /\ PreviousSeq(sec') = PreviousSeq(sec)
  BY <1>5 DEF Installed, PreviousSeq
<1>7. ASSUME NEW s \in Sources, NEW q, s # u, CanRecord(Kin, lookedUp, sec, s, q)
      PROVE  CanRecord(Kin', lookedUp', sec', s, q)
  <2>1. SealedAgainst(sec', q) <=> SealedAgainst(sec, q)
    BY <1>5, <1>6 DEF SealedAgainst
  <2>2. CASE sec'.table = sec.table
    <3>1. Reclaimable(sec, q) \subseteq Reclaimable(sec', q)
      BY <1>6, <2>2 DEF Reclaimable
    <3>2. CanRecord(Kin', lookedUp, sec', s, q)
      BY <1>4, <1>7, <2>1, <2>2, <3>1, SameTableRecord
    <3> QED BY <1>2, <3>2
  <2>3. CASE sec'.table # sec.table
    <3>1. sec'.table \subseteq sec.table
      BY <1>5
    <3>2. Has(sec, s, q) => Has(sec', s, q)
      BY <1>5, <1>7 DEF Has
    <3>3. CanRecord(Kin', lookedUp, sec', s, q)
      BY <1>1, <1>3, <1>7, <2>1, <2>3, <3>1, <3>2, SmallerTableRecord
    <3> QED BY <1>2, <3>3
  <2> QED BY <2>2, <2>3
<1>8. ASSUME pending # NoFrame, pending.key \in Installed(sec), ~pending.moved
      PROVE  CanRecord(Kin', lookedUp', sec', pending.source, KeySeq[pending.key])
  <2>1. pending.source \in Sources
    BY <1>1, <1>8 DEF FrameType
  <2>2. CanRecord(Kin, lookedUp, sec, pending.source, KeySeq[pending.key])
    BY <1>2, <1>8, RecordableNow DEF SettledInv
  <2> QED BY <1>2, <1>7, <1>8, <2>1, <2>2
<1> QED BY <1>2, <1>6, <1>8, SettledNext

\* Every step keeps room for the frame that waits.
LEMMA NextSettled ==
    ASSUME Inv, ReplayInv, SizeInv, NeighborInv, SettledInv, [Next]_vars
    PROVE  SettledInv'
<1>1. /\ sec \in SecurityType /\ KeyInv /\ (pending # NoFrame => pending \in FrameType)
  BY ReplayFacts DEF Inv
<1>2. ASSUME router' = router, pending' = NoFrame PROVE SettledInv'
  BY <1>2, SettledNext
<1>3. CASE UNCHANGED vars
  BY <1>3 DEF vars, SettledInv, Recordable, Has, SealedAgainst, PreviousSeq, Free,
              MAX_FRAME_COUNTER_ENTRIES, Victims, Reclaimable, Stale, Kin,
              leaf_admits_new_domain, ReservingParent, StagedHasFloors, Installed
<1>4. CASE Next
  <2>1. router' = router
    BY <1>4 DEF Next
  <2>2. ASSUME \/ Commission \/ PersistFails \/ PersistChild \/ TcRejoinFails
               \/ \E p \in Sources, k \in Keys : Join(p, k)
               \/ \E k \in Keys : TcKeyStored(k) \/ TcKeyNotStored(k)
               \/ \E p \in Sources, k \in Keys, c \in Counters, accepted \in BOOLEAN :
                      SecureRejoin(p, k, c, accepted)
               \/ \E s \in Sources : TcRejoin(s) \/ AdmitChild(s) \/ age_router_child(s)
               \/ age_replay_floors \/ Reboot \/ \E rejoin \in BOOLEAN : Leave(rejoin)
        PROVE  pending' = NoFrame
    <3>1. CASE \/ Commission \/ PersistFails \/ PersistChild \/ TcRejoinFails
               \/ age_replay_floors \/ Reboot \/ \E rejoin \in BOOLEAN : Leave(rejoin)
      BY <3>1 DEF Commission, PersistFails, PersistChild, Complete, TcRejoinFails,
                  age_replay_floors, Reboot, Leave
    <3>2. CASE \/ \E p \in Sources, k \in Keys : Join(p, k)
               \/ \E k \in Keys : TcKeyStored(k) \/ TcKeyNotStored(k)
      BY <1>1, <3>2 DEF Join, TcKeyStored, TcKeyNotStored, KeyInv
    <3>3. CASE \/ \E p \in Sources, k \in Keys, c \in Counters, accepted \in BOOLEAN :
                      SecureRejoin(p, k, c, accepted)
               \/ \E s \in Sources : TcRejoin(s) \/ AdmitChild(s) \/ age_router_child(s)
      BY <3>3 DEF SecureRejoin, TcRejoin, AdmitChild, age_router_child, ForgetFloors
    <3> QED BY <2>2, <3>1, <3>2, <3>3
  <2>3. ASSUME Persist PROVE SettledInv'
    <3>1. CASE pending.waits # "ChildState"
      BY <1>2, <2>1, <2>3, <3>1 DEF Persist, Complete
    <3>2. CASE pending.waits = "ChildState"
      <4>1. /\ pending # NoFrame /\ sec' = sec
            /\ pending' = [pending EXCEPT !.waits = "ChildSaved"]
            /\ parents' = parents /\ children' = children /\ lookedUp' = lookedUp
        BY <2>3, <3>2 DEF Persist, neighbors
      <4>2. /\ pending'.source = pending.source /\ pending'.key = pending.key
            /\ pending'.moved = pending.moved /\ pending'.waits = "ChildSaved"
        BY <1>1, <4>1 DEF FrameType
      <4>3. Kin' = Kin
        BY <4>1 DEF Kin
      <4>4. pending.key \in Installed(sec) /\ ~pending.moved =>
              CanRecord(Kin, lookedUp, sec, pending.source, KeySeq[pending.key])
        BY <3>2, <4>1, RecordableNow DEF SettledInv
      <4> QED BY <2>1, <4>1, <4>2, <4>3, <4>4, SettledNext
    <3> QED BY <3>1, <3>2
  <2> QED BY <1>2, <1>4, <2>1, <2>2, <2>3, ReceiveSettled, HandledSettled, EvictSettled DEF Next
<1> QED BY <1>3, <1>4

LEMMA InitSettled == Init => SizeInv /\ SettledInv
<1> SUFFICES ASSUME Init PROVE SizeInv /\ SettledInv
  OBVIOUS
<1>1. sec.table = {} /\ pending = NoFrame
  BY DEF Init, NewSecurity
<1> QED BY <1>1, FS_EmptySet, Capacity DEF SizeInv, SettledInv

\* "Admission already reserved room for a new domain" (commit_replay_floor): a
\* frame that was admitted and handled gets its floor, whatever key commands it
\* carried, whatever keys were switched and whichever children were evicted
\* before the store answered.
THEOREM HandledFrameRecorded == Spec => []SettledIsRecordable
<1> DEFINE J == Inv /\ ReplayInv /\ TableInv /\ NeighborInv /\ SizeInv /\ SettledInv
<1>1. J /\ [Next]_vars => J'
  BY NextInv, NextReplay, NextTable, NextNeighbor, NextSize, NextSettled
<1>2. J => SettledIsRecordable
  BY DEF SettledInv, SettledIsRecordable
<1>3. Init => J
  BY InitInv, InitReplay, InitTable, InitSettled
<1> HIDE DEF J
<1> QED BY <1>1, <1>2, <1>3, PTL DEF Spec
-----------------------------------------------------------------------------
(* Room for parents and children *)

\* The floors that a router would not give up to a newcomer under q.
Kept(x, q, kin) == x.table \ (Reclaimable(x, q) \cup Stale(x, q, kin))

\* The slots spoken for: by those floors, and by every parent and child.
Claimed(x, q, kin) == {<<e.source, e.seq>> : e \in Kept(x, q, kin)} \cup (kin \X {q})

\* A parent or child keeps the floor it has under q.
LEMMA KinKept ==
    ASSUME NEW x, NEW q, NEW kin, NEW e \in x.table, e.source \in kin, e.seq = q
    PROVE  e \in Kept(x, q, kin)
BY DEF Kept, Reclaimable, Stale

\* Room beyond the reservations is what is left of the capacity.
LEMMA RoomClaimed ==
    ASSUME NEW x, NEW q, NEW kin, IsFiniteSet(x.table), OneFloor(x), IsFiniteSet(kin)
    PROVE  LET n == Cardinality({p \in kin : ~Has(x, p, q)})
           IN  /\ IsFiniteSet(Claimed(x, q, kin)) /\ n \in Nat /\ Room(x, q, kin) \in Int
               /\ Room(x, q, kin) - n =
                     MAX_FRAME_COUNTER_ENTRIES - Cardinality(Claimed(x, q, kin))
<1> DEFINE R == Reclaimable(x, q)
           S == Stale(x, q, kin)
           K == Kept(x, q, kin)
           L == {p \in kin : ~Has(x, p, q)}
           A == {<<e.source, e.seq>> : e \in K}
           B == L \X {q}
<1>1. /\ R \subseteq x.table /\ S \subseteq x.table /\ K \subseteq x.table
      /\ R \cap S = {} /\ (R \cup S) \cap K = {} /\ x.table = (R \cup S) \cup K
  BY DEF Kept, Reclaimable, Stale
<1>2. L \subseteq kin
  OBVIOUS
<1>3. Claimed(x, q, kin) = A \cup B
  <2>1. \A p \in kin \ L : <<p, q>> \in A
    <3>1. ASSUME NEW p \in kin \ L PROVE <<p, q>> \in A
      <4>1. PICK e \in x.table : e.source = p /\ e.seq = q
        BY DEF Has
      <4>2. e \in K
        BY <4>1, KinKept
      <4> HIDE DEF K
      <4> QED BY <4>1, <4>2
    <3> QED BY <3>1
  <2>2. kin \X {q} \subseteq A \cup B
    <3> HIDE DEF A, L
    <3> QED BY <2>1
  <2>3. B \subseteq kin \X {q}
    OBVIOUS
  <2>4. Claimed(x, q, kin) = A \cup (kin \X {q})
    BY DEF Claimed
  <2> HIDE DEF A, B
  <2> QED BY <2>2, <2>3, <2>4
<1>4. A \cap B = {}
  <2>1. ASSUME NEW e \in K, <<e.source, e.seq>> \in B PROVE FALSE
    <3>1. e.seq = q /\ e.source \in L
      BY <2>1
    <3>2. e \in x.table
      BY <1>1
    <3> QED BY <3>1, <3>2 DEF Has
  <2> HIDE DEF K, B
  <2> QED BY <2>1
<1>5. IsFiniteSet(A) /\ Cardinality(A) = Cardinality(K)
  <2> DEFINE f == [e \in K |-> <<e.source, e.seq>>]
  <2>1. IsFiniteSet(K)
    BY <1>1, FS_Subset
  <2>2. f \in Injection(K, A)
    <3>1. \A e, d \in K : e.source = d.source /\ e.seq = d.seq => e = d
      BY <1>1 DEF OneFloor
    <3> HIDE DEF K
    <3> QED BY <3>1 DEF Injection, IsInjective
  <2>3. f \in Surjection(K, A)
    <3> HIDE DEF K
    <3> QED BY DEF Surjection
  <2> HIDE DEF f, K, A
  <2> QED BY <2>1, <2>2, <2>3, FS_Surjection
<1>6. IsFiniteSet(B) /\ Cardinality(B) = Cardinality(L)
  <2> DEFINE g == [p \in L |-> <<p, q>>]
  <2>1. IsFiniteSet(L)
    BY <1>2, FS_Subset
  <2> HIDE DEF L
  <2>2. g \in Injection(L, B)
    BY DEF Injection, IsInjective
  <2>3. g \in Surjection(L, B)
    BY DEF Surjection
  <2> HIDE DEF g, B
  <2> QED BY <2>1, <2>2, <2>3, FS_Surjection
<1>7. /\ IsFiniteSet(R) /\ IsFiniteSet(S) /\ IsFiniteSet(K) /\ IsFiniteSet(L)
      /\ Room(x, q, kin) = MAX_FRAME_COUNTER_ENTRIES - Cardinality(x.table)
                           + Cardinality(R) + Cardinality(S)
      /\ Claimed(x, q, kin) = A \cup B
  BY <1>1, <1>2, <1>3, FS_Subset DEF Room, Free
<1> HIDE DEF R, S, K, L, A, B
<1>8. Cardinality(R \cup S) = Cardinality(R) + Cardinality(S) /\ IsFiniteSet(R \cup S)
  <2>1. Cardinality(R \cap S) = 0
    BY <1>1, FS_EmptySet
  <2>2. /\ IsFiniteSet(R \cup S)
        /\ Cardinality(R \cup S) = Cardinality(R) + Cardinality(S) - Cardinality(R \cap S)
    BY <1>7, FS_Union
  <2>3. Cardinality(R) \in Nat /\ Cardinality(S) \in Nat
    BY <1>7, FS_CardinalityType
  <2> QED BY <2>1, <2>2, <2>3
<1>9. Cardinality(x.table) = Cardinality(R) + Cardinality(S) + Cardinality(K)
  <2> DEFINE T == R \cup S
  <2>1. IsFiniteSet(T) /\ T \cap K = {} /\ x.table = T \cup K
    BY <1>1, <1>8
  <2>2. Cardinality(T) = Cardinality(R) + Cardinality(S)
    BY <1>8
  <2> HIDE DEF T
  <2>3. Cardinality(T \cap K) = 0
    BY <2>1, FS_EmptySet
  <2>4. Cardinality(T \cup K) = Cardinality(T) + Cardinality(K) - Cardinality(T \cap K)
    BY <1>7, <2>1, FS_Union
  <2>5. Cardinality(R) \in Nat /\ Cardinality(S) \in Nat /\ Cardinality(K) \in Nat
    BY <1>7, FS_CardinalityType
  <2> QED BY <2>1, <2>2, <2>3, <2>4, <2>5
<1>10. /\ IsFiniteSet(A \cup B)
       /\ Cardinality(A \cup B) = Cardinality(K) + Cardinality(L)
  <2>1. Cardinality(A \cap B) = 0
    BY <1>4, FS_EmptySet
  <2>2. /\ IsFiniteSet(A \cup B)
        /\ Cardinality(A \cup B) = Cardinality(A) + Cardinality(B) - Cardinality(A \cap B)
    BY <1>5, <1>6, FS_Union
  <2>3. Cardinality(A) \in Nat /\ Cardinality(B) \in Nat
    BY <1>5, <1>6, FS_CardinalityType
  <2> QED BY <1>5, <1>6, <2>1, <2>2, <2>3
<1>11. /\ Cardinality(R) \in Nat /\ Cardinality(S) \in Nat /\ Cardinality(K) \in Nat
       /\ Cardinality(L) \in Nat /\ MAX_FRAME_COUNTER_ENTRIES \in Nat
  BY <1>7, FS_CardinalityType, Capacity
<1>12. /\ IsFiniteSet(Claimed(x, q, kin)) /\ Room(x, q, kin) \in Int
       /\ Room(x, q, kin) - Cardinality(L) =
             MAX_FRAME_COUNTER_ENTRIES - Cardinality(Claimed(x, q, kin))
  BY <1>7, <1>9, <1>10, <1>11
<1> QED BY <1>11, <1>12 DEF L

\* Fewer claims leave at least the same room.
LEMMA FewerClaims ==
    ASSUME NEW x, NEW y, NEW q, NEW kin, NEW kin2,
           IsFiniteSet(x.table), OneFloor(x), IsFiniteSet(kin),
           Kept(y, q, kin2) \subseteq Kept(x, q, kin), kin2 \subseteq kin,
           Cardinality(Claimed(x, q, kin)) < MAX_FRAME_COUNTER_ENTRIES
    PROVE  Cardinality(Claimed(y, q, kin2)) < MAX_FRAME_COUNTER_ENTRIES
<1>1. Claimed(y, q, kin2) \subseteq Claimed(x, q, kin)
  BY DEF Claimed
<1>2. IsFiniteSet(Claimed(x, q, kin))
  BY RoomClaimed
<1>3. /\ Cardinality(Claimed(y, q, kin2)) \in Nat /\ Cardinality(Claimed(x, q, kin)) \in Nat
      /\ Cardinality(Claimed(y, q, kin2)) <= Cardinality(Claimed(x, q, kin))
  BY <1>1, <1>2, SubsetSize
<1> QED BY <1>3, Capacity

\* A router admits a newcomer only beyond what is claimed.
LEMMA FreshRoom ==
    ASSUME NeighborsOK, SizeInv, OneFloor(sec), router,
           NEW s \in Sources, NEW q \in Seqs, NEW c, Fresh(sec, s, q, c, NoNode),
           s \notin Kin, ~Has(sec, s, q)
    PROVE  Cardinality(Claimed(sec, q, Kin)) < MAX_FRAME_COUNTER_ENTRIES
<1> DEFINE n == Cardinality({p \in Kin : ~Has(sec, p, q)})
           r == Room(sec, q, Kin)
           m == Cardinality(Claimed(sec, q, Kin))
<1>1. IsFiniteSet(Kin)
  BY SecurityAssumption, FS_Subset DEF NeighborsOK, Kin
<1>2. r > n
  BY DEF Fresh, AdmitsNewDomain, replay_slots_reserved_for
<1>3. /\ IsFiniteSet(Claimed(sec, q, Kin)) /\ n \in Nat /\ r \in Int
      /\ r - n = MAX_FRAME_COUNTER_ENTRIES - m
  BY <1>1, RoomClaimed DEF SizeInv
<1>4. m \in Nat /\ MAX_FRAME_COUNTER_ENTRIES \in Nat
  BY <1>3, FS_CardinalityType, Capacity
<1> HIDE DEF n, r, m
<1>5. m < MAX_FRAME_COUNTER_ENTRIES
  BY <1>2, <1>3, <1>4
<1> QED BY <1>5 DEF m

\* With the same table and nothing reclaimable before, nothing more is kept.
LEMMA SameTableKept ==
    ASSUME NEW x, NEW y, NEW q, NEW kin, y.table = x.table, Reclaimable(x, q) = {}
    PROVE  Kept(y, q, kin) \subseteq Kept(x, q, kin)
BY DEF Kept, Stale

\* Floors of a staged key that were to be given up without it still are, when
\* they are stale and their senders are neither parent nor child.
StagedGivenUp(x, q, kin) == \A e \in x.table : e.seq = x.staged => e \in Stale(x, q, kin)

\* A Transport-Key stages the key in the other slot, whose floors are stale.
LEMMA RestageKept ==
    ASSUME NEW x \in SecurityType, NEW k \in Keys, x.second = k,
           NEW q \in Seqs, NEW kin,
           StagedGivenUp([x EXCEPT !.staged = KeySeq[k]], q, kin)
    PROVE  Kept([x EXCEPT !.staged = KeySeq[k]], q, kin) \subseteq Kept(x, q, kin)
<1> DEFINE y == [x EXCEPT !.staged = KeySeq[k]]
<1> SUFFICES Kept(y, q, kin) \subseteq Kept(x, q, kin)
  OBVIOUS
<1>1. y.table = x.table /\ y.staged = KeySeq[k] /\ StagedGivenUp(y, q, kin)
  BY KeySeqType, StagedFields
<1> HIDE DEF y
<1>2. \A e \in Reclaimable(x, q) : e \in x.table /\ e.seq = KeySeq[k]
  <2>1. PreviousSeq(x) \in {NoSeq, KeySeq[k]}
    BY DEF PreviousSeq
  <2>2. \A e \in x.table : e.seq # NoSeq
    BY Fields, Names
  <2> QED BY <2>1, <2>2 DEF Reclaimable
<1>3. Reclaimable(x, q) \subseteq Stale(y, q, kin)
  BY <1>1, <1>2 DEF StagedGivenUp
<1>4. Stale(x, q, kin) \subseteq Stale(y, q, kin) \cup Reclaimable(y, q)
  BY <1>1 DEF Stale
<1> QED BY <1>1, <1>3, <1>4 DEF Kept

\* A Transport-Key overwrites the other slot: of the floors, those under the
\* active key are left, and they were kept before.
LEMMA PutSecondKept ==
    ASSUME NEW x \in SecurityType, NEW k \in Keys, x.active \in Keys,
           KeySeq[k] # KeySeq[x.active], NEW kin
    PROVE  LET y == PutSecond(x, k, KeySeq[k])
               q == KeySeq[x.active]
           IN  /\ Kept(y, q, kin) \subseteq Kept(x, q, kin)
               /\ \A s : Has(x, s, q) => Has(y, s, q)
<1> DEFINE y == PutSecond(x, k, KeySeq[k])
           q == KeySeq[x.active]
<1> SUFFICES Kept(y, q, kin) \subseteq Kept(x, q, kin) /\ \A s : Has(x, s, q) => Has(y, s, q)
  OBVIOUS
<1>1. y.table = {e \in x.table : e.seq # KeySeq[k] /\ x.active # NoKey
                                 /\ e.seq = KeySeq[x.active]}
  BY KeySeqType, PutSecondFields
<1>2. x.active # NoKey
  BY Names
<1> HIDE DEF y
<1>3. y.table = {e \in x.table : e.seq = q}
  BY <1>1, <1>2
<1> HIDE DEF q
<1>4. \A e \in y.table : e \in x.table /\ e \notin Reclaimable(x, q)
  BY <1>3 DEF Reclaimable
<1>5. \A e \in y.table : e \in Stale(x, q, kin) => e \in Stale(y, q, kin) \cup Reclaimable(y, q)
  BY DEF Stale
<1>6. Kept(y, q, kin) \subseteq Kept(x, q, kin)
  BY <1>4, <1>5 DEF Kept
<1>7. \A s : Has(x, s, q) => Has(y, s, q)
  BY <1>3 DEF Has
<1> QED BY <1>6, <1>7

\* Floors of a child are dropped, and it is a child no more.
LEMMA EvictKept ==
    ASSUME NEW x, NEW y, NEW q, NEW kin, NEW kin2, kin2 \subseteq kin,
           y.table \subseteq x.table, PreviousSeq(y) = PreviousSeq(x)
    PROVE  Kept(y, q, kin2) \subseteq Kept(x, q, kin)
<1>1. \A e \in y.table : e \in x.table /\ (e \in Reclaimable(x, q) => e \in Reclaimable(y, q))
  BY DEF Reclaimable
<1>2. \A e \in y.table : e \in Stale(x, q, kin) => e \in Stale(y, q, kin2) \cup Reclaimable(y, q)
  BY DEF Stale
<1> QED BY <1>1, <1>2 DEF Kept

\* While a frame waits, whose sender is neither parent nor child and has no
\* floor yet, its floor finds a slot that nobody claims.  A frame whose key was
\* removed keeps none: a key with its number can only be the staged one.
LeavesRoom(kin, x, f) ==
    LET q == KeySeq[f.key]
    IN  /\ f.key \notin Installed(x) =>
               \A k \in Installed(x) : KeySeq[k] = q => x.staged = q
        /\ /\ f.key \in Installed(x) /\ ~f.moved
           /\ f.source \notin kin /\ ~Has(x, f.source, q)
           /\ f.waits = "SecurityState" => StagedGivenUp(x, q, kin)
           => Cardinality(Claimed(x, q, kin)) < MAX_FRAME_COUNTER_ENTRIES

RoomInv == router /\ pending # NoFrame => LeavesRoom(Kin, sec, pending)

\* The same of the next state.
LEMMA RoomNext ==
    ASSUME router' = router, router /\ pending' # NoFrame => LeavesRoom(Kin', sec', pending')
    PROVE  RoomInv'
BY DEF RoomInv, LeavesRoom, Kin, Installed, Has, StagedGivenUp, Stale, Claimed, Kept,
       Reclaimable, PreviousSeq, MAX_FRAME_COUNTER_ENTRIES

\* A step that keeps the key of the frame, its sender's floor and every claim
\* keeps the room.
LEMMA RoomKept ==
    ASSUME NEW x, NEW y, NEW kin, NEW kin2, NEW f, NEW g,
           IsFiniteSet(x.table), OneFloor(x), IsFiniteSet(kin), kin2 \subseteq kin,
           LeavesRoom(kin, x, f), f.key \in Installed(x),
           g.source = f.source, g.key = f.key, g.moved = f.moved,
           f.source \in kin => f.source \in kin2,
           f.waits # "SecurityState",
           g.key \notin Installed(y) =>
               \A k \in Installed(y) : KeySeq[k] = KeySeq[g.key] => y.staged = KeySeq[g.key],
           /\ g.key \in Installed(y)
           /\ g.waits = "SecurityState" => StagedGivenUp(y, KeySeq[g.key], kin2)
           => /\ Has(x, g.source, KeySeq[g.key]) => Has(y, g.source, KeySeq[g.key])
              /\ Kept(y, KeySeq[g.key], kin2) \subseteq Kept(x, KeySeq[g.key], kin)
    PROVE  LeavesRoom(kin2, y, g)
<1> DEFINE q == KeySeq[g.key]
<1>1. ASSUME g.key \in Installed(y), ~g.moved, g.source \notin kin2, ~Has(y, g.source, q),
             g.waits = "SecurityState" => StagedGivenUp(y, q, kin2)
      PROVE  Cardinality(Claimed(y, q, kin2)) < MAX_FRAME_COUNTER_ENTRIES
  <2>1. Kept(y, q, kin2) \subseteq Kept(x, q, kin) /\ ~Has(x, f.source, q)
    BY <1>1
  <2>2. Cardinality(Claimed(x, q, kin)) < MAX_FRAME_COUNTER_ENTRIES
    BY <1>1, <2>1 DEF LeavesRoom
  <2> HIDE DEF q
  <2> QED BY <2>1, <2>2, FewerClaims
<1> QED BY <1>1 DEF LeavesRoom

\* A frame that starts to wait was admitted beyond what is claimed; the key that
\* it activates had nothing to reclaim.
LEMMA ReceiveRoom ==
    ASSUME Inv, ReplayInv, TableInv, SizeInv, router' = router,
           NEW s \in Sources, NEW k \in Keys, NEW c \in Counters,
           NEW kind, NEW own, Receive(s, k, c, kind, own)
    PROVE  RoomInv'
<1> DEFINE q == KeySeq[k]
           w == [Swapped(sec) EXCEPT !.fence = TRUE]
           y == IF CanActivate(sec, q) THEN w ELSE sec
<1>1. /\ sec \in SecurityType /\ NeighborsOK /\ OneFloor(sec) /\ IsFiniteSet(sec.table)
  BY TypeParts DEF Inv, TableInv, SizeInv
<1>2. /\ pending = NoFrame /\ k \in Installed(sec) /\ Fresh(sec, s, q, c, NoNode)
      /\ NeighborEffect(s, kind, own, y.fence)
      /\ \/ pending' = pending
         \/ /\ sec' = y
            /\ \E v : pending' = [source |-> s, key |-> k, counter |-> c,
                                  moved |-> Leaves(kind) \/ Promotes(s, kind, own, y.fence),
                                  waits |-> v]
  BY DEF Receive
<1>3. q \in Seqs
  BY KeySeqType
<1>4. IsFiniteSet(Kin)
  BY <1>1, SecurityAssumption, FS_Subset DEF NeighborsOK, Kin
<1>5. y.table = sec.table /\ Installed(y) = Installed(sec) /\ Kept(y, q, Kin) \subseteq Kept(sec, q, Kin)
  <2>1. CASE CanActivate(sec, q)
    <3>1. sec.second # NoKey /\ sec.staged = KeySeq[sec.second] /\ y = w
      BY <2>1 DEF CanActivate
    <3>2. w.active = sec.second /\ w.second = sec.active /\ w.table = sec.table
      BY <1>1, SwapFields, FenceFields
    <3>3. Reclaimable(sec, q) = {}
      BY <1>1, <1>3, <3>1, StagedNoRoom
    <3> HIDE DEF w, y, q
    <3>4. Kept(w, q, Kin) \subseteq Kept(sec, q, Kin)
      BY <3>2, <3>3, SameTableKept
    <3> QED BY <3>1, <3>2, <3>4 DEF Installed
  <2>2. CASE ~CanActivate(sec, q)
    BY <2>2
  <2> QED BY <2>1, <2>2
<1> HIDE DEF y, w, q
<1>6. CASE pending' = pending
  BY <1>2, <1>6, RoomNext
<1>7. ASSUME router, sec' = y, NEW v,
             pending' = [source |-> s, key |-> k, counter |-> c,
                         moved |-> Leaves(kind) \/ Promotes(s, kind, own, y.fence),
                         waits |-> v]
      PROVE  LeavesRoom(Kin', sec', pending')
  <2>1. /\ pending'.source = s /\ pending'.key = k
        /\ pending'.moved <=> Leaves(kind) \/ Promotes(s, kind, own, y.fence)
    BY <1>7
  <2>2. k \in Installed(sec')
    BY <1>2, <1>5, <1>7
  <2>3. ASSUME ~pending'.moved, s \notin Kin', ~Has(sec', s, q)
        PROVE  Cardinality(Claimed(sec', q, Kin')) < MAX_FRAME_COUNTER_ENTRIES
    <3>1. ~Leaves(kind) /\ ~Promotes(s, kind, own, y.fence)
      BY <2>1, <2>3
    <3>2. parents' = parents /\ children' = children
      BY <1>2, <3>1 DEF NeighborEffect
    <3>3. Kin' = Kin
      BY <3>2 DEF Kin
    <3>4. s \notin Kin /\ ~Has(sec, s, q)
      BY <1>5, <1>7, <2>3, <3>3 DEF Has
    <3>5. Cardinality(Claimed(sec, q, Kin)) < MAX_FRAME_COUNTER_ENTRIES
      BY <1>1, <1>2, <1>3, <1>7, <3>4, FreshRoom
    <3>6. Cardinality(Claimed(y, q, Kin)) < MAX_FRAME_COUNTER_ENTRIES
      BY <1>1, <1>4, <1>5, <3>5, FewerClaims
    <3> QED BY <1>7, <3>3, <3>6
  <2> QED BY <2>1, <2>2, <2>3 DEF LeavesRoom, q
<1>8. CASE ~(pending' = pending) /\ router
  BY <1>2, <1>7, <1>8, RoomNext
<1> QED BY <1>6, <1>8, RoomNext

\* Key commands handled by the frame that waits.
LEMMA HandledRoom ==
    ASSUME Inv, ReplayInv, TableInv, SizeInv, SettledInv, RoomInv, router' = router, router,
           \/ \E k \in Keys : TransportKey(k)
           \/ \E n \in Seqs : SwitchKey(n)
    PROVE  RoomInv'
<1>1. /\ sec \in SecurityType /\ DistinctSeqs(sec) /\ NeighborsOK
      /\ IsFiniteSet(sec.table) /\ OneFloor(sec)
  BY ReplayFacts, TypeParts DEF SizeInv, TableInv, Inv
<1>2. /\ pending # NoFrame /\ pending.waits = "LocalData"
      /\ pending' = [pending EXCEPT !.waits = "SecurityState"]
      /\ parents' = parents /\ children' = children
  BY DEF TransportKey, SwitchKey, Handling, Handled, neighbors
<1>3. pending \in FrameType
  BY <1>2, ReplayFacts
<1>4. PICK s \in Sources, i \in Keys : s = pending.source /\ i = pending.key
  BY <1>3 DEF FrameType
<1>5. /\ pending'.source = s /\ pending'.key = i /\ pending'.moved = pending.moved
      /\ pending'.waits = "SecurityState"
  BY <1>2, <1>3, <1>4 DEF FrameType
<1>6. Kin' = Kin /\ IsFiniteSet(Kin)
  BY <1>1, <1>2, SecurityAssumption, FS_Subset DEF Kin, NeighborsOK
<1> DEFINE q == KeySeq[i]
<1>7. q \in Seqs
  BY KeySeqType
<1>8. i \in Installed(sec) /\ LeavesRoom(Kin, sec, pending)
  BY <1>2, <1>4 DEF SettledInv, RoomInv
<1> HIDE DEF q
<1>9. ASSUME i \notin Installed(sec') =>
                 \A k \in Installed(sec') : KeySeq[k] = q => sec'.staged = q,
             i \in Installed(sec') /\ StagedGivenUp(sec', q, Kin) =>
                 /\ Has(sec, s, q) => Has(sec', s, q)
                 /\ Kept(sec', q, Kin) \subseteq Kept(sec, q, Kin)
      PROVE  RoomInv'
  <2> DEFINE g == pending'
  <2>1. g.source = s /\ g.key = i /\ g.moved = pending.moved /\ g.waits = "SecurityState"
    BY <1>5
  <2> HIDE DEF g
  <2>2. /\ g.key \notin Installed(sec') =>
               \A k \in Installed(sec') : KeySeq[k] = KeySeq[g.key] => sec'.staged = KeySeq[g.key]
        /\ g.key \in Installed(sec')
           /\ (g.waits = "SecurityState" => StagedGivenUp(sec', KeySeq[g.key], Kin))
           => /\ Has(sec, g.source, KeySeq[g.key]) => Has(sec', g.source, KeySeq[g.key])
              /\ Kept(sec', KeySeq[g.key], Kin) \subseteq Kept(sec, KeySeq[g.key], Kin)
    BY <1>9, <2>1 DEF q
  <2>3. /\ g.source = pending.source /\ g.key = pending.key /\ g.moved = pending.moved
        /\ pending.key \in Installed(sec) /\ pending.waits # "SecurityState"
    BY <1>2, <1>4, <1>8, <2>1
  <2>4. LeavesRoom(Kin, sec', g)
    BY <1>1, <1>6, <1>8, <2>2, <2>3, RoomKept
  <2>5. LeavesRoom(Kin', sec', pending')
    BY <1>6, <2>4 DEF g
  <2> QED BY <2>5, RoomNext
<1>10. CASE sec' = sec
  BY <1>8, <1>9, <1>10
<1>11. ASSUME NEW k \in Keys, TransportKey(k) PROVE RoomInv'
  <2>1. sec' = stage_network_key(sec, k) /\ sec.active # NoKey /\ sec.active \in Keys
    BY <1>1, <1>11, Fields DEF TransportKey
  <2>2. CASE sec.second = k /\ sec' = [sec EXCEPT !.staged = KeySeq[k]]
    <3>1. /\ sec'.table = sec.table /\ sec'.active = sec.active /\ sec'.second = sec.second
      BY <1>1, <2>2, KeySeqType, StagedFields
    <3>2. Installed(sec') = Installed(sec) /\ (Has(sec, s, q) => Has(sec', s, q))
      BY <3>1 DEF Installed, Has
    <3>3. StagedGivenUp(sec', q, Kin) => Kept(sec', q, Kin) \subseteq Kept(sec, q, Kin)
      BY <1>1, <1>7, <2>2, RestageKept
    <3> QED BY <1>8, <1>9, <3>2, <3>3
  <2>3. CASE /\ KeySeq[k] # KeySeq[sec.active] /\ sec.second # k
             /\ sec' = PutSecond(sec, k, KeySeq[k])
    <3>1. sec'.active = sec.active /\ sec'.second = k /\ sec'.staged = KeySeq[k]
      BY <1>1, <2>3, KeySeqType, PutSecondFields
    <3>2. CASE i = sec.active
      <4>1. i \in Installed(sec')
        BY <2>1, <3>1, <3>2 DEF Installed
      <4>2. /\ Kept(sec', q, Kin) \subseteq Kept(sec, q, Kin)
            /\ Has(sec, s, q) => Has(sec', s, q)
        BY <1>1, <2>1, <2>3, <3>2, PutSecondKept DEF q
      <4> QED BY <1>9, <4>1, <4>2
    <3>3. CASE i # sec.active
      <4>1. i = sec.second /\ i # NoKey
        BY <1>8, <3>3 DEF Installed
      <4>2. q # KeySeq[sec.active]
        BY <1>1, <2>1, <4>1 DEF DistinctSeqs, q
      <4>3. i \notin Installed(sec')
        BY <2>3, <3>1, <3>3, <4>1 DEF Installed
      <4>4. \A j \in Installed(sec') : KeySeq[j] = q => sec'.staged = q
        BY <3>1, <4>2 DEF Installed
      <4> QED BY <1>9, <4>3, <4>4
    <3> QED BY <3>2, <3>3
  <2> QED BY <1>1, <1>10, <2>1, <2>2, <2>3, StageCases
<1>12. ASSUME NEW n \in Seqs, SwitchKey(n) PROVE RoomInv'
  <2>1. CASE CanActivate(sec, n)
    <3>1. sec' = Swapped(sec) /\ sec.second # NoKey /\ sec.staged = KeySeq[sec.second]
      BY <1>12, <2>1 DEF SwitchKey, activate_network_key, CanActivate
    <3>2. /\ sec'.table = sec.table /\ sec'.active = sec.second /\ sec'.second = sec.active
      BY <1>1, <3>1, SwapFields
    <3>3. Installed(sec') = Installed(sec) /\ (Has(sec, s, q) => Has(sec', s, q))
      BY <3>2 DEF Installed, Has
    <3>4. Reclaimable(sec, q) = {}
      BY <1>1, <1>7, <3>1, StagedNoRoom
    <3>5. Kept(sec', q, Kin) \subseteq Kept(sec, q, Kin)
      BY <3>2, <3>4, SameTableKept
    <3> QED BY <1>8, <1>9, <3>3, <3>5
  <2>2. CASE ~CanActivate(sec, n)
    BY <1>10, <1>12, <2>2 DEF SwitchKey, activate_network_key
  <2> QED BY <2>1, <2>2
<1> QED BY <1>11, <1>12

\* A child is evicted while the frame that says so waits for the child journal.
LEMMA EvictRoom ==
    ASSUME Inv, ReplayInv, TableInv, SizeInv, RoomInv, router' = router, router,
           NEW u \in Sources, evict_child(u)
    PROVE  RoomInv'
<1>1. /\ sec \in SecurityType /\ NeighborsOK /\ IsFiniteSet(sec.table) /\ OneFloor(sec)
  BY TypeParts DEF SizeInv, TableInv, Inv
<1>2. /\ pending' = pending /\ parents' = parents /\ children' = children \ {u}
      /\ sec' = [sec EXCEPT !.table = {e \in @ : e.source # u}]
      /\ pending # NoFrame => pending.waits = "ChildSaved" /\ u # pending.source
  BY DEF evict_child, ForgetFloors
<1>3. Kin' \subseteq Kin /\ IsFiniteSet(Kin)
  BY <1>1, <1>2, SecurityAssumption, FS_Subset DEF Kin, NeighborsOK
<1>4. /\ sec'.active = sec.active /\ sec'.second = sec.second /\ sec'.staged = sec.staged
      /\ sec'.table = {e \in sec.table : e.source # u}
  BY <1>1, <1>2, TableFields
<1>5. Installed(sec') = Installed(sec) /\ PreviousSeq(sec') = PreviousSeq(sec)
  BY <1>4 DEF Installed, PreviousSeq
<1>6. ASSUME pending # NoFrame PROVE LeavesRoom(Kin', sec', pending)
  <2> DEFINE q == KeySeq[pending.key]
             s == pending.source
  <2>1. LeavesRoom(Kin, sec, pending) /\ u # s /\ pending.waits = "ChildSaved"
    BY <1>2, <1>6 DEF RoomInv
  <2>2. /\ s \in Kin => s \in Kin'
        /\ Has(sec, s, q) => Has(sec', s, q)
    <3>1. s \in Kin => s \in Kin'
      BY <1>2, <2>1 DEF Kin
    <3>2. Has(sec, s, q) => Has(sec', s, q)
      BY <1>4, <2>1 DEF Has
    <3> QED BY <3>1, <3>2
  <2> HIDE DEF q, s
  <2>3. Kept(sec', q, Kin') \subseteq Kept(sec, q, Kin)
    <3>1. sec'.table \subseteq sec.table
      BY <1>4
    <3>2. Kin' \subseteq Kin /\ PreviousSeq(sec') = PreviousSeq(sec)
      BY <1>3, <1>5
    <3> QED BY <3>1, <3>2, EvictKept
  <2>4. pending.key \notin Installed(sec') =>
            \A k \in Installed(sec') : KeySeq[k] = q => sec'.staged = q
    BY <1>4, <1>5, <2>1 DEF LeavesRoom, q
  <2>5. ASSUME pending.key \in Installed(sec'), ~pending.moved, s \notin Kin',
               ~Has(sec', s, q)
        PROVE  Cardinality(Claimed(sec', q, Kin')) < MAX_FRAME_COUNTER_ENTRIES
    <3>1. Cardinality(Claimed(sec, q, Kin)) < MAX_FRAME_COUNTER_ENTRIES
      BY <1>5, <2>1, <2>2, <2>5 DEF LeavesRoom, q, s
    <3> QED BY <1>1, <1>3, <2>3, <3>1, FewerClaims
  <2> QED BY <2>4, <2>5 DEF LeavesRoom, q, s
<1> QED BY <1>2, <1>6, RoomNext

\* Every step keeps the room of the frame that waits.
LEMMA RoomInvNext ==
    ASSUME Inv, ReplayInv, TableInv, SizeInv, SettledInv, RoomInv, [Next]_vars
    PROVE  RoomInv'
<1>1. /\ KeyInv /\ (pending # NoFrame => pending \in FrameType)
  BY ReplayFacts DEF Inv
<1>2. ASSUME router' = router, pending' = NoFrame \/ ~router PROVE RoomInv'
  BY <1>2, RoomNext
<1>3. ASSUME UNCHANGED <<router, sec, parents, children>>, pending' = pending PROVE RoomInv'
  <2>1. Kin' = Kin
    BY <1>3 DEF Kin
  <2> QED BY <1>3, <2>1, RoomNext DEF RoomInv
<1>4. CASE UNCHANGED vars
  BY <1>3, <1>4 DEF vars
<1>5. CASE Next
  <2>1. router' = router
    BY <1>5 DEF Next
  <2>2. ASSUME \/ Commission \/ PersistFails \/ PersistChild \/ TcRejoinFails
               \/ \E p \in Sources, k \in Keys : Join(p, k)
               \/ \E k \in Keys : TcKeyStored(k) \/ TcKeyNotStored(k)
               \/ \E p \in Sources, k \in Keys, c \in Counters, accepted \in BOOLEAN :
                      SecureRejoin(p, k, c, accepted)
               \/ \E s \in Sources : TcRejoin(s) \/ AdmitChild(s) \/ age_router_child(s)
               \/ age_replay_floors \/ Reboot \/ \E rejoin \in BOOLEAN : Leave(rejoin)
        PROVE  pending' = NoFrame
    <3>1. CASE \/ Commission \/ PersistFails \/ PersistChild \/ TcRejoinFails
               \/ age_replay_floors \/ Reboot \/ \E rejoin \in BOOLEAN : Leave(rejoin)
      BY <3>1 DEF Commission, PersistFails, PersistChild, Complete, TcRejoinFails,
                  age_replay_floors, Reboot, Leave
    <3>2. CASE \/ \E p \in Sources, k \in Keys : Join(p, k)
               \/ \E k \in Keys : TcKeyStored(k) \/ TcKeyNotStored(k)
      BY <1>1, <3>2 DEF Join, TcKeyStored, TcKeyNotStored, KeyInv
    <3>3. CASE \/ \E p \in Sources, k \in Keys, c \in Counters, accepted \in BOOLEAN :
                      SecureRejoin(p, k, c, accepted)
               \/ \E s \in Sources : TcRejoin(s) \/ AdmitChild(s) \/ age_router_child(s)
      BY <3>3 DEF SecureRejoin, TcRejoin, AdmitChild, age_router_child, ForgetFloors
    <3> QED BY <2>2, <3>1, <3>2, <3>3
  <2>3. ASSUME Persist PROVE RoomInv'
    <3>1. CASE pending.waits # "ChildState"
      BY <1>2, <2>1, <2>3, <3>1 DEF Persist, Complete
    <3>2. CASE pending.waits = "ChildState"
      <4>1. /\ pending # NoFrame /\ sec' = sec
            /\ pending' = [pending EXCEPT !.waits = "ChildSaved"]
            /\ parents' = parents /\ children' = children
        BY <2>3, <3>2 DEF Persist, neighbors
      <4>2. /\ pending'.source = pending.source /\ pending'.key = pending.key
            /\ pending'.moved = pending.moved /\ pending'.waits = "ChildSaved"
        BY <1>1, <4>1 DEF FrameType
      <4>3. Kin' = Kin
        BY <4>1 DEF Kin
      <4>4. LeavesRoom(Kin, sec, pending) => LeavesRoom(Kin', sec', pending')
        BY <3>2, <4>1, <4>2, <4>3 DEF LeavesRoom
      <4> QED BY <2>1, <4>1, <4>4, RoomNext DEF RoomInv
    <3> QED BY <3>1, <3>2
  <2>4. ASSUME router, \/ \E k \in Keys : TransportKey(k)
                       \/ \E n \in Seqs : SwitchKey(n)
                       \/ \E u \in Sources : evict_child(u)
        PROVE  RoomInv'
    BY <2>1, <2>4, HandledRoom, EvictRoom
  <2> QED BY <1>2, <1>5, <2>1, <2>2, <2>3, <2>4, ReceiveRoom DEF Next
<1> QED BY <1>4, <1>5

\* A new floor takes one slot that nobody claimed, and so leaves room for every
\* parent and child.
LEMMA RecordedRoom ==
    ASSUME NEW x, NEW y, NEW s, NEW q, NEW c, NEW kin,
           IsFiniteSet(x.table), OneFloor(x), OneFloor(y), IsFiniteSet(kin),
           y.table \subseteq x.table \cup {Floor(s, q, c)},
           PreviousSeq(y) = PreviousSeq(x),
           Cardinality(Claimed(x, q, kin)) < MAX_FRAME_COUNTER_ENTRIES
    PROVE  Room(y, q, kin) >= Cardinality({p \in kin : ~Has(y, p, q)})
<1> DEFINE f == Floor(s, q, c)
           C == Claimed(x, q, kin)
           D == Claimed(y, q, kin)
           m == Cardinality(D)
           n == Cardinality({p \in kin : ~Has(y, p, q)})
           r == Room(y, q, kin)
<1>1. \A e \in Kept(y, q, kin) : e = f \/ e \in Kept(x, q, kin)
  <2>1. \A e \in y.table : e = f \/ e \in x.table
    OBVIOUS
  <2>2. \A e \in y.table : e \in Reclaimable(x, q) => e \in Reclaimable(y, q)
    BY DEF Reclaimable
  <2>3. \A e \in y.table : e \in Stale(x, q, kin) => e \in Stale(y, q, kin) \cup Reclaimable(y, q)
    BY DEF Stale
  <2> HIDE DEF f
  <2> QED BY <2>1, <2>2, <2>3 DEF Kept
<1>2. D \subseteq C \cup {<<s, q>>}
  <2>1. f.source = s /\ f.seq = q
    BY DEF Floor
  <2> HIDE DEF f
  <2> QED BY <1>1, <2>1 DEF Claimed
<1>3. IsFiniteSet(C)
  BY RoomClaimed
<1>4. IsFiniteSet(y.table)
  <2>1. IsFiniteSet(x.table \cup {f})
    BY FS_AddElement
  <2> QED BY <2>1, FS_Subset
<1>5. /\ IsFiniteSet(D) /\ n \in Nat /\ r \in Int
      /\ r - n = MAX_FRAME_COUNTER_ENTRIES - m
  BY <1>4, RoomClaimed
<1>6. MAX_FRAME_COUNTER_ENTRIES \in Nat /\ Cardinality(C) \in Nat
  BY <1>3, FS_CardinalityType, Capacity
<1>7. Cardinality(C) < MAX_FRAME_COUNTER_ENTRIES
  OBVIOUS
<1> HIDE DEF C, D, f, n, r
<1>8. /\ IsFiniteSet(C \cup {<<s, q>>})
      /\ Cardinality(C \cup {<<s, q>>}) <= Cardinality(C) + 1
  <2>1. /\ IsFiniteSet(C \cup {<<s, q>>})
        /\ Cardinality(C \cup {<<s, q>>}) =
              IF <<s, q>> \in C THEN Cardinality(C) ELSE Cardinality(C) + 1
    BY <1>3, FS_AddElement
  <2> QED BY <1>6, <2>1
<1>9. m \in Nat /\ m <= Cardinality(C \cup {<<s, q>>}) /\ Cardinality(C \cup {<<s, q>>}) \in Nat
  BY <1>2, <1>8, SubsetSize
<1> HIDE DEF m
<1>10. r >= n
  BY <1>5, <1>6, <1>7, <1>8, <1>9
<1> QED BY <1>10 DEF r, n

\* The only new floor is that of the frame.
LEMMA NewFloor ==
    ASSUME NEW x \in SecurityType, NEW s \in Sources, NEW q \in Seqs,
           NEW c \in Counters, NEW r, NEW y \in Commits(x, s, q, c, r),
           NEW e \in y.table, ~Has(x, e.source, e.seq)
    PROVE  /\ e = Floor(s, q, c) /\ e.source = s /\ e.seq = q /\ e.counter = c
           /\ y.table \subseteq x.table \cup {Floor(s, q, c)}
<1>1. e.source = s /\ e.seq = q /\ ~Has(x, s, q)
  <2>1. e \notin x.table
    BY DEF Has
  <2>2. e.source = s /\ e.seq = q
    BY <2>1, CommitFloors
  <2> QED BY <2>2
<1>2. y.table \subseteq x.table \cup {Floor(s, q, c)}
  <2>1. CASE y = x
    BY <2>1
  <2>2. CASE y = [x EXCEPT !.table = @ \cup {Floor(s, q, c)}]
    BY <2>2, TableFields
  <2>3. ASSUME NEW d, y = Replaced(x, d, Floor(s, q, c))
        PROVE  y.table \subseteq x.table \cup {Floor(s, q, c)}
    BY <2>3, ReplacedFields
  <2> QED BY <1>1, <2>1, <2>2, <2>3, CommitCases
<1>3. e = Floor(s, q, c)
  BY <1>2 DEF Has
<1>4. Floor(s, q, c).counter = c
  BY DEF Floor
<1> QED BY <1>1, <1>2, <1>3, <1>4

\* When no floor of a staged key is left, the one there was has just been given up.
LEMMA StagedVictim ==
    ASSUME NEW x \in SecurityType, NEW s \in Sources, NEW q \in Seqs,
           NEW c \in Counters, NEW r, NEW y \in Commits(x, s, q, c, r), router,
           \A e \in y.table : e.seq # x.staged
    PROVE  StagedGivenUp(x, q, Kin)
<1> SUFFICES ASSUME NEW d \in x.table, d.seq = x.staged
             PROVE  d \in Stale(x, q, Kin)
  BY DEF StagedGivenUp
<1>1. ~Has(y, d.source, d.seq)
  BY DEF Has
<1>2. d \in Victims(x, s, q)
  BY <1>1, CommitLosses
<1>3. d \notin Reclaimable(x, q)
  <2>1. PreviousSeq(x) = NoSeq \/ PreviousSeq(x) # x.staged
    BY DEF PreviousSeq
  <2>2. d.seq # NoSeq
    BY Fields, Names
  <2> QED BY <2>1, <2>2 DEF Reclaimable
<1> QED BY <1>2, <1>3 DEF Victims

\* What RoomForKin says of one new floor.
LEMMA RoomLeft ==
    ASSUME Inv, ReplayInv, TableInv, TableInv', SizeInv, SettledInv, RoomInv, Next, router,
           NEW e \in sec'.table,
           e.source \notin Kin \cup Kin', ~Has(sec, e.source, e.seq),
           pending = NoFrame \/ ~pending.moved,
           ~StagedHasFloors',
           \E k \in Installed(sec') : KeySeq[k] = e.seq,
           ~\E k \in Keys, accepted \in BOOLEAN : SecureRejoin(e.source, k, e.counter, accepted)
    PROVE  Room(sec', e.seq, Kin') >= Cardinality({p \in Kin' : ~Has(sec', p, e.seq)})
<1>1. /\ sec \in SecurityType /\ NeighborsOK /\ IsFiniteSet(sec.table)
      /\ OneFloor(sec) /\ OneFloor(sec')
  BY TypeParts DEF SizeInv, TableInv, Inv, OneFloor
<1>2. IsFiniteSet(Kin)
  BY <1>1, SecurityAssumption, FS_Subset DEF Kin, NeighborsOK
<1>3. \A d \in sec'.table : d.seq # sec'.staged
  BY DEF StagedHasFloors
<1>4. CASE sec'.table \subseteq sec.table
  BY <1>4 DEF Has
<1>5. CASE age_replay_floors
  <2>1. PICK f \in [sec.table -> sec'.table] :
          /\ sec'.table = {f[d] : d \in sec.table}
          /\ \A d \in sec.table : f[d].source = d.source /\ f[d].seq = d.seq
    BY <1>1, <1>5, AgedTable
  <2>2. PICK d \in sec.table : e = f[d]
    BY <2>1
  <2> QED BY <2>1, <2>2 DEF Has
<1>6. ASSUME NEW s \in Sources, NEW k \in Keys, NEW c \in Counters, NEW y,
             Records(s, k, c, y)
      PROVE  Room(sec', e.seq, Kin') >= Cardinality({p \in Kin' : ~Has(sec', p, e.seq)})
  <2> DEFINE q == KeySeq[k]
  <2>1. q \in Seqs
    BY KeySeqType
  <2>2. PICK r : y \in Commits(sec, s, q, c, r)
    BY <1>1, <1>6, RecordsCommit
  <2>3. /\ sec'.table = y.table /\ sec'.active = y.active /\ sec'.second = y.second
        /\ sec'.staged = y.staged
    BY <1>1, <1>6, RecordsCommit
  <2>4. y.active = sec.active /\ y.second = sec.second /\ y.staged = sec.staged
    BY <1>1, <2>2, CommitKeys
  <2>5. PreviousSeq(sec') = PreviousSeq(sec) /\ Installed(sec') = Installed(sec)
    BY <2>3, <2>4 DEF PreviousSeq, Installed
  <2> HIDE DEF q
  <2>6. /\ e = Floor(s, q, c) /\ e.source = s /\ e.seq = q /\ e.counter = c
        /\ sec'.table \subseteq sec.table \cup {Floor(s, q, c)}
    BY <1>1, <2>1, <2>2, <2>3, NewFloor
  <2>7. s \notin Kin /\ s \notin Kin' /\ ~Has(sec, s, q)
    BY <2>6
  <2>8. ASSUME Kin' = Kin, Cardinality(Claimed(sec, q, Kin)) < MAX_FRAME_COUNTER_ENTRIES
        PROVE  Room(sec', e.seq, Kin') >= Cardinality({p \in Kin' : ~Has(sec', p, e.seq)})
    <3>1. Room(sec', q, Kin) >= Cardinality({p \in Kin : ~Has(sec', p, q)})
      BY <1>1, <1>2, <2>5, <2>6, <2>8, RecordedRoom
    <3> QED BY <2>6, <2>8, <3>1
  <2>9. ASSUME NEW kind, NEW own, Receive(s, k, c, kind, own)
        PROVE  Kin' = Kin /\ Cardinality(Claimed(sec, q, Kin)) < MAX_FRAME_COUNTER_ENTRIES
    <3> DEFINE f == (IF CanActivate(sec, KeySeq[k]) THEN [Swapped(sec) EXCEPT !.fence = TRUE]
                     ELSE sec).fence
    <3>1. Fresh(sec, s, q, c, NoNode) /\ NeighborEffect(s, kind, own, f)
      BY <2>9 DEF Receive, q
    <3> HIDE DEF f
    <3>2. Cardinality(Claimed(sec, q, Kin)) < MAX_FRAME_COUNTER_ENTRIES
      BY <1>1, <2>1, <2>7, <3>1, FreshRoom
    <3>3. CASE Leaves(kind)
      <4>1. parents' = parents \ {s} /\ children' = children \ {s}
        BY <3>1, <3>3 DEF NeighborEffect, DropNeighbor
      <4> QED BY <2>7, <3>2, <4>1 DEF Kin
    <3>4. CASE ~Leaves(kind)
      <4>1. parents' = parents /\ (children' = children \/ children' = children \cup {s})
        BY <3>1, <3>4 DEF NeighborEffect
      <4> QED BY <2>7, <3>2, <4>1 DEF Kin
    <3> QED BY <3>3, <3>4
  <2>10. ASSUME pending # NoFrame, UNCHANGED neighbors,
                s = pending.source, k = pending.key
         PROVE  Kin' = Kin /\ Cardinality(Claimed(sec, q, Kin)) < MAX_FRAME_COUNTER_ENTRIES
    <3>1. Kin' = Kin
      BY <2>10 DEF neighbors, Kin
    <3>2. LeavesRoom(Kin, sec, pending)
      BY <2>10 DEF RoomInv
    <3>3. k \in Installed(sec)
      <4>1. SUFFICES ASSUME k \notin Installed(sec) PROVE FALSE
        OBVIOUS
      <4>2. PICK i \in Installed(sec) : KeySeq[i] = q
        BY <2>5, <2>6
      <4>3. sec.staged = q
        BY <2>10, <3>2, <4>1, <4>2 DEF LeavesRoom, q
      <4> QED BY <1>3, <2>3, <2>4, <2>6, <4>3
    <3>4. StagedGivenUp(sec, q, Kin)
      BY <1>1, <1>3, <2>1, <2>2, <2>3, <2>4, StagedVictim
    <3>5. Cardinality(Claimed(sec, q, Kin)) < MAX_FRAME_COUNTER_ENTRIES
      BY <2>7, <2>10, <3>2, <3>3, <3>4 DEF LeavesRoom, q
    <3> QED BY <3>1, <3>5
  <2>11. ASSUME NEW accepted \in BOOLEAN, SecureRejoin(s, k, c, accepted) PROVE FALSE
    BY <2>6, <2>11
  <2> QED BY <1>6, <2>8, <2>9, <2>10, <2>11 DEF Records
<1> QED BY <1>4, <1>5, <1>6, TableChange

\* A newcomer never takes the slot that a parent or child without a floor still
\* needs: whatever key commands its frame carries, whichever children are
\* evicted and whichever floors are given up before its own is recorded.
THEOREM KinKeepTheirRoom == Spec => RoomForKin
<1> DEFINE J == /\ Inv /\ ReplayInv /\ TableInv /\ NeighborInv /\ SizeInv /\ SettledInv
                /\ RoomInv
           Left(e) ==
               /\ router /\ e.source \notin Kin \cup Kin' /\ ~Has(sec, e.source, e.seq)
               /\ pending = NoFrame \/ ~pending.moved
               /\ ~StagedHasFloors'
               /\ \E k \in Installed(sec') : KeySeq[k] = e.seq
               /\ ~\E k \in Keys, accepted \in BOOLEAN :
                       SecureRejoin(e.source, k, e.counter, accepted)
               => Room(sec', e.seq, Kin') >= Cardinality({p \in Kin' : ~Has(sec', p, e.seq)})
<1>1. J /\ [Next]_vars => J'
  BY NextInv, NextReplay, NextTable, NextNeighbor, NextSize, NextSettled, RoomInvNext
<1>2. J /\ [Next]_vars => [\A e \in sec'.table : Left(e)]_vars
  <2> SUFFICES ASSUME J, Next PROVE \A e \in sec'.table : Left(e)
    OBVIOUS
  <2>1. TableInv'
    BY NextTable, NextInv
  <2>2. ASSUME NEW e \in sec'.table PROVE Left(e)
    BY <2>1, <2>2, RoomLeft
  <2> QED BY <2>2
<1>3. Init => J
  BY InitInv, InitReplay, InitTable, InitSettled DEF Init, RoomInv
<1> HIDE DEF J
<1> QED BY <1>1, <1>2, <1>3, PTL DEF Spec, RoomForKin
=============================================================================
