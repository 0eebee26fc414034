-------------------------- MODULE NwkSecurityProofs --------------------------
(***************************************************************************)
(* Theorems about NwkSecurity, for any sets of senders and keys, any key    *)
(* sequence numbers, table capacity and counter bound, and both builds.     *)
(***************************************************************************)
EXTENDS NwkSecurity, TLAPS

-----------------------------------------------------------------------------
(* What the operations on the key set and the replay table preserve *)

\* The sequence number of every key is in the sequence space.
LEMMA KeySeqType == ASSUME NEW k \in Keys PROVE KeySeq[k] \in Seqs
BY SecurityAssumption DEF Seqs

\* A node without keys has a well-formed key set.
LEMMA NewSecurityType ==
    /\ NewSecurity \in SecurityType
    /\ NewSecurity.active = NoKey /\ NewSecurity.fence = FALSE
BY DEF NewSecurity, SecurityType

\* Dropping floors never touches the keys or the fence.
LEMMA RetainPreserves ==
    ASSUME NEW x \in SecurityType
    PROVE  LET y == retain_frame_counters_for_installed_keys(x)
           IN  y \in SecurityType /\ y.active = x.active /\ y.fence = x.fence
BY DEF retain_frame_counters_for_installed_keys, SecurityType

\* Swapping the slots makes the other key the active one.
LEMMA SwapPreserves ==
    ASSUME NEW x \in SecurityType
    PROVE  /\ Swapped(x) \in SecurityType
           /\ Swapped(x).active = x.second /\ Swapped(x).fence = x.fence
BY DEF Swapped, SecurityType

\* Overwriting the other slot leaves the active key and the fence.
LEMMA PutSecondPreserves ==
    ASSUME NEW x \in SecurityType, NEW k \in Keys, NEW q \in Seqs \cup {NoSeq}
    PROVE  /\ PutSecond(x, k, q) \in SecurityType
           /\ PutSecond(x, k, q).active = x.active
           /\ PutSecond(x, k, q).fence = x.fence
<1> DEFINE y == [x EXCEPT !.second = k, !.staged = q,
                 !.table = clear_frame_counters_for_key(@, KeySeq[k])]
<1>1. y \in SecurityType /\ y.active = x.active /\ y.fence = x.fence
  BY DEF SecurityType, clear_frame_counters_for_key
<1>2. PutSecond(x, k, q) = retain_frame_counters_for_installed_keys(y)
  BY DEF PutSecond
<1> QED BY <1>1, <1>2, RetainPreserves

\* set_network_key makes k the active key, whatever was installed.
LEMMA SetKeyPreserves ==
    ASSUME NEW x \in SecurityType, NEW k \in Keys
    PROVE  /\ set_network_key(x, k) \in SecurityType
           /\ set_network_key(x, k).active = k
           /\ set_network_key(x, k).fence = x.fence
<1>1. CASE x.active # NoKey /\ KeySeq[x.active] = KeySeq[k]
  <2> DEFINE t == IF x.active = k THEN x.table
                  ELSE clear_frame_counters_for_key(x.table, KeySeq[k])
             y == [x EXCEPT !.active = k, !.staged = NoSeq, !.table = t]
  <2>1. set_network_key(x, k) = y
    BY <1>1 DEF set_network_key
  <2>2. t \subseteq x.table
    BY DEF clear_frame_counters_for_key
  <2>3. y \in SecurityType /\ y.active = k /\ y.fence = x.fence
    BY <2>2 DEF SecurityType
  <2> QED BY <2>1, <2>3
<1>2. CASE ~(x.active # NoKey /\ KeySeq[x.active] = KeySeq[k]) /\ x.second = k
  BY <1>2, SwapPreserves DEF set_network_key
<1>3. CASE ~(x.active # NoKey /\ KeySeq[x.active] = KeySeq[k]) /\ x.second # k
  <2> DEFINE y == [x EXCEPT !.active = k, !.second = x.active, !.staged = NoSeq,
                   !.table = clear_frame_counters_for_key(@, KeySeq[k])]
  <2>1. y \in SecurityType /\ y.active = k /\ y.fence = x.fence
    BY DEF SecurityType, clear_frame_counters_for_key
  <2>2. set_network_key(x, k) = retain_frame_counters_for_installed_keys(y)
    BY <1>3 DEF set_network_key
  <2> QED BY <2>1, <2>2, RetainPreserves
<1> QED BY <1>1, <1>2, <1>3

\* Staging never changes the active key.
LEMMA StagePreserves ==
    ASSUME NEW x \in SecurityType, NEW k \in Keys
    PROVE  /\ stage_network_key(x, k) \in SecurityType
           /\ stage_network_key(x, k).active = x.active
           /\ stage_network_key(x, k).fence = x.fence
<1> DEFINE y == [x EXCEPT !.staged = KeySeq[k]]
<1>1. y \in SecurityType /\ y.active = x.active /\ y.fence = x.fence
  BY KeySeqType DEF SecurityType
<1>2. \/ stage_network_key(x, k) = x
      \/ stage_network_key(x, k) = y
      \/ stage_network_key(x, k) = PutSecond(x, k, KeySeq[k])
  BY DEF stage_network_key
<1>3. /\ PutSecond(x, k, KeySeq[k]) \in SecurityType
      /\ PutSecond(x, k, KeySeq[k]).active = x.active
      /\ PutSecond(x, k, KeySeq[k]).fence = x.fence
  BY KeySeqType, PutSecondPreserves
<1> HIDE DEF y
<1> QED BY <1>1, <1>2, <1>3

\* Nor does restoring the previous key.
LEMMA RestorePreserves ==
    ASSUME NEW x \in SecurityType, NEW k \in Keys
    PROVE  /\ restore_previous_network_key(x, k) \in SecurityType
           /\ restore_previous_network_key(x, k).active = x.active
           /\ restore_previous_network_key(x, k).fence = x.fence
BY PutSecondPreserves DEF restore_previous_network_key

\* Installing a stored record makes its active key the active one.
LEMMA InstallPreserves ==
    ASSUME NEW x \in SecurityType, NEW st,
           st.active \in Keys, st.second \in Keys \cup {NoKey}
    PROVE  /\ install_restored_network_security(x, st) \in SecurityType
           /\ install_restored_network_security(x, st).active = st.active
           /\ install_restored_network_security(x, st).fence = x.fence
<1> DEFINE y == set_network_key(x, st.active)
<1>1. y \in SecurityType /\ y.active = st.active /\ y.fence = x.fence
  BY SetKeyPreserves
<1>2. CASE st.second = NoKey
  BY <1>1, <1>2 DEF install_restored_network_security
<1>3. CASE st.second \in Keys /\ st.second # NoKey /\ st.previous
  <2>1. install_restored_network_security(x, st) = restore_previous_network_key(y, st.second)
    BY <1>3 DEF install_restored_network_security
  <2> HIDE DEF y
  <2> QED BY <1>1, <1>3, <2>1, RestorePreserves
<1>4. CASE st.second \in Keys /\ st.second # NoKey /\ ~st.previous
  <2>1. install_restored_network_security(x, st) = stage_network_key(y, st.second)
    BY <1>4 DEF install_restored_network_security
  <2> HIDE DEF y
  <2> QED BY <1>1, <1>4, <2>1, StagePreserves
<1> QED BY <1>2, <1>3, <1>4

\* Recording a floor changes the table and the seal only.
LEMMA CommitPreserves ==
    ASSUME NEW x \in SecurityType, NEW s \in Sources, NEW q \in Seqs,
           NEW c \in Counters, NEW r, NEW y \in Commits(x, s, q, c, r)
    PROVE  y \in SecurityType /\ y.active = x.active /\ y.fence = x.fence
<1> DEFINE Floors == [source : Sources, seq : Seqs, counter : Counters,
                      silent : 0..StaleSecs]
<1>1. \A d \in Counters : Floor(s, q, d) \in Floors
  BY SecurityAssumption DEF Floor
<1>2. Raised(x, s, q, c) \in SecurityType
      /\ Raised(x, s, q, c).active = x.active /\ Raised(x, s, q, c).fence = x.fence
  <2> DEFINE t == {IF e.source = s /\ e.seq = q
                   THEN Floor(s, q, IF c > e.counter THEN c ELSE e.counter)
                   ELSE e : e \in x.table}
  <2>1. x.table \subseteq Floors
    BY DEF SecurityType
  <2>2. t \subseteq Floors
    <3> SUFFICES ASSUME NEW e \in x.table
                 PROVE (IF e.source = s /\ e.seq = q
                        THEN Floor(s, q, IF c > e.counter THEN c ELSE e.counter)
                        ELSE e) \in Floors
      OBVIOUS
    <3>1. e \in Floors /\ e.counter \in Counters
      BY <2>1
    <3>2. (IF c > e.counter THEN c ELSE e.counter) \in Counters
      BY <3>1
    <3> QED BY <1>1, <3>1, <3>2
  <2>3. Raised(x, s, q, c) = [x EXCEPT !.table = t]
    BY DEF Raised
  <2> HIDE DEF t
  <2> QED BY <2>2, <2>3 DEF SecurityType
<1>3. ASSUME NEW e
      PROVE  /\ Replaced(x, e, Floor(s, q, c)) \in SecurityType
             /\ Replaced(x, e, Floor(s, q, c)).active = x.active
             /\ Replaced(x, e, Floor(s, q, c)).fence = x.fence
  <2> DEFINE f == Floor(s, q, c)
             t == (x.table \ {e}) \cup {f}
             b == x.sealed \/ (router /\ e.seq = PreviousSeq(x) /\ f.seq # e.seq)
  <2>1. t \subseteq Floors
    BY <1>1 DEF SecurityType
  <2>2. b \in BOOLEAN
    OBVIOUS
  <2>3. Replaced(x, e, f) = [x EXCEPT !.table = t, !.sealed = b]
    BY DEF Replaced
  <2> HIDE DEF t, b, f
  <2>4. /\ Replaced(x, e, f) \in SecurityType
        /\ Replaced(x, e, f).active = x.active /\ Replaced(x, e, f).fence = x.fence
    BY <2>1, <2>2, <2>3 DEF SecurityType
  <2> QED BY <2>4 DEF f
<1>4. LET z == [x EXCEPT !.table = @ \cup {Floor(s, q, c)}]
      IN  z \in SecurityType /\ z.active = x.active /\ z.fence = x.fence
  <2> DEFINE t == x.table \cup {Floor(s, q, c)}
  <2>1. t \subseteq Floors
    BY <1>1 DEF SecurityType
  <2> HIDE DEF t
  <2>2. LET z == [x EXCEPT !.table = t]
        IN  z \in SecurityType /\ z.active = x.active /\ z.fence = x.fence
    BY <2>1 DEF SecurityType
  <2> QED BY <2>2 DEF t
<1>5. \/ y = Raised(x, s, q, c)
      \/ y = x
      \/ y = [x EXCEPT !.table = @ \cup {Floor(s, q, c)}]
      \/ \E e \in Victims(x, s, q) : y = Replaced(x, e, Floor(s, q, c))
  BY DEF Commits
<1> QED BY <1>2, <1>3, <1>4, <1>5

-----------------------------------------------------------------------------
(* The parts of the type invariant *)

SavedType == [active : Keys \cup {NoKey}, second : Keys \cup {NoKey},
              previous : BOOLEAN]

PendingOK == pending = NoFrame \/ pending \in FrameType

NeighborsOK ==
    /\ parents \subseteq Sources /\ children \subseteq Sources /\ joining \subseteq Sources
    /\ lookedUp \in Sources \cup {NoNode} /\ parent \in Sources \cup {NoNode}

HeardOK == heard \in [Domains -> 0..MaxCounter]

\* TypeOK is the conjunction of its parts.
LEMMA TypeParts ==
    TypeOK <=> /\ sec \in SecurityType /\ PendingOK /\ saved \in SavedType
               /\ NeighborsOK /\ HeardOK /\ adopted \in BOOLEAN
BY DEF TypeOK, SavedType, PendingOK, NeighborsOK, HeardOK

\* The same of the next state.
LEMMA TypePartsNext ==
    TypeOK' <=> /\ sec' \in SecurityType /\ PendingOK' /\ saved' \in SavedType
                /\ NeighborsOK' /\ HeardOK' /\ adopted' \in BOOLEAN
BY DEF TypeOK, SavedType, PendingOK, NeighborsOK, HeardOK, SecurityType, FrameType

\* A snapshot is a record of the live keys.
LEMMA SnapshotType ==
    ASSUME NEW x \in SecurityType
    PROVE  Snapshot(x) \in SavedType /\ Snapshot(x).active = x.active
BY DEF Snapshot, SavedType, SecurityType

\* A refresh stores the live keys, but only over a commissioned record.
LEMMA RefreshType ==
    ASSUME sec \in SecurityType, saved \in SavedType
    PROVE  /\ refresh_security_state(sec) \in SavedType
           /\ saved.active # NoKey => refresh_security_state(sec).active = sec.active
           /\ saved.active = NoKey => refresh_security_state(sec) = saved
BY SnapshotType DEF refresh_security_state

\* Every node is a well-formed neighbour, whoever becomes the parent.
LEMMA AddParentType ==
    ASSUME NeighborsOK, NEW p \in Sources, AddParent(p)
    PROVE  NeighborsOK'
<1>1. lookedUp' \in {lookedUp, p}
  BY DEF AddParent
<1> QED BY <1>1 DEF NeighborsOK, AddParent

\* Removing a neighbour leaves nodes only.
LEMMA DropNeighborType ==
    ASSUME NeighborsOK, NEW s, DropNeighbor(s), parent' \in Sources \cup {NoNode}
    PROVE  NeighborsOK'
<1>1. lookedUp' \in {lookedUp, NoNode} \cup parents
  BY DEF DropNeighbor
<1> QED BY <1>1 DEF NeighborsOK, DropNeighbor

\* The history stays within the counters.
LEMMA HeardUnderType == ASSUME HeardOK, NEW x, HeardUnder(x) PROVE HeardOK'
BY SecurityAssumption DEF HeardOK, HeardUnder

LEMMA HeardStagingType ==
    ASSUME HeardOK, NEW x, NEW y, NEW k, HeardStaging(x, y, k) PROVE HeardOK'
BY SecurityAssumption DEF HeardOK, HeardStaging

LEMMA HeardWithoutType == ASSUME HeardOK, NEW s, HeardWithout(s) PROVE HeardOK'
BY SecurityAssumption DEF HeardOK, HeardWithout

LEMMA HeardRecordingType ==
    ASSUME HeardOK, NEW x, NEW y, NEW s, NEW k, NEW c \in Counters,
           HeardRecording(x, y, s, k, c)
    PROVE  HeardOK'
<1>1. ASSUME NEW d \in Domains PROVE heard'[d] \in 0..MaxCounter
  <2>1. heard'[d] \in {c, 0, heard[d]}
    BY DEF HeardRecording
  <2> QED BY <2>1, SecurityAssumption DEF HeardOK, Counters
<1>2. heard' = [d \in Domains |-> heard'[d]]
  BY DEF HeardRecording
<1> QED BY <1>1, <1>2 DEF HeardOK

\* Committing the pending frame leaves the active key and lowers the fence.
LEMMA CompletePreserves ==
    ASSUME TypeOK, pending # NoFrame, Complete
    PROVE  /\ sec' \in SecurityType /\ sec'.active = sec.active /\ sec'.fence = FALSE
           /\ pending' = NoFrame /\ PendingOK' /\ HeardOK'
<1> DEFINE q == KeySeq[pending.key]
<1>1. /\ sec \in SecurityType /\ pending \in FrameType /\ HeardOK
  BY TypeParts DEF PendingOK
<1>2. /\ pending.source \in Sources /\ pending.key \in Keys /\ pending.counter \in Counters
  BY <1>1 DEF FrameType
<1>3. q \in Seqs
  BY <1>2, KeySeqType
<1>4. PICK y \in Commits(sec, pending.source, q, pending.counter, NoNode) :
          /\ sec' = [y EXCEPT !.fence = FALSE]
          /\ HeardRecording(sec, y, pending.source, pending.key, pending.counter)
          /\ pending' = NoFrame
  BY DEF Complete
<1> HIDE DEF q
<1>5. y \in SecurityType /\ y.active = sec.active
  BY <1>1, <1>2, <1>3, <1>4, CommitPreserves
<1>6. sec' \in SecurityType /\ sec'.active = sec.active /\ sec'.fence = FALSE
  BY <1>4, <1>5 DEF SecurityType
<1>7. HeardOK'
  BY <1>1, <1>2, <1>4, HeardRecordingType
<1> QED BY <1>4, <1>6, <1>7 DEF PendingOK

-----------------------------------------------------------------------------
(* The inductive invariant *)

\* A key that was adopted is active, stored once the fence is down, and already
\* stored while only the child journal is awaited; a stored record has a key, and
\* without an active key there is no other and no frame waits.
KeyInv ==
    /\ sec.active = NoKey => sec.second = NoKey /\ pending = NoFrame /\ ~adopted
    /\ saved # NoState => saved.active # NoKey
    /\ AdoptedKeyDurable
    /\ pending # NoFrame /\ pending.waits = "ChildSaved" /\ adopted /\ saved # NoState =>
           saved.active = sec.active

Inv == TypeOK /\ KeyInv

\* No record: no key.
LEMMA NoStateType == NoState \in SavedType /\ NoState.active = NoKey
BY DEF NoState, SavedType

\* Before anything happens the invariant holds.
LEMMA InitInv == Init => Inv
<1> SUFFICES ASSUME Init PROVE Inv
  OBVIOUS
<1>1. HeardOK
  BY SecurityAssumption DEF Init, HeardOK
<1>2. sec \in SecurityType /\ PendingOK /\ saved \in SavedType
      /\ NeighborsOK /\ adopted \in BOOLEAN
  BY NewSecurityType, NoStateType DEF Init, PendingOK, NeighborsOK
<1>3. TypeOK
  BY <1>1, <1>2, TypeParts
<1>4. KeyInv
  BY DEF Init, KeyInv, AdoptedKeyDurable, NewSecurity
<1> QED BY <1>3, <1>4 DEF Inv

\* What a stored record satisfies.
LEMMA StoredRecord ==
    ASSUME Inv, saved # NoState
    PROVE  saved.active \in Keys /\ saved.second \in Keys \cup {NoKey}
BY TypeParts DEF Inv, KeyInv, SavedType

\* A refresh leaves a record that holds the live key, or none.
LEMMA RefreshStored ==
    ASSUME Inv
    PROVE  /\ refresh_security_state(sec) \in SavedType
           /\ saved # NoState => refresh_security_state(sec).active = sec.active
           /\ saved = NoState => refresh_security_state(sec) = NoState
<1>1. sec \in SecurityType /\ saved \in SavedType
  BY TypeParts DEF Inv
<1>2. saved # NoState => saved.active # NoKey
  BY DEF Inv, KeyInv
<1> QED BY <1>1, <1>2, RefreshType, NoStateType

\* A received frame: a staged key it activates is fenced, and otherwise the
\* live key was stored before the frame was looked at.
LEMMA ReceiveInv ==
    ASSUME Inv, NEW s \in Sources, NEW k \in Keys, NEW c \in Counters,
           NEW kind \in FrameKinds, NEW own, Receive(s, k, c, kind, own)
    PROVE  Inv'
<1> DEFINE activates == CanActivate(sec, KeySeq[k])
           y == IF activates THEN [Swapped(sec) EXCEPT !.fence = TRUE] ELSE sec
           waits == IF Lifecycle(s, kind) = "None" /\ y.fence THEN "SecurityState"
                    ELSE Lifecycle(s, kind)
<1>1. /\ sec \in SecurityType /\ PendingOK /\ saved \in SavedType
      /\ NeighborsOK /\ HeardOK /\ adopted \in BOOLEAN
  BY TypeParts DEF Inv
<1>2. /\ pending = NoFrame
      /\ saved' = refresh_security_state(sec)
      /\ adopted' = (adopted \/ activates)
      /\ NeighborEffect(s, kind, own, y.fence)
  BY DEF Receive
<1>a. activates \in BOOLEAN /\ (activates => sec.second # NoKey)
  BY DEF CanActivate
<1>b. NeighborsOK'
  <2>1. CASE Leaves(kind)
    <3>1. DropNeighbor(s) /\ parent' \in {NoNode, parent}
      BY <1>2, <2>1 DEF NeighborEffect
    <3> QED BY <1>1, <3>1, DropNeighborType DEF NeighborsOK
  <2>2. CASE ~Leaves(kind)
    BY <1>1, <1>2, <2>2 DEF NeighborEffect, NeighborsOK
  <2> QED BY <2>1, <2>2
<1>c. /\ saved' \in SavedType
      /\ saved # NoState => saved'.active = sec.active
      /\ saved = NoState => saved' = NoState
  BY <1>2, RefreshStored
<1>d. sec.active # NoKey
  BY SecurityAssumption DEF Inv, KeyInv, Receive, Installed
<1>4. ASSUME sec' \in SecurityType, PendingOK', HeardOK',
             pending' # NoFrame => pending'.waits # "ChildSaved",
             activates => sec'.fence = TRUE /\ sec'.active = sec.second,
             ~activates => sec'.active = sec.active
      PROVE  Inv'
  <2>1. TypeOK'
    BY <1>1, <1>2, <1>4, <1>a, <1>b, <1>c, TypePartsNext
  <2>2. KeyInv'
    BY <1>2, <1>4, <1>a, <1>c, <1>d, NoStateType DEF KeyInv, AdoptedKeyDurable
  <2> QED BY <2>1, <2>2 DEF Inv
<1>3. CASE waits # "None"
  <2>1. /\ sec' = y /\ heard' = heard
        /\ pending' = [source |-> s, key |-> k, counter |-> c,
                       moved |-> Leaves(kind) \/ Promotes(s, kind, own, y.fence),
                       waits |-> waits]
    BY <1>3 DEF Receive
  <2>2. waits \in {"LocalData", "SecurityState", "ChildState"}
    BY <1>3 DEF Lifecycle
  <2>3. pending' \in FrameType /\ pending'.waits # "ChildSaved"
    <3> DEFINE moved == Leaves(kind) \/ Promotes(s, kind, own, y.fence)
    <3>1. moved \in BOOLEAN
      OBVIOUS
    <3> HIDE DEF moved, waits
    <3> QED BY <2>1, <2>2, <3>1 DEF FrameType, moved
  <2> HIDE DEF waits
  <2>4. HeardOK' /\ PendingOK'
    BY <1>1, <2>1, <2>3 DEF HeardOK, PendingOK
  <2>5. sec' \in SecurityType /\ (activates => sec'.fence = TRUE /\ sec'.active = sec.second)
        /\ (~activates => sec' = sec)
    <3>1. CASE activates
      <4>1. sec' = [Swapped(sec) EXCEPT !.fence = TRUE]
        BY <2>1, <3>1
      <4>2. Swapped(sec) \in SecurityType /\ Swapped(sec).active = sec.second
        BY <1>1, SwapPreserves
      <4> QED BY <3>1, <4>1, <4>2 DEF SecurityType
    <3>2. CASE ~activates
      BY <1>1, <2>1, <3>2
    <3> QED BY <3>1, <3>2
  <2> QED BY <1>4, <2>3, <2>4, <2>5
<1>5. CASE waits = "None"
  <2>1. /\ sec' \in Commits(sec, s, KeySeq[k], c, NoNode)
        /\ HeardRecording(sec, sec', s, k, c)
        /\ pending' = pending
    BY <1>5 DEF Receive
  <2>2. ~activates
    <3> SUFFICES ASSUME activates PROVE FALSE
      OBVIOUS
    <3>1. y.fence = TRUE
      <4>1. Swapped(sec) \in SecurityType
        BY <1>1, SwapPreserves
      <4> QED BY <4>1 DEF SecurityType
    <3> QED BY <1>5, <3>1
  <2>3. sec' \in SecurityType /\ sec'.active = sec.active
    BY <1>1, <2>1, KeySeqType, CommitPreserves
  <2>4. HeardOK'
    BY <1>1, <2>1, HeardRecordingType
  <2> QED BY <1>1, <1>2, <1>4, <2>1, <2>2, <2>3, <2>4 DEF PendingOK
<1> QED BY <1>3, <1>5

\* Joining, commissioning and the handlers of a waiting data frame: only a
\* Switch-Key changes the active key, and that one is not adopted.
LEMMA HandlingInv ==
    ASSUME Inv,
           \/ \E p \in Sources, k \in Keys : Join(p, k)
           \/ Commission
           \/ \E k \in Keys : TransportKey(k)
           \/ \E q \in Seqs : SwitchKey(q)
    PROVE  Inv'
<1>1. /\ sec \in SecurityType /\ PendingOK /\ saved \in SavedType
      /\ NeighborsOK /\ HeardOK /\ adopted \in BOOLEAN
  BY TypeParts DEF Inv
<1>2. KeyInv
  BY DEF Inv
<1>3. ASSUME NEW p \in Sources, NEW k \in Keys, Join(p, k) PROVE Inv'
  <2>1. /\ sec.active = NoKey /\ saved = NoState /\ AddParent(p)
        /\ sec' = set_network_key(sec, k) /\ pending' = pending /\ saved' = saved
        /\ heard' = heard /\ adopted' = adopted
    BY <1>3 DEF Join, history
  <2>2. sec' \in SecurityType /\ sec'.active = k
    BY <1>1, <2>1, SetKeyPreserves
  <2>3. NeighborsOK'
    BY <1>1, <2>1, AddParentType
  <2>4. TypeOK'
    BY <1>1, <2>1, <2>2, <2>3, TypePartsNext DEF PendingOK, HeardOK
  <2>5. KeyInv'
    BY <1>2, <2>1, <2>2, SecurityAssumption DEF KeyInv, AdoptedKeyDurable
  <2> QED BY <2>4, <2>5 DEF Inv
<1>4. ASSUME Commission PROVE Inv'
  <2>1. /\ sec.active # NoKey /\ pending = NoFrame /\ saved' = Snapshot(sec)
        /\ sec' = sec /\ pending' = pending /\ heard' = heard /\ adopted' = adopted
    BY <1>4 DEF Commission, history
  <2>2. saved' \in SavedType /\ saved'.active = sec.active
    BY <1>1, <2>1, SnapshotType
  <2>3. NeighborsOK'
    BY <1>1, <1>4 DEF Commission, neighbors, NeighborsOK
  <2>4. TypeOK'
    BY <1>1, <2>1, <2>2, <2>3, TypePartsNext DEF PendingOK, HeardOK
  <2>5. KeyInv'
    BY <1>2, <2>1, <2>2 DEF KeyInv, AdoptedKeyDurable
  <2> QED BY <2>4, <2>5 DEF Inv
<1>5. ASSUME Handling, Handled
      PROVE  /\ pending \in FrameType /\ pending # NoFrame /\ PendingOK'
             /\ pending'.waits = "SecurityState"
  <2>1. pending \in FrameType /\ pending # NoFrame
    BY <1>1, <1>5 DEF Handling, PendingOK
  <2> QED BY <1>5, <2>1 DEF Handled, PendingOK, FrameType
<1>6. ASSUME NEW k \in Keys, TransportKey(k) PROVE Inv'
  <2>1. /\ Handling /\ Handled /\ sec.active # NoKey
        /\ sec' = stage_network_key(sec, k) /\ HeardStaging(sec, sec', k)
        /\ saved' = saved /\ adopted' = adopted
    BY <1>6 DEF TransportKey
  <2>2. sec' \in SecurityType /\ sec'.active = sec.active /\ sec'.fence = sec.fence
    BY <1>1, <2>1, StagePreserves
  <2>3. NeighborsOK'
    BY <1>1, <1>6 DEF TransportKey, neighbors, NeighborsOK
  <2>4. HeardOK'
    BY <1>1, <2>1, HeardStagingType
  <2>5. TypeOK'
    BY <1>1, <1>5, <2>1, <2>2, <2>3, <2>4, TypePartsNext
  <2>6. KeyInv'
    BY <1>2, <1>5, <2>1, <2>2 DEF KeyInv, AdoptedKeyDurable
  <2> QED BY <2>5, <2>6 DEF Inv
<1>7. ASSUME NEW q \in Seqs, SwitchKey(q) PROVE Inv'
  <2>1. /\ Handling /\ Handled
        /\ sec' = activate_network_key(sec, q)
        /\ adopted' = (adopted /\ ~CanActivate(sec, q))
        /\ saved' = saved /\ heard' = heard
    BY <1>7 DEF SwitchKey
  <2>2. NeighborsOK'
    BY <1>1, <1>7 DEF SwitchKey, neighbors, NeighborsOK
  <2>3. /\ sec' \in SecurityType
        /\ CanActivate(sec, q) => sec'.active = sec.second /\ sec.second # NoKey
        /\ ~CanActivate(sec, q) => sec' = sec
    <3>1. CanActivate(sec, q) => sec.second # NoKey
      BY DEF CanActivate
    <3> QED BY <1>1, <2>1, <3>1, SwapPreserves DEF activate_network_key
  <2>4. TypeOK'
    BY <1>1, <1>5, <2>1, <2>2, <2>3, TypePartsNext DEF HeardOK
  <2>5. KeyInv'
    BY <1>2, <1>5, <2>1, <2>3 DEF KeyInv, AdoptedKeyDurable
  <2> QED BY <2>4, <2>5 DEF Inv
<1> QED BY <1>3, <1>4, <1>6, <1>7

\* Making a frame durable: the fence falls only where the live key is stored.
LEMMA PersistInv ==
    ASSUME Inv, Persist \/ PersistFails \/ PersistChild
    PROVE  Inv'
<1>1. /\ sec \in SecurityType /\ PendingOK /\ saved \in SavedType
      /\ NeighborsOK /\ HeardOK /\ adopted \in BOOLEAN
  BY TypeParts DEF Inv
<1>2. KeyInv /\ TypeOK
  BY DEF Inv
<1>3. pending # NoFrame /\ sec.active # NoKey
  BY <1>2 DEF Persist, PersistFails, PersistChild, KeyInv
<1>4. pending \in FrameType
  BY <1>1, <1>3 DEF PendingOK
<1>5. NeighborsOK' /\ adopted' = adopted
  BY <1>1 DEF Persist, PersistFails, PersistChild, neighbors, history, NeighborsOK
<1>6. CASE Persist
  <2>1. saved' = refresh_security_state(sec)
    BY <1>6 DEF Persist
  <2>2. /\ saved' \in SavedType
        /\ saved # NoState => saved'.active = sec.active
        /\ saved = NoState => saved' = NoState
    BY <2>1, RefreshStored
  <2>3. CASE pending.waits = "ChildState"
    <3>1. /\ pending' = [pending EXCEPT !.waits = "ChildSaved"]
          /\ sec' = sec /\ heard' = heard
      BY <1>6, <2>3 DEF Persist
    <3>2. PendingOK'
      BY <1>4, <3>1 DEF PendingOK, FrameType
    <3>3. TypeOK'
      BY <1>1, <1>5, <2>2, <3>1, <3>2, TypePartsNext DEF HeardOK
    <3>4. KeyInv'
      BY <1>2, <1>3, <1>5, <2>2, <3>1 DEF KeyInv, AdoptedKeyDurable
    <3> QED BY <3>3, <3>4 DEF Inv
  <2>4. CASE pending.waits # "ChildState"
    <3>1. Complete
      BY <1>6, <2>4 DEF Persist
    <3>2. /\ sec' \in SecurityType /\ sec'.active = sec.active
          /\ pending' = NoFrame /\ PendingOK' /\ HeardOK'
      BY <1>2, <1>3, <3>1, CompletePreserves
    <3>3. TypeOK'
      BY <1>1, <1>5, <2>2, <3>2, TypePartsNext
    <3>4. KeyInv'
      BY <1>2, <1>3, <1>5, <2>2, <3>2 DEF KeyInv, AdoptedKeyDurable
    <3> QED BY <3>3, <3>4 DEF Inv
  <2> QED BY <2>3, <2>4
<1>7. CASE PersistFails
  <2>1. pending' = NoFrame /\ sec' = sec /\ saved' = saved /\ heard' = heard
    BY <1>7 DEF PersistFails, history
  <2>2. TypeOK'
    BY <1>1, <1>5, <2>1, TypePartsNext DEF PendingOK, HeardOK
  <2>3. KeyInv'
    BY <1>2, <1>5, <2>1 DEF KeyInv, AdoptedKeyDurable
  <2> QED BY <2>2, <2>3 DEF Inv
<1>8. CASE PersistChild
  <2>1. Complete /\ pending.waits = "ChildSaved" /\ saved' = saved
    BY <1>8 DEF PersistChild
  <2>2. /\ sec' \in SecurityType /\ sec'.active = sec.active
        /\ pending' = NoFrame /\ PendingOK' /\ HeardOK'
    BY <1>2, <1>3, <2>1, CompletePreserves
  <2>3. TypeOK'
    BY <1>1, <1>5, <2>1, <2>2, TypePartsNext
  <2>4. KeyInv'
    BY <1>2, <1>3, <1>5, <2>1, <2>2 DEF KeyInv, AdoptedKeyDurable
  <2> QED BY <2>3, <2>4 DEF Inv
<1> QED BY <1>6, <1>7, <1>8

\* Rejoins: what becomes active is stored, or was stored before, and no key is
\* adopted while none is installed.
LEMMA RejoinInv ==
    ASSUME Inv,
           \/ \E p \in Sources, k \in Keys, c \in Counters, accepted \in BOOLEAN :
                  SecureRejoin(p, k, c, accepted)
           \/ \E p \in Sources : TcRejoin(p)
           \/ \E k \in Keys : TcKeyStored(k) \/ TcKeyNotStored(k)
           \/ TcRejoinFails
    PROVE  Inv'
<1>1. /\ sec \in SecurityType /\ PendingOK /\ saved \in SavedType
      /\ NeighborsOK /\ HeardOK /\ adopted \in BOOLEAN
  BY TypeParts DEF Inv
<1>2. KeyInv
  BY DEF Inv
<1>3. ASSUME NEW p \in Sources, NEW k \in Keys, NEW c \in Counters,
             NEW accepted \in BOOLEAN, SecureRejoin(p, k, c, accepted)
      PROVE  Inv'
  <2>1. /\ saved # NoState /\ pending = NoFrame /\ k \in Installed(sec)
        /\ saved' = refresh_security_state(sec)
        /\ sec' \in Commits(sec, p, KeySeq[k], c, p)
        /\ HeardRecording(sec, sec', p, k, c)
        /\ pending' = pending /\ adopted' = adopted
    BY <1>3 DEF SecureRejoin
  <2>2. sec.active # NoKey
    BY <1>2, <2>1, SecurityAssumption DEF KeyInv, Installed
  <2>3. sec' \in SecurityType /\ sec'.active = sec.active
    BY <1>1, <2>1, KeySeqType, CommitPreserves
  <2>4. saved' \in SavedType /\ saved'.active = sec.active
    BY <2>1, RefreshStored
  <2>5. HeardOK'
    BY <1>1, <2>1, HeardRecordingType
  <2>6. NeighborsOK'
    <3>1. CASE accepted
      BY <1>1, <1>3, <3>1, AddParentType DEF SecureRejoin
    <3>2. CASE ~accepted
      BY <1>1, <1>3, <3>2 DEF SecureRejoin, neighbors, NeighborsOK
    <3> QED BY <3>1, <3>2
  <2>7. TypeOK'
    BY <1>1, <2>1, <2>3, <2>4, <2>5, <2>6, TypePartsNext DEF PendingOK
  <2>8. KeyInv'
    BY <1>2, <2>1, <2>2, <2>3, <2>4 DEF KeyInv, AdoptedKeyDurable
  <2> QED BY <2>7, <2>8 DEF Inv
<1>4. ASSUME NEW p \in Sources, TcRejoin(p) PROVE Inv'
  <2>1. /\ saved # NoState /\ sec.active # NoKey /\ pending = NoFrame
        /\ saved' = refresh_security_state(sec)
        /\ sec' = NewSecurity /\ HeardUnder(sec') /\ AddParent(p)
        /\ adopted' = FALSE /\ pending' = pending
    BY <1>4 DEF TcRejoin, clear_network_keys
  <2>2. saved' \in SavedType /\ saved'.active = sec.active
    BY <2>1, RefreshStored
  <2>3. HeardOK' /\ NeighborsOK'
    BY <1>1, <2>1, HeardUnderType, AddParentType
  <2>4. TypeOK'
    BY <1>1, <2>1, <2>2, <2>3, NewSecurityType, TypePartsNext DEF PendingOK
  <2>5. KeyInv'
    BY <1>2, <2>1, <2>2 DEF KeyInv, AdoptedKeyDurable, NewSecurity
  <2> QED BY <2>4, <2>5 DEF Inv
<1>5. ASSUME NEW k \in Keys, TcKeyStored(k) PROVE Inv'
  <2>1. /\ sec.active = NoKey
        /\ sec' = set_network_key(sec, k)
        /\ saved' = [NoState EXCEPT !.active = k]
        /\ pending' = pending /\ heard' = heard /\ adopted' = adopted
    BY <1>5 DEF TcKeyStored, history
  <2>2. sec' \in SecurityType /\ sec'.active = k
    BY <1>1, <2>1, SetKeyPreserves
  <2>3. saved' \in SavedType /\ saved'.active = k
    BY <2>1 DEF NoState, SavedType
  <2>4. NeighborsOK'
    BY <1>1, <1>5 DEF TcKeyStored, neighbors, NeighborsOK
  <2>5. TypeOK'
    BY <1>1, <2>1, <2>2, <2>3, <2>4, TypePartsNext DEF PendingOK, HeardOK
  <2>6. KeyInv'
    BY <1>2, <2>1, <2>2, <2>3, SecurityAssumption DEF KeyInv, AdoptedKeyDurable
  <2> QED BY <2>5, <2>6 DEF Inv
<1>6. ASSUME NEW k \in Keys, TcKeyNotStored(k) PROVE Inv'
  <2>1. /\ saved # NoState /\ sec.active = NoKey
        /\ sec' = install_restored_network_security(set_network_key(sec, k), saved)
        /\ saved' = saved
        /\ pending' = pending /\ heard' = heard /\ adopted' = adopted
    BY <1>6 DEF TcKeyNotStored, history
  <2>2. saved.active \in Keys /\ saved.second \in Keys \cup {NoKey}
    BY <2>1, StoredRecord
  <2>3. set_network_key(sec, k) \in SecurityType
    BY <1>1, SetKeyPreserves
  <2>4. sec' \in SecurityType /\ sec'.active = saved.active
    BY <2>1, <2>2, <2>3, InstallPreserves
  <2>5. NeighborsOK'
    BY <1>1, <1>6 DEF TcKeyNotStored, neighbors, NeighborsOK
  <2>6. TypeOK'
    BY <1>1, <2>1, <2>4, <2>5, TypePartsNext DEF PendingOK, HeardOK, SavedType
  <2>7. KeyInv'
    BY <1>2, <2>1, <2>2, <2>4, SecurityAssumption DEF KeyInv, AdoptedKeyDurable
  <2> QED BY <2>6, <2>7 DEF Inv
<1>7. ASSUME TcRejoinFails PROVE Inv'
  <2>1. /\ saved # NoState /\ pending = NoFrame
        /\ saved' = IF sec.active = NoKey THEN saved ELSE refresh_security_state(sec)
        /\ sec' = install_restored_network_security(sec, saved')
        /\ pending' = pending /\ adopted' = adopted
    BY <1>7 DEF TcRejoinFails
  <2>2. saved.active \in Keys
    BY <2>1, StoredRecord
  <2>3. /\ saved' \in SavedType /\ saved'.active \in Keys
    BY <1>1, <2>1, <2>2, RefreshStored DEF SecurityType
  <2>4. saved'.second \in Keys \cup {NoKey}
    BY <2>3 DEF SavedType
  <2>5. sec' \in SecurityType /\ sec'.active = saved'.active
    BY <1>1, <2>1, <2>3, <2>4, InstallPreserves
  <2>6. NeighborsOK'
    BY <1>1, <1>7 DEF TcRejoinFails, neighbors, NeighborsOK
  <2>7. HeardOK'
    BY <1>1, <1>7, SecurityAssumption DEF TcRejoinFails, HeardOK
  <2>8. TypeOK'
    BY <1>1, <2>1, <2>3, <2>5, <2>6, <2>7, TypePartsNext DEF PendingOK
  <2>9. KeyInv'
    BY <1>2, <2>1, <2>3, <2>5, SecurityAssumption DEF KeyInv, AdoptedKeyDurable
  <2> QED BY <2>8, <2>9 DEF Inv
<1> QED BY <1>3, <1>4, <1>5, <1>6, <1>7

\* Ageing and the children of a router change floors, never keys.
LEMMA MaintenanceInv ==
    ASSUME Inv,
           \/ age_replay_floors
           \/ \E s \in Sources : AdmitChild(s) \/ evict_child(s) \/ age_router_child(s)
    PROVE  Inv'
<1> DEFINE Floors == [source : Sources, seq : Seqs, counter : Counters,
                      silent : 0..StaleSecs]
<1>1. /\ sec \in SecurityType /\ PendingOK /\ saved \in SavedType
      /\ NeighborsOK /\ HeardOK /\ adopted \in BOOLEAN
  BY TypeParts DEF Inv
<1>2. KeyInv
  BY DEF Inv
<1>3. ASSUME sec' \in SecurityType, sec'.active = sec.active, sec'.second = sec.second,
             sec'.fence = sec.fence, pending' = pending, saved' = saved,
             adopted' = adopted, HeardOK', NeighborsOK'
      PROVE  Inv'
  <2>1. TypeOK'
    BY <1>1, <1>3, TypePartsNext DEF PendingOK
  <2>2. KeyInv'
    BY <1>2, <1>3 DEF KeyInv, AdoptedKeyDurable
  <2> QED BY <2>1, <2>2 DEF Inv
<1>4. ASSUME NEW t \in SUBSET Floors, sec' = [sec EXCEPT !.table = t]
      PROVE  /\ sec' \in SecurityType /\ sec'.active = sec.active
             /\ sec'.second = sec.second /\ sec'.fence = sec.fence
  BY <1>1, <1>4 DEF SecurityType
<1>5. sec.table \subseteq Floors
  BY <1>1 DEF SecurityType
<1>6. CASE age_replay_floors
  <2> DEFINE Aged(e) == [e EXCEPT !.silent = IF e.silent < StaleSecs
                                             THEN e.silent + 1 ELSE e.silent]
             t == {Aged(e) : e \in sec.table}
  <2>1. sec' = [sec EXCEPT !.table = t]
    BY <1>6 DEF age_replay_floors
  <2>2. ASSUME NEW e \in Floors PROVE Aged(e) \in Floors
    <3>1. e.silent \in 0..StaleSecs /\ StaleSecs \in Nat
      BY SecurityAssumption
    <3> DEFINE n == IF e.silent < StaleSecs THEN e.silent + 1 ELSE e.silent
    <3>2. n \in 0..StaleSecs
      BY <3>1
    <3> HIDE DEF n
    <3>3. [e EXCEPT !.silent = n] \in Floors
      BY <3>2
    <3> QED BY <3>3 DEF n
  <2>3. t \in SUBSET Floors
    BY <1>5, <2>2
  <2>4. NeighborsOK' /\ HeardOK'
    BY <1>1, <1>6 DEF age_replay_floors, neighbors, history, NeighborsOK, HeardOK
  <2>5. pending' = pending /\ saved' = saved /\ adopted' = adopted
    BY <1>6 DEF age_replay_floors, history
  <2> HIDE DEF t
  <2> QED BY <1>3, <1>4, <2>1, <2>3, <2>4, <2>5
<1>7. ASSUME NEW s \in Sources, ForgetFloors(s),
             children' \subseteq Sources, joining' \subseteq Sources
      PROVE  Inv'
  <2> DEFINE t == {e \in sec.table : e.source # s}
  <2>1. sec' = [sec EXCEPT !.table = t] /\ t \in SUBSET Floors
    BY <1>5, <1>7 DEF ForgetFloors
  <2>2. HeardOK'
    BY <1>1, <1>7, HeardWithoutType DEF ForgetFloors
  <2>3. NeighborsOK'
    BY <1>1, <1>7 DEF ForgetFloors, NeighborsOK
  <2>4. pending' = pending /\ saved' = saved /\ adopted' = adopted
    BY <1>7 DEF ForgetFloors
  <2> HIDE DEF t
  <2> QED BY <1>3, <1>4, <2>1, <2>2, <2>3, <2>4
<1>8. ASSUME NEW s \in Sources, AdmitChild(s) \/ evict_child(s) PROVE Inv'
  <2>1. /\ ForgetFloors(s)
        /\ children' \subseteq Sources /\ joining' \subseteq Sources
    BY <1>1, <1>8 DEF AdmitChild, evict_child, NeighborsOK
  <2> QED BY <1>7, <2>1
<1>9. ASSUME NEW s \in Sources, age_router_child(s) PROVE Inv'
  <2>1. /\ DropNeighbor(s) /\ parent' = parent
        /\ sec' = sec /\ pending' = pending /\ saved' = saved
        /\ heard' = heard /\ adopted' = adopted
    BY <1>9 DEF age_router_child, history
  <2>2. NeighborsOK'
    BY <1>1, <2>1, DropNeighborType DEF NeighborsOK
  <2> QED BY <1>1, <1>3, <2>1, <2>2 DEF HeardOK
<1> QED BY <1>6, <1>8, <1>9

\* Leaving and restarting: what is installed afterwards is what is stored.
LEMMA PowerInv ==
    ASSUME Inv, Reboot \/ \E rejoin \in BOOLEAN : Leave(rejoin)
    PROVE  Inv'
<1>1. /\ sec \in SecurityType /\ PendingOK /\ saved \in SavedType
      /\ NeighborsOK /\ HeardOK /\ adopted \in BOOLEAN
  BY TypeParts DEF Inv
<1>2. KeyInv
  BY DEF Inv
<1>3. CASE Reboot
  <2>1. /\ pending' = NoFrame /\ saved' = saved /\ adopted' = FALSE
        /\ heard' = [d \in Domains |-> 0]
        /\ sec' = IF saved = NoState THEN NewSecurity
                  ELSE install_restored_network_security(NewSecurity, saved)
    BY <1>3 DEF Reboot
  <2>2. /\ sec' \in SecurityType
        /\ sec'.active = NoKey => sec' = NewSecurity
    <3>1. CASE saved = NoState
      BY <2>1, <3>1, NewSecurityType
    <3>2. CASE saved # NoState
      BY <2>1, <3>2, StoredRecord, NewSecurityType, InstallPreserves, SecurityAssumption
    <3> QED BY <3>1, <3>2
  <2>3. NeighborsOK'
    BY <1>1, <1>3 DEF Reboot, NeighborsOK
  <2>4. HeardOK'
    BY <2>1, SecurityAssumption DEF HeardOK
  <2>5. TypeOK'
    BY <1>1, <2>1, <2>2, <2>3, <2>4, TypePartsNext DEF PendingOK, SavedType
  <2>6. KeyInv'
    BY <1>2, <2>1, <2>2 DEF KeyInv, AdoptedKeyDurable, NewSecurity
  <2> QED BY <2>5, <2>6 DEF Inv
<1>4. ASSUME NEW rejoin \in BOOLEAN, Leave(rejoin) PROVE Inv'
  <2>1. pending' = NoFrame /\ PendingOK' /\ NeighborsOK'
    BY <1>1, <1>4 DEF Leave, PendingOK, NeighborsOK
  <2>2. CASE rejoin
    <3>1. sec' = sec /\ saved' = saved /\ heard' = heard /\ adopted' = adopted
      BY <1>4, <2>2 DEF Leave, history
    <3>2. TypeOK'
      BY <1>1, <2>1, <3>1, TypePartsNext DEF HeardOK
    <3>3. KeyInv'
      BY <1>2, <2>1, <3>1 DEF KeyInv, AdoptedKeyDurable
    <3> QED BY <3>2, <3>3 DEF Inv
  <2>3. CASE ~rejoin
    <3>1. /\ sec' = NewSecurity /\ saved' = NoState /\ adopted' = FALSE
          /\ HeardUnder(sec')
      BY <1>4, <2>3 DEF Leave
    <3>2. TypeOK'
      BY <1>1, <2>1, <3>1, HeardUnderType, NewSecurityType, NoStateType, TypePartsNext
    <3>3. KeyInv'
      BY <2>1, <3>1 DEF KeyInv, AdoptedKeyDurable, NewSecurity
    <3> QED BY <3>2, <3>3 DEF Inv
  <2> QED BY <2>2, <2>3
<1> QED BY <1>3, <1>4

\* Every step preserves the invariant.
LEMMA NextInv == Inv /\ [Next]_vars => Inv'
<1> SUFFICES ASSUME Inv, [Next]_vars PROVE Inv'
  OBVIOUS
<1>1. CASE UNCHANGED vars
  <2>1. TypeOK'
    BY <1>1 DEF Inv, TypeOK, vars, SecurityType, FrameType
  <2>2. KeyInv'
    BY <1>1 DEF Inv, KeyInv, AdoptedKeyDurable, vars
  <2> QED BY <2>1, <2>2 DEF Inv
<1>2. CASE Next
  <2>1. \/ \/ \E p \in Sources, k \in Keys : Join(p, k)
           \/ Commission
           \/ \E k \in Keys : TransportKey(k)
           \/ \E q \in Seqs : SwitchKey(q)
        \/ \E s \in Sources, k \in Keys, c \in Counters,
               kind \in FrameKinds, own \in {TRUE, ~router} : Receive(s, k, c, kind, own)
        \/ Persist \/ PersistFails \/ PersistChild
        \/ \/ \E p \in Sources, k \in Keys, c \in Counters, accepted \in BOOLEAN :
                  SecureRejoin(p, k, c, accepted)
           \/ \E p \in Sources : TcRejoin(p)
           \/ \E k \in Keys : TcKeyStored(k) \/ TcKeyNotStored(k)
           \/ TcRejoinFails
        \/ \/ age_replay_floors
           \/ \E s \in Sources : AdmitChild(s) \/ evict_child(s) \/ age_router_child(s)
        \/ Reboot \/ \E rejoin \in BOOLEAN : Leave(rejoin)
    BY <1>2 DEF Next
  <2> QED BY <2>1, HandlingInv, ReceiveInv, PersistInv, RejoinInv, MaintenanceInv, PowerInv
<1> QED BY <1>1, <1>2

-----------------------------------------------------------------------------
(* Theorems *)

\* The key set, the replay table with its bounded silence, the waiting frame,
\* the stored keys and the neighbours stay well formed in every behaviour.
THEOREM SecurityTypeCorrect == Spec => []TypeOK
<1>1. Inv => TypeOK
  BY DEF Inv
<1> QED BY <1>1, InitInv, NextInv, PTL DEF Spec

\* A key adopted from received traffic secures nothing the node sends before
\* the store holds it as the active key (activation_pending): whatever frames,
\* store failures, key commands, rejoins and restarts follow the adoption.
THEOREM AdoptedKeyStored == Spec => []AdoptedKeyDurable
<1>1. Inv => AdoptedKeyDurable
  BY DEF Inv, KeyInv
<1> QED BY <1>1, InitInv, NextInv, PTL DEF Spec
=============================================================================
