------------------------ MODULE ApsFragmentationProofs ------------------------
(***************************************************************************)
(* Theorems about ApsFragmentation: what the originator's SUCCESS means to  *)
(* the receiver, that no ASDU is put together from two, and that none is    *)
(* handed up twice, for any number of originators, sessions, blocks,        *)
(* retries and faults.                                                      *)
(***************************************************************************)
EXTENDS ApsFragmentation, FiniteSetTheorems, WellFoundedInduction, TLAPS

-----------------------------------------------------------------------------
(* The inductive invariant. *)

TxSessions == [active : BOOLEAN, asdu : Nat, aps_counter : Nat, total : Nat,
               window_start : Nat, acked : SUBSET Nat, due : SUBSET Nat,
               retries : Nat, waiting : BOOLEAN, waited : Nat]
Sessions == [active : BOOLEAN, delivered : BOOLEAN, src : Originators \cup {""},
             aps_counter : Nat, total_blocks : Nat, data : [Blocks -> Nat],
             window_start : Nat, idle : Nat]
BlockFrames == [kind : {"block"}, src : Originators, aps_counter : Nat, block : Nat,
                total : Nat, asdu : Nat, copy : {0, 1}]
AckFrames == [kind : {"ack"}, dst : Originators, aps_counter : Nat, window_start : Nat,
              bits : SUBSET Nat, copy : {0, 1}]
Statuses == {"unused", "inFlight", "Success", "NoAck", "Refused", "SecurityFail", "Forgotten"}
DupEntries == [src : Originators, aps_counter : Nat, window : Nat, age : Nat]

Typed ==
    /\ fragment_tx \in [Originators -> TxSessions]
    /\ aps_counter \in [Originators -> Nat]
    /\ sent \in [Originators -> 0..MaxSends]
    /\ entries \in [Slots -> Sessions]
    /\ dup_table \subseteq DupEntries
    /\ pending_ack \subseteq AckFrames
    /\ net \subseteq BlockFrames \cup AckFrames
    /\ outcome \in [Originators -> [Requests -> Statuses]]
    /\ accepted \in [Originators -> [Requests -> Nat]]

\* Until an originator restarts, its ASDUs and its APS counters run in step, so
\* that a counter stands for one ASDU.
Numbered ==
    \A o \in Originators \ restarted :
        /\ aps_counter[o] = sent[o]
        /\ fragment_tx[o].active => fragment_tx[o].asdu = fragment_tx[o].aps_counter + 1

\* A transmit session is about a request and its due blocks are blocks of it.
TxBounded ==
    \A o \in Originators : fragment_tx[o].active =>
        /\ fragment_tx[o].asdu \in Requests
        /\ fragment_tx[o].total = Total[fragment_tx[o].asdu]
        /\ fragment_tx[o].due \subseteq 0..(fragment_tx[o].total - 1)

\* A block in the air is a block of the ASDU its counter stands for.
FrameOK(f) ==
    /\ f.asdu \in Requests
    /\ f.total = Total[f.asdu]
    /\ f.block < f.total
    /\ f.src \notin restarted => f.asdu = f.aps_counter + 1
FramesOK == \A f \in net : f.kind = "block" => FrameOK(f)

\* A session holds blocks of one ASDU, knows its size once it has block 0, and
\* is complete or delivered only when the ASDU was handed up.
SessionOK(e) ==
    e.active /\ e.src \notin restarted =>
        /\ e.src \in Originators
        /\ e.aps_counter + 1 \in Requests
        /\ \A b \in Received(e) : e.data[b] = e.aps_counter + 1 /\ b < Total[e.aps_counter + 1]
        /\ e.total_blocks \in {0, Total[e.aps_counter + 1]}
        /\ 0 \in Received(e) => e.total_blocks # 0
        /\ IsComplete(e) \/ e.delivered => accepted[e.src][e.aps_counter + 1] > 0
OnePerCounter(es) ==
    \A i, j \in Slots :
        es[i].active /\ es[j].active /\ es[i].src = es[j].src
          /\ es[i].aps_counter = es[j].aps_counter => i = j
EntriesOK(es) ==
    /\ es \in [Slots -> Sessions]
    /\ OnePerCounter(es)
    /\ \A i \in Slots : SessionOK(es[i])

\* A duplicate entry is of an ASDU that was handed up.
DupOK ==
    \A d \in dup_table : d.src \notin restarted =>
        /\ d.aps_counter + 1 \in Requests
        /\ accepted[d.src][d.aps_counter + 1] > 0

\* The receiver has block b of the a-th ASDU of o, or had it: the ASDU was
\* handed up or a session of it expired.
Has(es, o, a, b) ==
    \E i \in Slots : es[i].active /\ es[i].src = o /\ es[i].aps_counter + 1 = a
                       /\ b \in Received(es[i])
Holds(es, o, a, b) == accepted[o][a] > 0 \/ <<o, a>> \in expired \/ Has(es, o, a, b)

\* An acknowledgement names, of the blocks of its window, only ones the
\* receiver has; so does the record the originator keeps of them.
AckOK(es, g) ==
    g.dst \notin restarted =>
        /\ g.aps_counter + 1 \in Requests
        /\ \A b \in g.bits :
             b < g.window_start + WindowSize /\ b < Total[g.aps_counter + 1]
                => Holds(es, g.dst, g.aps_counter + 1, b)
AcksOK(es) == \A g \in net \cup pending_ack : g.kind = "ack" => AckOK(es, g)
AckedHeld(es) ==
    \A o \in Originators \ restarted : fragment_tx[o].active =>
        \A b \in fragment_tx[o].acked : Holds(es, o, fragment_tx[o].asdu, b)

Inv ==
    /\ Typed
    /\ Numbered
    /\ TxBounded
    /\ FramesOK
    /\ EntriesOK(entries)
    /\ DupOK
    /\ AcksOK(entries)
    /\ AckedHeld(entries)
    /\ ConfirmedIsAccepted
    /\ AcceptedIsWhole

-----------------------------------------------------------------------------
(* Operators of the model. *)

\* The least element of a nonempty set of naturals is one of them (the first
\* matching slot, the lowest unacknowledged block).
LEMMA MinIsLeast ==
    ASSUME NEW S \in SUBSET Nat, S # {}
    PROVE  Min(S) \in S /\ \A y \in S : Min(S) <= y
<1> DEFINE R == OpToRel(<, Nat)
<1>1. IsWellFoundedOn(R, Nat)
  BY NatLessThanWellFounded
<1> HIDE DEF R
<1>2. PICK x \in S : \A y \in S : ~ (<<y, x>> \in R)
  BY <1>1, WFMin, Zenon
<1>3. ASSUME NEW y \in S, y < x
      PROVE  <<y, x>> \in R
  <2>1. <<y, x>> \in Nat \X Nat /\ <<y, x>>[1] < <<y, x>>[2]
    BY <1>3
  <2> QED BY <2>1, Zenon DEF R, OpToRel
<1>4. \A y \in S : x <= y
  <2>1. \A y \in S : ~(y < x)
    BY <1>2, <1>3, Zenon
  <2> QED BY <2>1
<1> QED
  BY <1>4 DEF Min

LEMMA MinOfTwo ==
    ASSUME NEW m \in Nat, NEW n \in Nat
    PROVE  Min({m, n}) \in Nat /\ Min({m, n}) <= m /\ Min({m, n}) <= n
             /\ Min({m, n}) \in {m, n}
BY MinIsLeast

\* The blocks of a window are blocks of the ASDU.
LEMMA WindowBlocks ==
    ASSUME NEW s \in TxSessions
    PROVE  \A b \in TxWindow(s) : b \in 0..(s.total - 1) /\ b < s.window_start + WindowSize
<1>1. s.window_start + WindowSize \in Nat /\ s.total \in Nat /\ s.window_start \in Nat
  BY FragmentationAssumption DEF TxSessions
<1>2. Min({s.window_start + WindowSize, s.total}) \in Nat
        /\ Min({s.window_start + WindowSize, s.total}) <= s.window_start + WindowSize
        /\ Min({s.window_start + WindowSize, s.total}) <= s.total
  BY <1>1, MinOfTwo
<1> QED
  BY <1>1, <1>2 DEF TxWindow

LEMMA LowestInWindow ==
    ASSUME NEW s \in TxSessions
    PROVE  LowestUnacked(s) \subseteq TxWindow(s)
<1>1. TxWindow(s) \ s.acked \in SUBSET Nat
  BY WindowBlocks
<1>2. CASE TxWindow(s) \ s.acked = {}
  BY <1>2 DEF LowestUnacked
<1>3. CASE TxWindow(s) \ s.acked # {}
  <2>1. Min(TxWindow(s) \ s.acked) \in TxWindow(s)
    BY <1>1, <1>3, MinIsLeast
  <2> QED
    BY <2>1 DEF LowestUnacked
<1> QED
  BY <1>2, <1>3

\* Sending the due blocks changes only the timer.
LEMMA DrainedSession ==
    ASSUME NEW s \in TxSessions
    PROVE  /\ Drained(s) \in TxSessions
           /\ Drained(s).active = s.active /\ Drained(s).asdu = s.asdu
           /\ Drained(s).aps_counter = s.aps_counter /\ Drained(s).total = s.total
           /\ Drained(s).acked = s.acked /\ Drained(s).due = {}
BY DEF Drained, TxSessions

\* A due timer adds at most a block of the window.
LEMMA PolledSession ==
    ASSUME NEW s \in TxSessions
    PROVE  /\ Polled(s) \in TxSessions
           /\ Polled(s).active = s.active /\ Polled(s).asdu = s.asdu
           /\ Polled(s).aps_counter = s.aps_counter /\ Polled(s).total = s.total
           /\ Polled(s).acked = s.acked
           /\ Polled(s).due \subseteq s.due \cup 0..(s.total - 1)
<1>1. LowestUnacked(s) \subseteq 0..(s.total - 1)
  BY LowestInWindow, WindowBlocks
<1>2. LowestUnacked(s) \subseteq Nat
  BY <1>1
<1>3. CASE ~TimedOut(s)
  BY <1>3 DEF Polled
<1>4. CASE TimedOut(s)
  <2> DEFINE q == [s EXCEPT !.retries = @ + 1, !.waiting = FALSE, !.due = @ \cup LowestUnacked(s)]
  <2>1. Polled(s) = q
    BY <1>4 DEF Polled
  <2>2. q \in TxSessions
    <3>1. s.retries + 1 \in Nat /\ s.due \cup LowestUnacked(s) \in SUBSET Nat
      BY <1>2 DEF TxSessions
    <3> QED BY <3>1 DEF TxSessions
  <2>3. /\ q.active = s.active /\ q.asdu = s.asdu /\ q.aps_counter = s.aps_counter
        /\ q.total = s.total /\ q.acked = s.acked /\ q.due = s.due \cup LowestUnacked(s)
    BY DEF TxSessions
  <2> HIDE DEF q
  <2> QED BY <2>1, <2>2, <2>3, <1>1
<1> QED
  BY <1>3, <1>4

\* An acknowledgement adds blocks of the window it names, and nothing outside
\* the ASDU becomes due.
LEMMA AppliedSession ==
    ASSUME NEW s \in TxSessions, NEW g
    PROVE  /\ Applied(s, g) \in TxSessions
           /\ Applied(s, g).active = s.active /\ Applied(s, g).asdu = s.asdu
           /\ Applied(s, g).aps_counter = s.aps_counter /\ Applied(s, g).total = s.total
           /\ Applied(s, g).acked = s.acked \cup Newly(s, g)
           /\ Applied(s, g).due \subseteq s.due \cup 0..(s.total - 1)
<1> DEFINE acked == s.acked \cup Newly(s, g)
           t == [s EXCEPT !.acked = acked, !.due = @ \ acked, !.retries = 0, !.waiting = FALSE]
           next == [t EXCEPT !.window_start = @ + WindowSize]
<1>1. acked \subseteq Nat
  BY WindowBlocks DEF Newly, TxSessions
<1> HIDE DEF acked
<1>2. t \in TxSessions /\ t.active = s.active /\ t.asdu = s.asdu /\ t.aps_counter = s.aps_counter
        /\ t.total = s.total /\ t.acked = acked /\ t.due \subseteq s.due
  BY <1>1 DEF TxSessions
<1>3. next \in TxSessions /\ next.active = t.active /\ next.asdu = t.asdu
        /\ next.aps_counter = t.aps_counter /\ next.total = t.total /\ next.acked = t.acked
        /\ next.due = t.due
  <2> HIDE DEF t
  <2>1. t.window_start + WindowSize \in Nat
    BY <1>2, FragmentationAssumption DEF TxSessions
  <2>2. next \in TxSessions
    BY <1>2, <2>1 DEF TxSessions
  <2> QED BY <1>2, <2>2 DEF TxSessions
<1> DEFINE moved == [next EXCEPT !.due = @ \cup TxWindow(next)]
           same == [t EXCEPT !.due = @ \cup LowestUnacked(t)]
<1> HIDE DEF t, next
<1>4. TxWindow(next) \subseteq 0..(s.total - 1) /\ LowestUnacked(t) \subseteq 0..(s.total - 1)
  BY <1>2, <1>3, WindowBlocks, LowestInWindow
<1>5. TxWindow(next) \subseteq Nat /\ LowestUnacked(t) \subseteq Nat
  BY <1>4
<1>6. /\ moved \in TxSessions /\ moved.active = s.active /\ moved.asdu = s.asdu
      /\ moved.aps_counter = s.aps_counter /\ moved.total = s.total /\ moved.acked = acked
      /\ moved.due \subseteq s.due \cup 0..(s.total - 1)
  BY <1>2, <1>3, <1>4, <1>5 DEF TxSessions
<1>7. /\ same \in TxSessions /\ same.active = s.active /\ same.asdu = s.asdu
      /\ same.aps_counter = s.aps_counter /\ same.total = s.total /\ same.acked = acked
      /\ same.due \subseteq s.due \cup 0..(s.total - 1)
  BY <1>2, <1>4, <1>5 DEF TxSessions
<1>8. Applied(s, g) = moved \/ Applied(s, g) = same
  BY DEF Applied, moved, same, next, t, acked
<1> HIDE DEF moved, same
<1> QED
  BY <1>6, <1>7, <1>8 DEF acked

\* The slot of a block: its session's, or a free one when it has no session.
LEMMA SlotOfBlock ==
    ASSUME NEW es \in [Slots -> Sessions], NEW f, NEW i \in SlotFor(es, f)
    PROVE  /\ i \in Slots
           /\ \/ Matches(es[i], f)
              \/ ~es[i].active /\ \A j \in Slots : ~Matches(es[j], f)
<1> DEFINE hits == {j \in Slots : Matches(es[j], f)}
           free == {j \in Slots : ~es[j].active}
<1>1. hits \in SUBSET Nat /\ free \in SUBSET Nat
  BY FragmentationAssumption DEF Slots
<1>2. CASE hits # {}
  <2>1. i = Min(hits)
    BY <1>2 DEF SlotFor
  <2>2. i \in hits
    <3> HIDE DEF hits
    <3> QED BY <1>1, <1>2, <2>1, MinIsLeast
  <2> QED BY <2>2
<1>3. CASE hits = {} /\ free # {}
  <2>1. i = Min(free)
    BY <1>3 DEF SlotFor
  <2>2. i \in free
    <3> HIDE DEF free
    <3> QED BY <1>1, <1>3, <2>1, MinIsLeast
  <2> QED BY <2>2, <1>3
<1>4. CASE hits = {} /\ free = {}
  BY <1>4 DEF SlotFor
<1> QED
  BY <1>2, <1>3, <1>4

-----------------------------------------------------------------------------
(* The transmitter. *)

\* What is true of a session that originator o may have.
OwnSession(o, s) ==
    s.active =>
        /\ s.asdu \in Requests
        /\ s.total = Total[s.asdu]
        /\ s.due \subseteq 0..(s.total - 1)
        /\ o \notin restarted => /\ s.asdu = s.aps_counter + 1
                                 /\ \A b \in s.acked : Holds(entries, o, s.asdu, b)

LEMMA SessionIsOwn ==
    ASSUME Inv, NEW o \in Originators
    PROVE  fragment_tx[o] \in TxSessions /\ OwnSession(o, fragment_tx[o])
BY DEF Inv, Typed, Numbered, TxBounded, AckedHeld, OwnSession

\* The frames a session sends are blocks of its ASDU.
LEMMA DueFramesOK ==
    ASSUME NEW o \in Originators, NEW s \in TxSessions, s.active, OwnSession(o, s)
    PROVE  DueFrames(o, s) \subseteq BlockFrames /\ \A f \in DueFrames(o, s) : FrameOK(f)
<1> SUFFICES ASSUME NEW b \in s.due
             PROVE  Frame(o, s, b) \in BlockFrames /\ FrameOK(Frame(o, s, b))
  BY DEF DueFrames
<1>1. b \in 0..(s.total - 1) /\ s.total \in Nat /\ s.asdu \in Nat /\ s.aps_counter \in Nat
  BY DEF OwnSession, TxSessions
<1>2. Frame(o, s, b) \in BlockFrames
  BY <1>1 DEF Frame, BlockFrames
<1>3. FrameOK(Frame(o, s, b))
  BY <1>1 DEF Frame, FrameOK, OwnSession
<1> QED BY <1>2, <1>3

\* A step of originator o that leaves the receiver alone: it may replace its
\* session by one that is its own, send blocks and take frames from the air.
LEMMA TransmitterStep ==
    ASSUME Inv, NEW o \in Originators, NEW s \in TxSessions, OwnSession(o, s),
           NEW F \in SUBSET BlockFrames, \A f \in F : FrameOK(f),
           fragment_tx' = [fragment_tx EXCEPT ![o] = s],
           net' \subseteq net \cup F,
           aps_counter' \in [Originators -> Nat], sent' \in [Originators -> 0..MaxSends],
           \A p \in Originators \ restarted : aps_counter'[p] = sent'[p],
           outcome' \in [Originators -> [Requests -> Statuses]],
           ConfirmedIsAccepted',
           UNCHANGED <<rxVars, restarted, expired>>
    PROVE  Inv'
<1> USE DEF rxVars
<1>1. Typed'
  BY DEF Inv, Typed
<1>2. \A p \in Originators : fragment_tx'[p] \in TxSessions /\ OwnSession(p, fragment_tx'[p])
  <2>1. \A p \in Originators : p # o => fragment_tx'[p] = fragment_tx[p]
    BY DEF Inv, Typed
  <2>2. fragment_tx'[o] = s
    BY DEF Inv, Typed
  <2> QED BY <2>1, <2>2, SessionIsOwn
<1>3. \A x, a, b : Holds(entries, x, a, b)' <=> Holds(entries, x, a, b)
  BY DEF Holds, Has
<1>4. Numbered' /\ TxBounded' /\ AckedHeld(entries)'
  BY <1>2, <1>3 DEF Numbered, TxBounded, AckedHeld, OwnSession
<1>5. FramesOK'
  BY DEF Inv, FramesOK, FrameOK
<1>6. AcksOK(entries)'
  <2> SUFFICES ASSUME NEW g \in (net \cup pending_ack)', g.kind = "ack"
               PROVE  AckOK(entries, g)'
    BY DEF AcksOK
  <2>1. g \in net \cup pending_ack
    BY DEF BlockFrames
  <2>2. AckOK(entries, g)
    BY <2>1 DEF Inv, AcksOK
  <2> QED BY <2>2, <1>3 DEF AckOK
<1>7. EntriesOK(entries)' /\ DupOK' /\ AcceptedIsWhole'
  BY DEF Inv, EntriesOK, SessionOK, OnePerCounter, DupOK, AcceptedIsWhole
<1> QED
  BY <1>1, <1>4, <1>5, <1>6, <1>7 DEF Inv

LEMMA NoTxIsOwn == \A o : NoTx \in TxSessions /\ OwnSession(o, NoTx)
BY DEF NoTx, TxSessions, OwnSession

\* A confirm other than SUCCESS, or SUCCESS for an ASDU the receiver settled.
LEMMA OutcomeStep ==
    ASSUME Inv, NEW o \in Originators, NEW a \in Requests, NEW status \in Statuses,
           outcome' = [outcome EXCEPT ![o][a] = status],
           status = "Success" /\ o \notin restarted => accepted[o][a] > 0 \/ <<o, a>> \in expired,
           UNCHANGED <<accepted, restarted, expired>>
    PROVE  outcome' \in [Originators -> [Requests -> Statuses]] /\ ConfirmedIsAccepted'
<1>1. outcome' \in [Originators -> [Requests -> Statuses]]
  BY DEF Inv, Typed
<1>2. ConfirmedIsAccepted'
  BY DEF Inv, Typed, ConfirmedIsAccepted
<1> QED BY <1>1, <1>2

LEMMA FinishStep ==
    ASSUME Inv, NEW o \in Originators, fragment_tx[o].active, NEW status \in Statuses,
           Finish(o, status),
           status = "Success" /\ o \notin restarted =>
             \/ accepted[o][fragment_tx[o].asdu] > 0
             \/ <<o, fragment_tx[o].asdu>> \in expired,
           NEW F \in SUBSET BlockFrames, \A f \in F : FrameOK(f),
           net' \subseteq net \cup F,
           UNCHANGED <<aps_counter, sent, rxVars, restarted, expired>>
    PROVE  Inv'
<1> DEFINE a == fragment_tx[o].asdu
<1>1. a \in Requests
  BY SessionIsOwn DEF OwnSession
<1>2. outcome' = [outcome EXCEPT ![o][a] = status] /\ fragment_tx' = [fragment_tx EXCEPT ![o] = NoTx]
  BY DEF Finish
<1> HIDE DEF a
<1>3. status = "Success" /\ o \notin restarted => accepted[o][a] > 0 \/ <<o, a>> \in expired
  BY DEF a
<1>4. outcome' \in [Originators -> [Requests -> Statuses]] /\ ConfirmedIsAccepted'
  <2>1. UNCHANGED <<accepted, restarted, expired>>
    BY DEF rxVars
  <2> QED BY <1>1, <1>2, <1>3, <2>1, OutcomeStep
<1>5. aps_counter' \in [Originators -> Nat] /\ sent' \in [Originators -> 0..MaxSends]
        /\ \A p \in Originators \ restarted : aps_counter'[p] = sent'[p]
  BY DEF Inv, Typed, Numbered
<1>6. UNCHANGED <<rxVars, restarted, expired>>
  OBVIOUS
<1>7. NoTx \in TxSessions /\ OwnSession(o, NoTx)
  BY NoTxIsOwn
<1> QED
  BY <1>2, <1>4, <1>5, <1>6, <1>7, TransmitterStep

LEMMA StartKeepsInv ==
    ASSUME Inv, NEW o \in Originators, StartFragmentedTx(o)
    PROVE  Inv'
<1> DEFINE a == sent[o] + 1
           s == [NoTx EXCEPT !.active = TRUE, !.asdu = a, !.aps_counter = aps_counter[o],
                             !.total = Total[a], !.due = 0..(Min({WindowSize, Total[a]}) - 1)]
<1>1. a \in Requests /\ a \in Nat /\ Total[a] \in Nat /\ aps_counter[o] \in Nat
        /\ WindowSize \in Nat
  <2>1. sent[o] \in 0..MaxSends /\ aps_counter[o] \in Nat
    BY DEF Inv, Typed
  <2>2. sent[o] < MaxSends
    BY DEF StartFragmentedTx
  <2>3. a \in 1..MaxSends /\ a \in Nat
    BY <2>1, <2>2, FragmentationAssumption
  <2> HIDE DEF a
  <2>4. Total[a] \in 2..16 /\ WindowSize \in 1..8
    BY <2>3, FragmentationAssumption
  <2> QED BY <2>1, <2>3, <2>4 DEF Requests
<1>2. Min({WindowSize, Total[a]}) \in Nat /\ Min({WindowSize, Total[a]}) <= Total[a]
  BY <1>1, MinOfTwo
<1>3. o \notin restarted => a = aps_counter[o] + 1
  BY DEF Inv, Numbered
<1>4. sent' = [sent EXCEPT ![o] = a] /\ aps_counter' = [aps_counter EXCEPT ![o] = @ + 1]
  BY DEF StartFragmentedTx
<1> HIDE DEF a
<1>5. s \in TxSessions
  <2>1. 0..(Min({WindowSize, Total[a]}) - 1) \in SUBSET Nat
    BY <1>2
  <2> QED BY <1>1, <2>1 DEF NoTx, TxSessions
<1>6. s.active /\ OwnSession(o, s)
  BY <1>1, <1>2, <1>3 DEF NoTx, OwnSession
<1>7. sent' \in [Originators -> 0..MaxSends] /\ aps_counter' \in [Originators -> Nat]
        /\ \A p \in Originators \ restarted : aps_counter'[p] = sent'[p]
  <2>1. sent \in [Originators -> 0..MaxSends] /\ aps_counter \in [Originators -> Nat]
          /\ \A p \in Originators \ restarted : aps_counter[p] = sent[p]
    BY DEF Inv, Typed, Numbered
  <2>2. a \in 0..MaxSends
    BY <1>1 DEF Requests
  <2> QED BY <2>1, <2>2, <1>1, <1>3, <1>4
<1>8. UNCHANGED <<rxVars, restarted, expired>>
  BY DEF StartFragmentedTx
<1>9. UNCHANGED <<accepted, restarted, expired>>
  BY <1>8 DEF rxVars
<1>10. CASE /\ fragment_tx' = [fragment_tx EXCEPT ![o] = Drained(s)]
            /\ net' = net \cup DueFrames(o, s)
            /\ outcome' = [outcome EXCEPT ![o][a] = "inFlight"]
  <2>1. outcome' \in [Originators -> [Requests -> Statuses]] /\ ConfirmedIsAccepted'
    <3>1. "inFlight" \in Statuses /\ "inFlight" # "Success"
      BY DEF Statuses
    <3> QED BY <1>1, <1>9, <1>10, <3>1, OutcomeStep
  <2> HIDE DEF s
  <2>2. Drained(s) \in TxSessions /\ OwnSession(o, Drained(s))
    BY <1>5, <1>6, DrainedSession DEF OwnSession
  <2>3. DueFrames(o, s) \in SUBSET BlockFrames /\ \A f \in DueFrames(o, s) : FrameOK(f)
    BY <1>5, <1>6, DueFramesOK
  <2> QED
    BY <1>7, <1>8, <1>10, <2>1, <2>2, <2>3, TransmitterStep
<1>11. CASE /\ outcome' = [outcome EXCEPT ![o][a] = "Refused"]
            /\ UNCHANGED <<fragment_tx, net>>
  <2>1. outcome' \in [Originators -> [Requests -> Statuses]] /\ ConfirmedIsAccepted'
    <3>1. "Refused" \in Statuses /\ "Refused" # "Success"
      BY DEF Statuses
    <3> QED BY <1>1, <1>9, <1>11, <3>1, OutcomeStep
  <2>2. fragment_tx' = [fragment_tx EXCEPT ![o] = fragment_tx[o]]
    BY <1>11 DEF Inv, Typed
  <2>3. fragment_tx[o] \in TxSessions /\ OwnSession(o, fragment_tx[o])
    BY SessionIsOwn
  <2>4. net' \subseteq net \cup {} /\ {} \in SUBSET BlockFrames /\ \A f \in {} : FrameOK(f)
    BY <1>11
  <2> QED
    BY <1>7, <1>8, <2>1, <2>2, <2>3, <2>4, TransmitterStep
<1> QED
  BY <1>10, <1>11 DEF StartFragmentedTx, a, s

LEMMA ServiceKeepsInv ==
    ASSUME Inv, NEW o \in Originators, ServiceFragmentTx(o)
    PROVE  Inv'
<1> DEFINE s == fragment_tx[o]
           p == Polled(s)
<1>1. s \in TxSessions /\ OwnSession(o, s) /\ s.active
  BY SessionIsOwn DEF ServiceFragmentTx
<1>2. p \in TxSessions /\ p.active /\ OwnSession(o, p)
  <2>1. s.due \subseteq 0..(s.total - 1)
    BY <1>1 DEF OwnSession
  <2> HIDE DEF s
  <2> QED BY <1>1, <2>1, PolledSession DEF OwnSession
<1> HIDE DEF p
<1>3. DueFrames(o, p) \in SUBSET BlockFrames /\ \A f \in DueFrames(o, p) : FrameOK(f)
  BY <1>2, DueFramesOK
<1>4. UNCHANGED <<aps_counter, sent, rxVars, restarted, expired>>
  BY DEF ServiceFragmentTx
<1>5. CASE Finish(o, "NoAck") /\ UNCHANGED net
  <2>1. net' \subseteq net \cup DueFrames(o, p)
    BY <1>5
  <2>2. "NoAck" \in Statuses /\ "NoAck" # "Success"
    BY DEF Statuses
  <2> QED BY <1>1, <1>3, <1>4, <1>5, <2>1, <2>2, FinishStep
<1>6. CASE /\ fragment_tx' = [fragment_tx EXCEPT ![o] = Drained(p)]
           /\ net' = net \cup DueFrames(o, p)
           /\ UNCHANGED outcome
  <2>1. Drained(p) \in TxSessions /\ OwnSession(o, Drained(p))
    BY <1>2, DrainedSession DEF OwnSession
  <2>2. outcome' \in [Originators -> [Requests -> Statuses]] /\ ConfirmedIsAccepted'
    BY <1>4, <1>6 DEF Inv, Typed, ConfirmedIsAccepted, rxVars
  <2>3. aps_counter' \in [Originators -> Nat] /\ sent' \in [Originators -> 0..MaxSends]
          /\ \A q \in Originators \ restarted : aps_counter'[q] = sent'[q]
    BY <1>4 DEF Inv, Typed, Numbered
  <2>4. UNCHANGED <<rxVars, restarted, expired>>
    BY <1>4
  <2> QED BY <1>3, <1>6, <2>1, <2>2, <2>3, <2>4, TransmitterStep
<1>7. CASE /\ \E b \in p.due : net' = net \cup {f \in DueFrames(o, p) : f.block < b}
           /\ Finish(o, "SecurityFail")
  <2>1. net' \subseteq net \cup DueFrames(o, p)
    BY <1>7
  <2>2. "SecurityFail" \in Statuses /\ "SecurityFail" # "Success"
    BY DEF Statuses
  <2> QED BY <1>1, <1>3, <1>4, <1>7, <2>1, <2>2, FinishStep
<1> QED
  BY <1>5, <1>6, <1>7 DEF ServiceFragmentTx, p

\* When the receiver has or had every block of an ASDU, it handed the ASDU up
\* or a session of it expired: the blocks it has are in one session, which is
\* then complete.
LEMMA AllHeldIsSettled ==
    ASSUME Inv, NEW o \in Originators \ restarted, NEW a \in Requests,
           \A b \in 0..(Total[a] - 1) : Holds(entries, o, a, b)
    PROVE  accepted[o][a] > 0 \/ <<o, a>> \in expired
<1> SUFFICES ASSUME ~(accepted[o][a] > 0), <<o, a>> \notin expired
             PROVE  FALSE
  OBVIOUS
<1>1. \A b \in 0..(Total[a] - 1) : Has(entries, o, a, b)
  BY DEF Holds
<1>2. Total[a] \in 2..16
  BY FragmentationAssumption DEF Requests
<1>3. 0 \in 0..(Total[a] - 1)
  BY <1>2
<1>4. PICK i \in Slots : entries[i].active /\ entries[i].src = o
                           /\ entries[i].aps_counter + 1 = a /\ 0 \in Received(entries[i])
  BY <1>1, <1>3, Zenon DEF Has
<1>5. EntriesOK(entries) /\ entries[i] \in Sessions /\ SessionOK(entries[i])
  BY DEF Inv, EntriesOK
<1>6. ASSUME NEW b \in 0..(Total[a] - 1)
      PROVE  b \in Received(entries[i])
  <2>1. PICK j \in Slots : entries[j].active /\ entries[j].src = o
                             /\ entries[j].aps_counter + 1 = a /\ b \in Received(entries[j])
    BY <1>1, Zenon DEF Has
  <2>2. entries[i].aps_counter \in Nat /\ entries[j].aps_counter \in Nat
    BY <1>5 DEF EntriesOK, Sessions
  <2>3. entries[i].aps_counter = entries[j].aps_counter
    BY <1>4, <2>1, <2>2
  <2>4. i = j
    BY <1>4, <1>5, <2>1, <2>3 DEF EntriesOK, OnePerCounter
  <2> QED BY <2>1, <2>4
<1>7. entries[i].total_blocks = Total[a] /\ entries[i].total_blocks # 0
  BY <1>4, <1>5 DEF SessionOK
<1>8. IsComplete(entries[i])
  BY <1>6, <1>7 DEF IsComplete
<1> QED
  BY <1>4, <1>5, <1>8 DEF SessionOK

LEMMA AckHandlingKeepsInv ==
    ASSUME Inv, NEW f \in net, HandleFragmentAck(f)
    PROVE  Inv'
<1> DEFINE o == f.dst
           s == fragment_tx[o]
           t == Applied(s, f)
           advances == /\ s.active /\ s.aps_counter = f.aps_counter
                       /\ f.window_start = s.window_start /\ Newly(s, f) # {}
<1>1. f \in AckFrames /\ f.kind = "ack" /\ o \in Originators
  BY DEF HandleFragmentAck, Inv, Typed, BlockFrames, AckFrames
<1>2. s \in TxSessions /\ OwnSession(o, s)
  BY <1>1, SessionIsOwn
<1>3. UNCHANGED <<aps_counter, sent, rxVars, restarted, expired>>
  BY DEF HandleFragmentAck
<1>4. UNCHANGED <<rxVars, restarted, expired>> /\ aps_counter' \in [Originators -> Nat]
        /\ sent' \in [Originators -> 0..MaxSends]
        /\ \A q \in Originators \ restarted : aps_counter'[q] = sent'[q]
  BY <1>3 DEF Inv, Typed, Numbered
<1>5. ASSUME UNCHANGED outcome
      PROVE  outcome' \in [Originators -> [Requests -> Statuses]] /\ ConfirmedIsAccepted'
  BY <1>3, <1>5 DEF Inv, Typed, ConfirmedIsAccepted, rxVars
<1>6. CASE UNCHANGED <<fragment_tx, outcome>> /\ net' = net \ {f}
  <2>1. fragment_tx' = [fragment_tx EXCEPT ![o] = s]
    BY <1>6 DEF Inv, Typed
  <2>2. net' \subseteq net \cup {} /\ {} \in SUBSET BlockFrames /\ \A x \in {} : FrameOK(x)
    BY <1>6
  <2>3. outcome' \in [Originators -> [Requests -> Statuses]] /\ ConfirmedIsAccepted'
    BY <1>5, <1>6
  <2> HIDE DEF o, s
  <2> QED BY <1>1, <1>2, <1>4, <2>1, <2>2, <2>3, TransmitterStep
<1>7. ASSUME advances
      PROVE  t \in TxSessions /\ t.active /\ OwnSession(o, t) /\ t.asdu = s.asdu
  <2> HIDE DEF o
  <2>1. /\ t \in TxSessions /\ t.active = s.active /\ t.asdu = s.asdu
        /\ t.aps_counter = s.aps_counter /\ t.total = s.total
        /\ t.acked = s.acked \cup Newly(s, f) /\ t.due \subseteq s.due \cup 0..(s.total - 1)
    <3> HIDE DEF s
    <3> QED BY <1>2, AppliedSession
  <2>2. ASSUME o \notin restarted, NEW b \in Newly(s, f)
        PROVE  Holds(entries, o, s.asdu, b)
    <3>1. b \in f.bits /\ b < s.window_start + WindowSize /\ b < s.total
      <4>1. b \in TxWindow(s) /\ b \in f.bits
        BY DEF Newly
      <4>2. b \in 0..(s.total - 1) /\ b < s.window_start + WindowSize
        <5> HIDE DEF s
        <5> QED BY <1>2, <4>1, WindowBlocks
      <4>3. s.total \in Nat
        BY <1>2 DEF TxSessions
      <4> QED BY <4>1, <4>2, <4>3
    <3>2. s.asdu = f.aps_counter + 1 /\ s.total = Total[s.asdu] /\ f.window_start = s.window_start
      BY <1>2, <1>7, <2>2 DEF OwnSession
    <3>3. AckOK(entries, f)
      BY <1>1 DEF Inv, AcksOK
    <3> HIDE DEF s
    <3> QED BY <2>2, <3>1, <3>2, <3>3 DEF AckOK, o
  <2>3. s.active
    BY <1>7
  <2> HIDE DEF s, t
  <2> QED BY <1>2, <2>1, <2>2, <2>3 DEF OwnSession
<1>8. CASE advances /\ Complete(t) /\ Finish(o, "Success") /\ net' = net \ {f}
  <2>1. s.active
    BY <1>8
  <2>2. o \notin restarted => accepted[o][s.asdu] > 0 \/ <<o, s.asdu>> \in expired
    <3> SUFFICES ASSUME o \notin restarted
                 PROVE  accepted[o][s.asdu] > 0 \/ <<o, s.asdu>> \in expired
      OBVIOUS
    <3> HIDE DEF o
    <3>1. t \in TxSessions /\ t.active /\ OwnSession(o, t) /\ t.asdu = s.asdu
      BY <1>7, <1>8
    <3>2. t.acked = 0..(t.total - 1)
      BY <1>8 DEF Complete
    <3> HIDE DEF t, s
    <3>3. s.asdu \in Requests /\ \A b \in 0..(Total[s.asdu] - 1) : Holds(entries, o, s.asdu, b)
      BY <3>1, <3>2 DEF OwnSession
    <3>4. o \in Originators \ restarted
      BY <1>1
    <3> QED BY <3>3, <3>4, AllHeldIsSettled
  <2>3. "Success" \in Statuses
    BY DEF Statuses
  <2>4. net' \subseteq net \cup {} /\ {} \in SUBSET BlockFrames /\ \A x \in {} : FrameOK(x)
    BY <1>8
  <2>5. Finish(o, "Success")
    BY <1>8
  <2> HIDE DEF o
  <2> QED BY <1>1, <1>3, <2>1, <2>2, <2>3, <2>4, <2>5, FinishStep DEF s
<1>9. CASE /\ advances
           /\ fragment_tx' = [fragment_tx EXCEPT ![o] = Drained(t)]
           /\ net' = (net \ {f}) \cup DueFrames(o, t)
           /\ UNCHANGED outcome
  <2>1. t \in TxSessions /\ t.active /\ OwnSession(o, t)
    BY <1>7, <1>9
  <2>2. fragment_tx' = [fragment_tx EXCEPT ![o] = Drained(t)]
          /\ net' \subseteq net \cup DueFrames(o, t)
    BY <1>9
  <2>3. outcome' \in [Originators -> [Requests -> Statuses]] /\ ConfirmedIsAccepted'
    BY <1>5, <1>9
  <2> HIDE DEF o, t
  <2>4. Drained(t) \in TxSessions /\ OwnSession(o, Drained(t))
    BY <2>1, DrainedSession DEF OwnSession
  <2>5. DueFrames(o, t) \in SUBSET BlockFrames /\ \A x \in DueFrames(o, t) : FrameOK(x)
    BY <1>1, <2>1, DueFramesOK
  <2> QED BY <1>1, <1>4, <2>2, <2>3, <2>4, <2>5, TransmitterStep
<1>10. CASE /\ advances
            /\ fragment_tx' = [fragment_tx EXCEPT ![o] = t]
            /\ net' = net \ {f}
            /\ UNCHANGED outcome
  <2>1. t \in TxSessions /\ OwnSession(o, t)
    BY <1>7, <1>10
  <2>2. fragment_tx' = [fragment_tx EXCEPT ![o] = t]
    BY <1>10
  <2>3. outcome' \in [Originators -> [Requests -> Statuses]] /\ ConfirmedIsAccepted'
    BY <1>5, <1>10
  <2>4. net' \subseteq net \cup {} /\ {} \in SUBSET BlockFrames /\ \A x \in {} : FrameOK(x)
    BY <1>10
  <2> HIDE DEF o, t
  <2> QED BY <1>1, <1>4, <2>1, <2>2, <2>3, <2>4, TransmitterStep
<1> QED
  BY <1>6, <1>8, <1>9, <1>10 DEF HandleFragmentAck

\* A restart leaves everything the invariant says about the others as it was,
\* and says nothing more about this originator.
LEMMA RestartKeepsInv ==
    ASSUME Inv, NEW o \in Originators, Restart(o)
    PROVE  Inv'
<1>1. /\ restarted' = restarted \cup {o}
      /\ aps_counter' = [aps_counter EXCEPT ![o] = 0]
      /\ fragment_tx' = [fragment_tx EXCEPT ![o] = NoTx]
      /\ outcome' = [outcome EXCEPT ![o] =
                       [a \in Requests |-> IF outcome[o][a] = "inFlight" THEN "Forgotten"
                                           ELSE outcome[o][a]]]
      /\ UNCHANGED <<sent, rxVars, net, expired>>
  BY DEF Restart
<1> USE DEF rxVars
<1>2. Typed'
  <2>1. outcome' \in [Originators -> [Requests -> Statuses]]
    BY <1>1 DEF Inv, Typed, Statuses
  <2>2. fragment_tx' \in [Originators -> TxSessions]
    BY <1>1, NoTxIsOwn DEF Inv, Typed
  <2>3. aps_counter' \in [Originators -> Nat]
    BY <1>1 DEF Inv, Typed
  <2> QED BY <1>1, <2>1, <2>2, <2>3 DEF Inv, Typed
<1>3. ~NoTx.active
  BY DEF NoTx
<1>4. \A p \in Originators : p # o => fragment_tx'[p] = fragment_tx[p] /\ aps_counter'[p] = aps_counter[p]
                                       /\ outcome'[p] = outcome[p]
  BY <1>1 DEF Inv, Typed
<1>5. fragment_tx'[o] = NoTx
  BY <1>1 DEF Inv, Typed
<1>6. \A x, a, b : Holds(entries, x, a, b)' <=> Holds(entries, x, a, b)
  BY <1>1 DEF Holds, Has
<1>7. Numbered' /\ TxBounded'
  BY <1>1, <1>3, <1>4, <1>5 DEF Inv, Numbered, TxBounded
<1>8. AckedHeld(entries)'
  BY <1>1, <1>4, <1>6 DEF Inv, AckedHeld
<1>9. FramesOK'
  BY <1>1 DEF Inv, FramesOK, FrameOK
<1>10. AcksOK(entries)'
  <2> SUFFICES ASSUME NEW g \in net \cup pending_ack, g.kind = "ack"
               PROVE  AckOK(entries, g)'
    BY <1>1 DEF AcksOK
  <2>2. AckOK(entries, g)
    BY DEF Inv, AcksOK
  <2> QED BY <2>2, <1>1, <1>6 DEF AckOK
<1>11. EntriesOK(entries)' /\ DupOK' /\ AcceptedIsWhole'
  BY <1>1 DEF Inv, EntriesOK, SessionOK, OnePerCounter, DupOK, AcceptedIsWhole
<1>12. ConfirmedIsAccepted'
  BY <1>1, <1>4 DEF Inv, ConfirmedIsAccepted
<1> QED
  BY <1>2, <1>7, <1>8, <1>9, <1>10, <1>11, <1>12 DEF Inv

-----------------------------------------------------------------------------
(* The receiver: what a block does to its session. *)

\* The part of SessionOK that does not speak of the ASDU being handed up.
SessionCore(e) ==
    e.active /\ e.src \notin restarted =>
        /\ e.src \in Originators
        /\ e.aps_counter + 1 \in Requests
        /\ \A b \in Received(e) : e.data[b] = e.aps_counter + 1 /\ b < Total[e.aps_counter + 1]
        /\ e.total_blocks \in {0, Total[e.aps_counter + 1]}
        /\ 0 \in Received(e) => e.total_blocks # 0
HandedUp(e) ==
    e.active /\ e.src \notin restarted =>
        (IsComplete(e) \/ e.delivered => accepted[e.src][e.aps_counter + 1] > 0)

LEMMA SessionParts == \A e : SessionOK(e) <=> SessionCore(e) /\ HandedUp(e)
BY DEF SessionOK, SessionCore, HandedUp

LEMMA SizeOfAsdu == \A a \in Requests : Total[a] \in Nat /\ Total[a] >= 2
<1> SUFFICES ASSUME NEW a \in 1..MaxSends PROVE Total[a] \in Nat /\ Total[a] >= 2
  BY DEF Requests
<1>1. Total[a] \in 2..16
  BY FragmentationAssumption
<1> QED BY <1>1

LEMMA EmptyEntryIsFree ==
    EmptyEntry \in Sessions /\ ~EmptyEntry.active /\ SessionOK(EmptyEntry)
      /\ Received(EmptyEntry) = {}
<1>1. EmptyEntry \in Sessions /\ ~EmptyEntry.active /\ Received(EmptyEntry) = {}
  BY DEF EmptyEntry, Sessions, Received
<1> QED BY <1>1 DEF SessionOK

\* The frame of a session: what insert_block compares.
Fits(e, f) == e \in Sessions /\ e.active /\ e.src = f.src /\ e.aps_counter = f.aps_counter
BlockOK(f) == f \in BlockFrames /\ FrameOK(f)

LEMMA FreshSession ==
    ASSUME NEW f, BlockOK(f)
    PROVE  Fits(FreshEntry(f), f) /\ SessionOK(FreshEntry(f)) /\ Received(FreshEntry(f)) = {}
<1>1. Fits(FreshEntry(f), f)
  BY DEF FreshEntry, EmptyEntry, Sessions, BlockOK, BlockFrames, Fits
<1>2. /\ FreshEntry(f).total_blocks = 0 /\ ~FreshEntry(f).delivered
      /\ FreshEntry(f).data = [b \in Blocks |-> 0]
  BY DEF FreshEntry, EmptyEntry
<1>3. Received(FreshEntry(f)) = {}
  BY <1>2 DEF Received
<1>4. f.src \in Originators /\ (f.src \notin restarted => f.aps_counter + 1 \in Requests)
  BY DEF BlockOK, BlockFrames, FrameOK
<1>5. ~IsComplete(FreshEntry(f))
  BY <1>2 DEF IsComplete
<1> QED
  BY <1>1, <1>2, <1>3, <1>4, <1>5 DEF SessionOK, Fits

\* The session insert_block works on: the one the block belongs to, or a new
\* one in a free slot when there is none.
LEMMA SessionOfBlock ==
    ASSUME NEW es, EntriesOK(es), NEW f, BlockOK(f), NEW i \in SlotFor(es, f)
    PROVE  /\ i \in Slots
           /\ Fits(SessionFor(es[i], f), f) /\ SessionOK(SessionFor(es[i], f))
           /\ \/ Matches(es[i], f) /\ SessionFor(es[i], f) = es[i]
              \/ /\ ~es[i].active /\ Received(SessionFor(es[i], f)) = {}
                 /\ \A j \in Slots : ~Matches(es[j], f)
<1>1. es \in [Slots -> Sessions]
  BY DEF EntriesOK
<1>2. /\ i \in Slots
      /\ \/ Matches(es[i], f)
         \/ ~es[i].active /\ \A j \in Slots : ~Matches(es[j], f)
  BY <1>1, SlotOfBlock
<1>3. CASE Matches(es[i], f)
  BY <1>1, <1>2, <1>3 DEF Matches, SessionFor, Fits, EntriesOK
<1>4. CASE ~es[i].active /\ \A j \in Slots : ~Matches(es[j], f)
  <2>1. SessionFor(es[i], f) = FreshEntry(f)
    BY <1>4 DEF SessionFor
  <2> QED BY <1>2, <1>4, <2>1, FreshSession
<1> QED BY <1>2, <1>3, <1>4

\* Learning the total from block 0 completes nothing: block 0 is not there yet.
LEMMA TotalLearned ==
    ASSUME NEW f, BlockOK(f), NEW e, Fits(e, f), SessionOK(e)
    PROVE  /\ Fits(WithTotal(e, f), f) /\ SessionOK(WithTotal(e, f))
           /\ Received(WithTotal(e, f)) = Received(e)
           /\ f.block = 0 => WithTotal(e, f).total_blocks # 0
<1> DEFINE w == WithTotal(e, f)
<1>1. CASE ~(f.block = 0 /\ e.total_blocks = 0)
  BY <1>1 DEF WithTotal
<1>2. CASE f.block = 0 /\ e.total_blocks = 0
  <2>1. w = [e EXCEPT !.total_blocks = f.total]
    BY <1>2 DEF WithTotal
  <2>2. f.total \in Nat /\ f.total = Total[f.asdu] /\ f.total # 0
    BY SizeOfAsdu DEF BlockOK, BlockFrames, FrameOK
  <2>3. /\ w \in Sessions /\ w.active = e.active /\ w.src = e.src /\ w.aps_counter = e.aps_counter
        /\ w.data = e.data /\ w.delivered = e.delivered /\ w.total_blocks = f.total
    BY <2>1, <2>2 DEF Fits, Sessions
  <2> HIDE DEF w
  <2>4. Received(w) = Received(e)
    BY <2>3 DEF Received
  <2>5. Fits(w, f)
    BY <2>3 DEF Fits
  <2>6. SessionOK(w)
    <3> SUFFICES ASSUME w.src \notin restarted
                 PROVE  SessionOK(w)
      BY DEF SessionOK
    <3>1. e.active /\ e.src \notin restarted /\ e.src = f.src /\ e.aps_counter = f.aps_counter
      BY <2>3 DEF Fits
    <3>2. f.asdu = f.aps_counter + 1
      BY <3>1 DEF BlockOK, FrameOK
    <3>3. 0 \notin Received(e)
      BY <1>2, <3>1 DEF SessionOK
    <3>4. ~IsComplete(w)
      <4>1. 0 \in 0..(w.total_blocks - 1)
        BY <2>2, <2>3
      <4> QED BY <4>1, <3>3, <2>4 DEF IsComplete
    <3> QED BY <2>2, <2>3, <2>4, <3>1, <3>2, <3>4 DEF SessionOK
  <2> QED BY <2>2, <2>3, <2>4, <2>5, <2>6 DEF w
<1> QED BY <1>1, <1>2

\* Storing a block.
LEMMA BlockStored ==
    ASSUME NEW f, BlockOK(f), NEW w, Fits(w, f), SessionOK(w),
           f.block = 0 => w.total_blocks # 0, ~w.delivered
    PROVE  LET n == Stored(w, f) IN
           /\ Fits(n, f) /\ SessionCore(n)
           /\ ~n.delivered /\ n.total_blocks = w.total_blocks
           /\ Received(w) \subseteq Received(n)
           /\ f.block \in Received(w) => n.data = w.data
<1> DEFINE n == Stored(w, f)
           moved == f.block >= w.window_start + WindowSize
           new   == f.block \notin Received(w)
           ws    == IF moved THEN w.window_start + WindowSize ELSE w.window_start
           data  == [w.data EXCEPT ![f.block] = IF new THEN f.asdu ELSE @]
           idle  == IF moved \/ new THEN 0 ELSE w.idle
<1>1. w \in Sessions /\ w.window_start + WindowSize \in Nat /\ w.window_start \in Nat
        /\ f.asdu \in Nat /\ f.asdu # 0 /\ w.data \in [Blocks -> Nat]
  <2>1. w \in Sessions /\ w.window_start \in Nat /\ w.data \in [Blocks -> Nat]
    BY DEF Fits, Sessions
  <2>2. WindowSize \in Nat
    BY FragmentationAssumption
  <2>3. f.asdu \in 1..MaxSends
    BY DEF BlockOK, FrameOK, Requests
  <2> QED BY <2>1, <2>2, <2>3
<1>2. n = [w EXCEPT !.window_start = ws, !.data = data, !.idle = idle]
  BY <1>1 DEF Stored, Sessions
<1> HIDE DEF moved, new
<1>a. ws \in Nat /\ data \in [Blocks -> Nat] /\ idle \in Nat
  BY <1>1 DEF Sessions
<1> HIDE DEF ws, data, idle
<1>b. n \in Sessions
  BY <1>1, <1>2, <1>a DEF Sessions
<1>c. /\ n.active = w.active /\ n.src = w.src /\ n.aps_counter = w.aps_counter
      /\ n.delivered = w.delivered /\ n.total_blocks = w.total_blocks /\ n.data = data
  BY <1>1, <1>2 DEF Sessions
<1> HIDE DEF n
<1>4. \A b \in Blocks : n.data[b] = IF b = f.block /\ new THEN f.asdu ELSE w.data[b]
  BY <1>1, <1>c DEF data
<1>5. DOMAIN n.data = Blocks /\ DOMAIN w.data = Blocks /\ (~new => n.data = w.data)
  BY <1>1, <1>c DEF data
<1>6. Received(w) \subseteq Received(n)
  BY <1>1, <1>4 DEF Received
<1>7. \A b \in Received(n) :
        \/ b \in Received(w) /\ n.data[b] = w.data[b]
        \/ b = f.block /\ n.data[b] = f.asdu
  <2> SUFFICES ASSUME NEW b \in Received(n)
               PROVE  \/ b \in Received(w) /\ n.data[b] = w.data[b]
                      \/ b = f.block /\ n.data[b] = f.asdu
    OBVIOUS
  <2>1. b \in Blocks /\ n.data[b] # 0
    BY DEF Received
  <2> QED BY <1>4, <2>1 DEF Received
<1>8. f.block \in Received(w) => n.data = w.data
  BY <1>5 DEF new
<1>9. Fits(n, f)
  BY <1>b, <1>c DEF Fits
<1>10. SessionCore(n)
  <2> SUFFICES ASSUME n.src \notin restarted
               PROVE  SessionCore(n)
    BY DEF SessionCore
  <2>1. SessionCore(w) /\ w.active /\ w.src \notin restarted
    BY <1>c, SessionParts DEF Fits
  <2>2. f.asdu = w.aps_counter + 1 /\ f.block < Total[w.aps_counter + 1]
    BY <2>1 DEF BlockOK, FrameOK, Fits
  <2> QED BY <1>c, <1>7, <2>1, <2>2 DEF SessionCore
<1> QED
  BY <1>c, <1>6, <1>8, <1>9, <1>10 DEF n

\* Rolling a block back: the session is as it was without it.
LEMMA BlockRolledBack ==
    ASSUME NEW f, BlockOK(f), NEW n, Fits(n, f), SessionCore(n)
    PROVE  LET r == RolledBack(n, f.block) IN
           /\ r \in Sessions /\ SessionOK(r)
           /\ \/ r = EmptyEntry /\ Received(n) = {f.block}
              \/ Fits(r, f) /\ Received(n) \ {f.block} \subseteq Received(r)
<1> DEFINE r == RolledBack(n, f.block)
<1>1. CASE Received(n) = {f.block}
  BY <1>1, EmptyEntryIsFree DEF RolledBack
<1>2. CASE Received(n) # {f.block}
  <2> DEFINE data == [n.data EXCEPT ![f.block] = 0]
  <2>2. n \in Sessions /\ n.data \in [Blocks -> Nat]
    BY DEF Fits, Sessions
  <2>1. r = [n EXCEPT !.data = data, !.delivered = FALSE] /\ data \in [Blocks -> Nat]
    BY <1>2, <2>2 DEF RolledBack, Sessions
  <2> HIDE DEF data
  <2>3. /\ r \in Sessions /\ r.active = n.active /\ r.src = n.src
        /\ r.aps_counter = n.aps_counter /\ ~r.delivered
        /\ r.total_blocks = n.total_blocks /\ r.data = data
    BY <2>1, <2>2 DEF Sessions
  <2> HIDE DEF r
  <2>4. Received(r) = Received(n) \ {f.block}
    BY <2>2, <2>3 DEF Received, data
  <2>5. \A b \in Received(r) : r.data[b] = n.data[b]
    BY <2>2, <2>3, <2>4 DEF Received, data
  <2>6. SessionCore(r)
    BY <2>3, <2>4, <2>5 DEF SessionCore
  <2>7. HandedUp(r)
    <3> SUFFICES ASSUME r.active, r.src \notin restarted, IsComplete(r)
                 PROVE  FALSE
      BY <2>3 DEF HandedUp
    <3>1. f.asdu = n.aps_counter + 1 /\ f.total = Total[n.aps_counter + 1] /\ f.block < f.total
            /\ f.block \in Nat
      BY <2>3 DEF BlockOK, BlockFrames, FrameOK, Fits
    <3>2. r.total_blocks = f.total
      BY <2>3, <2>6, <3>1 DEF SessionCore, IsComplete
    <3>3. f.total \in Nat
      BY DEF BlockOK, BlockFrames
    <3>4. f.block \in 0..(r.total_blocks - 1)
      BY <3>1, <3>2, <3>3
    <3> QED BY <2>4, <3>4 DEF IsComplete
  <2> QED
    BY <2>3, <2>4, <2>6, <2>7, SessionParts DEF Fits, r
<1> QED BY <1>1, <1>2

-----------------------------------------------------------------------------
(* The receiver: the table of sessions. *)

\* No block of a steady originator is lost from es to fs, but for ASDUs that
\* are settled.
Keeps(es, fs) ==
    \A o \in Originators \ restarted, a \in Requests :
        \A b : Holds(es, o, a, b) => Holds(fs, o, a, b)

LEMMA ResetKeeps ==
    ASSUME NEW es, EntriesOK(es), NEW S \in SUBSET Slots,
           \A i \in S : es[i].active /\ es[i].src \notin restarted =>
                          Received(es[i]) = {} \/ accepted[es[i].src][es[i].aps_counter + 1] > 0
    PROVE  EntriesOK(Reset(es, S)) /\ Keeps(es, Reset(es, S))
<1> DEFINE fs == Reset(es, S)
<1>1. \A i \in Slots : fs[i] = IF i \in S THEN EmptyEntry ELSE es[i]
  BY DEF Reset
<1>2. fs \in [Slots -> Sessions]
  BY EmptyEntryIsFree DEF Reset, EntriesOK
<1> HIDE DEF fs
<1>3. \A i \in Slots : fs[i].active => i \notin S /\ fs[i] = es[i]
  BY <1>1, EmptyEntryIsFree
<1>4. OnePerCounter(fs)
  BY <1>3 DEF EntriesOK, OnePerCounter
<1>5. \A i \in Slots : SessionOK(fs[i])
  BY <1>1, EmptyEntryIsFree DEF EntriesOK
<1>6. ASSUME NEW o \in Originators \ restarted, NEW a \in Requests, NEW b, Has(es, o, a, b)
      PROVE  Holds(fs, o, a, b)
  <2>1. PICK i \in Slots : es[i].active /\ es[i].src = o /\ es[i].aps_counter + 1 = a
                             /\ b \in Received(es[i])
    BY <1>6 DEF Has
  <2>2. CASE i \in S
    BY <2>1, <2>2 DEF Holds
  <2>3. CASE i \notin S
    BY <2>1, <2>3, <1>1 DEF Holds, Has
  <2> QED BY <2>2, <2>3
<1>7. Keeps(es, fs)
  BY <1>6 DEF Keeps, Holds
<1> QED
  BY <1>2, <1>4, <1>5, <1>7 DEF EntriesOK, fs

LEMMA FinalizedKeeps ==
    ASSUME NEW es, EntriesOK(es)
    PROVE  EntriesOK(Finalized(es)) /\ Keeps(es, Finalized(es))
<1> DEFINE S == {i \in Slots : es[i].delivered}
<1>1. \A i \in S : es[i].active /\ es[i].src \notin restarted =>
                     accepted[es[i].src][es[i].aps_counter + 1] > 0
  BY DEF EntriesOK, SessionOK
<1>2. S \in SUBSET Slots /\ Finalized(es) = Reset(es, S)
  BY DEF Finalized
<1> HIDE DEF S
<1> QED BY <1>1, <1>2, ResetKeeps

LEMMA PurgedKeeps ==
    ASSUME NEW es, EntriesOK(es)
    PROVE  EntriesOK(Purged(es)) /\ Keeps(es, Purged(es))
<1> DEFINE S == {i \in Slots : es[i].active /\ Received(es[i]) = {}}
<1>1. S \in SUBSET Slots /\ Purged(es) = Reset(es, S) /\ \A i \in S : Received(es[i]) = {}
  BY DEF Purged
<1> HIDE DEF S
<1> QED BY <1>1, ResetKeeps

LEMMA KeepsTransitive ==
    ASSUME NEW es, NEW fs, NEW gs, Keeps(es, fs), Keeps(fs, gs)
    PROVE  Keeps(es, gs)
BY DEF Keeps

\* Slot i gets a session of the frame that holds at least the blocks the slot
\* held before.
LEMMA ReplaceKeeps ==
    ASSUME NEW es, EntriesOK(es), NEW f, NEW i \in Slots, NEW n \in Sessions,
           n.active => Fits(n, f),
           \/ Matches(es[i], f)
           \/ ~es[i].active /\ \A j \in Slots : ~Matches(es[j], f),
           es[i].active => (Received(es[i]) \subseteq Received(n) /\ n.active) \/ Received(es[i]) = {}
    PROVE  /\ [es EXCEPT ![i] = n] \in [Slots -> Sessions]
           /\ OnePerCounter([es EXCEPT ![i] = n])
           /\ Keeps(es, [es EXCEPT ![i] = n])
<1> DEFINE fs == [es EXCEPT ![i] = n]
<1>1. es \in [Slots -> Sessions]
  BY DEF EntriesOK
<1>2. fs \in [Slots -> Sessions] /\ fs[i] = n /\ \A j \in Slots : j # i => fs[j] = es[j]
  BY <1>1
<1> HIDE DEF fs
<1>3. ASSUME NEW j \in Slots, j # i, es[j].active, n.active
      PROVE  ~(es[j].src = n.src /\ es[j].aps_counter = n.aps_counter)
  <2> SUFFICES ASSUME es[j].src = n.src, es[j].aps_counter = n.aps_counter
               PROVE  FALSE
    OBVIOUS
  <2>1. Matches(es[j], f)
    BY <1>3 DEF Fits, Matches
  <2>2. Matches(es[i], f)
    BY <2>1
  <2> QED BY <1>3, <2>1, <2>2 DEF Matches, EntriesOK, OnePerCounter
<1>4. OnePerCounter(fs)
  <2> SUFFICES ASSUME NEW j \in Slots, NEW k \in Slots, fs[j].active, fs[k].active,
                      fs[j].src = fs[k].src, fs[j].aps_counter = fs[k].aps_counter
               PROVE  j = k
    BY DEF OnePerCounter
  <2>1. CASE j = i
    BY <1>2, <1>3, <2>1
  <2>2. CASE k = i
    BY <1>2, <1>3, <2>2
  <2>3. CASE j # i /\ k # i
    BY <1>2, <2>3 DEF EntriesOK, OnePerCounter
  <2> QED BY <2>1, <2>2, <2>3
<1>5. ASSUME NEW o, NEW a, NEW b, Has(es, o, a, b)
      PROVE  Has(fs, o, a, b)
  <2>1. PICK j \in Slots : es[j].active /\ es[j].src = o /\ es[j].aps_counter + 1 = a
                             /\ b \in Received(es[j])
    BY <1>5 DEF Has
  <2>2. CASE j # i
    BY <1>2, <2>1, <2>2 DEF Has
  <2>3. CASE j = i
    <3>1. b \in Received(n) /\ n.active
      BY <2>1, <2>3
    <3>2. Matches(es[i], f)
      BY <2>1, <2>3
    <3>3. n.src = o /\ n.aps_counter + 1 = a
      BY <2>1, <2>3, <3>1, <3>2 DEF Matches, Fits
    <3> QED BY <1>2, <3>1, <3>3 DEF Has
  <2> QED BY <2>2, <2>3
<1>6. Keeps(es, fs)
  BY <1>5 DEF Keeps, Holds
<1> QED BY <1>2, <1>4, <1>6 DEF fs

\* A step of the receiver: the sessions keep what they hold, and every new
\* acknowledgement names only blocks they hold.
LEMMA ReceiverStep ==
    ASSUME Inv, EntriesOK(entries)',
           \A o \in Originators \ restarted, a \in Requests :
              \A b : Holds(entries, o, a, b) => Holds(entries, o, a, b)',
           NEW A \in SUBSET AckFrames, \A g \in A : AckOK(entries, g)',
           net' \subseteq net \cup pending_ack \cup A,
           pending_ack' \subseteq pending_ack \cup A,
           dup_table' \subseteq DupEntries, DupOK',
           accepted' \in [Originators -> [Requests -> Nat]],
           \A o \in Originators, a \in Requests : accepted[o][a] > 0 => accepted'[o][a] > 0,
           mixed' \subseteq restarted,
           UNCHANGED <<txVars, restarted, expired>>
    PROVE  Inv'
<1> USE DEF txVars
<1>1. pending_ack \subseteq AckFrames /\ net \subseteq BlockFrames \cup AckFrames
  BY DEF Inv, Typed
<1>2. Typed'
  <2>1. entries' \in [Slots -> Sessions]
    BY DEF EntriesOK
  <2> QED BY <1>1, <2>1 DEF Inv, Typed
<1>3. Numbered' /\ TxBounded'
  BY DEF Inv, Numbered, TxBounded
<1>4. FramesOK'
  <2> SUFFICES ASSUME NEW f \in net', f.kind = "block"
               PROVE  FrameOK(f)'
    BY DEF FramesOK
  <2>1. f \in net
    BY <1>1 DEF AckFrames
  <2> QED BY <2>1 DEF Inv, FramesOK, FrameOK
<1>5. AcksOK(entries)'
  <2> SUFFICES ASSUME NEW g \in net' \cup pending_ack', g.kind = "ack"
               PROVE  AckOK(entries, g)'
    BY DEF AcksOK
  <2>1. CASE g \in A
    BY <2>1
  <2>2. CASE g \in net \cup pending_ack
    <3>1. AckOK(entries, g)
      BY <2>2 DEF Inv, AcksOK
    <3>2. g.dst \in Originators
      BY <1>1, <2>2 DEF AckFrames, BlockFrames
    <3> QED BY <3>1, <3>2 DEF AckOK
  <2> QED BY <2>1, <2>2
<1>6. AckedHeld(entries)'
  BY DEF Inv, AckedHeld, TxBounded
<1>7. ConfirmedIsAccepted'
  BY DEF Inv, ConfirmedIsAccepted
<1>8. AcceptedIsWhole'
  BY DEF AcceptedIsWhole
<1> QED
  BY <1>2, <1>3, <1>4, <1>5, <1>6, <1>7, <1>8 DEF Inv

\* The same when nothing is handed up and the sessions become fs.
LEMMA QuietStep ==
    ASSUME Inv, NEW fs, entries' = fs, EntriesOK(fs), Keeps(entries, fs),
           NEW A \in SUBSET AckFrames, \A g \in A : AckOK(fs, g),
           net' \subseteq net \cup pending_ack \cup A,
           pending_ack' \subseteq pending_ack \cup A,
           dup_table' \subseteq dup_table,
           UNCHANGED <<txVars, accepted, mixed, restarted, expired>>
    PROVE  Inv'
<1>1. EntriesOK(entries)'
  BY DEF EntriesOK, SessionOK, OnePerCounter
<1>2. \A o, a, b : Holds(fs, o, a, b) <=> Holds(entries, o, a, b)'
  BY DEF Holds, Has
<1>3. \A o \in Originators \ restarted, a \in Requests :
         \A b : Holds(entries, o, a, b) => Holds(entries, o, a, b)'
  BY <1>2 DEF Keeps
<1>4. \A g \in A : AckOK(entries, g)'
  BY <1>2 DEF AckOK
<1>5. dup_table' \subseteq DupEntries /\ DupOK'
  BY DEF Inv, Typed, DupOK
<1>6. accepted' \in [Originators -> [Requests -> Nat]] /\ mixed' \subseteq restarted
  BY DEF Inv, Typed, AcceptedIsWhole
<1>7. UNCHANGED <<txVars, restarted, expired>>
        /\ \A o \in Originators, a \in Requests : accepted[o][a] > 0 => accepted'[o][a] > 0
  OBVIOUS
<1> QED
  BY <1>1, <1>3, <1>4, <1>5, <1>6, <1>7, ReceiverStep

-----------------------------------------------------------------------------
(* The receiver: its actions. *)

LEMMA PendingAckSent ==
    ASSUME NEW A, NEW f, SendPendingAck(A, net \ {f})
    PROVE  net' \subseteq net \cup A /\ pending_ack' \subseteq A
BY DEF SendPendingAck

LEMMA DropKeepsInv ==
    ASSUME Inv, NEW f, NEW fs, DropBlock(f, fs), EntriesOK(fs), Keeps(entries, fs),
           UNCHANGED <<txVars, restarted, crowded, expired>>
    PROVE  Inv'
<1>1. entries' = fs /\ UNCHANGED <<dup_table, accepted, mixed>>
  BY DEF DropBlock
<1>2. SendPendingAck(pending_ack, net \ {f})
  BY DEF DropBlock
<1>3. net' \subseteq net \cup pending_ack /\ pending_ack' \subseteq pending_ack
  BY <1>2, PendingAckSent
<1>4. {} \in SUBSET AckFrames /\ \A g \in {} : AckOK(fs, g)
  OBVIOUS
<1>5. net' \subseteq net \cup pending_ack \cup {} /\ pending_ack' \subseteq pending_ack \cup {}
        /\ dup_table' \subseteq dup_table
        /\ UNCHANGED <<txVars, accepted, mixed, restarted, expired>>
  BY <1>1, <1>3
<1> QED
  BY <1>1, <1>4, <1>5, QuietStep

LEMMA AckFrameTyped ==
    ASSUME NEW f \in BlockFrames, NEW ws \in Nat, NEW bits \in SUBSET Nat
    PROVE  /\ AckFrame(f, ws, bits) \in AckFrames
           /\ AckFrame(f, ws, bits).dst = f.src
           /\ AckFrame(f, ws, bits).aps_counter = f.aps_counter
           /\ AckFrame(f, ws, bits).window_start = ws
           /\ AckFrame(f, ws, bits).bits = bits
BY DEF AckFrame, AckFrames, BlockFrames

LEMMA RepeatAckKeepsInv ==
    ASSUME Inv, NEW f, BlockOK(f), NEW d \in dup_table,
           d.src = f.src, d.aps_counter = f.aps_counter, RepeatFinalAck(f, d),
           UNCHANGED <<txVars, restarted, crowded, expired>>
    PROVE  Inv'
<1> DEFINE g == AckFrame(f, d.window, d.window .. (d.window + 7))
           fs == Finalized(entries)
<1>1. entries' = fs /\ UNCHANGED <<dup_table, accepted, mixed>>
        /\ SendPendingAck({g}, net \ {f})
  BY DEF RepeatFinalAck
<1>2. EntriesOK(fs) /\ Keeps(entries, fs)
  BY FinalizedKeeps DEF Inv
<1>3. d.window \in Nat /\ d.window .. (d.window + 7) \in SUBSET Nat
  BY DEF Inv, Typed, DupEntries
<1>4. g \in AckFrames /\ g.dst = f.src /\ g.aps_counter = f.aps_counter
  BY <1>3, AckFrameTyped DEF BlockOK
<1>5. f.src \notin restarted => f.aps_counter + 1 \in Requests
                                  /\ accepted[f.src][f.aps_counter + 1] > 0
  BY DEF Inv, DupOK
<1> HIDE DEF g, fs
<1>6. AckOK(fs, g)
  BY <1>4, <1>5 DEF AckOK, Holds
<1>7. net' \subseteq net \cup {g} /\ pending_ack' \subseteq {g}
  BY <1>1, PendingAckSent
<1>8. {g} \in SUBSET AckFrames /\ (\A x \in {g} : AckOK(fs, x))
        /\ net' \subseteq net \cup pending_ack \cup {g} /\ pending_ack' \subseteq pending_ack \cup {g}
        /\ dup_table' \subseteq dup_table
        /\ UNCHANGED <<txVars, accepted, mixed, restarted, expired>>
  BY <1>1, <1>4, <1>6, <1>7
<1> QED
  BY <1>1, <1>2, <1>8, QuietStep

\* A completed session of a steady originator holds one ASDU, which is counted
\* as handed up.
LEMMA AcceptStep ==
    ASSUME Inv, NEW n \in Sessions, n.active, n.src \in Originators,
           SessionCore(n), IsComplete(n), Accept(n)
    PROVE  /\ accepted' \in [Originators -> [Requests -> Nat]]
           /\ \A o \in Originators, a \in Requests : accepted[o][a] > 0 => accepted'[o][a] > 0
           /\ n.src \notin restarted => accepted'[n.src][n.aps_counter + 1] > 0
           /\ mixed' \subseteq restarted
<1> DEFINE asdus == {n.data[b] : b \in Received(n)}
           old == accepted[n.src]
           row == [a \in Requests |-> Min({2, old[a] + (IF a \in asdus THEN 1 ELSE 0)})]
<1>1. accepted \in [Originators -> [Requests -> Nat]] /\ mixed \subseteq restarted
  BY DEF Inv, Typed, AcceptedIsWhole
<1>2. old \in [Requests -> Nat]
  BY <1>1
<1> HIDE DEF old
<1>3. \A a \in Requests :
         /\ row[a] \in Nat
         /\ old[a] > 0 => row[a] > 0
         /\ a \in asdus => row[a] > 0
  <2> SUFFICES ASSUME NEW a \in Requests
               PROVE  /\ row[a] \in Nat
                      /\ old[a] > 0 => row[a] > 0
                      /\ a \in asdus => row[a] > 0
    OBVIOUS
  <2> DEFINE m == old[a] + (IF a \in asdus THEN 1 ELSE 0)
  <2> HIDE DEF asdus
  <2>1. old[a] \in Nat /\ m \in Nat /\ (old[a] > 0 => m > 0) /\ (a \in asdus => m > 0)
    BY <1>2
  <2>2. row[a] = Min({2, m})
    OBVIOUS
  <2> HIDE DEF m, row
  <2>3. Min({2, m}) \in Nat /\ Min({2, m}) \in {2, m}
    BY <2>1, MinOfTwo
  <2> QED BY <2>1, <2>2, <2>3
<1>4. n.src \notin restarted => asdus = {n.aps_counter + 1} /\ n.aps_counter + 1 \in Requests
  <2> SUFFICES ASSUME n.src \notin restarted
               PROVE  asdus = {n.aps_counter + 1} /\ n.aps_counter + 1 \in Requests
    OBVIOUS
  <2>1. n.aps_counter + 1 \in Requests /\ \A b \in Received(n) : n.data[b] = n.aps_counter + 1
    BY DEF SessionCore
  <2>2. n.total_blocks \in Nat /\ n.total_blocks # 0
    BY DEF Sessions, IsComplete
  <2>3. 0 \in Received(n)
    BY <2>2 DEF IsComplete
  <2> QED BY <2>1, <2>3
<1>5. CASE Cardinality(asdus) = 1
  <2>1. accepted' = [accepted EXCEPT ![n.src] = row] /\ mixed' = mixed
    BY <1>5 DEF Accept, old
  <2>2. row \in [Requests -> Nat]
    BY <1>3
  <2> HIDE DEF asdus, row
  <2>3. accepted' \in [Originators -> [Requests -> Nat]]
    BY <1>1, <2>1, <2>2
  <2>4. accepted'[n.src] = row /\ \A o \in Originators : o # n.src => accepted'[o] = accepted[o]
    BY <1>1, <2>1
  <2>5. \A o \in Originators, a \in Requests : accepted[o][a] > 0 => accepted'[o][a] > 0
    BY <1>3, <2>4 DEF old
  <2>6. n.src \notin restarted => accepted'[n.src][n.aps_counter + 1] > 0
    BY <1>3, <1>4, <2>4
  <2> QED BY <1>1, <2>1, <2>3, <2>5, <2>6
<1>6. CASE Cardinality(asdus) # 1
  <2>1. accepted' = accepted /\ mixed' = mixed \cup {n.src}
    BY <1>6 DEF Accept
  <2>2. n.src \in restarted
    <3> SUFFICES ASSUME n.src \notin restarted
                 PROVE  FALSE
      OBVIOUS
    <3>1. asdus = {n.aps_counter + 1}
      BY <1>4
    <3> HIDE DEF asdus
    <3> QED BY <1>6, <3>1, FS_Singleton
  <2> QED BY <1>1, <2>1, <2>2
<1> QED BY <1>5, <1>6

\* Of the blocks of its window an acknowledgement names only stored ones.
LEMMA AckForHeld ==
    ASSUME NEW f, BlockOK(f), NEW n, Fits(n, f), SessionCore(n)
    PROVE  /\ AckFor(n, f) \in SUBSET AckFrames
           /\ \A g \in AckFor(n, f) :
                /\ g.dst = f.src /\ g.aps_counter = f.aps_counter
                /\ f.src \notin restarted =>
                     /\ f.aps_counter + 1 \in Requests
                     /\ \A b \in g.bits :
                          b < g.window_start + WindowSize /\ b < Total[f.aps_counter + 1]
                             => b \in Received(n)
<1> DEFINE k == AckFrame(f, n.window_start, AckBits(n))
<1>1. n.window_start \in Nat /\ n.total_blocks \in Nat /\ WindowSize \in Nat
  BY FragmentationAssumption DEF Fits, Sessions
<1>2. AckBits(n) \in SUBSET Nat
  BY <1>1 DEF AckBits
<1>3. k \in AckFrames /\ k.dst = f.src /\ k.aps_counter = f.aps_counter
        /\ k.window_start = n.window_start /\ k.bits = AckBits(n)
  BY <1>1, <1>2, AckFrameTyped DEF BlockOK
<1>4. ASSUME f.src \notin restarted
      PROVE  /\ f.aps_counter + 1 \in Requests
             /\ \A b \in AckBits(n) :
                  b < n.window_start + WindowSize /\ b < Total[f.aps_counter + 1]
                     => b \in Received(n)
  <2>1. n.active /\ n.src = f.src /\ n.aps_counter = f.aps_counter
    BY DEF Fits
  <2>2. f.aps_counter + 1 \in Requests /\ n.total_blocks \in {0, Total[f.aps_counter + 1]}
    BY <1>4, <2>1 DEF SessionCore
  <2>3. ASSUME NEW b \in AckBits(n), b < n.window_start + WindowSize, b < Total[f.aps_counter + 1]
        PROVE  b \in Received(n)
    <3>1. b \in Nat /\ Total[f.aps_counter + 1] \in Nat
      BY <1>2, <2>2, SizeOfAsdu
    <3>2. ~(b >= n.window_start + WindowSize) /\ ~(n.total_blocks # 0 /\ b >= n.total_blocks)
      BY <1>1, <2>2, <2>3, <3>1
    <3> QED BY <3>2 DEF AckBits
  <2> QED BY <2>2, <2>3
<1>5. AckFor(n, f) \subseteq {k}
  BY DEF AckFor
<1> HIDE DEF k
<1> QED BY <1>3, <1>4, <1>5

\* The slot that insert_block uses, as ReplaceKeeps wants it.
SlotReady(es, f, i, w) ==
    /\ i \in Slots
    /\ \/ Matches(es[i], f)
       \/ ~es[i].active /\ \A j \in Slots : ~Matches(es[j], f)
    /\ es[i].active => Received(es[i]) = Received(w)

\* A block is stored or was already there and the session is not complete, or
\* the commit failed: nothing is handed up.
LEMMA StoredQuietly ==
    ASSUME Inv, NEW f, BlockOK(f), NEW es, EntriesOK(es), Keeps(entries, es),
           NEW i, NEW w, SlotReady(es, f, i, w), NEW r \in Sessions, SessionOK(r),
           r.active => Fits(r, f),
           (Received(w) \subseteq Received(r) /\ r.active) \/ Received(w) = {},
           entries' = [es EXCEPT ![i] = r],
           NEW A \in SUBSET AckFrames, \A g \in A : AckOK([es EXCEPT ![i] = r], g),
           net' \subseteq net \cup pending_ack \cup A, pending_ack' \subseteq pending_ack \cup A,
           UNCHANGED <<dup_table, accepted, mixed>>,
           UNCHANGED <<txVars, restarted, crowded, expired>>
    PROVE  Inv'
<1> DEFINE fs == [es EXCEPT ![i] = r]
<1>1. fs \in [Slots -> Sessions] /\ OnePerCounter(fs) /\ Keeps(es, fs)
  BY ReplaceKeeps DEF SlotReady
<1>2. \A j \in Slots : fs[j] = IF j = i THEN r ELSE es[j]
  BY DEF EntriesOK
<1>3. entries' = fs /\ \A g \in A : AckOK(fs, g)
  OBVIOUS
<1> HIDE DEF fs
<1>4. EntriesOK(fs)
  BY <1>1, <1>2 DEF EntriesOK
<1>5. Keeps(entries, fs)
  BY <1>1, KeepsTransitive
<1>6. dup_table' \subseteq dup_table /\ UNCHANGED <<txVars, accepted, mixed, restarted, expired>>
  OBVIOUS
<1> QED
  BY <1>3, <1>4, <1>5, <1>6, QuietStep

\* The block completes the ASDU and its effects are committed.
LEMMA StoredAndAccepted ==
    ASSUME Inv, NEW f, BlockOK(f), NEW es, EntriesOK(es), Keeps(entries, es),
           NEW i, NEW w, SlotReady(es, f, i, w), NEW n, Fits(n, f), SessionCore(n),
           Received(w) \subseteq Received(n), IsComplete(n), Accept(n),
           entries' = [es EXCEPT ![i] = [n EXCEPT !.delivered = TRUE]],
           dup_table' = dup_table \cup {[src |-> f.src, aps_counter |-> f.aps_counter,
                                         window |-> n.window_start, age |-> 0]},
           NEW A \in SUBSET AckFrames,
           \A g \in A : /\ g.dst = f.src /\ g.aps_counter = f.aps_counter
                        /\ f.src \notin restarted => f.aps_counter + 1 \in Requests,
           net' \subseteq net \cup pending_ack \cup A, pending_ack' \subseteq pending_ack \cup A,
           UNCHANGED <<txVars, restarted, crowded, expired>>
    PROVE  Inv'
<1> DEFINE r == [n EXCEPT !.delivered = TRUE]
           fs == [es EXCEPT ![i] = r]
           d == [src |-> f.src, aps_counter |-> f.aps_counter, window |-> n.window_start, age |-> 0]
<1>1. n \in Sessions /\ n.active /\ n.src = f.src /\ n.aps_counter = f.aps_counter
        /\ n.src \in Originators
  BY DEF Fits, BlockOK, BlockFrames
<1>2. /\ accepted' \in [Originators -> [Requests -> Nat]]
      /\ \A o \in Originators, a \in Requests : accepted[o][a] > 0 => accepted'[o][a] > 0
      /\ n.src \notin restarted => accepted'[n.src][n.aps_counter + 1] > 0
      /\ mixed' \subseteq restarted
  BY <1>1, AcceptStep
<1>3. /\ r \in Sessions /\ r.active = n.active /\ r.src = n.src /\ r.aps_counter = n.aps_counter
      /\ r.total_blocks = n.total_blocks /\ r.data = n.data
  BY <1>1 DEF Sessions
<1> HIDE DEF r
<1>4. Received(r) = Received(n) /\ Fits(r, f)
  BY <1>1, <1>3 DEF Received, Fits
<1>5. fs \in [Slots -> Sessions] /\ OnePerCounter(fs) /\ Keeps(es, fs)
  BY <1>1, <1>3, <1>4, ReplaceKeeps DEF SlotReady
<1>6. i \in Slots /\ \A j \in Slots : fs[j] = IF j = i THEN r ELSE es[j]
  BY DEF EntriesOK, SlotReady
<1>7. entries' = fs
  BY DEF r
<1> HIDE DEF fs
<1>8. Keeps(entries, fs)
  BY <1>5, KeepsTransitive
<1>9. \A j \in Slots : SessionOK(fs[j])'
  <2> SUFFICES ASSUME NEW j \in Slots
               PROVE  SessionOK(fs[j])'
    OBVIOUS
  <2>1. CASE j = i
    <3>1. fs[j] = r
      BY <1>6, <2>1
    <3>2. SessionCore(r)'
      BY <1>3, <1>4 DEF SessionCore
    <3>3. HandedUp(r)'
      BY <1>2, <1>3 DEF HandedUp
    <3> QED BY <3>1, <3>2, <3>3 DEF SessionOK, SessionCore, HandedUp
  <2>2. CASE j # i
    <3>1. fs[j] = es[j] /\ SessionOK(es[j])
      BY <1>6, <2>2 DEF EntriesOK
    <3> QED BY <1>2, <3>1 DEF SessionOK
  <2> QED BY <2>1, <2>2
<1>10. EntriesOK(entries)'
  BY <1>5, <1>7, <1>9 DEF EntriesOK, OnePerCounter
<1>11. \A o \in Originators \ restarted, a \in Requests :
          \A b : Holds(entries, o, a, b) => Holds(entries, o, a, b)'
  <2> SUFFICES ASSUME NEW o \in Originators \ restarted, NEW a \in Requests, NEW b,
                      Holds(entries, o, a, b)
               PROVE  Holds(entries, o, a, b)'
    OBVIOUS
  <2>1. Holds(fs, o, a, b)
    BY <1>8 DEF Keeps
  <2>2. Has(fs, o, a, b) => Has(entries, o, a, b)'
    BY <1>7 DEF Has
  <2> QED BY <1>2, <2>1, <2>2 DEF Holds
<1>12. \A g \in A : AckOK(entries, g)'
  BY <1>1, <1>2 DEF AckOK, Holds
<1>13. d \in DupEntries
  BY <1>1 DEF DupEntries, BlockOK, BlockFrames, Sessions
<1>14. d.src = n.src /\ d.aps_counter = n.aps_counter /\ dup_table' = dup_table \cup {d}
  BY <1>1
<1> HIDE DEF d
<1>15. dup_table' \subseteq DupEntries
  BY <1>13, <1>14 DEF Inv, Typed
<1>16. DupOK'
  <2> SUFFICES ASSUME NEW x \in dup_table', x.src \notin restarted
               PROVE  x.aps_counter + 1 \in Requests /\ accepted'[x.src][x.aps_counter + 1] > 0
    BY DEF DupOK
  <2>1. CASE x = d
    BY <1>1, <1>2, <1>14, <2>1 DEF SessionCore
  <2>2. CASE x \in dup_table
    <3>1. x.src \in Originators
      BY <2>2 DEF Inv, Typed, DupEntries
    <3>2. x.aps_counter + 1 \in Requests /\ accepted[x.src][x.aps_counter + 1] > 0
      BY <2>2 DEF Inv, DupOK
    <3> QED BY <1>2, <3>1, <3>2
  <2> QED BY <1>14, <2>1, <2>2
<1>17. UNCHANGED <<txVars, restarted, expired>>
  OBVIOUS
<1> QED
  BY <1>2, <1>10, <1>11, <1>12, <1>15, <1>16, <1>17, ReceiverStep

\* insert_block takes the block.
LEMMA StoreKeepsInv ==
    ASSUME Inv, NEW f, BlockOK(f), NEW es, EntriesOK(es), Keeps(entries, es),
           NEW i, NEW w, SlotReady(es, f, i, w), Fits(w, f), SessionOK(w),
           f.block = 0 => w.total_blocks # 0, ~Outside(w, f),
           NEW n, n = Stored(w, f),
           StoreBlock(f, es, i, n, f.block \notin Received(w)),
           UNCHANGED <<txVars, restarted, crowded, expired>>
    PROVE  Inv'
<1>1. /\ Fits(n, f) /\ SessionCore(n) /\ ~n.delivered /\ n.total_blocks = w.total_blocks
      /\ Received(w) \subseteq Received(n) /\ (f.block \in Received(w) => n.data = w.data)
  <2>1. ~w.delivered
    BY DEF Outside
  <2> QED BY <2>1, BlockStored
<1>2. n \in Sessions /\ n.active
  BY <1>1 DEF Fits
<1>3. AckFor(n, f) \in SUBSET AckFrames
        /\ \A g \in AckFor(n, f) :
             /\ g.dst = f.src /\ g.aps_counter = f.aps_counter
             /\ f.src \notin restarted =>
                  /\ f.aps_counter + 1 \in Requests
                  /\ \A b \in g.bits :
                       b < g.window_start + WindowSize /\ b < Total[f.aps_counter + 1]
                          => b \in Received(n)
  BY <1>1, AckForHeld
<1>4. ASSUME SendPendingAck(IF AckFor(n, f) # {} THEN AckFor(n, f) ELSE pending_ack, net \ {f})
      PROVE  net' \subseteq net \cup pending_ack \cup AckFor(n, f)
               /\ pending_ack' \subseteq pending_ack \cup AckFor(n, f)
  <2> DEFINE A == IF AckFor(n, f) # {} THEN AckFor(n, f) ELSE pending_ack
  <2>1. net' \subseteq net \cup A /\ pending_ack' \subseteq A
    BY <1>4, PendingAckSent
  <2> QED BY <2>1
<1>5. CASE /\ IsComplete(n)
           /\ entries' = [es EXCEPT ![i] = [n EXCEPT !.delivered = TRUE]]
           /\ dup_table' = dup_table \cup {[src |-> f.src, aps_counter |-> f.aps_counter,
                                            window |-> n.window_start, age |-> 0]}
           /\ Accept(n)
           /\ SendPendingAck(IF AckFor(n, f) # {} THEN AckFor(n, f) ELSE pending_ack, net \ {f})
  <2>1. net' \subseteq net \cup pending_ack \cup AckFor(n, f)
          /\ pending_ack' \subseteq pending_ack \cup AckFor(n, f)
    BY <1>4, <1>5
  <2>2. AckFor(n, f) \in SUBSET AckFrames
          /\ \A g \in AckFor(n, f) : /\ g.dst = f.src /\ g.aps_counter = f.aps_counter
                                     /\ f.src \notin restarted => f.aps_counter + 1 \in Requests
    BY <1>3
  <2>3. Fits(n, f) /\ SessionCore(n) /\ Received(w) \subseteq Received(n)
    BY <1>1
  <2> QED BY <1>5, <2>1, <2>2, <2>3, StoredAndAccepted
<1>6. CASE /\ ~IsComplete(n)
           /\ entries' = [es EXCEPT ![i] = n]
           /\ UNCHANGED <<dup_table, accepted, mixed>>
           /\ SendPendingAck(IF AckFor(n, f) # {} THEN AckFor(n, f) ELSE pending_ack, net \ {f})
  <2>1. SessionOK(n)
    BY <1>1, <1>6, SessionParts DEF HandedUp
  <2>2. ASSUME NEW g \in AckFor(n, f)
        PROVE  AckOK([es EXCEPT ![i] = n], g)
    <3> DEFINE fs == [es EXCEPT ![i] = n]
    <3>1. i \in Slots /\ fs[i] = n
      BY DEF SlotReady, EntriesOK
    <3> HIDE DEF fs
    <3>2. \A b \in Received(n) : Has(fs, f.src, f.aps_counter + 1, b)
      BY <1>1, <3>1 DEF Has, Fits
    <3> QED BY <1>3, <3>2 DEF AckOK, Holds, fs
  <2>3. n.active => Fits(n, f)
    BY <1>1
  <2>4. (Received(w) \subseteq Received(n) /\ n.active) \/ Received(w) = {}
    BY <1>1, <1>2
  <2>5. net' \subseteq net \cup pending_ack \cup AckFor(n, f)
          /\ pending_ack' \subseteq pending_ack \cup AckFor(n, f)
    BY <1>4, <1>6
  <2> QED
    BY <1>2, <1>3, <1>6, <2>1, <2>2, <2>3, <2>4, <2>5, StoredQuietly
<1>7. CASE /\ entries' = [es EXCEPT ![i] = IF f.block \notin Received(w)
                                           THEN RolledBack(n, f.block) ELSE n]
           /\ pending_ack' = {}
           /\ net' = net \ {f}
           /\ UNCHANGED <<dup_table, accepted, mixed>>
  <2>1. {} \in SUBSET AckFrames /\ net' \subseteq net \cup pending_ack \cup {}
          /\ pending_ack' \subseteq pending_ack \cup {}
    BY <1>7
  <2>2. CASE f.block \notin Received(w)
    <3> DEFINE r == RolledBack(n, f.block)
    <3>1. /\ r \in Sessions /\ SessionOK(r)
          /\ \/ r = EmptyEntry /\ Received(n) = {f.block}
             \/ Fits(r, f) /\ Received(n) \ {f.block} \subseteq Received(r)
      BY <1>1, BlockRolledBack
    <3> HIDE DEF r
    <3>2. r.active => Fits(r, f)
      BY <3>1, EmptyEntryIsFree
    <3>3. (Received(w) \subseteq Received(r) /\ r.active) \/ Received(w) = {}
      BY <1>1, <2>2, <3>1 DEF Fits
    <3>4. entries' = [es EXCEPT ![i] = r] /\ \A g \in {} : AckOK([es EXCEPT ![i] = r], g)
      BY <1>7, <2>2 DEF r
    <3>5. r \in Sessions /\ SessionOK(r)
      BY <3>1
    <3>6. UNCHANGED <<dup_table, accepted, mixed>>
      BY <1>7
    <3> QED
      BY <2>1, <3>2, <3>3, <3>4, <3>5, <3>6, StoredQuietly
  <2>3. CASE f.block \in Received(w)
    <3>1. HandedUp(n)
      <4>1. IsComplete(n) <=> IsComplete(w)
        BY <1>1, <2>3 DEF IsComplete, Received
      <4>2. n.src = w.src /\ n.aps_counter = w.aps_counter /\ w.active
        BY <1>1 DEF Fits
      <4> QED BY <1>1, <4>1, <4>2 DEF HandedUp, SessionOK
    <3>2. SessionOK(n)
      BY <1>1, <3>1, SessionParts
    <3>3. n.active => Fits(n, f)
      BY <1>1
    <3>4. (Received(w) \subseteq Received(n) /\ n.active) \/ Received(w) = {}
      BY <1>1, <1>2
    <3>5. entries' = [es EXCEPT ![i] = n] /\ \A g \in {} : AckOK([es EXCEPT ![i] = n], g)
      BY <1>7, <2>3
    <3> QED
      BY <1>2, <1>7, <2>1, <3>2, <3>3, <3>4, <3>5, StoredQuietly
  <2> QED BY <2>2, <2>3
<1> QED
  BY <1>5, <1>6, <1>7 DEF StoreBlock

\* insert_block: a block is refused, ignored or stored.
LEMMA OfferKeepsInv ==
    ASSUME Inv, NEW f, BlockOK(f), NEW es, EntriesOK(es), Keeps(entries, es),
           OfferBlock(f, es), UNCHANGED <<txVars, restarted, crowded, expired>>
    PROVE  Inv'
<1>1. CASE DropBlock(f, Purged(es))
  BY <1>1, PurgedKeeps, KeepsTransitive, DropKeepsInv
<1>2. ASSUME NEW i \in SlotFor(es, f), NEW e, e = SessionFor(es[i], f),
             NEW w, w = WithTotal(e, f),
             \/ /\ Contradicts(e, f)
                /\ DropBlock(f, Purged(IF Forgets(e, f) THEN Reset(es, {i}) ELSE es))
             \/ /\ ~Contradicts(e, f) /\ Outside(w, f)
                /\ DropBlock(f, [es EXCEPT ![i] = w])
             \/ /\ ~Contradicts(e, f) /\ ~Outside(w, f)
                /\ \E n \in {Stored(w, f)} : StoreBlock(f, es, i, n, f.block \notin Received(w))
      PROVE  Inv'
  <2>1. /\ i \in Slots /\ Fits(e, f) /\ SessionOK(e)
        /\ \/ Matches(es[i], f) /\ e = es[i]
           \/ /\ ~es[i].active /\ Received(e) = {}
              /\ \A j \in Slots : ~Matches(es[j], f)
    BY <1>2, SessionOfBlock
  <2>2. /\ Fits(w, f) /\ SessionOK(w) /\ Received(w) = Received(e)
        /\ f.block = 0 => w.total_blocks # 0
    BY <1>2, <2>1, TotalLearned
  <2>3. SlotReady(es, f, i, w)
    BY <2>1, <2>2 DEF SlotReady, Matches
  <2>4. CASE ~Forgets(e, f) /\ DropBlock(f, Purged(IF Forgets(e, f) THEN Reset(es, {i}) ELSE es))
    <3>1. DropBlock(f, Purged(es))
      BY <2>4
    <3> QED BY <3>1, <1>1
  <2>5. CASE Forgets(e, f) /\ DropBlock(f, Purged(IF Forgets(e, f) THEN Reset(es, {i}) ELSE es))
    <3>1. DropBlock(f, Purged(Reset(es, {i})))
      BY <2>5
    <3>2. f.src \in restarted
      <4> SUFFICES ASSUME f.src \notin restarted
                   PROVE  FALSE
        OBVIOUS
      <4>1. PICK b \in Received(e) : b >= f.total
        BY <2>5 DEF Forgets
      <4>2. f.total = Total[e.aps_counter + 1]
        BY <2>1 DEF BlockOK, FrameOK, Fits
      <4>3. b < Total[e.aps_counter + 1]
        BY <2>1, <4>1 DEF SessionOK, Fits
      <4>4. f.total \in Nat /\ b \in Nat
        BY <4>1 DEF BlockOK, BlockFrames, Received, Blocks
      <4> QED BY <4>1, <4>2, <4>3, <4>4
    <3>3. \A j \in {i} : es[j].active /\ es[j].src \notin restarted =>
                           Received(es[j]) = {} \/ accepted[es[j].src][es[j].aps_counter + 1] > 0
      BY <2>1, <3>2 DEF Matches
    <3>4. {i} \in SUBSET Slots
      BY <2>1
    <3>5. EntriesOK(Reset(es, {i})) /\ Keeps(es, Reset(es, {i}))
      BY <3>3, <3>4, ResetKeeps
    <3>6. EntriesOK(Purged(Reset(es, {i}))) /\ Keeps(Reset(es, {i}), Purged(Reset(es, {i})))
      BY <3>5, PurgedKeeps
    <3>7. Keeps(entries, Purged(Reset(es, {i})))
      BY <3>5, <3>6, KeepsTransitive
    <3> QED
      BY <3>1, <3>6, <3>7, DropKeepsInv
  <2>6. CASE DropBlock(f, [es EXCEPT ![i] = w])
    <3> DEFINE fs == [es EXCEPT ![i] = w]
    <3>1. w \in Sessions /\ w.active
      BY <2>2 DEF Fits
    <3>2. fs \in [Slots -> Sessions] /\ OnePerCounter(fs) /\ Keeps(es, fs)
      BY <2>2, <2>3, <3>1, ReplaceKeeps DEF SlotReady
    <3>3. \A j \in Slots : fs[j] = IF j = i THEN w ELSE es[j]
      BY DEF EntriesOK
    <3>4. DropBlock(f, fs)
      BY <2>6
    <3> HIDE DEF fs
    <3>5. EntriesOK(fs)
      BY <2>2, <3>2, <3>3 DEF EntriesOK
    <3>6. Keeps(entries, fs)
      BY <3>2, KeepsTransitive
    <3> QED
      BY <3>4, <3>5, <3>6, DropKeepsInv
  <2>7. CASE ~Outside(w, f) /\ \E n \in {Stored(w, f)} : StoreBlock(f, es, i, n, f.block \notin Received(w))
    BY <2>2, <2>3, <2>7, StoreKeepsInv
  <2> QED
    BY <1>2, <2>4, <2>5, <2>6, <2>7
<1> QED
  BY <1>1, <1>2 DEF OfferBlock

LEMMA ReceiveKeepsInv ==
    ASSUME Inv, NEW f \in net, ReceiveFragment(f)
    PROVE  Inv'
<1> DEFINE done == {d \in dup_table : d.src = f.src /\ d.aps_counter = f.aps_counter}
<1>1. BlockOK(f)
  <2>1. f \in BlockFrames /\ f.kind = "block"
    BY DEF ReceiveFragment, Inv, Typed, BlockFrames, AckFrames
  <2> QED BY <2>1 DEF BlockOK, Inv, FramesOK
<1>2. UNCHANGED <<txVars, restarted, crowded, expired>>
  BY DEF ReceiveFragment
<1>3. CASE \E d \in done : RepeatFinalAck(f, d)
  BY <1>1, <1>2, <1>3, RepeatAckKeepsInv
<1>4. CASE OfferBlock(f, Finalized(entries))
  <2>1. EntriesOK(Finalized(entries)) /\ Keeps(entries, Finalized(entries))
    BY FinalizedKeeps DEF Inv
  <2> QED BY <1>1, <1>2, <1>4, <2>1, OfferKeepsInv
<1> QED
  BY <1>3, <1>4 DEF ReceiveFragment

LEMMA ReceiveOtherKeepsInv ==
    ASSUME Inv, ReceiveOther
    PROVE  Inv'
<1>1. entries' = Finalized(entries) /\ dup_table' \subseteq dup_table
        /\ net' = net \cup pending_ack /\ pending_ack' = {}
        /\ UNCHANGED <<txVars, accepted, mixed, restarted, expired>>
  BY DEF ReceiveOther
<1>2. EntriesOK(Finalized(entries)) /\ Keeps(entries, Finalized(entries))
  BY FinalizedKeeps DEF Inv
<1>3. {} \in SUBSET AckFrames /\ (\A g \in {} : AckOK(Finalized(entries), g))
        /\ net' \subseteq net \cup pending_ack \cup {} /\ pending_ack' \subseteq pending_ack \cup {}
  BY <1>1
<1> QED
  BY <1>1, <1>2, <1>3, QuietStep

\* A session that expires takes its blocks with it; its ASDU is marked.
LEMMA ExpireKeepsInv ==
    ASSUME Inv, ExpireSessions
    PROVE  Inv'
<1>1. /\ entries' = Reset(entries, Stale)
      /\ expired' = expired \cup {<<entries[i].src, entries[i].aps_counter + 1>> : i \in Stale}
      /\ UNCHANGED <<txVars, dup_table, pending_ack, net, accepted, mixed, restarted>>
  BY DEF ExpireSessions
<1> USE DEF txVars
<1>2. \A i \in Slots : entries'[i] = IF i \in Stale THEN EmptyEntry ELSE entries[i]
  BY <1>1 DEF Reset
<1>3. entries' \in [Slots -> Sessions]
  BY <1>1, EmptyEntryIsFree DEF Reset, Inv, Typed
<1>4. \A i \in Slots : entries'[i].active => i \notin Stale /\ entries'[i] = entries[i]
  BY <1>2, EmptyEntryIsFree
<1>5. EntriesOK(entries)'
  <2>1. OnePerCounter(entries)'
    BY <1>4 DEF Inv, EntriesOK, OnePerCounter
  <2>2. \A i \in Slots : SessionOK(entries[i])'
    <3> SUFFICES ASSUME NEW i \in Slots
                 PROVE  SessionOK(entries[i])'
      OBVIOUS
    <3>1. CASE ~entries'[i].active
      BY <3>1 DEF SessionOK
    <3>2. CASE entries'[i].active
      <4>1. entries'[i] = entries[i] /\ SessionOK(entries[i])
        BY <1>4, <3>2 DEF Inv, EntriesOK
      <4> QED BY <1>1, <4>1 DEF SessionOK
    <3> QED BY <3>1, <3>2
  <2> QED BY <1>3, <2>1, <2>2 DEF EntriesOK
<1>6. ASSUME NEW o, NEW a, NEW b, Holds(entries, o, a, b)
      PROVE  Holds(entries, o, a, b)'
  <2>1. CASE accepted[o][a] > 0 \/ <<o, a>> \in expired
    BY <1>1, <2>1 DEF Holds
  <2>2. CASE Has(entries, o, a, b)
    <3>1. PICK i \in Slots : entries[i].active /\ entries[i].src = o
                               /\ entries[i].aps_counter + 1 = a /\ b \in Received(entries[i])
      BY <2>2 DEF Has
    <3>2. CASE i \in Stale
      <4>1. <<o, a>> \in expired'
        BY <1>1, <3>1, <3>2
      <4> QED BY <4>1 DEF Holds
    <3>3. CASE i \notin Stale
      <4>1. entries'[i] = entries[i]
        BY <1>2, <3>3
      <4>2. Has(entries, o, a, b)'
        BY <3>1, <4>1 DEF Has
      <4> QED BY <4>2 DEF Holds
    <3> QED BY <3>2, <3>3
  <2> QED BY <1>6, <2>1, <2>2 DEF Holds
<1>7. Typed' /\ Numbered' /\ TxBounded' /\ FramesOK' /\ DupOK' /\ AcceptedIsWhole'
  BY <1>1, <1>3 DEF Inv, Typed, Numbered, TxBounded, FramesOK, FrameOK, DupOK, AcceptedIsWhole
<1>8. AcksOK(entries)'
  <2> SUFFICES ASSUME NEW g \in net \cup pending_ack, g.kind = "ack"
               PROVE  AckOK(entries, g)'
    BY <1>1 DEF AcksOK
  <2>1. AckOK(entries, g)
    BY DEF Inv, AcksOK
  <2> QED BY <1>1, <1>6, <2>1 DEF AckOK
<1>9. AckedHeld(entries)'
  BY <1>1, <1>6 DEF Inv, AckedHeld
<1>10. ConfirmedIsAccepted'
  BY <1>1 DEF Inv, ConfirmedIsAccepted
<1> QED
  BY <1>5, <1>7, <1>8, <1>9, <1>10 DEF Inv

-----------------------------------------------------------------------------
(* The network and the clock. *)

LEMMA LoseKeepsInv ==
    ASSUME Inv, NEW f \in net, Lose(f)
    PROVE  Inv'
<1>1. net' \subseteq net \cup pending_ack \cup {} /\ {} \in SUBSET AckFrames
        /\ (\A g \in {} : AckOK(entries, g)) /\ dup_table' \subseteq dup_table
        /\ pending_ack' \subseteq pending_ack \cup {} /\ entries' = entries
        /\ UNCHANGED <<txVars, accepted, mixed, restarted, expired>>
  BY DEF Lose, rxVars
<1>2. EntriesOK(entries) /\ Keeps(entries, entries)
  BY DEF Inv, Keeps
<1> QED BY <1>1, <1>2, QuietStep

LEMMA RepeatKeepsInv ==
    ASSUME Inv, NEW f \in net, Repeat(f)
    PROVE  Inv'
<1> DEFINE c == [f EXCEPT !.copy = 1]
<1>1. net' = net \cup {c} /\ UNCHANGED <<txVars, rxVars, restarted, crowded, expired>>
  BY DEF Repeat
<1>2. CASE f \in BlockFrames
  <2>1. c \in BlockFrames /\ c.asdu = f.asdu /\ c.total = f.total /\ c.block = f.block
          /\ c.src = f.src /\ c.aps_counter = f.aps_counter
    BY <1>2 DEF BlockFrames
  <2>2. FrameOK(f) /\ f.src \in Originators
    BY <1>2 DEF Inv, FramesOK, BlockFrames
  <2> HIDE DEF c
  <2>3. {c} \in SUBSET BlockFrames /\ (\A x \in {c} : FrameOK(x)) /\ net' \subseteq net \cup {c}
    BY <1>1, <2>1, <2>2 DEF FrameOK
  <2> DEFINE o == f.src
             s == fragment_tx[o]
  <2>4. s \in TxSessions /\ OwnSession(o, s) /\ fragment_tx' = [fragment_tx EXCEPT ![o] = s]
    <3>1. fragment_tx' = fragment_tx /\ o \in Originators
      BY <1>1, <2>2 DEF txVars
    <3> QED BY <3>1, SessionIsOwn DEF Inv, Typed
  <2>5. /\ aps_counter' \in [Originators -> Nat] /\ sent' \in [Originators -> 0..MaxSends]
        /\ \A p \in Originators \ restarted : aps_counter'[p] = sent'[p]
        /\ outcome' \in [Originators -> [Requests -> Statuses]]
        /\ ConfirmedIsAccepted'
        /\ UNCHANGED <<rxVars, restarted, expired>>
    BY <1>1 DEF Inv, Typed, Numbered, ConfirmedIsAccepted, txVars, rxVars
  <2> HIDE DEF s
  <2> QED BY <2>2, <2>3, <2>4, <2>5, TransmitterStep
<1>3. CASE f \in AckFrames
  <2>1. c \in AckFrames /\ c.dst = f.dst /\ c.aps_counter = f.aps_counter
          /\ c.window_start = f.window_start /\ c.bits = f.bits
    BY <1>3 DEF AckFrames
  <2>2. AckOK(entries, f)
    BY <1>3 DEF Inv, AcksOK, AckFrames
  <2> HIDE DEF c
  <2>3. AckOK(entries, c)
    BY <2>1, <2>2 DEF AckOK
  <2>4. {c} \in SUBSET AckFrames /\ (\A g \in {c} : AckOK(entries, g))
          /\ net' \subseteq net \cup pending_ack \cup {c}
          /\ pending_ack' \subseteq pending_ack \cup {c}
          /\ dup_table' \subseteq dup_table /\ entries' = entries
          /\ UNCHANGED <<txVars, accepted, mixed, restarted, expired>>
    BY <1>1, <2>1, <2>3 DEF rxVars
  <2>5. EntriesOK(entries) /\ Keeps(entries, entries)
    BY DEF Inv, Keeps
  <2> QED BY <2>4, <2>5, QuietStep
<1> QED
  BY <1>2, <1>3 DEF Inv, Typed

LEMMA OlderIsNat ==
    ASSUME NEW n \in Nat, NEW cap \in Nat
    PROVE  Older(n, cap) \in Nat
BY MinOfTwo DEF Older

\* The clock touches only timers.
LEMMA TickKeepsInv ==
    ASSUME Inv, Tick
    PROVE  Inv'
<1>1. UNCHANGED <<aps_counter, net, sent, outcome, pending_ack, accepted, mixed, restarted, expired>>
  BY DEF Tick
<1>2. \A o \in Originators :
         /\ fragment_tx'[o] \in TxSessions
         /\ fragment_tx'[o].active = fragment_tx[o].active
         /\ fragment_tx'[o].asdu = fragment_tx[o].asdu
         /\ fragment_tx'[o].aps_counter = fragment_tx[o].aps_counter
         /\ fragment_tx'[o].total = fragment_tx[o].total
         /\ fragment_tx'[o].due = fragment_tx[o].due
         /\ fragment_tx'[o].acked = fragment_tx[o].acked
  <2> SUFFICES ASSUME NEW o \in Originators
               PROVE  /\ fragment_tx'[o] \in TxSessions
                      /\ fragment_tx'[o].active = fragment_tx[o].active
                      /\ fragment_tx'[o].asdu = fragment_tx[o].asdu
                      /\ fragment_tx'[o].aps_counter = fragment_tx[o].aps_counter
                      /\ fragment_tx'[o].total = fragment_tx[o].total
                      /\ fragment_tx'[o].due = fragment_tx[o].due
                      /\ fragment_tx'[o].acked = fragment_tx[o].acked
    OBVIOUS
  <2> DEFINE s == fragment_tx[o]
             t == Older(s.waited, 1)
  <2>1. s \in TxSessions
    BY DEF Inv, Typed
  <2>2. t \in Nat
    <3> HIDE DEF s
    <3> QED BY <2>1, OlderIsNat DEF TxSessions
  <2>3. fragment_tx'[o] = s \/ fragment_tx'[o] = [s EXCEPT !.waited = t]
    BY DEF Tick
  <2> HIDE DEF s, t
  <2>4. fragment_tx'[o] \in TxSessions
    BY <2>1, <2>2, <2>3 DEF TxSessions
  <2>5. /\ fragment_tx'[o].active = s.active /\ fragment_tx'[o].asdu = s.asdu
        /\ fragment_tx'[o].aps_counter = s.aps_counter /\ fragment_tx'[o].total = s.total
        /\ fragment_tx'[o].due = s.due /\ fragment_tx'[o].acked = s.acked
    BY <2>1, <2>2, <2>3 DEF TxSessions
  <2> QED BY <2>4, <2>5 DEF s
<1>3. fragment_tx' \in [Originators -> TxSessions]
  <2>1. fragment_tx' = [o \in Originators |-> fragment_tx'[o]]
    BY DEF Tick
  <2> QED BY <1>2, <2>1
<1>4. \A i \in Slots :
         /\ entries'[i] \in Sessions
         /\ entries'[i].active = entries[i].active /\ entries'[i].src = entries[i].src
         /\ entries'[i].aps_counter = entries[i].aps_counter
         /\ entries'[i].total_blocks = entries[i].total_blocks
         /\ entries'[i].data = entries[i].data /\ entries'[i].delivered = entries[i].delivered
  <2> SUFFICES ASSUME NEW i \in Slots
               PROVE  /\ entries'[i] \in Sessions
                      /\ entries'[i].active = entries[i].active /\ entries'[i].src = entries[i].src
                      /\ entries'[i].aps_counter = entries[i].aps_counter
                      /\ entries'[i].total_blocks = entries[i].total_blocks
                      /\ entries'[i].data = entries[i].data
                      /\ entries'[i].delivered = entries[i].delivered
    OBVIOUS
  <2> DEFINE e == entries[i]
             t == Older(e.idle, RxTimeout)
  <2>1. e \in Sessions
    BY DEF Inv, Typed
  <2>2. t \in Nat
    <3>1. RxTimeout \in Nat
      BY FragmentationAssumption DEF RxTimeout
    <3> HIDE DEF e
    <3> QED BY <2>1, <3>1, OlderIsNat DEF Sessions
  <2>3. entries'[i] = e \/ entries'[i] = [e EXCEPT !.idle = t]
    BY DEF Tick
  <2> HIDE DEF e, t
  <2>4. entries'[i] \in Sessions
    BY <2>1, <2>2, <2>3 DEF Sessions
  <2>5. /\ entries'[i].active = e.active /\ entries'[i].src = e.src
        /\ entries'[i].aps_counter = e.aps_counter
        /\ entries'[i].total_blocks = e.total_blocks
        /\ entries'[i].data = e.data /\ entries'[i].delivered = e.delivered
    BY <2>1, <2>2, <2>3 DEF Sessions
  <2> QED BY <2>4, <2>5 DEF e
<1>5. entries' \in [Slots -> Sessions]
  <2>1. entries' = [i \in Slots |-> entries'[i]]
    BY DEF Tick
  <2> QED BY <1>4, <2>1
<1>6. \A i \in Slots : Received(entries'[i]) = Received(entries[i])
  BY <1>4 DEF Received
<1>7. \A d \in dup_table' : d \in DupEntries /\ \E x \in dup_table : d.src = x.src
                                                  /\ d.aps_counter = x.aps_counter
  <2> SUFFICES ASSUME NEW d \in dup_table'
               PROVE  d \in DupEntries /\ \E x \in dup_table : d.src = x.src
                                                    /\ d.aps_counter = x.aps_counter
    OBVIOUS
  <2>1. PICK x \in dup_table : d = [x EXCEPT !.age = @ + 1]
    BY DEF Tick
  <2>2. x \in DupEntries
    BY DEF Inv, Typed
  <2>3. d \in DupEntries /\ d.src = x.src /\ d.aps_counter = x.aps_counter
    BY <2>1, <2>2 DEF DupEntries
  <2> QED BY <2>3
<1>8. Typed'
  BY <1>1, <1>3, <1>5, <1>7 DEF Inv, Typed
<1>9. \A o, a, b : Holds(entries, o, a, b) <=> Holds(entries, o, a, b)'
  <2>1. \A o, a, b : Has(entries, o, a, b) <=> Has(entries, o, a, b)'
    BY <1>4, <1>6 DEF Has
  <2> QED BY <1>1, <2>1 DEF Holds
<1>10. Numbered' /\ TxBounded'
  BY <1>1, <1>2 DEF Inv, Numbered, TxBounded
<1>11. AckedHeld(entries)'
  BY <1>1, <1>2, <1>9 DEF Inv, AckedHeld
<1>12. FramesOK' /\ ConfirmedIsAccepted' /\ AcceptedIsWhole'
  BY <1>1 DEF Inv, FramesOK, FrameOK, ConfirmedIsAccepted, AcceptedIsWhole
<1>13. AcksOK(entries)'
  <2> SUFFICES ASSUME NEW g \in net \cup pending_ack, g.kind = "ack"
               PROVE  AckOK(entries, g)'
    BY <1>1 DEF AcksOK
  <2>1. AckOK(entries, g)
    BY DEF Inv, AcksOK
  <2> QED BY <1>1, <1>9, <2>1 DEF AckOK
<1>14. DupOK'
  BY <1>1, <1>7 DEF Inv, DupOK
<1>15. OnePerCounter(entries)'
  BY <1>4 DEF Inv, EntriesOK, OnePerCounter
<1>16. \A i \in Slots : SessionOK(entries[i])'
  <2> SUFFICES ASSUME NEW i \in Slots
               PROVE  SessionOK(entries[i])'
    OBVIOUS
  <2>1. SessionOK(entries[i])
    BY DEF Inv, EntriesOK
  <2>2. IsComplete(entries[i]) <=> IsComplete(entries[i])'
    BY <1>4, <1>6 DEF IsComplete
  <2> QED BY <1>1, <1>4, <1>6, <2>1, <2>2 DEF SessionOK
<1> QED
  BY <1>5, <1>8, <1>10, <1>11, <1>12, <1>13, <1>14, <1>15, <1>16 DEF Inv, EntriesOK

-----------------------------------------------------------------------------
(* The invariant holds. *)

LEMMA InitInv == Init => Inv
<1> SUFFICES ASSUME Init PROVE Inv
  OBVIOUS
<1> USE DEF Init
<1>1. Typed
  <2>1. outcome \in [Originators -> [Requests -> Statuses]]
    BY DEF Statuses
  <2>2. fragment_tx \in [Originators -> TxSessions] /\ entries \in [Slots -> Sessions]
    BY NoTxIsOwn, EmptyEntryIsFree
  <2>3. sent \in [Originators -> 0..MaxSends]
    BY FragmentationAssumption
  <2> QED BY <2>1, <2>2, <2>3 DEF Typed
<1>2. \A o \in Originators : ~fragment_tx[o].active
  BY DEF NoTx
<1>3. Numbered /\ TxBounded /\ AckedHeld(entries)
  BY <1>2 DEF Numbered, TxBounded, AckedHeld
<1>4. \A i \in Slots : entries[i] = EmptyEntry
  OBVIOUS
<1>5. EntriesOK(entries)
  BY <1>1, <1>4, EmptyEntryIsFree DEF EntriesOK, OnePerCounter, Typed
<1>6. FramesOK /\ DupOK /\ AcksOK(entries) /\ AcceptedIsWhole
  BY DEF FramesOK, DupOK, AcksOK, AcceptedIsWhole
<1>7. ConfirmedIsAccepted
  BY DEF ConfirmedIsAccepted
<1> QED BY <1>1, <1>3, <1>5, <1>6, <1>7 DEF Inv

LEMMA NextInv == Inv /\ [Next]_vars => Inv'
<1> SUFFICES ASSUME Inv, [Next]_vars PROVE Inv'
  OBVIOUS
<1>1. ASSUME NEW o \in Originators, StartFragmentedTx(o) PROVE Inv'
  BY <1>1, StartKeepsInv
<1>2. ASSUME NEW o \in Originators, ServiceFragmentTx(o) PROVE Inv'
  BY <1>2, ServiceKeepsInv
<1>3. ASSUME NEW o \in Originators, Restart(o) PROVE Inv'
  BY <1>3, RestartKeepsInv
<1>4. ASSUME NEW f \in net, HandleFragmentAck(f) PROVE Inv'
  BY <1>4, AckHandlingKeepsInv
<1>5. ASSUME NEW f \in net, ReceiveFragment(f) PROVE Inv'
  BY <1>5, ReceiveKeepsInv
<1>6. ASSUME NEW f \in net, Lose(f) PROVE Inv'
  BY <1>6, LoseKeepsInv
<1>7. ASSUME NEW f \in net, Repeat(f) PROVE Inv'
  BY <1>7, RepeatKeepsInv
<1>8. CASE ReceiveOther
  BY <1>8, ReceiveOtherKeepsInv
<1>9. CASE ExpireSessions
  BY <1>9, ExpireKeepsInv
<1>10. CASE Tick
  BY <1>10, TickKeepsInv
<1>11. CASE UNCHANGED vars
  <2>1. net' \subseteq net \cup pending_ack \cup {} /\ {} \in SUBSET AckFrames
          /\ (\A g \in {} : AckOK(entries, g)) /\ dup_table' \subseteq dup_table
          /\ pending_ack' \subseteq pending_ack \cup {} /\ entries' = entries
          /\ UNCHANGED <<txVars, accepted, mixed, restarted, expired>>
    BY <1>11 DEF vars, txVars
  <2>2. EntriesOK(entries) /\ Keeps(entries, entries)
    BY DEF Inv, Keeps
  <2> QED BY <2>1, <2>2, QuietStep
<1> QED
  BY <1>1, <1>2, <1>3, <1>4, <1>5, <1>6, <1>7, <1>8, <1>9, <1>10, <1>11 DEF Next

\* A SUCCESS confirm (handle_fragment_ack) means that the receiver handed the
\* ASDU up and committed it, for every number of originators, sessions, blocks,
\* window size, retries and faults, unless the originator restarted or the
\* receiver's session of that ASDU expired.
THEOREM SuccessMeansAccepted == Spec => []ConfirmedIsAccepted
<1>1. Inv => ConfirmedIsAccepted
  BY DEF Inv
<1> QED
  BY <1>1, InitInv, NextInv, PTL DEF Spec

\* insert_block never puts blocks of two ASDUs together, for every value of the
\* constants, unless the originator restarted and reused the APS counter.
THEOREM NeverMixed == Spec => []AcceptedIsWhole
<1>1. Inv => AcceptedIsWhole
  BY DEF Inv
<1> QED
  BY <1>1, InitInv, NextInv, PTL DEF Spec

-----------------------------------------------------------------------------
(* At most once.  The argument is about one block of each ASDU: block 0 of one *)
(* that needs several windows, the last block of one that fits a window.       *)
(* Without it no session completes, and once the ASDU was handed up the        *)
(* originator never sends it again: a completed ASDU of several windows has    *)
(* moved the originator past its first one, and within a window every          *)
(* acknowledgement covers the last block, so that the timer repeats the first  *)
(* block or one before the last.                                               *)

KeyBlock(a) == IF Total[a] > WindowSize THEN 0 ELSE Total[a] - 1

\* Originators that none of the exceptions of AcceptedOnce is about.
Clean == Originators \ (crowded \cup late \cup restarted)

\* The blocks, sessions and deliveries of an originator are of requests it made.
Known(es) ==
    \A o \in Originators \ restarted :
        /\ fragment_tx[o].active => fragment_tx[o].asdu <= sent[o]
        /\ \A f \in net : f.kind = "block" /\ f.src = o => f.asdu <= sent[o]
        /\ \A i \in Slots : es[i].active /\ es[i].src = o => es[i].aps_counter + 1 <= sent[o]
        /\ \A a \in Requests : accepted[o][a] > 0 => a <= sent[o]

\* A session of one window has the last block acknowledged with the first of
\* the others, and never due; a session of several sends block 0 in its first
\* window only.
Shaped(s) ==
    IF Total[s.asdu] > WindowSize
    THEN /\ s.due \subseteq 0..(s.window_start + WindowSize - 1)
         /\ s.window_start = 0 \/ (s.window_start >= WindowSize /\ 0 \notin s.due)
    ELSE /\ s.window_start = 0
         /\ Total[s.asdu] - 1 \notin s.due
         /\ s.acked # {} => Total[s.asdu] - 1 \in s.acked
TxShaped == \A o \in Originators \ restarted : fragment_tx[o].active => Shaped(fragment_tx[o])

\* An acknowledgement of an ASDU that fits the window covers the last block.
Covers(g) ==
    g.dst \notin restarted /\ g.window_start = 0 /\ Total[g.aps_counter + 1] <= WindowSize
        => Total[g.aps_counter + 1] - 1 \in g.bits
AcksCover == \A g \in net \cup pending_ack : g.kind = "ack" => Covers(g)

\* A block beyond the first window, in the air or received, and a delivery mean
\* that the originator has left its first window.
Beyond(es, o, a) ==
    \/ accepted[o][a] > 0
    \/ \E f \in net : f.kind = "block" /\ f.src = o /\ f.asdu = a /\ f.block >= WindowSize
    \/ \E b \in Blocks : b >= WindowSize /\ Has(es, o, a, b)
WindowLeft(es) ==
    \A o \in Originators \ restarted :
        LET s == fragment_tx[o]
        IN  s.active /\ Total[s.asdu] > WindowSize /\ Beyond(es, o, s.asdu)
              => s.window_start >= WindowSize

\* A key block of a delivered ASDU is in the air only while the duplicate entry
\* is new, and no session takes it in again.
Fresh(o, c) == \E d \in dup_table : d.src = o /\ d.aps_counter = c /\ d.age = 0
KeyBlockSpent ==
    \A f \in net :
        f.kind = "block" /\ f.src \in Clean /\ accepted[f.src][f.asdu] > 0
          /\ f.block = KeyBlock(f.asdu) => Fresh(f.src, f.aps_counter)
KeyBlockGone(e) ==
    e.active /\ ~e.delivered /\ e.src \in Clean /\ accepted[e.src][e.aps_counter + 1] > 0
        => KeyBlock(e.aps_counter + 1) \notin Received(e)

OnceInv ==
    /\ Known(entries)
    /\ TxShaped
    /\ AcksCover
    /\ WindowLeft(entries)
    /\ KeyBlockSpent
    /\ \A i \in Slots : KeyBlockGone(entries[i])
    /\ AcceptedOnce

LEMMA KeyBlockIsBlock ==
    ASSUME NEW a \in Requests
    PROVE  KeyBlock(a) \in Nat /\ KeyBlock(a) \in 0..(Total[a] - 1)
BY SizeOfAsdu DEF KeyBlock

LEMMA WindowSizeTyped == WindowSize \in Nat /\ WindowSize >= 1 /\ WindowSize <= 8
BY FragmentationAssumption

\* A step of originator o: its session becomes s, blocks F go out.
LEMMA OnceSend ==
    ASSUME Inv, OnceInv, NEW o \in Originators, NEW s \in TxSessions,
           NEW F \in SUBSET BlockFrames, \A f \in F : f.src = o,
           fragment_tx' = [fragment_tx EXCEPT ![o] = s],
           net' \subseteq net \cup F,
           sent' \in [Originators -> 0..MaxSends],
           \A p \in Originators : sent[p] <= sent'[p],
           o \notin restarted =>
             /\ s.active => Shaped(s) /\ s.asdu <= sent'[o]
             /\ \A f \in F : /\ f.asdu \in Requests /\ f.asdu <= sent'[o]
                             /\ accepted[o][f.asdu] > 0 => f.block # KeyBlock(f.asdu)
             /\ (s.active /\ Total[s.asdu] > WindowSize
                  /\ (Beyond(entries, o, s.asdu)
                        \/ \E f \in F : f.asdu = s.asdu /\ f.block >= WindowSize))
                  => s.window_start >= WindowSize,
           UNCHANGED <<rxVars, restarted, crowded, late>>
    PROVE  OnceInv'
<1> USE DEF rxVars
<1>1. fragment_tx'[o] = s /\ \A p \in Originators : p # o => fragment_tx'[p] = fragment_tx[p]
  BY DEF Inv, Typed
<1>2. \A f \in net' : f \in net \/ f \in F
  OBVIOUS
<1>3. Known(entries)'
  <2> SUFFICES ASSUME NEW p \in Originators \ restarted
               PROVE  /\ fragment_tx'[p].active => fragment_tx'[p].asdu <= sent'[p]
                      /\ \A f \in net' : f.kind = "block" /\ f.src = p => f.asdu <= sent'[p]
                      /\ \A i \in Slots : entries[i].active /\ entries[i].src = p
                                            => entries[i].aps_counter + 1 <= sent'[p]
                      /\ \A a \in Requests : accepted[p][a] > 0 => a <= sent'[p]
    BY Zenon DEF Known
  <2>1. sent[p] \in Nat /\ sent'[p] \in Nat /\ sent[p] <= sent'[p]
    <3>1. sent[p] \in 0..MaxSends /\ sent'[p] \in 0..MaxSends
      BY DEF Inv, Typed
    <3> QED BY <3>1
  <2>2. Known(entries)
    BY DEF OnceInv
  <2>3. fragment_tx'[p].active => fragment_tx'[p].asdu <= sent'[p]
    <3>1. CASE p = o
      BY <1>1, <3>1
    <3>2. CASE p # o
      <4>1. fragment_tx[p].asdu \in Nat
        BY DEF Inv, Typed, TxSessions
      <4> QED BY <1>1, <2>1, <2>2, <3>2, <4>1 DEF Known
    <3> QED BY <3>1, <3>2
  <2>4. ASSUME NEW f \in net', f.kind = "block", f.src = p
        PROVE  f.asdu <= sent'[p]
    <3>1. CASE f \in F
      BY <2>4, <3>1
    <3>2. CASE f \in net
      <4>1. f.asdu \in Nat /\ f.asdu <= sent[p]
        BY <2>2, <2>4, <3>2 DEF Inv, Typed, BlockFrames, AckFrames, Known
      <4> QED BY <2>1, <4>1
    <3> QED BY <1>2, <3>1, <3>2
  <2>5. ASSUME NEW i \in Slots, entries[i].active, entries[i].src = p
        PROVE  entries[i].aps_counter + 1 <= sent'[p]
    <3>1. entries[i].aps_counter \in Nat
      BY DEF Inv, Typed, Sessions
    <3> QED BY <2>1, <2>2, <2>5, <3>1 DEF Known
  <2>6. ASSUME NEW a \in Requests, accepted[p][a] > 0
        PROVE  a <= sent'[p]
    <3>1. a \in Nat
      BY DEF Requests
    <3> QED BY <2>1, <2>2, <2>6, <3>1 DEF Known
  <2> QED BY <2>3, <2>4, <2>5, <2>6
<1>4. TxShaped'
  BY <1>1 DEF OnceInv, TxShaped
<1>5. AcksCover'
  <2> SUFFICES ASSUME NEW g \in net' \cup pending_ack', g.kind = "ack"
               PROVE  Covers(g)'
    BY DEF AcksCover
  <2>1. g \in net \cup pending_ack
    BY <1>2 DEF BlockFrames
  <2> QED BY <2>1 DEF OnceInv, AcksCover, Covers
<1>6. WindowLeft(entries)'
  <2>1. ASSUME NEW p, NEW a, Beyond(entries, p, a)'
        PROVE  \/ Beyond(entries, p, a)
               \/ \E f \in F : f.src = p /\ f.asdu = a /\ f.block >= WindowSize
    <3>1. \A b : Has(entries, p, a, b)' <=> Has(entries, p, a, b)
      BY DEF Has
    <3> QED BY <1>2, <2>1, <3>1 DEF Beyond
  <2> SUFFICES ASSUME NEW p \in Originators \ restarted, fragment_tx'[p].active,
                      NEW a, a = fragment_tx'[p].asdu,
                      Total[a] > WindowSize, Beyond(entries, p, a)'
               PROVE  fragment_tx'[p].window_start >= WindowSize
    BY Zenon DEF WindowLeft
  <2>2. CASE p = o
    BY <1>1, <2>1, <2>2
  <2>3. CASE p # o
    BY <1>1, <2>1, <2>3 DEF OnceInv, WindowLeft
  <2> QED BY <2>2, <2>3
<1>7. KeyBlockSpent'
  <2> SUFFICES ASSUME NEW f \in net', f.kind = "block", f.src \in Clean,
                      accepted[f.src][f.asdu] > 0, f.block = KeyBlock(f.asdu)
               PROVE  Fresh(f.src, f.aps_counter)
    BY DEF KeyBlockSpent, Clean, Fresh
  <2>1. f \notin F
    BY DEF Clean
  <2> QED BY <1>2, <2>1 DEF OnceInv, KeyBlockSpent
<1>8. \A i \in Slots : KeyBlockGone(entries[i])'
  BY DEF OnceInv, KeyBlockGone, Clean
<1>9. AcceptedOnce'
  BY DEF OnceInv, AcceptedOnce
<1> QED
  BY <1>3, <1>4, <1>5, <1>6, <1>7, <1>8, <1>9 DEF OnceInv

\* The block the timer repeats is not the key block of a delivered ASDU.
LEMMA TimerSparesKeyBlock ==
    ASSUME NEW s \in TxSessions, s.asdu \in Requests, s.total = Total[s.asdu], Shaped(s)
    PROVE  /\ Total[s.asdu] > WindowSize /\ s.window_start >= WindowSize => 0 \notin TxWindow(s)
           /\ Total[s.asdu] <= WindowSize => Total[s.asdu] - 1 \notin LowestUnacked(s)
<1>1. s.window_start \in Nat /\ WindowSize \in Nat /\ WindowSize >= 1 /\ s.acked \subseteq Nat
        /\ Total[s.asdu] \in Nat /\ Total[s.asdu] >= 2
  BY WindowSizeTyped, SizeOfAsdu DEF TxSessions
<1>2. s.window_start >= WindowSize => 0 \notin TxWindow(s)
  <2>1. ASSUME s.window_start >= WindowSize, 0 \in TxWindow(s) PROVE FALSE
    <3>1. Min({s.window_start + WindowSize, s.total}) \in Nat
      BY <1>1, MinOfTwo
    <3>2. 0 >= s.window_start
      BY <1>1, <2>1, <3>1 DEF TxWindow
    <3> QED BY <1>1, <2>1, <3>2
  <2> QED BY <2>1
<1>3. ASSUME Total[s.asdu] <= WindowSize, Total[s.asdu] - 1 \in LowestUnacked(s)
      PROVE  FALSE
  <2> DEFINE open == TxWindow(s) \ s.acked
  <2>1. open # {} /\ Total[s.asdu] - 1 = Min(open)
    BY <1>3 DEF LowestUnacked
  <2>2. open \subseteq Nat
    BY WindowBlocks
  <2>3. Min(open) \in open /\ \A y \in open : Min(open) <= y
    BY <2>1, <2>2, MinIsLeast
  <2>4. s.window_start = 0 /\ (s.acked # {} => Total[s.asdu] - 1 \in s.acked)
    BY <1>1, <1>3 DEF Shaped
  <2>5. s.acked = {}
    BY <2>1, <2>3, <2>4
  <2>6. 0 \in TxWindow(s)
    <3>1. Min({s.window_start + WindowSize, s.total}) \in {s.window_start + WindowSize, s.total}
      BY <1>1, MinOfTwo
    <3>2. Min({s.window_start + WindowSize, s.total}) \in Nat
            /\ Min({s.window_start + WindowSize, s.total}) >= 1
      BY <1>1, <2>4, <3>1
    <3> QED BY <2>4, <3>2 DEF TxWindow
  <2>7. 0 \in open
    BY <2>5, <2>6
  <2> HIDE DEF open
  <2>8. Min(open) <= 0 /\ Min(open) \in Nat
    BY <2>2, <2>3, <2>7
  <2> QED BY <1>1, <2>1, <2>8
<1> QED BY <1>2, <1>3

LEMMA DrainedShaped ==
    ASSUME NEW s \in TxSessions,
           IF Total[s.asdu] > WindowSize THEN s.window_start = 0 \/ s.window_start >= WindowSize
           ELSE s.window_start = 0 /\ (s.acked # {} => Total[s.asdu] - 1 \in s.acked)
    PROVE  Shaped(Drained(s)) /\ Drained(s).window_start = s.window_start
<1>1. Drained(s).window_start = s.window_start
  BY DEF Drained, TxSessions
<1>2. Drained(s).asdu = s.asdu /\ Drained(s).acked = s.acked /\ Drained(s).due = {}
  BY DrainedSession
<1> QED BY <1>1, <1>2 DEF Shaped

LEMMA PolledShaped ==
    ASSUME NEW s \in TxSessions, s.asdu \in Requests, s.total = Total[s.asdu], Shaped(s)
    PROVE  Shaped(Polled(s)) /\ Polled(s).window_start = s.window_start
<1>1. CASE ~TimedOut(s)
  BY <1>1 DEF Polled
<1>2. CASE TimedOut(s)
  <2>1. /\ Polled(s).window_start = s.window_start /\ Polled(s).asdu = s.asdu
        /\ Polled(s).acked = s.acked /\ Polled(s).due = s.due \cup LowestUnacked(s)
    BY <1>2 DEF Polled, TxSessions
  <2>2. LowestUnacked(s) \subseteq TxWindow(s)
    BY LowestInWindow
  <2>3. \A b \in TxWindow(s) : b \in Nat /\ b < s.window_start + WindowSize
    BY WindowBlocks
  <2>4. s.window_start \in Nat /\ WindowSize \in Nat /\ Total[s.asdu] \in Nat
    BY WindowSizeTyped, SizeOfAsdu DEF TxSessions
  <2>5. CASE Total[s.asdu] > WindowSize
    <3>1. LowestUnacked(s) \subseteq 0..(s.window_start + WindowSize - 1)
      BY <2>2, <2>3, <2>4
    <3>2. s.window_start >= WindowSize => 0 \notin LowestUnacked(s)
      BY <2>2, <2>5, TimerSparesKeyBlock
    <3> QED BY <2>1, <2>5, <3>1, <3>2 DEF Shaped
  <2>6. CASE ~(Total[s.asdu] > WindowSize)
    <3>1. Total[s.asdu] - 1 \notin LowestUnacked(s)
      BY <2>4, <2>6, TimerSparesKeyBlock
    <3> QED BY <2>1, <2>6, <3>1 DEF Shaped
  <2> QED BY <2>5, <2>6
<1> QED BY <1>1, <1>2

\* Applying an acknowledgement, field by field.
LEMMA AppliedFields ==
    ASSUME NEW s \in TxSessions, NEW g
    PROVE  LET acked == s.acked \cup Newly(s, g)
               t == Applied(s, g)
           IN  /\ t.acked = acked /\ t.asdu = s.asdu /\ t.total = s.total
               /\ \/ /\ TxWindow(s) \subseteq acked /\ s.window_start + WindowSize < s.total
                     /\ t.window_start = s.window_start + WindowSize
                     /\ \A b \in t.due : \/ b \in s.due /\ b \notin acked
                                         \/ b \in Nat /\ b >= s.window_start + WindowSize
                                              /\ b < s.window_start + 2 * WindowSize
                  \/ /\ ~(TxWindow(s) \subseteq acked /\ s.window_start + WindowSize < s.total)
                     /\ t.window_start = s.window_start
                     /\ \A b \in t.due : b \notin acked /\ (b \in s.due \/ b \in TxWindow(s))
<1> DEFINE acked == s.acked \cup Newly(s, g)
           u == [s EXCEPT !.acked = acked, !.due = @ \ acked, !.retries = 0, !.waiting = FALSE]
           next == [u EXCEPT !.window_start = @ + WindowSize]
           moves == TxWindow(s) \subseteq acked /\ s.window_start + WindowSize < s.total
<1>1. Applied(s, g) = IF moves THEN [next EXCEPT !.due = @ \cup TxWindow(next)]
                      ELSE [u EXCEPT !.due = @ \cup LowestUnacked(u)]
  BY DEF Applied
<1>2. s.window_start \in Nat /\ WindowSize \in Nat
  BY WindowSizeTyped DEF TxSessions
<1>3. acked \subseteq Nat
  BY WindowBlocks DEF Newly, TxSessions
<1> HIDE DEF acked
<1>4. /\ u \in TxSessions /\ u.window_start = s.window_start /\ u.total = s.total
      /\ u.asdu = s.asdu /\ u.acked = acked /\ u.due = s.due \ acked
  BY <1>3 DEF TxSessions
<1> HIDE DEF u
<1>5. /\ next \in TxSessions /\ next.window_start = s.window_start + WindowSize
      /\ next.total = s.total /\ next.asdu = s.asdu /\ next.acked = acked
      /\ next.due = s.due \ acked
  BY <1>2, <1>4 DEF TxSessions
<1> HIDE DEF next
<1>6. CASE moves
  <2>1. Applied(s, g) = [next EXCEPT !.due = @ \cup TxWindow(next)]
    BY <1>1, <1>6
  <2>2. /\ Applied(s, g).window_start = next.window_start /\ Applied(s, g).total = next.total
        /\ Applied(s, g).asdu = next.asdu /\ Applied(s, g).acked = next.acked
        /\ Applied(s, g).due = next.due \cup TxWindow(next)
    BY <1>5, <2>1 DEF TxSessions
  <2>3. ASSUME NEW b \in TxWindow(next)
        PROVE  b \in Nat /\ b >= s.window_start + WindowSize /\ b < s.window_start + 2 * WindowSize
    <3>1. b \in 0..(next.total - 1) /\ b < next.window_start + WindowSize
      BY <1>5, WindowBlocks
    <3>2. Min({next.window_start + WindowSize, next.total}) \in Nat
      BY <1>2, <1>5, MinOfTwo DEF TxSessions
    <3>3. b >= next.window_start
      BY <1>2, <1>5, <3>2 DEF TxWindow
    <3> QED BY <1>2, <1>5, <3>1, <3>3
  <2>4. ASSUME NEW b \in Applied(s, g).due
        PROVE  \/ b \in s.due /\ b \notin acked
               \/ b \in Nat /\ b >= s.window_start + WindowSize /\ b < s.window_start + 2 * WindowSize
    BY <1>5, <2>2, <2>3
  <2> QED BY <1>5, <1>6, <2>2, <2>4 DEF acked
<1>7. CASE ~moves
  <2>1. Applied(s, g) = [u EXCEPT !.due = @ \cup LowestUnacked(u)]
    BY <1>1, <1>7
  <2>2. /\ Applied(s, g).window_start = u.window_start /\ Applied(s, g).total = u.total
        /\ Applied(s, g).asdu = u.asdu /\ Applied(s, g).acked = u.acked
        /\ Applied(s, g).due = u.due \cup LowestUnacked(u)
    BY <1>4, <2>1 DEF TxSessions
  <2>3. TxWindow(u) = TxWindow(s)
    BY <1>4 DEF TxWindow
  <2>4. \A b \in LowestUnacked(u) : b \in TxWindow(s) /\ b \notin acked
    <3> SUFFICES ASSUME NEW b \in LowestUnacked(u)
                 PROVE  b \in TxWindow(s) /\ b \notin acked
      OBVIOUS
    <3>1. LowestUnacked(u) \subseteq TxWindow(u)
      BY <1>4, LowestInWindow
    <3>2. TxWindow(u) \ u.acked \in SUBSET Nat
      BY <1>4, WindowBlocks
    <3>3. TxWindow(u) \ u.acked # {} /\ b = Min(TxWindow(u) \ u.acked)
      BY DEF LowestUnacked
    <3>4. b \in TxWindow(u) \ u.acked
      BY <3>2, <3>3, MinIsLeast
    <3> QED BY <1>4, <2>3, <3>4
  <2> QED BY <1>4, <1>7, <2>2, <2>4 DEF acked
<1> QED BY <1>6, <1>7

LEMMA AppliedShaped ==
    ASSUME NEW s \in TxSessions, s.asdu \in Requests, s.total = Total[s.asdu], Shaped(s),
           s.due \subseteq Nat,
           NEW g, Newly(s, g) # {},
           s.window_start = 0 /\ Total[s.asdu] <= WindowSize => Total[s.asdu] - 1 \in g.bits
    PROVE  Shaped(Applied(s, g)) /\ Applied(s, g).window_start >= s.window_start
<1> DEFINE acked == s.acked \cup Newly(s, g)
           t == Applied(s, g)
<1>1. /\ t.acked = acked /\ t.asdu = s.asdu /\ t.total = s.total
      /\ \/ /\ TxWindow(s) \subseteq acked /\ s.window_start + WindowSize < s.total
            /\ t.window_start = s.window_start + WindowSize
            /\ \A b \in t.due : \/ b \in s.due /\ b \notin acked
                                \/ b \in Nat /\ b >= s.window_start + WindowSize
                                     /\ b < s.window_start + 2 * WindowSize
         \/ /\ ~(TxWindow(s) \subseteq acked /\ s.window_start + WindowSize < s.total)
            /\ t.window_start = s.window_start
            /\ \A b \in t.due : b \notin acked /\ (b \in s.due \/ b \in TxWindow(s))
  BY AppliedFields
<1>2. /\ s.window_start \in Nat /\ WindowSize \in Nat /\ WindowSize >= 1
      /\ Total[s.asdu] \in Nat /\ Total[s.asdu] >= 2 /\ s.due \subseteq Nat
  BY WindowSizeTyped, SizeOfAsdu DEF TxSessions
<1>3. \A b \in TxWindow(s) : b \in Nat /\ b < s.window_start + WindowSize
  BY WindowBlocks
<1>4. ASSUME s.window_start = 0 PROVE 0 \in TxWindow(s)
        /\ (Total[s.asdu] <= WindowSize => Total[s.asdu] - 1 \in TxWindow(s))
  <2>1. Min({s.window_start + WindowSize, s.total}) \in {WindowSize, Total[s.asdu]}
          /\ (Total[s.asdu] <= WindowSize => Min({s.window_start + WindowSize, s.total}) = Total[s.asdu])
    <3>1. Min({WindowSize, Total[s.asdu]}) \in Nat
            /\ Min({WindowSize, Total[s.asdu]}) <= WindowSize
            /\ Min({WindowSize, Total[s.asdu]}) <= Total[s.asdu]
            /\ Min({WindowSize, Total[s.asdu]}) \in {WindowSize, Total[s.asdu]}
      BY <1>2, MinOfTwo
    <3>2. {s.window_start + WindowSize, s.total} = {WindowSize, Total[s.asdu]}
      BY <1>2, <1>4
    <3>3. Min({s.window_start + WindowSize, s.total}) = Min({WindowSize, Total[s.asdu]})
      BY <3>2, Zenon
    <3> QED BY <1>2, <3>1, <3>3
  <2> QED BY <1>2, <1>4, <2>1 DEF TxWindow
<1> HIDE DEF acked, t
<1>5. CASE Total[s.asdu] > WindowSize
  <2>1. /\ s.due \subseteq 0..(s.window_start + WindowSize - 1)
        /\ s.window_start = 0 \/ (s.window_start >= WindowSize /\ 0 \notin s.due)
    BY <1>5 DEF Shaped
  <2>2. CASE TxWindow(s) \subseteq acked /\ s.window_start + WindowSize < s.total
    <3>1. t.window_start = s.window_start + WindowSize
          /\ \A b \in t.due : \/ b \in s.due /\ b \notin acked
                              \/ b \in Nat /\ b >= s.window_start + WindowSize
                                   /\ b < s.window_start + 2 * WindowSize
      BY <1>1, <2>2
    <3>2. t.due \subseteq 0..(t.window_start + WindowSize - 1)
      BY <1>2, <2>1, <3>1
    <3>3. 0 \notin t.due
      <4> SUFFICES ASSUME 0 \in s.due, 0 \notin acked PROVE FALSE
        BY <1>2, <3>1
      <4>1. s.window_start = 0
        BY <2>1
      <4> QED BY <1>4, <2>2, <4>1
    <3> QED BY <1>1, <1>2, <1>5, <3>1, <3>2, <3>3 DEF Shaped, t
  <2>3. CASE ~(TxWindow(s) \subseteq acked /\ s.window_start + WindowSize < s.total)
    <3>1. t.window_start = s.window_start
          /\ \A b \in t.due : b \notin acked /\ (b \in s.due \/ b \in TxWindow(s))
      BY <1>1, <2>3
    <3>2. t.due \subseteq 0..(t.window_start + WindowSize - 1)
      BY <1>2, <1>3, <2>1, <3>1
    <3>3. s.window_start >= WindowSize => 0 \notin TxWindow(s)
      BY <1>5, TimerSparesKeyBlock
    <3> QED BY <1>1, <1>2, <1>5, <2>1, <3>1, <3>2, <3>3 DEF Shaped, t
  <2> QED BY <2>2, <2>3
<1>6. CASE ~(Total[s.asdu] > WindowSize)
  <2>1. s.window_start = 0 /\ Total[s.asdu] <= WindowSize
    BY <1>2, <1>6 DEF Shaped
  <2>2. Total[s.asdu] - 1 \in acked
    BY <1>4, <2>1 DEF acked, Newly
  <2>3. ~(s.window_start + WindowSize < s.total)
    BY <1>2, <2>1
  <2>4. t.window_start = s.window_start /\ \A b \in t.due : b \notin acked
    BY <1>1, <2>3
  <2> QED BY <1>1, <1>2, <1>6, <2>1, <2>2, <2>4 DEF Shaped, t
<1> QED BY <1>5, <1>6

\* The due blocks of a session that has its shape: none of them is the key
\* block of a delivered ASDU.
LEMMA SendsSpareKeyBlock ==
    ASSUME Inv, NEW o \in Originators, NEW p \in TxSessions, p.asdu \in Requests, Shaped(p),
           Total[p.asdu] > WindowSize /\ accepted[o][p.asdu] > 0 => p.window_start >= WindowSize
    PROVE  \A f \in DueFrames(o, p) :
              /\ f.src = o /\ f.asdu = p.asdu
              /\ accepted[o][f.asdu] > 0 => f.block # KeyBlock(f.asdu)
              /\ Total[p.asdu] > WindowSize /\ f.block >= WindowSize
                   => p.window_start >= WindowSize
<1> SUFFICES ASSUME NEW b \in p.due
             PROVE  /\ Frame(o, p, b).src = o /\ Frame(o, p, b).asdu = p.asdu
                    /\ Frame(o, p, b).block = b
                    /\ accepted[o][p.asdu] > 0 => b # KeyBlock(p.asdu)
                    /\ Total[p.asdu] > WindowSize /\ b >= WindowSize
                         => p.window_start >= WindowSize
  BY DEF DueFrames
<1>1. Frame(o, p, b).src = o /\ Frame(o, p, b).asdu = p.asdu /\ Frame(o, p, b).block = b
  BY DEF Frame
<1>2. b \in Nat /\ WindowSize \in Nat /\ WindowSize >= 1 /\ p.window_start \in Nat
        /\ Total[p.asdu] \in Nat
  BY WindowSizeTyped, SizeOfAsdu DEF TxSessions
<1>3. CASE Total[p.asdu] > WindowSize
  <2>1. /\ b \in 0..(p.window_start + WindowSize - 1)
        /\ p.window_start = 0 \/ (p.window_start >= WindowSize /\ 0 \notin p.due)
    BY <1>3 DEF Shaped
  <2>2. accepted[o][p.asdu] > 0 => b # 0
    BY <1>2, <1>3, <2>1
  <2>3. b >= WindowSize => p.window_start >= WindowSize
    BY <1>2, <2>1
  <2> QED BY <1>1, <1>3, <2>2, <2>3 DEF KeyBlock
<1>4. CASE ~(Total[p.asdu] > WindowSize)
  BY <1>1, <1>4 DEF Shaped, KeyBlock
<1> QED BY <1>3, <1>4

\* Originator o goes on with its session as p, or gives it up, and may send the
\* due blocks of p.
LEMMA OnceGoesOn ==
    ASSUME Inv, OnceInv, NEW o \in Originators, fragment_tx[o].active,
           NEW p \in TxSessions, p.active, OwnSession(o, p), p.asdu = fragment_tx[o].asdu,
           p.window_start >= fragment_tx[o].window_start,
           o \notin restarted => Shaped(p),
           NEW s \in {NoTx, Drained(p), p},
           fragment_tx' = [fragment_tx EXCEPT ![o] = s],
           net' \subseteq net \cup DueFrames(o, p),
           UNCHANGED <<sent, rxVars, restarted, crowded, late>>
    PROVE  OnceInv'
<1>1. DueFrames(o, p) \in SUBSET BlockFrames /\ \A f \in DueFrames(o, p) : f.src = o
  <2>1. \A f \in DueFrames(o, p) : f.src = o
    BY DEF DueFrames, Frame
  <2> QED BY <2>1, DueFramesOK
<1>2. s \in TxSessions /\ (s.active => s.asdu = p.asdu /\ s.window_start = p.window_start)
  <2>1. CASE s = NoTx
    BY <2>1, NoTxIsOwn DEF NoTx
  <2>2. CASE s = Drained(p)
    <3>1. Drained(p).window_start = p.window_start
      BY DEF Drained, TxSessions
    <3> QED BY <2>2, <3>1, DrainedSession
  <2>3. CASE s = p
    BY <2>3
  <2> QED BY <2>1, <2>2, <2>3
<1>3. sent' \in [Originators -> 0..MaxSends] /\ \A q \in Originators : sent[q] <= sent'[q]
  <2>1. \A q \in Originators : sent[q] \in 0..MaxSends
    BY DEF Inv, Typed
  <2>2. \A q \in Originators : sent[q] <= sent[q]
    BY <2>1
  <2> QED BY <2>2 DEF Inv, Typed
<1>4. ASSUME o \notin restarted
      PROVE  /\ s.active => Shaped(s) /\ s.asdu <= sent'[o]
             /\ \A f \in DueFrames(o, p) :
                   /\ f.asdu \in Requests /\ f.asdu <= sent'[o]
                   /\ accepted[o][f.asdu] > 0 => f.block # KeyBlock(f.asdu)
             /\ (s.active /\ Total[s.asdu] > WindowSize
                  /\ (Beyond(entries, o, s.asdu)
                        \/ \E f \in DueFrames(o, p) : f.asdu = s.asdu /\ f.block >= WindowSize))
                  => s.window_start >= WindowSize
  <2>1. p.asdu \in Requests /\ Shaped(p) /\ p.asdu <= sent'[o]
    BY <1>4 DEF OwnSession, OnceInv, Known
  <2>2. /\ p.window_start \in Nat /\ fragment_tx[o].window_start \in Nat /\ WindowSize \in Nat
        /\ WindowSize >= 1
    BY WindowSizeTyped DEF Inv, Typed, TxSessions
  <2>3. Total[p.asdu] > WindowSize /\ Beyond(entries, o, p.asdu) => p.window_start >= WindowSize
    <3>1. Total[p.asdu] > WindowSize /\ Beyond(entries, o, p.asdu)
            => fragment_tx[o].window_start >= WindowSize
      BY <1>4 DEF OnceInv, WindowLeft
    <3> QED BY <2>2, <3>1
  <2>4. Total[p.asdu] > WindowSize /\ accepted[o][p.asdu] > 0 => p.window_start >= WindowSize
    BY <2>3 DEF Beyond
  <2>5. \A f \in DueFrames(o, p) :
              /\ f.src = o /\ f.asdu = p.asdu
              /\ accepted[o][f.asdu] > 0 => f.block # KeyBlock(f.asdu)
              /\ Total[p.asdu] > WindowSize /\ f.block >= WindowSize
                   => p.window_start >= WindowSize
    BY <2>1, <2>4, SendsSpareKeyBlock
  <2>6. s.active => Shaped(s)
    <3>1. CASE s = NoTx
      BY <3>1 DEF NoTx
    <3>2. CASE s = Drained(p)
      <4>1. IF Total[p.asdu] > WindowSize THEN p.window_start = 0 \/ p.window_start >= WindowSize
            ELSE p.window_start = 0 /\ (p.acked # {} => Total[p.asdu] - 1 \in p.acked)
        BY <2>1 DEF Shaped
      <4> QED BY <3>2, <4>1, DrainedShaped
    <3>3. CASE s = p
      BY <2>1, <3>3
    <3> QED BY <3>1, <3>2, <3>3
  <2> QED BY <1>2, <2>1, <2>3, <2>5, <2>6
<1>5. UNCHANGED <<rxVars, restarted, crowded, late>>
  OBVIOUS
<1> QED
  BY <1>1, <1>2, <1>3, <1>4, <1>5, OnceSend

LEMMA ServiceOnce ==
    ASSUME Inv, OnceInv, NEW o \in Originators, ServiceFragmentTx(o)
    PROVE  OnceInv'
<1> DEFINE s == fragment_tx[o]
           p == Polled(s)
<1>1. s \in TxSessions /\ OwnSession(o, s) /\ s.active
  BY SessionIsOwn DEF ServiceFragmentTx
<1>2. p \in TxSessions /\ p.active /\ OwnSession(o, p) /\ p.asdu = s.asdu
  <2>1. s.due \subseteq 0..(s.total - 1)
    BY <1>1 DEF OwnSession
  <2> HIDE DEF s
  <2> QED BY <1>1, <2>1, PolledSession DEF OwnSession
<1>3. p.window_start >= s.window_start
  <2>1. p.window_start = s.window_start /\ s.window_start \in Nat
    <3> HIDE DEF s
    <3> QED BY <1>1 DEF Polled, TxSessions
  <2> QED BY <2>1
<1>4. o \notin restarted => Shaped(p)
  <2> SUFFICES ASSUME o \notin restarted PROVE Shaped(p)
    OBVIOUS
  <2>1. Shaped(s)
    BY <1>1 DEF OnceInv, TxShaped
  <2>2. s.asdu \in Requests /\ s.total = Total[s.asdu]
    BY <1>1 DEF OwnSession
  <2> HIDE DEF s
  <2> QED BY <1>1, <2>1, <2>2, PolledShaped
<1> HIDE DEF p
<1>5. UNCHANGED <<sent, rxVars, restarted, crowded, late>>
  BY DEF ServiceFragmentTx
<1>6. \E q \in {NoTx, Drained(p), p} : fragment_tx' = [fragment_tx EXCEPT ![o] = q]
  BY DEF ServiceFragmentTx, Finish, p
<1>7. net' \subseteq net \cup DueFrames(o, p)
  BY DEF ServiceFragmentTx, p
<1>8. PICK q \in {NoTx, Drained(p), p} : fragment_tx' = [fragment_tx EXCEPT ![o] = q]
  BY <1>6
<1> QED
  BY <1>1, <1>2, <1>3, <1>4, <1>5, <1>7, <1>8, OnceGoesOn

LEMMA AckHandlingOnce ==
    ASSUME Inv, OnceInv, NEW f \in net, HandleFragmentAck(f)
    PROVE  OnceInv'
<1> DEFINE o == f.dst
           s == fragment_tx[o]
           t == Applied(s, f)
           advances == /\ s.active /\ s.aps_counter = f.aps_counter
                       /\ f.window_start = s.window_start /\ Newly(s, f) # {}
<1>1. f \in AckFrames /\ f.kind = "ack" /\ o \in Originators
  BY DEF HandleFragmentAck, Inv, Typed, BlockFrames, AckFrames
<1>2. s \in TxSessions /\ OwnSession(o, s)
  BY <1>1, SessionIsOwn
<1>3. UNCHANGED <<sent, rxVars, restarted, crowded, late>>
  BY DEF HandleFragmentAck
<1>4. CASE UNCHANGED fragment_tx /\ net' = net \ {f}
  <2>1. fragment_tx' = [fragment_tx EXCEPT ![o] = s]
    BY <1>4 DEF Inv, Typed
  <2>2. net' \subseteq net \cup {} /\ {} \in SUBSET BlockFrames /\ \A x \in {} : x.src = o
    BY <1>4
  <2>3. sent' \in [Originators -> 0..MaxSends] /\ \A q \in Originators : sent[q] <= sent'[q]
    <3>1. \A q \in Originators : sent[q] \in 0..MaxSends
      BY DEF Inv, Typed
    <3>2. \A q \in Originators : sent[q] <= sent[q]
      BY <3>1
    <3> QED BY <1>3, <3>2 DEF Inv, Typed
  <2>4. o \notin restarted =>
          /\ s.active => Shaped(s) /\ s.asdu <= sent'[o]
          /\ \A x \in {} : /\ x.asdu \in Requests /\ x.asdu <= sent'[o]
                           /\ accepted[o][x.asdu] > 0 => x.block # KeyBlock(x.asdu)
          /\ (s.active /\ Total[s.asdu] > WindowSize
               /\ (Beyond(entries, o, s.asdu)
                     \/ \E x \in {} : x.asdu = s.asdu /\ x.block >= WindowSize))
               => s.window_start >= WindowSize
    BY <1>1, <1>3 DEF OnceInv, TxShaped, Known, WindowLeft
  <2>5. UNCHANGED <<rxVars, restarted, crowded, late>>
    BY <1>3
  <2> HIDE DEF o, s
  <2> QED BY <1>1, <1>2, <2>1, <2>2, <2>3, <2>4, <2>5, OnceSend
<1>5. ASSUME advances
      PROVE  /\ t \in TxSessions /\ t.active /\ OwnSession(o, t) /\ t.asdu = s.asdu
             /\ t.window_start >= s.window_start /\ (o \notin restarted => Shaped(t))
  <2> HIDE DEF o
  <2>1. /\ t \in TxSessions /\ t.active = s.active /\ t.asdu = s.asdu
        /\ t.aps_counter = s.aps_counter /\ t.total = s.total
        /\ t.acked = s.acked \cup Newly(s, f) /\ t.due \subseteq s.due \cup 0..(s.total - 1)
    <3> HIDE DEF s
    <3> QED BY <1>2, AppliedSession
  <2>2. s.asdu \in Requests /\ s.total = Total[s.asdu] /\ s.active
    BY <1>2, <1>5 DEF OwnSession
  <2>3. ASSUME o \notin restarted, NEW b \in Newly(s, f)
        PROVE  Holds(entries, o, s.asdu, b)
    <3>1. b \in f.bits /\ b < s.window_start + WindowSize /\ b < s.total
      <4>1. b \in TxWindow(s) /\ b \in f.bits
        BY DEF Newly
      <4>2. b \in 0..(s.total - 1) /\ b < s.window_start + WindowSize
        <5> HIDE DEF s
        <5> QED BY <1>2, <4>1, WindowBlocks
      <4>3. s.total \in Nat
        BY <1>2 DEF TxSessions
      <4> QED BY <4>1, <4>2, <4>3
    <3>2. s.asdu = f.aps_counter + 1 /\ s.total = Total[s.asdu] /\ f.window_start = s.window_start
      BY <1>2, <1>5, <2>3 DEF OwnSession
    <3>3. AckOK(entries, f)
      BY <1>1 DEF Inv, AcksOK
    <3> HIDE DEF s
    <3> QED BY <2>3, <3>1, <3>2, <3>3 DEF AckOK, o
  <2>4. OwnSession(o, t)
    <3> HIDE DEF s, t
    <3> QED BY <1>2, <2>1, <2>2, <2>3 DEF OwnSession
  <2>5. s.window_start \in Nat /\ WindowSize \in Nat /\ s.due \subseteq Nat
    BY <1>2, WindowSizeTyped DEF TxSessions
  <2>6. t.window_start >= s.window_start
    <3>1. t.window_start \in {s.window_start, s.window_start + WindowSize}
      <4> HIDE DEF s
      <4> QED BY <1>2, AppliedFields
    <3> HIDE DEF t, s
    <3> QED BY <2>5, <3>1
  <2>7. ASSUME o \notin restarted PROVE Shaped(t)
    <3>1. Shaped(s) /\ Newly(s, f) # {}
      BY <1>1, <1>5, <2>7 DEF OnceInv, TxShaped
    <3>2. s.window_start = 0 /\ Total[s.asdu] <= WindowSize => Total[s.asdu] - 1 \in f.bits
      <4>1. Covers(f)
        BY <1>1 DEF OnceInv, AcksCover
      <4>2. s.asdu = f.aps_counter + 1 /\ f.window_start = s.window_start
        BY <1>2, <1>5, <2>7 DEF OwnSession
      <4> QED BY <2>7, <4>1, <4>2 DEF Covers, o
    <3> HIDE DEF s
    <3> QED BY <1>2, <2>2, <2>5, <3>1, <3>2, AppliedShaped
  <2> QED BY <2>1, <2>2, <2>4, <2>6, <2>7
<1>6. CASE /\ advances
           /\ \E q \in {NoTx, Drained(t), t} : fragment_tx' = [fragment_tx EXCEPT ![o] = q]
           /\ net' \subseteq net \cup DueFrames(o, t)
  <2>1. PICK q \in {NoTx, Drained(t), t} : fragment_tx' = [fragment_tx EXCEPT ![o] = q]
    BY <1>6
  <2>2. /\ t \in TxSessions /\ t.active /\ OwnSession(o, t) /\ t.asdu = s.asdu
        /\ t.window_start >= s.window_start /\ (o \notin restarted => Shaped(t))
    BY <1>5, <1>6
  <2>3. s.active /\ net' \subseteq net \cup DueFrames(o, t)
    BY <1>6
  <2> HIDE DEF o, t
  <2> QED BY <1>1, <1>3, <2>1, <2>2, <2>3, OnceGoesOn DEF s
<1>7. \/ UNCHANGED fragment_tx /\ net' = net \ {f}
      \/ /\ advances
         /\ \E q \in {NoTx, Drained(t), t} : fragment_tx' = [fragment_tx EXCEPT ![o] = q]
         /\ net' \subseteq net \cup DueFrames(o, t)
  BY DEF HandleFragmentAck, Finish
<1> QED
  BY <1>4, <1>6, <1>7

\* Nothing is known yet of the request an originator makes next.
LEMMA NextRequestNew ==
    ASSUME Inv, OnceInv, NEW o \in Originators \ restarted,
           NEW a \in Requests, a = sent[o] + 1
    PROVE  ~Beyond(entries, o, a) /\ ~(accepted[o][a] > 0)
<1>1. sent[o] \in Nat
  BY DEF Inv, Typed
<1>2. Known(entries)
  BY DEF OnceInv
<1>3. a \in Nat /\ ~(a <= sent[o])
  BY <1>1
<1>4. ~(accepted[o][a] > 0)
  BY <1>2, <1>3 DEF Known
<1>5. ~\E f \in net : f.kind = "block" /\ f.src = o /\ f.asdu = a /\ f.block >= WindowSize
  BY <1>2, <1>3 DEF Known
<1>6. \A b : ~Has(entries, o, a, b)
  BY <1>2, <1>3 DEF Known, Has
<1> QED BY <1>4, <1>5, <1>6 DEF Beyond

LEMMA StartOnce ==
    ASSUME Inv, OnceInv, NEW o \in Originators, StartFragmentedTx(o)
    PROVE  OnceInv'
<1> DEFINE a == sent[o] + 1
           s == [NoTx EXCEPT !.active = TRUE, !.asdu = a, !.aps_counter = aps_counter[o],
                             !.total = Total[a], !.due = 0..(Min({WindowSize, Total[a]}) - 1)]
<1>1. a \in Requests /\ a \in Nat /\ Total[a] \in Nat /\ aps_counter[o] \in Nat
        /\ WindowSize \in Nat /\ sent[o] \in Nat
  <2>1. sent[o] \in 0..MaxSends /\ aps_counter[o] \in Nat
    BY DEF Inv, Typed
  <2>2. sent[o] < MaxSends
    BY DEF StartFragmentedTx
  <2>3. a \in 1..MaxSends /\ a \in Nat /\ sent[o] \in Nat
    BY <2>1, <2>2, FragmentationAssumption
  <2> HIDE DEF a
  <2>4. Total[a] \in Nat
    BY <2>3, SizeOfAsdu DEF Requests
  <2> QED BY <2>1, <2>3, <2>4, WindowSizeTyped DEF Requests
<1>2. sent' = [sent EXCEPT ![o] = a]
  BY DEF StartFragmentedTx
<1>3. sent' \in [Originators -> 0..MaxSends] /\ sent'[o] = a
        /\ \A q \in Originators : sent[q] <= sent'[q]
  <2>1. sent \in [Originators -> 0..MaxSends] /\ a \in 0..MaxSends
    BY <1>1 DEF Inv, Typed, Requests
  <2>2. \A q \in Originators : sent[q] \in 0..MaxSends
    BY <2>1
  <2>3. sent' \in [Originators -> 0..MaxSends] /\ sent'[o] = a
          /\ \A q \in Originators : q # o => sent'[q] = sent[q]
    <3> HIDE DEF a
    <3> QED BY <1>2, <2>1
  <2>4. sent[o] <= sent'[o]
    BY <1>1, <2>3
  <2>5. \A q \in Originators : q # o => sent[q] <= sent'[q]
    BY <2>2, <2>3
  <2> QED BY <2>3, <2>4, <2>5
<1>4. UNCHANGED <<rxVars, restarted, crowded, late>>
  BY DEF StartFragmentedTx
<1>5. o \notin restarted => ~Beyond(entries, o, a) /\ ~(accepted[o][a] > 0)
  BY <1>1, NextRequestNew
<1>6. CASE /\ fragment_tx' = [fragment_tx EXCEPT ![o] = Drained(s)]
           /\ net' = net \cup DueFrames(o, s)
  <2>1. Min({WindowSize, Total[a]}) \in Nat /\ Min({WindowSize, Total[a]}) <= WindowSize
          /\ Min({WindowSize, Total[a]}) <= Total[a]
    BY <1>1, MinOfTwo
  <2> HIDE DEF a
  <2>2. s \in TxSessions /\ s.asdu = a /\ s.window_start = 0 /\ s.acked = {} /\ s.active
          /\ s.due = 0..(Min({WindowSize, Total[a]}) - 1)
    <3>1. 0..(Min({WindowSize, Total[a]}) - 1) \in SUBSET Nat
      BY <2>1
    <3> QED BY <1>1, <3>1 DEF NoTx, TxSessions
  <2> HIDE DEF s
  <2>3. DueFrames(o, s) \in SUBSET BlockFrames
        /\ \A f \in DueFrames(o, s) : f.src = o /\ f.asdu = a /\ f.block \in Nat /\ ~(f.block >= WindowSize)
    <3> SUFFICES ASSUME NEW b \in s.due
                 PROVE  /\ Frame(o, s, b) \in BlockFrames /\ Frame(o, s, b).src = o
                        /\ Frame(o, s, b).asdu = a /\ Frame(o, s, b).block \in Nat
                        /\ ~(Frame(o, s, b).block >= WindowSize)
      BY DEF DueFrames
    <3>1. b \in Nat /\ ~(b >= WindowSize)
      BY <1>1, <2>1, <2>2
    <3> QED BY <2>2, <3>1 DEF Frame, BlockFrames, TxSessions
  <2>4. /\ Drained(s) \in TxSessions /\ Drained(s).asdu = a /\ Shaped(Drained(s))
        /\ Drained(s).active
    <3>1. IF Total[s.asdu] > WindowSize THEN s.window_start = 0 \/ s.window_start >= WindowSize
          ELSE s.window_start = 0 /\ (s.acked # {} => Total[s.asdu] - 1 \in s.acked)
      BY <2>2
    <3> QED BY <2>2, <3>1, DrainedSession, DrainedShaped
  <2>5. a <= sent'[o]
    BY <1>1, <1>3
  <2>6. fragment_tx' = [fragment_tx EXCEPT ![o] = Drained(s)] /\ net' \subseteq net \cup DueFrames(o, s)
    BY <1>6
  <2>7. o \notin restarted =>
          /\ Drained(s).active => Shaped(Drained(s)) /\ Drained(s).asdu <= sent'[o]
          /\ \A f \in DueFrames(o, s) :
                /\ f.asdu \in Requests /\ f.asdu <= sent'[o]
                /\ accepted[o][f.asdu] > 0 => f.block # KeyBlock(f.asdu)
          /\ (Drained(s).active /\ Total[Drained(s).asdu] > WindowSize
               /\ (Beyond(entries, o, Drained(s).asdu)
                     \/ \E f \in DueFrames(o, s) : f.asdu = Drained(s).asdu /\ f.block >= WindowSize))
               => Drained(s).window_start >= WindowSize
    BY <1>1, <1>5, <2>3, <2>4, <2>5
  <2> QED BY <1>3, <1>4, <2>3, <2>4, <2>6, <2>7, OnceSend
<1>7. CASE UNCHANGED <<fragment_tx, net>>
  <2> DEFINE q == fragment_tx[o]
  <2>1. q \in TxSessions /\ fragment_tx' = [fragment_tx EXCEPT ![o] = q]
    BY <1>7 DEF Inv, Typed
  <2>2. net' \subseteq net \cup {} /\ {} \in SUBSET BlockFrames /\ \A x \in {} : x.src = o
    BY <1>7
  <2>3. ~q.active
    BY DEF StartFragmentedTx
  <2> HIDE DEF a, q
  <2>4. o \notin restarted =>
          /\ q.active => Shaped(q) /\ q.asdu <= sent'[o]
          /\ \A x \in {} : /\ x.asdu \in Requests /\ x.asdu <= sent'[o]
                           /\ accepted[o][x.asdu] > 0 => x.block # KeyBlock(x.asdu)
          /\ (q.active /\ Total[q.asdu] > WindowSize
               /\ (Beyond(entries, o, q.asdu)
                     \/ \E x \in {} : x.asdu = q.asdu /\ x.block >= WindowSize))
               => q.window_start >= WindowSize
    BY <2>3
  <2> QED BY <1>3, <1>4, <2>1, <2>2, <2>4, OnceSend
<1> QED
  BY <1>6, <1>7 DEF StartFragmentedTx

LEMMA RestartOnce ==
    ASSUME Inv, OnceInv, NEW o \in Originators, Restart(o)
    PROVE  OnceInv'
<1>1. /\ restarted' = restarted \cup {o}
      /\ fragment_tx' = [fragment_tx EXCEPT ![o] = NoTx]
      /\ UNCHANGED <<sent, rxVars, net, crowded, late>>
  BY DEF Restart
<1> USE DEF rxVars
<1>2. \A p \in Originators : p # o => fragment_tx'[p] = fragment_tx[p]
  BY <1>1 DEF Inv, Typed
<1>3. Known(entries)' /\ TxShaped' /\ AcksCover'
  BY <1>1, <1>2 DEF OnceInv, Known, TxShaped, AcksCover, Covers
<1>4. WindowLeft(entries)'
  <2>1. \A p, a : Beyond(entries, p, a)' <=> Beyond(entries, p, a)
    BY <1>1 DEF Beyond, Has
  <2> SUFFICES ASSUME NEW p \in Originators \ restarted', fragment_tx'[p].active,
                      NEW a, a = fragment_tx'[p].asdu,
                      Total[a] > WindowSize, Beyond(entries, p, a)'
               PROVE  fragment_tx'[p].window_start >= WindowSize
    BY Zenon DEF WindowLeft
  <2>2. p # o /\ p \in Originators \ restarted
    BY <1>1
  <2> QED BY <1>2, <2>1, <2>2 DEF OnceInv, WindowLeft
<1>5. \A p \in Clean' : p \in Clean
  BY <1>1 DEF Clean
<1>6. KeyBlockSpent' /\ AcceptedOnce'
  BY <1>1, <1>5 DEF OnceInv, KeyBlockSpent, Fresh, AcceptedOnce
<1>7. \A i \in Slots : KeyBlockGone(entries[i])'
  BY <1>1, <1>5 DEF OnceInv, KeyBlockGone
<1> QED BY <1>3, <1>4, <1>6, <1>7 DEF OnceInv

-----------------------------------------------------------------------------
(* At most once: the receiver. *)

\* A step of the receiver.
LEMMA OnceReceive ==
    ASSUME Inv, OnceInv, Inv',
           NEW A \in SUBSET AckFrames, \A g \in A : Covers(g),
           net' \subseteq net \cup pending_ack \cup A, pending_ack' \subseteq pending_ack \cup A,
           \A i \in Slots : entries'[i].active /\ entries'[i].src \in Originators \ restarted
                              => entries'[i].aps_counter + 1 <= sent[entries'[i].src],
           \A i \in Slots : KeyBlockGone(entries[i])',
           \A o \in Originators \ restarted, a \in Requests :
              accepted'[o][a] > 0 => a <= sent[o],
           \A o \in Originators \ restarted, a \in Requests :
              Total[a] > WindowSize /\ Beyond(entries, o, a)' => Beyond(entries, o, a),
           \A o \in Originators, c \in Nat :
              o \in Clean' /\ c + 1 \in Requests /\ accepted'[o][c + 1] > 0 =>
                 \/ Fresh(o, c)'
                 \/ accepted[o][c + 1] > 0 /\ ~Fresh(o, c),
           AcceptedOnce',
           UNCHANGED <<txVars, restarted, late>>, crowded \subseteq crowded'
    PROVE  OnceInv'
<1> USE DEF txVars
<1>1. pending_ack \subseteq AckFrames /\ net \subseteq BlockFrames \cup AckFrames
  BY DEF Inv, Typed
<1>2. ASSUME NEW f \in net', f.kind = "block"
      PROVE  f \in net /\ f \in BlockFrames /\ FrameOK(f)
  <2>1. f \in net
    BY <1>1, <1>2 DEF AckFrames
  <2>2. f \in BlockFrames
    BY <1>1, <1>2, <2>1 DEF AckFrames
  <2> QED BY <1>2, <2>1, <2>2 DEF Inv, FramesOK
<1>3. Known(entries)'
  <2>1. Known(entries)
    BY DEF OnceInv
  <2> SUFFICES ASSUME NEW p \in Originators \ restarted
               PROVE  /\ fragment_tx[p].active => fragment_tx[p].asdu <= sent[p]
                      /\ \A f \in net' : f.kind = "block" /\ f.src = p => f.asdu <= sent[p]
                      /\ \A i \in Slots : entries'[i].active /\ entries'[i].src = p
                                            => entries'[i].aps_counter + 1 <= sent[p]
                      /\ \A a \in Requests : accepted'[p][a] > 0 => a <= sent[p]
    BY Zenon DEF Known
  <2> QED BY <1>2, <2>1 DEF Known
<1>4. TxShaped'
  BY DEF OnceInv, TxShaped
<1>5. AcksCover'
  <2> SUFFICES ASSUME NEW g \in net' \cup pending_ack', g.kind = "ack"
               PROVE  Covers(g)'
    BY DEF AcksCover
  <2>1. Covers(g)
    BY DEF OnceInv, AcksCover
  <2> QED BY <2>1 DEF Covers
<1>6. WindowLeft(entries)'
  <2> SUFFICES ASSUME NEW p \in Originators \ restarted, fragment_tx[p].active,
                      NEW a, a = fragment_tx[p].asdu,
                      Total[a] > WindowSize, Beyond(entries, p, a)'
               PROVE  fragment_tx[p].window_start >= WindowSize
    BY Zenon DEF WindowLeft
  <2>1. a \in Requests
    BY DEF Inv, TxBounded
  <2>2. Beyond(entries, p, a)
    BY <2>1
  <2> QED BY <2>2 DEF OnceInv, WindowLeft
<1>7. Clean' \subseteq Clean
  BY DEF Clean
<1>8. KeyBlockSpent'
  <2> SUFFICES ASSUME NEW f \in net', f.kind = "block", f.src \in Clean',
                      accepted'[f.src][f.asdu] > 0, f.block = KeyBlock(f.asdu)
               PROVE  Fresh(f.src, f.aps_counter)'
    BY DEF KeyBlockSpent
  <2>1. f \in net /\ f \in BlockFrames /\ FrameOK(f)
    BY <1>2
  <2>2. f.src \in Originators \ restarted /\ f.aps_counter \in Nat
    BY <2>1 DEF BlockFrames, Clean
  <2>3. f.asdu = f.aps_counter + 1 /\ f.asdu \in Requests
    BY <2>1, <2>2 DEF FrameOK
  <2>4. CASE accepted[f.src][f.asdu] > 0 /\ ~Fresh(f.src, f.aps_counter)
    BY <1>7, <2>1, <2>4 DEF OnceInv, KeyBlockSpent
  <2> QED BY <2>2, <2>3, <2>4
<1> QED
  BY <1>3, <1>4, <1>5, <1>6, <1>8 DEF OnceInv

\* Every session of fs was there before.
Inherited(fs) == \A i \in Slots : fs[i].active => fs[i] = entries[i]

LEMMA ResetInherited ==
    ASSUME NEW S
    PROVE  Inherited(Reset(entries, S))
<1>1. \A i \in Slots : Reset(entries, S)[i] = IF i \in S THEN EmptyEntry ELSE entries[i]
  BY DEF Reset
<1> QED BY <1>1, EmptyEntryIsFree DEF Inherited

\* Steps that open no session and hand nothing up.
LEMMA OnceQuiet ==
    ASSUME Inv, OnceInv, Inv', NEW A \in SUBSET AckFrames, \A g \in A : Covers(g),
           net' \subseteq net \cup pending_ack \cup A, pending_ack' \subseteq pending_ack \cup A,
           Inherited(entries'),
           \A o \in Originators, c \in Nat : o \in Clean' /\ Fresh(o, c) => Fresh(o, c)',
           UNCHANGED <<txVars, accepted, restarted, late>>, crowded \subseteq crowded'
    PROVE  OnceInv'
<1>1. Clean' \subseteq Clean
  BY DEF Clean
<1>2. \A i \in Slots : entries'[i].active => entries'[i] = entries[i]
  BY DEF Inherited
<1>3. \A i \in Slots : entries'[i].active /\ entries'[i].src \in Originators \ restarted
                         => entries'[i].aps_counter + 1 <= sent[entries'[i].src]
  BY <1>2 DEF OnceInv, Known
<1>4. \A i \in Slots : KeyBlockGone(entries[i])'
  <2> SUFFICES ASSUME NEW i \in Slots, entries'[i].active
               PROVE  KeyBlockGone(entries[i])'
    BY DEF KeyBlockGone
  <2>1. entries'[i] = entries[i] /\ KeyBlockGone(entries[i])
    BY <1>2 DEF OnceInv
  <2> QED BY <1>1, <2>1 DEF KeyBlockGone
<1>5. \A o \in Originators \ restarted, a \in Requests : accepted'[o][a] > 0 => a <= sent[o]
  BY DEF OnceInv, Known
<1>6. \A o, a : Beyond(entries, o, a)' => Beyond(entries, o, a)
  <2> SUFFICES ASSUME NEW o, NEW a, Beyond(entries, o, a)'
               PROVE  Beyond(entries, o, a)
    OBVIOUS
  <2>1. \A b : Has(entries, o, a, b)' => Has(entries, o, a, b)
    BY <1>2 DEF Has
  <2>2. \A f \in net' : f.kind = "block" => f \in net
    BY DEF Inv, Typed, AckFrames
  <2> QED BY <2>1, <2>2 DEF Beyond
<1>7. \A o \in Originators \ restarted, a \in Requests :
         Total[a] > WindowSize /\ Beyond(entries, o, a)' => Beyond(entries, o, a)
  BY <1>6
<1>8. \A o \in Originators, c \in Nat :
         o \in Clean' /\ c + 1 \in Requests /\ accepted'[o][c + 1] > 0 =>
            \/ Fresh(o, c)'
            \/ accepted[o][c + 1] > 0 /\ ~Fresh(o, c)
  OBVIOUS
<1>9. AcceptedOnce'
  BY DEF OnceInv, AcceptedOnce
<1>10. UNCHANGED <<txVars, restarted, late>>
  OBVIOUS
<1> QED
  BY <1>3, <1>4, <1>5, <1>7, <1>8, <1>9, <1>10, OnceReceive

LEMMA ReceiveOtherOnce ==
    ASSUME Inv, OnceInv, Inv', ReceiveOther
    PROVE  OnceInv'
<1>1. /\ entries' = Finalized(entries) /\ net' = net \cup pending_ack /\ pending_ack' = {}
      /\ UNCHANGED <<txVars, accepted, restarted, late>>
  BY DEF ReceiveOther
<1>2. Inherited(entries')
  BY <1>1, ResetInherited DEF Finalized
<1>3. crowded \subseteq crowded'
        /\ \A o \in Originators, c \in Nat : o \in Clean' /\ Fresh(o, c) => Fresh(o, c)'
  <2>1. CASE UNCHANGED <<dup_table, crowded>>
    BY <2>1 DEF Fresh
  <2>2. CASE \E d \in dup_table : dup_table' = dup_table \ {d} /\ crowded' = crowded \cup {d.src}
    <3>1. PICK d \in dup_table : dup_table' = dup_table \ {d} /\ crowded' = crowded \cup {d.src}
      BY <2>2
    <3>2. \A x \in dup_table : x.src \in Clean' => x \in dup_table'
      BY <3>1 DEF Clean
    <3> QED BY <3>1, <3>2 DEF Fresh
  <2> QED BY <2>1, <2>2 DEF ReceiveOther
<1>4. /\ {} \in SUBSET AckFrames /\ \A g \in {} : Covers(g)
      /\ net' \subseteq net \cup pending_ack \cup {} /\ pending_ack' \subseteq pending_ack \cup {}
  BY <1>1
<1> QED BY <1>1, <1>2, <1>3, <1>4, OnceQuiet

LEMMA ExpireOnce ==
    ASSUME Inv, OnceInv, Inv', ExpireSessions
    PROVE  OnceInv'
<1>1. /\ entries' = Reset(entries, Stale)
      /\ UNCHANGED <<txVars, dup_table, pending_ack, net, accepted, restarted, crowded, late>>
  BY DEF ExpireSessions
<1>2. Inherited(entries')
  BY <1>1, ResetInherited
<1>3. crowded \subseteq crowded'
        /\ \A o \in Originators, c \in Nat : o \in Clean' /\ Fresh(o, c) => Fresh(o, c)'
  BY <1>1 DEF Fresh
<1>4. /\ {} \in SUBSET AckFrames /\ \A g \in {} : Covers(g)
      /\ net' \subseteq net \cup pending_ack \cup {} /\ pending_ack' \subseteq pending_ack \cup {}
      /\ UNCHANGED <<txVars, accepted, restarted, late>>
  BY <1>1
<1> QED BY <1>2, <1>3, <1>4, OnceQuiet

\* Frames disappear and nothing else happens.
LEMMA LossOnce ==
    ASSUME Inv, OnceInv, Inv', net' \subseteq net,
           UNCHANGED <<txVars, rxVars, restarted, crowded, late>>
    PROVE  OnceInv'
<1> USE DEF rxVars
<1>1. Inherited(entries')
  BY DEF Inherited
<1>2. crowded \subseteq crowded'
        /\ \A o \in Originators, c \in Nat : o \in Clean' /\ Fresh(o, c) => Fresh(o, c)'
  BY DEF Fresh
<1>3. /\ {} \in SUBSET AckFrames /\ \A g \in {} : Covers(g)
      /\ net' \subseteq net \cup pending_ack \cup {} /\ pending_ack' \subseteq pending_ack \cup {}
      /\ UNCHANGED <<txVars, accepted, restarted, late>>
  OBVIOUS
<1> QED BY <1>1, <1>2, <1>3, OnceQuiet

LEMMA RepeatOnce ==
    ASSUME Inv, OnceInv, Inv', NEW f \in net, Repeat(f)
    PROVE  OnceInv'
<1> DEFINE c == [f EXCEPT !.copy = 1]
<1>1. net' = net \cup {c} /\ UNCHANGED <<txVars, rxVars, restarted, crowded, late>>
  BY DEF Repeat
<1> USE DEF rxVars
<1>2. CASE f \in AckFrames
  <2>1. c \in AckFrames /\ c.dst = f.dst /\ c.aps_counter = f.aps_counter
          /\ c.window_start = f.window_start /\ c.bits = f.bits
    BY <1>2 DEF AckFrames
  <2>2. Covers(f)
    BY <1>2 DEF OnceInv, AcksCover, AckFrames
  <2> HIDE DEF c
  <2>3. Covers(c)
    BY <2>1, <2>2 DEF Covers
  <2>4. {c} \in SUBSET AckFrames /\ (\A g \in {c} : Covers(g))
          /\ net' \subseteq net \cup pending_ack \cup {c} /\ pending_ack' \subseteq pending_ack \cup {c}
          /\ UNCHANGED <<txVars, accepted, restarted, late>>
    BY <1>1, <2>1, <2>3
  <2>5. Inherited(entries')
    BY <1>1 DEF Inherited
  <2>6. crowded \subseteq crowded'
          /\ \A o \in Originators, x \in Nat : o \in Clean' /\ Fresh(o, x) => Fresh(o, x)'
    BY <1>1 DEF Fresh
  <2> QED BY <2>4, <2>5, <2>6, OnceQuiet
<1>3. CASE f \in BlockFrames
  <2>1. /\ c.kind = "block" /\ f.kind = "block" /\ c.asdu = f.asdu /\ c.block = f.block
        /\ c.src = f.src /\ c.aps_counter = f.aps_counter
    BY <1>3 DEF BlockFrames
  <2> HIDE DEF c
  <2>2. Known(entries)' /\ TxShaped' /\ AcceptedOnce'
    BY <1>1, <2>1 DEF OnceInv, Known, TxShaped, AcceptedOnce, txVars
  <2>3. AcksCover'
    BY <1>1, <2>1 DEF OnceInv, AcksCover, Covers
  <2>4. WindowLeft(entries)'
    <3>1. \A p, a : Beyond(entries, p, a)' => Beyond(entries, p, a)
      <4>1. \A p, a, b : Has(entries, p, a, b)' <=> Has(entries, p, a, b)
        BY <1>1 DEF Has
      <4> QED BY <1>1, <2>1, <4>1 DEF Beyond
    <3> QED BY <1>1, <3>1 DEF OnceInv, WindowLeft, txVars
  <2>5. KeyBlockSpent'
    BY <1>1, <2>1 DEF OnceInv, KeyBlockSpent, Fresh, Clean
  <2>6. \A i \in Slots : KeyBlockGone(entries[i])'
    BY <1>1 DEF OnceInv, KeyBlockGone, Clean
  <2> QED BY <2>2, <2>3, <2>4, <2>5, <2>6 DEF OnceInv
<1> QED BY <1>2, <1>3 DEF Inv, Typed

\* A wait passes: no block of an originator in Clean is in the air.
LEMMA TickOnce ==
    ASSUME Inv, OnceInv, Inv', Tick
    PROVE  OnceInv'
<1>1. /\ UNCHANGED <<net, sent, pending_ack, accepted, restarted, crowded>>
      /\ late' = late \cup {f.src : f \in {x \in net : x.kind = "block"}}
  BY DEF Tick
<1>2. \A o \in Originators :
         /\ fragment_tx'[o].active = fragment_tx[o].active
         /\ fragment_tx'[o].asdu = fragment_tx[o].asdu
         /\ fragment_tx'[o].window_start = fragment_tx[o].window_start
         /\ fragment_tx'[o].due = fragment_tx[o].due
         /\ fragment_tx'[o].acked = fragment_tx[o].acked
  <2> SUFFICES ASSUME NEW o \in Originators
               PROVE  /\ fragment_tx'[o].active = fragment_tx[o].active
                      /\ fragment_tx'[o].asdu = fragment_tx[o].asdu
                      /\ fragment_tx'[o].window_start = fragment_tx[o].window_start
                      /\ fragment_tx'[o].due = fragment_tx[o].due
                      /\ fragment_tx'[o].acked = fragment_tx[o].acked
    OBVIOUS
  <2> DEFINE s == fragment_tx[o]
             t == Older(s.waited, 1)
  <2>1. s \in TxSessions
    BY DEF Inv, Typed
  <2>2. fragment_tx'[o] = s \/ fragment_tx'[o] = [s EXCEPT !.waited = t]
    BY DEF Tick
  <2> HIDE DEF s, t
  <2>3. /\ fragment_tx'[o].active = s.active /\ fragment_tx'[o].asdu = s.asdu
        /\ fragment_tx'[o].window_start = s.window_start
        /\ fragment_tx'[o].due = s.due /\ fragment_tx'[o].acked = s.acked
    BY <2>1, <2>2 DEF TxSessions
  <2> QED BY <2>3 DEF s
<1>3. \A i \in Slots :
         /\ entries'[i].active = entries[i].active /\ entries'[i].src = entries[i].src
         /\ entries'[i].aps_counter = entries[i].aps_counter
         /\ entries'[i].data = entries[i].data /\ entries'[i].delivered = entries[i].delivered
  <2> SUFFICES ASSUME NEW i \in Slots
               PROVE  /\ entries'[i].active = entries[i].active /\ entries'[i].src = entries[i].src
                      /\ entries'[i].aps_counter = entries[i].aps_counter
                      /\ entries'[i].data = entries[i].data
                      /\ entries'[i].delivered = entries[i].delivered
    OBVIOUS
  <2> DEFINE e == entries[i]
             t == Older(e.idle, RxTimeout)
  <2>1. e \in Sessions
    BY DEF Inv, Typed
  <2>2. entries'[i] = e \/ entries'[i] = [e EXCEPT !.idle = t]
    BY DEF Tick
  <2> HIDE DEF e, t
  <2>3. /\ entries'[i].active = e.active /\ entries'[i].src = e.src
        /\ entries'[i].aps_counter = e.aps_counter
        /\ entries'[i].data = e.data /\ entries'[i].delivered = e.delivered
    BY <2>1, <2>2 DEF Sessions
  <2> QED BY <2>3 DEF e
<1>4. \A i \in Slots : Received(entries'[i]) = Received(entries[i])
  BY <1>3 DEF Received
<1>5. Clean' \subseteq Clean /\ \A f \in net : f.kind = "block" => f.src \notin Clean'
  BY <1>1 DEF Clean
<1>6. Known(entries)' /\ TxShaped'
  BY <1>1, <1>2, <1>3 DEF OnceInv, Known, TxShaped, Shaped
<1>7. AcksCover' /\ KeyBlockSpent'
  BY <1>1, <1>5 DEF OnceInv, AcksCover, Covers, KeyBlockSpent
<1>8. WindowLeft(entries)'
  <2>1. \A p, a : Beyond(entries, p, a)' => Beyond(entries, p, a)
    <3>1. \A p, a, b : Has(entries, p, a, b)' <=> Has(entries, p, a, b)
      BY <1>3, <1>4 DEF Has
    <3> QED BY <1>1, <3>1 DEF Beyond
  <2> SUFFICES ASSUME NEW p \in Originators \ restarted, fragment_tx'[p].active,
                      NEW a, a = fragment_tx'[p].asdu,
                      Total[a] > WindowSize, Beyond(entries, p, a)'
               PROVE  fragment_tx'[p].window_start >= WindowSize
    BY <1>1, Zenon DEF WindowLeft
  <2>2. Beyond(entries, p, a)
    BY <2>1
  <2> QED BY <1>2, <2>2 DEF OnceInv, WindowLeft
<1>9. \A i \in Slots : KeyBlockGone(entries[i])'
  BY <1>1, <1>3, <1>4, <1>5 DEF OnceInv, KeyBlockGone
<1>10. AcceptedOnce'
  BY <1>1, <1>5 DEF OnceInv, AcceptedOnce
<1> QED BY <1>6, <1>7, <1>8, <1>9, <1>10 DEF OnceInv

LEMMA BlockInRange ==
    ASSUME NEW f, BlockOK(f)
    PROVE  f.block \in Blocks
<1>1. f.asdu \in 1..MaxSends /\ f.block \in Nat /\ f.block < Total[f.asdu]
  BY DEF BlockOK, BlockFrames, FrameOK, Requests
<1>2. Sizes \subseteq 2..16 /\ Total[f.asdu] \in Sizes
  BY <1>1, FragmentationAssumption DEF Sizes, Requests
<1> DEFINE D == {16 - x : x \in Sizes}
<1>3. D \in SUBSET Nat /\ D # {}
  <2>1. ASSUME NEW x \in Sizes PROVE 16 - x \in Nat
    <3>1. x \in 2..16
      BY <1>2, Zenon
    <3> QED BY <3>1
  <2> QED BY <1>2, <2>1
<1>4. Min(D) \in D /\ \A y \in D : Min(D) <= y
  <2> HIDE DEF D
  <2> QED BY <1>3, MinIsLeast
<1>5. PICK m \in Sizes : Min(D) = 16 - m
  BY <1>4
<1>6. ASSUME NEW y \in Sizes PROVE m >= y
  <2>1. Min(D) <= 16 - y
    BY <1>4
  <2> HIDE DEF D
  <2> QED BY <1>2, <1>5, <2>1
<1>7. Max(Sizes) \in Sizes /\ \A y \in Sizes : Max(Sizes) >= y
  <2>1. \E x \in Sizes : \A y \in Sizes : x >= y
    BY <1>6
  <2> QED BY <2>1, Zenon DEF Max
<1>8. Max(Sizes) \in Nat /\ Max(Sizes) >= Total[f.asdu] /\ Total[f.asdu] \in Nat
  <2>1. Max(Sizes) \in 2..16 /\ Total[f.asdu] \in 2..16 /\ Max(Sizes) >= Total[f.asdu]
    BY <1>2, <1>7, Zenon
  <2> QED BY <2>1
<1> QED BY <1>1, <1>8 DEF Blocks

\* Storing a block adds that block.
LEMMA StoredBlocks ==
    ASSUME NEW f, BlockOK(f), NEW w, Fits(w, f)
    PROVE  LET n == Stored(w, f) IN
           /\ Received(n) = Received(w) \cup {f.block}
           /\ n.active = w.active /\ n.src = w.src /\ n.aps_counter = w.aps_counter
           /\ n.delivered = w.delivered
<1> DEFINE n == Stored(w, f)
           new == f.block \notin Received(w)
           data == [w.data EXCEPT ![f.block] = IF new THEN f.asdu ELSE @]
<1>1. w \in Sessions /\ w.data \in [Blocks -> Nat] /\ f.block \in Blocks
  BY BlockInRange DEF Fits, Sessions
<1>2. f.asdu \in Nat /\ f.asdu # 0
  <2>1. f.asdu \in 1..MaxSends
    BY DEF BlockOK, FrameOK, Requests
  <2> QED BY <2>1
<1>3. n.data = data /\ n.active = w.active /\ n.src = w.src /\ n.aps_counter = w.aps_counter
        /\ n.delivered = w.delivered
  BY <1>1 DEF Stored, Sessions
<1> HIDE DEF n, new
<1>4. \A b \in Blocks : data[b] = IF b = f.block /\ new THEN f.asdu ELSE w.data[b]
  BY <1>1
<1> HIDE DEF data
<1>5. Received(n) = Received(w) \cup {f.block}
  <2>1. Received(n) = {b \in Blocks : data[b] # 0} /\ Received(w) = {b \in Blocks : w.data[b] # 0}
    BY <1>3 DEF Received
  <2>2. f.block \in Received(n)
    BY <1>1, <1>2, <1>4, <2>1 DEF new
  <2> QED BY <1>1, <1>2, <1>4, <2>1, <2>2
<1> QED BY <1>3, <1>5 DEF n

\* What the roll-back of a block leaves.
LEMMA RolledBackBlocks ==
    ASSUME NEW f, NEW n, Fits(n, f)
    PROVE  LET r == RolledBack(n, f.block) IN
           r.active => /\ Received(r) \subseteq Received(n) \ {f.block}
                       /\ r.src = f.src /\ r.aps_counter = f.aps_counter /\ ~r.delivered
<1> DEFINE r == RolledBack(n, f.block)
<1>1. CASE Received(n) = {f.block}
  BY <1>1, EmptyEntryIsFree DEF RolledBack
<1>2. CASE Received(n) # {f.block}
  <2> DEFINE data == [n.data EXCEPT ![f.block] = 0]
  <2>1. n \in Sessions /\ n.data \in [Blocks -> Nat]
    BY DEF Fits, Sessions
  <2>2. r.data = data /\ r.src = n.src /\ r.aps_counter = n.aps_counter /\ ~r.delivered
    BY <1>2, <2>1 DEF RolledBack, Sessions
  <2> HIDE DEF r
  <2>3. Received(r) \subseteq Received(n) \ {f.block}
    BY <2>1, <2>2 DEF Received
  <2> QED BY <2>2, <2>3 DEF Fits, r
<1> QED BY <1>1, <1>2

\* The acknowledgement of a stored block covers the last block of its window.
LEMMA AckForCovers ==
    ASSUME NEW f, BlockOK(f), NEW n, Fits(n, f), SessionCore(n), f.block \in Received(n),
           NEW g \in AckFor(n, f)
    PROVE  Covers(g)
<1> DEFINE T == Total[f.aps_counter + 1]
<1>1. /\ n.window_start \in Nat /\ n.total_blocks \in Nat
      /\ WindowSize \in Nat /\ WindowSize >= 1 /\ WindowSize <= 8
  BY WindowSizeTyped DEF Fits, Sessions
<1>2. AckBits(n) \in SUBSET Nat
  BY <1>1 DEF AckBits
<1>3. g = AckFrame(f, n.window_start, AckBits(n))
        /\ (IsComplete(n) \/ (f.block + 1) .. (WindowEnd(n) - 1) \subseteq Received(n))
  BY DEF AckFor
<1>4. g.dst = f.src /\ g.aps_counter = f.aps_counter /\ g.window_start = n.window_start
        /\ g.bits = AckBits(n)
  BY <1>1, <1>2, <1>3, AckFrameTyped DEF BlockOK
<1> SUFFICES ASSUME f.src \notin restarted, n.window_start = 0, T <= WindowSize
             PROVE  T - 1 \in AckBits(n)
  BY <1>4 DEF Covers
<1>5. n.active /\ n.src = f.src /\ n.aps_counter = f.aps_counter
  BY DEF Fits
<1>6. /\ f.aps_counter + 1 \in Requests /\ n.total_blocks \in {0, T}
      /\ f.asdu = f.aps_counter + 1 /\ f.block < T /\ f.block \in Nat
  BY <1>5 DEF SessionCore, BlockOK, BlockFrames, FrameOK
<1>7. T \in Nat /\ T >= 2
  BY <1>6, SizeOfAsdu
<1> HIDE DEF T
<1>8. T - 1 \in n.window_start .. (n.window_start + 7)
  BY <1>1, <1>7
<1>9. T - 1 \in Received(n)
  <2>1. CASE IsComplete(n)
    <3>1. n.total_blocks = T
      BY <1>6, <2>1 DEF IsComplete
    <3>2. T - 1 \in 0..(n.total_blocks - 1)
      BY <1>7, <3>1
    <3> QED BY <2>1, <3>2 DEF IsComplete
  <2>2. CASE f.block = T - 1
    BY <2>2
  <2>3. CASE ~IsComplete(n) /\ f.block # T - 1
    <3>1. WindowEnd(n) \in Nat /\ WindowEnd(n) >= T
      <4>1. CASE n.total_blocks = 0
        BY <1>1, <1>7, <4>1 DEF WindowEnd
      <4>2. CASE n.total_blocks # 0
        <5>1. WindowEnd(n) = Min({n.window_start + WindowSize, n.total_blocks})
          BY <4>2 DEF WindowEnd
        <5>2. Min({n.window_start + WindowSize, n.total_blocks})
                 \in {n.window_start + WindowSize, n.total_blocks}
          BY <1>1, MinOfTwo
        <5> QED BY <1>1, <1>6, <1>7, <4>2, <5>1, <5>2
      <4> QED BY <4>1, <4>2
    <3>2. T - 1 \in (f.block + 1) .. (WindowEnd(n) - 1)
      BY <1>6, <1>7, <2>3, <3>1
    <3> QED BY <1>3, <2>3, <3>2
  <2> QED BY <2>1, <2>2, <2>3
<1> QED BY <1>8, <1>9 DEF AckBits

\* What a delivery adds to the counts of a steady originator.
LEMMA AcceptExact ==
    ASSUME Inv, NEW n \in Sessions, n.active, n.src \in Originators,
           SessionCore(n), IsComplete(n), Accept(n),
           NEW o \in Originators \ restarted, NEW a \in Requests
    PROVE  /\ accepted'[o][a] > 0 =>
                accepted[o][a] > 0 \/ (o = n.src /\ a = n.aps_counter + 1)
           /\ accepted[o][a] <= 1 /\ ~(o = n.src /\ a = n.aps_counter + 1 /\ accepted[o][a] > 0)
                => accepted'[o][a] <= 1
<1> DEFINE asdus == {n.data[b] : b \in Received(n)}
           old == accepted[n.src]
           row == [x \in Requests |-> Min({2, old[x] + (IF x \in asdus THEN 1 ELSE 0)})]
<1>1. accepted \in [Originators -> [Requests -> Nat]]
  BY DEF Inv, Typed
<1>2. old \in [Requests -> Nat] /\ accepted[o][a] \in Nat
  BY <1>1
<1> HIDE DEF old
<1>3. CASE ~(o = n.src /\ Cardinality(asdus) = 1)
  <2>1. accepted'[o] = accepted[o]
    BY <1>1, <1>3 DEF Accept
  <2> QED BY <2>1
<1>4. CASE o = n.src /\ Cardinality(asdus) = 1
  <2>1. accepted'[o] = row /\ accepted[o] = old
    BY <1>1, <1>4 DEF Accept, old
  <2>2. a \in asdus => a = n.aps_counter + 1
    BY <1>4 DEF SessionCore
  <2> DEFINE m == old[a] + (IF a \in asdus THEN 1 ELSE 0)
  <2> HIDE DEF asdus
  <2>3. old[a] \in Nat /\ m \in Nat
    BY <1>2
  <2>4. accepted'[o][a] = Min({2, m})
    BY <2>1
  <2>5. (a \notin asdus => m = old[a]) /\ (a \in asdus => m = old[a] + 1)
    BY <2>3
  <2> HIDE DEF m, row
  <2>6. Min({2, m}) \in Nat /\ Min({2, m}) <= m /\ Min({2, m}) \in {2, m}
    BY <2>3, MinOfTwo
  <2>7. Min({2, m}) > 0 => old[a] > 0 \/ a = n.aps_counter + 1
    BY <2>2, <2>3, <2>5, <2>6
  <2>8. old[a] <= 1 /\ ~(a = n.aps_counter + 1 /\ old[a] > 0) => Min({2, m}) <= 1
    BY <2>2, <2>3, <2>5, <2>6
  <2> QED BY <1>4, <2>1, <2>4, <2>7, <2>8
<1> QED BY <1>3, <1>4

\* Sessions after a block was offered: as before, or the block's own, which
\* holds nothing but the block and what a session of it held.
OldBlock(f, b) ==
    \E k \in Slots : /\ entries[k].active /\ ~entries[k].delivered
                     /\ entries[k].src = f.src /\ entries[k].aps_counter = f.aps_counter
                     /\ b \in Received(entries[k])
Taken(e, f) ==
    /\ e.src = f.src /\ e.aps_counter = f.aps_counter
    /\ \A b \in Received(e) : b = f.block \/ OldBlock(f, b)
TakenIn(fs, f) == \A j \in Slots : fs[j].active => fs[j] = entries[j] \/ Taken(fs[j], f)
NoDuplicate(f) == \A d \in dup_table : ~(d.src = f.src /\ d.aps_counter = f.aps_counter)

LEMMA FrameCounter ==
    ASSUME NEW f, BlockOK(f), f.src \notin restarted
    PROVE  f.asdu = f.aps_counter + 1 /\ f.asdu \in Requests /\ f.aps_counter \in Nat
             /\ f.src \in Originators
BY DEF BlockOK, BlockFrames, FrameOK

LEMMA OfferKnown ==
    ASSUME Inv, OnceInv, NEW f \in net, f.kind = "block", BlockOK(f), NEW fs, TakenIn(fs, f)
    PROVE  /\ \A j \in Slots : fs[j].active /\ fs[j].src \in Originators \ restarted
                                 => fs[j].aps_counter + 1 <= sent[fs[j].src]
           /\ \A o \in Originators \ restarted : \A a, b :
                 b >= WindowSize /\ Has(fs, o, a, b) => Beyond(entries, o, a)
<1>1. ASSUME NEW j \in Slots, fs[j].active, fs[j].src \in Originators \ restarted
      PROVE  fs[j].aps_counter + 1 <= sent[fs[j].src]
  <2>1. CASE fs[j] = entries[j]
    BY <1>1, <2>1 DEF OnceInv, Known
  <2>2. CASE Taken(fs[j], f)
    <3>1. fs[j].src = f.src /\ fs[j].aps_counter = f.aps_counter
      BY <2>2 DEF Taken
    <3>2. f.asdu = f.aps_counter + 1
      BY <1>1, <3>1, FrameCounter
    <3> QED BY <1>1, <3>1, <3>2 DEF OnceInv, Known
  <2> QED BY <1>1, <2>1, <2>2 DEF TakenIn
<1>2. ASSUME NEW o \in Originators \ restarted, NEW a, NEW b, b >= WindowSize, Has(fs, o, a, b)
      PROVE  Beyond(entries, o, a)
  <2>1. PICK j \in Slots : fs[j].active /\ fs[j].src = o /\ fs[j].aps_counter + 1 = a
                             /\ b \in Received(fs[j])
    BY <1>2 DEF Has
  <2>2. b \in Blocks
    BY <2>1 DEF Received
  <2>3. CASE fs[j] = entries[j]
    <3>1. Has(entries, o, a, b)
      BY <2>1, <2>3 DEF Has
    <3> QED BY <1>2, <2>2, <3>1 DEF Beyond
  <2>4. CASE Taken(fs[j], f)
    <3>1. f.src = o /\ f.aps_counter + 1 = a /\ (b = f.block \/ OldBlock(f, b))
      BY <2>1, <2>4 DEF Taken
    <3>2. f.asdu = a
      BY <3>1, FrameCounter
    <3>3. CASE b = f.block
      BY <1>2, <3>1, <3>2, <3>3 DEF Beyond
    <3>4. CASE OldBlock(f, b)
      <4>1. Has(entries, o, a, b)
        BY <3>1, <3>4 DEF OldBlock, Has
      <4> QED BY <1>2, <2>2, <4>1 DEF Beyond
    <3> QED BY <3>1, <3>3, <3>4
  <2> QED BY <2>1, <2>3, <2>4 DEF TakenIn
<1> QED BY <1>1, <1>2

\* Of a delivered ASDU neither the offered block nor an open session is, or
\* has, the key block.
LEMMA KeyBlockRefused ==
    ASSUME OnceInv, NEW f \in net, f.kind = "block", BlockOK(f), NoDuplicate(f),
           f.src \in Clean, accepted[f.src][f.aps_counter + 1] > 0,
           NEW b, b = f.block \/ OldBlock(f, b)
    PROVE  b # KeyBlock(f.aps_counter + 1)
<1>1. f.asdu = f.aps_counter + 1
  BY FrameCounter DEF Clean
<1>2. CASE b = f.block
  <2>1. ~Fresh(f.src, f.aps_counter)
    BY DEF NoDuplicate, Fresh
  <2> QED BY <1>1, <1>2, <2>1 DEF OnceInv, KeyBlockSpent
<1>3. CASE OldBlock(f, b)
  BY <1>3 DEF OldBlock, OnceInv, KeyBlockGone
<1> QED BY <1>2, <1>3

\* A block is offered and nothing is handed up.
LEMMA OfferQuiet ==
    ASSUME Inv, OnceInv, Inv', NEW f \in net, f.kind = "block", BlockOK(f), NoDuplicate(f),
           TakenIn(entries', f),
           NEW A \in SUBSET AckFrames, \A g \in A : Covers(g),
           net' \subseteq net \cup pending_ack \cup A, pending_ack' \subseteq pending_ack \cup A,
           UNCHANGED <<txVars, dup_table, accepted, restarted, crowded, late>>
    PROVE  OnceInv'
<1>1. /\ \A j \in Slots : entries'[j].active /\ entries'[j].src \in Originators \ restarted
                            => entries'[j].aps_counter + 1 <= sent[entries'[j].src]
      /\ \A o \in Originators \ restarted : \A a, b :
            b >= WindowSize /\ Has(entries', o, a, b) => Beyond(entries, o, a)
  BY OfferKnown
<1>2. \A i \in Slots : KeyBlockGone(entries[i])'
  <2> SUFFICES ASSUME NEW i \in Slots, entries'[i].active, ~entries'[i].delivered,
                      entries'[i].src \in Clean,
                      accepted[entries'[i].src][entries'[i].aps_counter + 1] > 0
               PROVE  KeyBlock(entries'[i].aps_counter + 1) \notin Received(entries'[i])
    BY DEF KeyBlockGone, Clean
  <2>1. CASE entries'[i] = entries[i]
    BY <2>1 DEF OnceInv, KeyBlockGone
  <2>2. CASE Taken(entries'[i], f)
    <3>1. entries'[i].src = f.src /\ entries'[i].aps_counter = f.aps_counter
            /\ \A b \in Received(entries'[i]) : b = f.block \/ OldBlock(f, b)
      BY <2>2 DEF Taken
    <3> QED BY <3>1, KeyBlockRefused
  <2> QED BY <2>1, <2>2 DEF TakenIn
<1>3. \A o \in Originators \ restarted, a \in Requests : accepted'[o][a] > 0 => a <= sent[o]
  BY DEF OnceInv, Known
<1>4. \A o \in Originators \ restarted, a \in Requests :
         Total[a] > WindowSize /\ Beyond(entries, o, a)' => Beyond(entries, o, a)
  <2> SUFFICES ASSUME NEW o \in Originators \ restarted, NEW a, Beyond(entries, o, a)'
               PROVE  Beyond(entries, o, a)
    OBVIOUS
  <2>1. \A b : Has(entries, o, a, b)' <=> Has(entries', o, a, b)
    BY DEF Has
  <2>2. \A x \in net' : x.kind = "block" => x \in net
    BY DEF Inv, Typed, AckFrames
  <2>3. CASE accepted[o][a] > 0
    BY <2>3 DEF Beyond
  <2>4. CASE \E x \in net' : x.kind = "block" /\ x.src = o /\ x.asdu = a /\ x.block >= WindowSize
    BY <2>2, <2>4 DEF Beyond
  <2>5. CASE \E b \in Blocks : b >= WindowSize /\ Has(entries, o, a, b)'
    BY <1>1, <2>1, <2>5
  <2> QED BY <2>3, <2>4, <2>5 DEF Beyond
<1>5. \A o \in Originators, c \in Nat :
         o \in Clean' /\ c + 1 \in Requests /\ accepted'[o][c + 1] > 0 =>
            \/ Fresh(o, c)'
            \/ accepted[o][c + 1] > 0 /\ ~Fresh(o, c)
  BY DEF Fresh
<1>6. AcceptedOnce'
  BY DEF OnceInv, AcceptedOnce
<1>7. UNCHANGED <<txVars, restarted, late>> /\ crowded \subseteq crowded'
  OBVIOUS
<1> QED
  BY <1>1, <1>2, <1>3, <1>4, <1>5, <1>6, <1>7, OnceReceive

\* The block completes session i, which becomes n, and the ASDU is handed up.
LEMMA OfferAccepted ==
    ASSUME Inv, OnceInv, Inv', NEW f \in net, f.kind = "block", BlockOK(f), NoDuplicate(f),
           TakenIn(entries', f),
           NEW i \in Slots, NEW n, Fits(n, f), SessionCore(n), Taken(n, f), IsComplete(n), Accept(n),
           entries'[i].active, entries'[i].delivered,
           entries'[i].src = f.src, entries'[i].aps_counter = f.aps_counter,
           Fresh(f.src, f.aps_counter)', dup_table \subseteq dup_table',
           NEW A \in SUBSET AckFrames, \A g \in A : Covers(g),
           net' \subseteq net \cup pending_ack \cup A, pending_ack' \subseteq pending_ack \cup A,
           UNCHANGED <<txVars, restarted, crowded, late>>
    PROVE  OnceInv'
<1> DEFINE a0 == f.aps_counter + 1
<1>1. n \in Sessions /\ n.active /\ n.src = f.src /\ n.aps_counter = f.aps_counter
        /\ n.src \in Originators
  BY DEF Fits, BlockOK, BlockFrames
<1>2. \A o \in Originators \ restarted, a \in Requests :
        /\ accepted'[o][a] > 0 => accepted[o][a] > 0 \/ (o = f.src /\ a = a0)
        /\ accepted[o][a] <= 1 /\ ~(o = f.src /\ a = a0 /\ accepted[o][a] > 0)
             => accepted'[o][a] <= 1
  BY <1>1, AcceptExact
<1>3. f.src \notin restarted => a0 \in Requests /\ f.asdu = a0 /\ n.total_blocks = Total[a0]
        /\ 0..(Total[a0] - 1) \subseteq Received(n)
  <2> SUFFICES ASSUME f.src \notin restarted
               PROVE  a0 \in Requests /\ f.asdu = a0 /\ n.total_blocks = Total[a0]
                        /\ 0..(Total[a0] - 1) \subseteq Received(n)
    OBVIOUS
  <2>1. a0 \in Requests /\ f.asdu = a0
    BY FrameCounter
  <2>2. n.total_blocks = Total[a0]
    BY <1>1 DEF SessionCore, IsComplete
  <2> QED BY <2>1, <2>2 DEF IsComplete
<1>4. f.src \in Clean => ~(accepted[f.src][a0] > 0)
  <2> SUFFICES ASSUME f.src \in Clean, accepted[f.src][a0] > 0
               PROVE  FALSE
    OBVIOUS
  <2>1. f.src \notin restarted
    BY DEF Clean
  <2>2. KeyBlock(a0) \in Received(n)
    BY <1>3, <2>1, KeyBlockIsBlock
  <2>3. KeyBlock(a0) = f.block \/ OldBlock(f, KeyBlock(a0))
    BY <2>2 DEF Taken
  <2> QED BY <2>3, KeyBlockRefused
<1>5. /\ \A j \in Slots : entries'[j].active /\ entries'[j].src \in Originators \ restarted
                            => entries'[j].aps_counter + 1 <= sent[entries'[j].src]
      /\ \A o \in Originators \ restarted : \A a, b :
            b >= WindowSize /\ Has(entries', o, a, b) => Beyond(entries, o, a)
  BY OfferKnown
<1>6. \A j \in Slots : KeyBlockGone(entries[j])'
  <2> SUFFICES ASSUME NEW j \in Slots, entries'[j].active, ~entries'[j].delivered,
                      entries'[j].src \in Clean,
                      accepted'[entries'[j].src][entries'[j].aps_counter + 1] > 0
               PROVE  KeyBlock(entries'[j].aps_counter + 1) \notin Received(entries'[j])
    BY DEF KeyBlockGone, Clean
  <2>1. j # i
    OBVIOUS
  <2>2. OnePerCounter(entries')
    BY DEF Inv, EntriesOK, OnePerCounter
  <2>3. ~(entries'[j].src = f.src /\ entries'[j].aps_counter = f.aps_counter)
    BY <2>1, <2>2 DEF OnePerCounter
  <2>4. entries'[j] = entries[j]
    BY <2>3 DEF TakenIn, Taken
  <2>5. entries[j].aps_counter \in Nat /\ entries[j].aps_counter + 1 \in Requests
          /\ entries[j].src \in Originators \ restarted
    BY <2>4 DEF Inv, Typed, Sessions, EntriesOK, SessionOK, Clean
  <2>6. f.aps_counter \in Nat
    BY DEF BlockOK, BlockFrames
  <2>7. ~(entries[j].src = f.src /\ entries[j].aps_counter + 1 = a0)
    BY <2>3, <2>4, <2>5, <2>6
  <2>8. accepted[entries[j].src][entries[j].aps_counter + 1] > 0
    BY <1>2, <2>4, <2>5, <2>7
  <2> QED BY <2>4, <2>8 DEF OnceInv, KeyBlockGone
<1>7. \A o \in Originators \ restarted, a \in Requests : accepted'[o][a] > 0 => a <= sent[o]
  <2> SUFFICES ASSUME NEW o \in Originators \ restarted, NEW a \in Requests, accepted'[o][a] > 0
               PROVE  a <= sent[o]
    OBVIOUS
  <2>1. CASE accepted[o][a] > 0
    BY <2>1 DEF OnceInv, Known
  <2>2. CASE o = f.src /\ a = a0
    BY <1>3, <2>2 DEF OnceInv, Known
  <2> QED BY <1>2, <2>1, <2>2
<1>8. \A o \in Originators \ restarted, a \in Requests :
         Total[a] > WindowSize /\ Beyond(entries, o, a)' => Beyond(entries, o, a)
  <2> SUFFICES ASSUME NEW o \in Originators \ restarted, NEW a \in Requests,
                      Total[a] > WindowSize, Beyond(entries, o, a)'
               PROVE  Beyond(entries, o, a)
    OBVIOUS
  <2>1. \A b : Has(entries, o, a, b)' <=> Has(entries', o, a, b)
    BY DEF Has
  <2>2. \A x \in net' : x.kind = "block" => x \in net
    BY DEF Inv, Typed, AckFrames
  <2>3. CASE accepted[o][a] > 0
    BY <2>3 DEF Beyond
  <2>4. CASE \E x \in net' : x.kind = "block" /\ x.src = o /\ x.asdu = a /\ x.block >= WindowSize
    BY <2>2, <2>4 DEF Beyond
  <2>5. CASE \E b \in Blocks : b >= WindowSize /\ Has(entries, o, a, b)'
    BY <1>5, <2>1, <2>5
  <2>6. CASE o = f.src /\ a = a0
    <3> DEFINE last == Total[a] - 1
    <3>1. Total[a] \in Nat /\ Total[a] >= 2 /\ WindowSize \in Nat
      BY SizeOfAsdu, WindowSizeTyped
    <3>2. last >= WindowSize /\ last \in 0..(Total[a] - 1)
      BY <3>1
    <3>3. last \in Received(n)
      BY <1>3, <2>6, <3>2
    <3>4. last \in Blocks
      BY <3>3 DEF Received
    <3> HIDE DEF last
    <3>5. CASE last = f.block
      BY <1>3, <2>6, <3>2, <3>5 DEF Beyond
    <3>6. CASE OldBlock(f, last)
      <4>1. Has(entries, o, a, last)
        BY <2>6, <3>6 DEF OldBlock, Has
      <4> QED BY <3>2, <3>4, <4>1 DEF Beyond
    <3> QED BY <3>3, <3>5, <3>6 DEF Taken
  <2> QED BY <1>2, <2>3, <2>4, <2>5, <2>6 DEF Beyond
<1>9. \A o \in Originators, c \in Nat :
         o \in Clean' /\ c + 1 \in Requests /\ accepted'[o][c + 1] > 0 =>
            \/ Fresh(o, c)'
            \/ accepted[o][c + 1] > 0 /\ ~Fresh(o, c)
  <2> SUFFICES ASSUME NEW o \in Originators, NEW c \in Nat, o \in Clean, c + 1 \in Requests,
                      accepted'[o][c + 1] > 0, ~Fresh(o, c)'
               PROVE  accepted[o][c + 1] > 0 /\ ~Fresh(o, c)
    BY DEF Clean
  <2>1. ~Fresh(o, c)
    BY DEF Fresh
  <2>2. f.aps_counter \in Nat
    BY DEF BlockOK, BlockFrames
  <2>3. ~(o = f.src /\ c + 1 = a0)
    BY <2>2
  <2>4. o \in Originators \ restarted
    BY DEF Clean
  <2> QED BY <1>2, <2>1, <2>3, <2>4
<1>10. AcceptedOnce'
  <2> SUFFICES ASSUME NEW o \in Clean, NEW a \in Requests
               PROVE  accepted'[o][a] <= 1
    BY DEF AcceptedOnce, Clean
  <2>1. accepted[o][a] <= 1 /\ o \in Originators \ restarted
    BY DEF OnceInv, AcceptedOnce, Clean
  <2>2. ~(o = f.src /\ a = a0 /\ accepted[o][a] > 0)
    BY <1>4
  <2> QED BY <1>2, <2>1, <2>2
<1>11. UNCHANGED <<txVars, restarted, late>> /\ crowded \subseteq crowded'
  OBVIOUS
<1> QED
  BY <1>5, <1>6, <1>7, <1>8, <1>9, <1>10, <1>11, OnceReceive

\* What insert_block starts from: the sessions that are not delivered.
Open(es) ==
    /\ EntriesOK(es)
    /\ \A j \in Slots : es[j].active => es[j] = entries[j] /\ ~entries[j].delivered

LEMMA FinalizedOpen ==
    ASSUME Inv
    PROVE  Open(Finalized(entries))
<1>1. EntriesOK(Finalized(entries))
  BY FinalizedKeeps DEF Inv
<1>2. \A j \in Slots : Finalized(entries)[j] =
                         IF entries[j].delivered THEN EmptyEntry ELSE entries[j]
  BY DEF Finalized, Reset
<1> QED BY <1>1, <1>2, EmptyEntryIsFree DEF Open

LEMMA ResetTaken ==
    ASSUME NEW es, NEW f, NEW S, \A j \in Slots : es[j].active => es[j] = entries[j]
    PROVE  /\ \A j \in Slots : Reset(es, S)[j].active => Reset(es, S)[j] = entries[j]
           /\ TakenIn(Reset(es, S), f)
<1>1. \A j \in Slots : Reset(es, S)[j] = IF j \in S THEN EmptyEntry ELSE es[j]
  BY DEF Reset
<1> QED BY <1>1, EmptyEntryIsFree DEF TakenIn

\* A session of the block, put into its slot.
LEMMA SlotTaken ==
    ASSUME NEW es, Open(es), NEW f, NEW i \in Slots, NEW r, r.active => Taken(r, f)
    PROVE  TakenIn([es EXCEPT ![i] = r], f) /\ [es EXCEPT ![i] = r][i] = r
<1>1. \A j \in Slots : [es EXCEPT ![i] = r][j] = IF j = i THEN r ELSE es[j]
  BY DEF Open, EntriesOK
<1> QED BY <1>1 DEF TakenIn, Open

LEMMA DropOnce ==
    ASSUME Inv, OnceInv, Inv', NEW f \in net, f.kind = "block", BlockOK(f), NoDuplicate(f),
           NEW fs, TakenIn(fs, f), DropBlock(f, fs),
           UNCHANGED <<txVars, restarted, crowded, late>>
    PROVE  OnceInv'
<1>1. entries' = fs /\ UNCHANGED <<dup_table, accepted>> /\ SendPendingAck(pending_ack, net \ {f})
  BY DEF DropBlock
<1>2. net' \subseteq net \cup pending_ack /\ pending_ack' \subseteq pending_ack
  BY <1>1, PendingAckSent
<1>3. /\ {} \in SUBSET AckFrames /\ \A g \in {} : Covers(g)
      /\ net' \subseteq net \cup pending_ack \cup {} /\ pending_ack' \subseteq pending_ack \cup {}
      /\ UNCHANGED <<txVars, dup_table, accepted, restarted, crowded, late>>
  BY <1>1, <1>2
<1>4. TakenIn(entries', f)
  BY <1>1
<1> QED BY <1>3, <1>4, OfferQuiet

LEMMA StoreOnce ==
    ASSUME Inv, OnceInv, Inv', NEW f \in net, f.kind = "block", BlockOK(f), NoDuplicate(f),
           NEW es, Open(es), NEW i \in Slots, NEW w, Fits(w, f), SessionOK(w), Taken(w, f),
           f.block = 0 => w.total_blocks # 0, ~w.delivered,
           NEW n, n = Stored(w, f),
           StoreBlock(f, es, i, n, f.block \notin Received(w)),
           UNCHANGED <<txVars, restarted, crowded, late>>
    PROVE  OnceInv'
<1>1. Fits(n, f) /\ SessionCore(n)
  BY BlockStored
<1>2. Received(n) = Received(w) \cup {f.block} /\ ~n.delivered /\ n.active
        /\ n.src = f.src /\ n.aps_counter = f.aps_counter
  <2>1. Received(n) = Received(w) \cup {f.block} /\ n.delivered = w.delivered
    BY StoredBlocks
  <2> QED BY <1>1, <2>1 DEF Fits
<1>3. Taken(n, f)
  BY <1>2 DEF Taken
<1>4. AckFor(n, f) \in SUBSET AckFrames /\ \A g \in AckFor(n, f) : Covers(g)
  <2>1. f.block \in Received(n)
    BY <1>2
  <2> QED BY <1>1, <2>1, AckForHeld, AckForCovers
<1>5. ASSUME SendPendingAck(IF AckFor(n, f) # {} THEN AckFor(n, f) ELSE pending_ack, net \ {f})
      PROVE  net' \subseteq net \cup pending_ack \cup AckFor(n, f)
               /\ pending_ack' \subseteq pending_ack \cup AckFor(n, f)
  <2> DEFINE A == IF AckFor(n, f) # {} THEN AckFor(n, f) ELSE pending_ack
  <2>1. net' \subseteq net \cup A /\ pending_ack' \subseteq A
    BY <1>5, PendingAckSent
  <2> QED BY <2>1
<1>6. CASE /\ IsComplete(n)
           /\ entries' = [es EXCEPT ![i] = [n EXCEPT !.delivered = TRUE]]
           /\ dup_table' = dup_table \cup {[src |-> f.src, aps_counter |-> f.aps_counter,
                                            window |-> n.window_start, age |-> 0]}
           /\ Accept(n)
           /\ SendPendingAck(IF AckFor(n, f) # {} THEN AckFor(n, f) ELSE pending_ack, net \ {f})
  <2> DEFINE r == [n EXCEPT !.delivered = TRUE]
             d == [src |-> f.src, aps_counter |-> f.aps_counter, window |-> n.window_start, age |-> 0]
  <2>1. net' \subseteq net \cup pending_ack \cup AckFor(n, f)
          /\ pending_ack' \subseteq pending_ack \cup AckFor(n, f)
    BY <1>5, <1>6
  <2>2. r.active = n.active /\ r.src = n.src /\ r.aps_counter = n.aps_counter /\ r.delivered
          /\ r.data = n.data
    BY <1>1 DEF Fits, Sessions
  <2>3. entries' = [es EXCEPT ![i] = r] /\ dup_table' = dup_table \cup {d}
    BY <1>6
  <2>4. d.src = f.src /\ d.aps_counter = f.aps_counter /\ d.age = 0
    OBVIOUS
  <2> HIDE DEF r, d
  <2>5. Taken(r, f)
    BY <1>3, <2>2 DEF Taken, Received
  <2>6. TakenIn(entries', f) /\ entries'[i] = r
    BY <2>3, <2>5, SlotTaken
  <2>7. Fresh(f.src, f.aps_counter)' /\ dup_table \subseteq dup_table'
    BY <2>3, <2>4 DEF Fresh
  <2>8. entries'[i].active /\ entries'[i].delivered /\ entries'[i].src = f.src
          /\ entries'[i].aps_counter = f.aps_counter
    BY <1>2, <2>2, <2>6
  <2>9. IsComplete(n) /\ Accept(n)
    BY <1>6
  <2> QED BY <1>1, <1>3, <1>4, <2>1, <2>6, <2>7, <2>8, <2>9, OfferAccepted
<1>7. CASE /\ entries' = [es EXCEPT ![i] = n]
           /\ UNCHANGED <<dup_table, accepted, mixed>>
           /\ SendPendingAck(IF AckFor(n, f) # {} THEN AckFor(n, f) ELSE pending_ack, net \ {f})
  <2>1. net' \subseteq net \cup pending_ack \cup AckFor(n, f)
          /\ pending_ack' \subseteq pending_ack \cup AckFor(n, f)
    BY <1>5, <1>7
  <2>2. TakenIn(entries', f)
    BY <1>3, <1>7, SlotTaken
  <2>3. UNCHANGED <<txVars, dup_table, accepted, restarted, crowded, late>>
    BY <1>7
  <2> QED BY <1>4, <2>1, <2>2, <2>3, OfferQuiet
<1>8. CASE /\ entries' = [es EXCEPT ![i] = IF f.block \notin Received(w)
                                           THEN RolledBack(n, f.block) ELSE n]
           /\ pending_ack' = {}
           /\ net' = net \ {f}
           /\ UNCHANGED <<dup_table, accepted, mixed>>
  <2> DEFINE r == IF f.block \notin Received(w) THEN RolledBack(n, f.block) ELSE n
  <2>1. r.active => Taken(r, f)
    <3>1. CASE f.block \notin Received(w)
      <4>1. r.active => /\ Received(r) \subseteq Received(n) \ {f.block}
                        /\ r.src = f.src /\ r.aps_counter = f.aps_counter
        BY <1>1, <3>1, RolledBackBlocks
      <4> HIDE DEF r
      <4> QED BY <1>3, <4>1 DEF Taken
    <3>2. CASE f.block \in Received(w)
      BY <1>3, <3>2
    <3> QED BY <3>1, <3>2
  <2>2. entries' = [es EXCEPT ![i] = r]
    BY <1>8
  <2> HIDE DEF r
  <2>3. TakenIn(entries', f)
    BY <2>1, <2>2, SlotTaken
  <2>4. /\ {} \in SUBSET AckFrames /\ \A g \in {} : Covers(g)
        /\ net' \subseteq net \cup pending_ack \cup {} /\ pending_ack' \subseteq pending_ack \cup {}
        /\ UNCHANGED <<txVars, dup_table, accepted, restarted, crowded, late>>
    BY <1>8
  <2> QED BY <2>3, <2>4, OfferQuiet
<1> QED
  BY <1>6, <1>7, <1>8 DEF StoreBlock

LEMMA OfferOnce ==
    ASSUME Inv, OnceInv, Inv', NEW f \in net, f.kind = "block", BlockOK(f), NoDuplicate(f),
           NEW es, Open(es), OfferBlock(f, es), UNCHANGED <<txVars, restarted, crowded, late>>
    PROVE  OnceInv'
<1>1. \A j \in Slots : es[j].active => es[j] = entries[j]
  BY DEF Open
<1>2. CASE DropBlock(f, Purged(es))
  <2>1. TakenIn(Purged(es), f)
    BY <1>1, ResetTaken DEF Purged
  <2> QED BY <1>2, <2>1, DropOnce
<1>3. ASSUME NEW i \in SlotFor(es, f), NEW e, e = SessionFor(es[i], f),
             NEW w, w = WithTotal(e, f),
             \/ /\ Contradicts(e, f)
                /\ DropBlock(f, Purged(IF Forgets(e, f) THEN Reset(es, {i}) ELSE es))
             \/ /\ ~Contradicts(e, f) /\ Outside(w, f)
                /\ DropBlock(f, [es EXCEPT ![i] = w])
             \/ /\ ~Contradicts(e, f) /\ ~Outside(w, f)
                /\ \E n \in {Stored(w, f)} : StoreBlock(f, es, i, n, f.block \notin Received(w))
      PROVE  OnceInv'
  <2>1. /\ i \in Slots /\ Fits(e, f) /\ SessionOK(e)
        /\ \/ Matches(es[i], f) /\ e = es[i]
           \/ ~es[i].active /\ Received(e) = {}
    BY <1>3, SessionOfBlock DEF Open
  <2>2. /\ Fits(w, f) /\ SessionOK(w) /\ Received(w) = Received(e)
        /\ f.block = 0 => w.total_blocks # 0
    BY <1>3, <2>1, TotalLearned
  <2>3. Taken(w, f)
    <3>1. w.src = f.src /\ w.aps_counter = f.aps_counter
      BY <2>2 DEF Fits
    <3>2. \A b \in Received(e) : OldBlock(f, b)
      BY <2>1 DEF Matches, Open, OldBlock
    <3> QED BY <2>2, <3>1, <3>2 DEF Taken
  <2>4. CASE DropBlock(f, Purged(IF Forgets(e, f) THEN Reset(es, {i}) ELSE es))
    <3> DEFINE gs == IF Forgets(e, f) THEN Reset(es, {i}) ELSE es
    <3>1. \A j \in Slots : gs[j].active => gs[j] = entries[j]
      BY <1>1, ResetTaken
    <3>2. DropBlock(f, Purged(gs))
      BY <2>4
    <3> HIDE DEF gs
    <3>3. TakenIn(Purged(gs), f)
      BY <3>1, ResetTaken DEF Purged
    <3> QED BY <3>2, <3>3, DropOnce
  <2>5. CASE DropBlock(f, [es EXCEPT ![i] = w])
    <3>1. TakenIn([es EXCEPT ![i] = w], f)
      BY <2>1, <2>3, SlotTaken
    <3> QED BY <2>5, <3>1, DropOnce
  <2>6. CASE ~Outside(w, f)
               /\ \E n \in {Stored(w, f)} : StoreBlock(f, es, i, n, f.block \notin Received(w))
    <3>1. ~w.delivered
      BY <2>6 DEF Outside
    <3> DEFINE n == Stored(w, f)
    <3>2. StoreBlock(f, es, i, n, f.block \notin Received(w)) /\ n = Stored(w, f)
      BY <2>6
    <3> HIDE DEF n
    <3> QED BY <2>1, <2>2, <2>3, <3>1, <3>2, StoreOnce
  <2> QED BY <1>3, <2>4, <2>5, <2>6
<1> QED
  BY <1>2, <1>3 DEF OfferBlock

LEMMA ReceiveOnce ==
    ASSUME Inv, OnceInv, Inv', NEW f \in net, ReceiveFragment(f)
    PROVE  OnceInv'
<1>1. f.kind = "block" /\ UNCHANGED <<txVars, restarted, crowded, late>>
  BY DEF ReceiveFragment
<1>2. BlockOK(f)
  BY <1>1 DEF Inv, Typed, FramesOK, AckFrames, BlockOK
<1>3. ASSUME NEW d \in dup_table, d.src = f.src, d.aps_counter = f.aps_counter, RepeatFinalAck(f, d)
      PROVE  OnceInv'
  <2> DEFINE g == AckFrame(f, d.window, d.window .. (d.window + 7))
  <2>1. entries' = Finalized(entries) /\ UNCHANGED <<dup_table, accepted>>
          /\ SendPendingAck({g}, net \ {f})
    BY <1>3 DEF RepeatFinalAck
  <2>2. d.window \in Nat /\ d.window .. (d.window + 7) \in SUBSET Nat
    BY DEF Inv, Typed, DupEntries
  <2>3. g \in AckFrames /\ g.dst = f.src /\ g.aps_counter = f.aps_counter
          /\ g.window_start = d.window /\ g.bits = d.window .. (d.window + 7)
    BY <1>2, <2>2, AckFrameTyped DEF BlockOK
  <2> HIDE DEF g
  <2>4. Covers(g)
    <3> SUFFICES ASSUME f.src \notin restarted, d.window = 0,
                        Total[f.aps_counter + 1] <= WindowSize
                 PROVE  Total[f.aps_counter + 1] - 1 \in d.window .. (d.window + 7)
      BY <2>3 DEF Covers
    <3>1. f.aps_counter + 1 \in Requests
      BY <1>2, FrameCounter
    <3>2. Total[f.aps_counter + 1] \in Nat /\ Total[f.aps_counter + 1] >= 2
      BY <3>1, SizeOfAsdu
    <3> QED BY <3>2, WindowSizeTyped
  <2>5. net' \subseteq net \cup {g} /\ pending_ack' \subseteq {g}
    BY <2>1, PendingAckSent
  <2>6. {g} \in SUBSET AckFrames /\ (\A x \in {g} : Covers(x))
          /\ net' \subseteq net \cup pending_ack \cup {g} /\ pending_ack' \subseteq pending_ack \cup {g}
          /\ UNCHANGED <<txVars, accepted, restarted, late>> /\ crowded \subseteq crowded'
    BY <1>1, <2>1, <2>3, <2>4, <2>5
  <2>7. Inherited(entries')
    BY <2>1, ResetInherited DEF Finalized
  <2>8. \A o \in Originators, c \in Nat : o \in Clean' /\ Fresh(o, c) => Fresh(o, c)'
    BY <2>1 DEF Fresh
  <2> QED BY <2>6, <2>7, <2>8, OnceQuiet
<1>4. ASSUME NoDuplicate(f), OfferBlock(f, Finalized(entries))
      PROVE  OnceInv'
  BY <1>1, <1>2, <1>4, FinalizedOpen, OfferOnce
<1>5. \/ \E d \in dup_table : d.src = f.src /\ d.aps_counter = f.aps_counter /\ RepeatFinalAck(f, d)
      \/ NoDuplicate(f) /\ OfferBlock(f, Finalized(entries))
  <2> DEFINE done == {d \in dup_table : d.src = f.src /\ d.aps_counter = f.aps_counter}
  <2>1. \/ \E d \in done : RepeatFinalAck(f, d)
        \/ done = {} /\ OfferBlock(f, Finalized(entries))
    BY DEF ReceiveFragment
  <2>2. CASE \E d \in done : RepeatFinalAck(f, d)
    BY <2>2
  <2>3. CASE done = {} /\ OfferBlock(f, Finalized(entries))
    BY <2>3 DEF NoDuplicate
  <2> QED BY <2>1, <2>2, <2>3
<1> QED
  BY <1>3, <1>4, <1>5

-----------------------------------------------------------------------------
(* At most once. *)

LEMMA InitOnce == Init => OnceInv
<1> SUFFICES ASSUME Init PROVE OnceInv
  OBVIOUS
<1> USE DEF Init
<1>1. \A o \in Originators : ~fragment_tx[o].active
  BY DEF NoTx
<1>2. \A i \in Slots : ~entries[i].active
  BY EmptyEntryIsFree
<1>3. \A o \in Originators, a \in Requests : accepted[o][a] = 0
  OBVIOUS
<1>4. Known(entries) /\ TxShaped /\ AcksCover /\ WindowLeft(entries) /\ KeyBlockSpent
  BY <1>1, <1>2, <1>3 DEF Known, TxShaped, AcksCover, WindowLeft, KeyBlockSpent
<1>5. \A i \in Slots : KeyBlockGone(entries[i])
  BY <1>2 DEF KeyBlockGone
<1>6. AcceptedOnce
  BY <1>3 DEF AcceptedOnce
<1> QED BY <1>4, <1>5, <1>6 DEF OnceInv

LEMMA NextOnce == Inv /\ OnceInv /\ [Next]_vars => OnceInv'
<1> SUFFICES ASSUME Inv, OnceInv, [Next]_vars PROVE OnceInv'
  OBVIOUS
<1>0. Inv'
  BY NextInv
<1>1. ASSUME NEW o \in Originators, StartFragmentedTx(o) PROVE OnceInv'
  BY <1>1, StartOnce
<1>2. ASSUME NEW o \in Originators, ServiceFragmentTx(o) PROVE OnceInv'
  BY <1>2, ServiceOnce
<1>3. ASSUME NEW o \in Originators, Restart(o) PROVE OnceInv'
  BY <1>3, RestartOnce
<1>4. ASSUME NEW f \in net, HandleFragmentAck(f) PROVE OnceInv'
  BY <1>4, AckHandlingOnce
<1>5. ASSUME NEW f \in net, ReceiveFragment(f) PROVE OnceInv'
  BY <1>0, <1>5, ReceiveOnce
<1>6. ASSUME NEW f \in net, Lose(f) PROVE OnceInv'
  <2>1. net' \subseteq net /\ UNCHANGED <<txVars, rxVars, restarted, crowded, late>>
    BY <1>6 DEF Lose
  <2> QED BY <1>0, <2>1, LossOnce
<1>7. ASSUME NEW f \in net, Repeat(f) PROVE OnceInv'
  BY <1>0, <1>7, RepeatOnce
<1>8. CASE ReceiveOther
  BY <1>0, <1>8, ReceiveOtherOnce
<1>9. CASE ExpireSessions
  BY <1>0, <1>9, ExpireOnce
<1>10. CASE Tick
  BY <1>0, <1>10, TickOnce
<1>11. CASE UNCHANGED vars
  <2>1. net' \subseteq net /\ UNCHANGED <<txVars, rxVars, restarted, crowded, late>>
    BY <1>11 DEF vars, txVars, rxVars
  <2> QED BY <1>0, <2>1, LossOnce
<1> QED
  BY <1>1, <1>2, <1>3, <1>4, <1>5, <1>6, <1>7, <1>8, <1>9, <1>10, <1>11 DEF Next

\* The receiver hands an ASDU up at most once, for every window size, duplicate
\* timeout, number of retries and number of faults, although the originator's
\* retries outlive the duplicate entry, unless other traffic displaced the
\* entry, a block arrived after a wait, or the originator restarted.
THEOREM HandedUpOnce == Spec => []AcceptedOnce
<1>1. OnceInv => AcceptedOnce
  BY DEF OnceInv
<1>2. Init => Inv /\ OnceInv
  BY InitInv, InitOnce
<1>3. Inv /\ OnceInv /\ [Next]_vars => (Inv /\ OnceInv)'
  BY NextInv, NextOnce
<1> QED
  BY <1>1, <1>2, <1>3, PTL DEF Spec
=============================================================================
