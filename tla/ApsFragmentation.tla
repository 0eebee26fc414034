-------------------------- MODULE ApsFragmentation --------------------------
(***************************************************************************)
(* APS fragmentation: the windowed transmitter of zigbee-aps/fragment_tx.rs *)
(* on each originator, and on one receiver the reassembly sessions of       *)
(* zigbee-aps/fragment.rs with the part of apsde.rs and lib.rs that feeds   *)
(* them (duplicate rejection, acknowledgement, roll-back of a block whose   *)
(* durable commit failed).                                                  *)
(*                                                                          *)
(* Time is counted in apscAckWaitDurations.  An ASDU is the number of the   *)
(* request that sent it; block b of ASDU a carries the payload <<a, b>>, of *)
(* which the receiver keeps a.  APS counters restart at 0 when the          *)
(* originator restarts, which is how two ASDUs come to share one.           *)
(***************************************************************************)
EXTENDS Naturals, FiniteSets, FiniteSetsExt

CONSTANTS
    Originators,     \* devices that send fragmented ASDUs to the receiver
    MaxEntries,      \* MAX_ENTRIES, concurrent reassembly sessions
    Total,           \* Total[a] is the number of blocks of the a-th ASDU sent
    WindowSize,      \* apsMaxWindowSize, the same on both sides
    MaxFrameRetries, \* apsMaxFrameRetries, also apscMaxFrameRetries
    DupTimeout,      \* apsDuplicateRejectionTimeout in acknowledgement waits
    MaxSends,        \* bound: requests of each originator
    MaxFaults,       \* bound: lost or repeated frames, failed commits, early timeouts
    MaxRestarts      \* bound: originators that restart, once each

ASSUME FragmentationAssumption ==
    /\ IsFiniteSet(Originators)
    /\ {MaxEntries, WindowSize, DupTimeout, MaxSends} \subseteq Nat \ {0}
    /\ {MaxFrameRetries, MaxFaults, MaxRestarts} \subseteq Nat
    /\ Total \in [1..MaxSends -> 2..16]
    /\ WindowSize \in 1..8

VARIABLES
    fragment_tx,  \* transmit session of each originator, or NoTx
    aps_counter,  \* next APS counter of each originator
    entries,      \* the receiver's reassembly sessions
    dup_table,    \* the receiver's completed fragmented transactions
    pending_ack,  \* the acknowledgement the MAC refused, kept for a retry, if any
    net,          \* frames in the air
    sent,         \* history: number of requests of each originator
    outcome,      \* history: confirm of each request
    accepted,     \* history: how often each ASDU was handed up and committed
    mixed,        \* history: originators of an ASDU put together from two
    faults,       \* history: faults so far
    restarted,    \* history: originators that restarted
    crowded,      \* history: originators that lost a duplicate entry to other traffic
    late,         \* history: originators a block of which outlived an acknowledgement wait
    expired       \* history: ASDUs, <<originator, number>>, a session of which expired

vars == <<fragment_tx, aps_counter, entries, dup_table, pending_ack, net,
          sent, outcome, accepted, mixed, faults, restarted, crowded, late, expired>>
txVars == <<fragment_tx, aps_counter, sent, outcome>>
rxVars == <<entries, dup_table, pending_ack, accepted, mixed>>

NoTx == [active |-> FALSE, asdu |-> 0, aps_counter |-> 0, total |-> 0, window_start |-> 0,
         acked |-> {}, due |-> {}, retries |-> 0, waiting |-> FALSE, waited |-> 0]
RxTimeout == 1 + MaxFrameRetries            \* APS_FRAGMENT_RX_TIMEOUT_US
Slots == 1..MaxEntries
Requests == 1..MaxSends
Sizes == {Total[a] : a \in Requests}
Blocks == 0..(Max(Sizes) - 1)

\* A session after reset(); data gives the ASDU a stored block is from, 0 if none.
EmptyEntry == [active |-> FALSE, delivered |-> FALSE, src |-> "", aps_counter |-> 0,
               total_blocks |-> 0, data |-> [b \in Blocks |-> 0], window_start |-> 0, idle |-> 0]
Received(e) == {b \in Blocks : e.data[b] # 0}
Reset(es, S) == [i \in Slots |-> IF i \in S THEN EmptyEntry ELSE es[i]]

-----------------------------------------------------------------------------
(* The transmitter. *)

TxWindow(s) == s.window_start .. (Min({s.window_start + WindowSize, s.total}) - 1)
\* Mutant: the timer repeats the whole window.
MutLowestUnacked(s) == TxWindow(s) \ s.acked
LowestUnacked(s) ==
    LET open == TxWindow(s) \ s.acked IN IF open = {} THEN {} ELSE {Min(open)}

Frame(o, s, b) == [kind |-> "block", src |-> o, aps_counter |-> s.aps_counter,
                   block |-> b, total |-> s.total, asdu |-> s.asdu, copy |-> 0]

\* Mutant: the acknowledgement timer is not started again.
MutDrained(s) == [s EXCEPT !.due = {}]
\* next_due_fragment until nothing is due: the blocks go out in order and the
\* acknowledgement timer starts with the last one.
Drained(s) == IF s.due = {} THEN s ELSE [s EXCEPT !.due = {}, !.waiting = TRUE, !.waited = 0]
DueFrames(o, s) == {Frame(o, s, b) : b \in s.due}

\* poll_fragment_tx_timeout: what a due timer makes of the session.
TimedOut(s) == s.waiting /\ s.waited >= 1
Polled(s) ==
    IF ~TimedOut(s) THEN s
    ELSE [s EXCEPT !.retries = @ + 1, !.waiting = FALSE, !.due = @ \cup LowestUnacked(s)]

\* FragmentTxSession::apply_ack.
Newly(s, a) == {b \in TxWindow(s) : b \in a.bits /\ b \notin s.acked}
Applied(s, a) ==
    LET acked == s.acked \cup Newly(s, a)
        t     == [s EXCEPT !.acked = acked, !.due = @ \ acked, !.retries = 0, !.waiting = FALSE]
        next  == [t EXCEPT !.window_start = @ + WindowSize]
    IN  IF TxWindow(s) \subseteq acked /\ s.window_start + WindowSize < s.total
        THEN [next EXCEPT !.due = @ \cup TxWindow(next)]
        ELSE [t EXCEPT !.due = @ \cup LowestUnacked(t)]
Complete(s) == s.acked = 0..(s.total - 1)

Finish(o, status) ==
    /\ fragment_tx' = [fragment_tx EXCEPT ![o] = NoTx]
    /\ outcome' = [outcome EXCEPT ![o][fragment_tx[o].asdu] = status]

\* start_fragmented_tx: the whole first window is sent, unless the NWK layer
\* refuses the first block or a block cannot be secured.
StartFragmentedTx(o) ==
    /\ ~fragment_tx[o].active
    /\ sent[o] < MaxSends
    /\ LET a == sent[o] + 1
           s == [NoTx EXCEPT !.active = TRUE, !.asdu = a, !.aps_counter = aps_counter[o],
                             !.total = Total[a], !.due = 0..(Min({WindowSize, Total[a]}) - 1)]
       IN  /\ sent' = [sent EXCEPT ![o] = a]
           /\ aps_counter' = [aps_counter EXCEPT ![o] = @ + 1]
           /\ \/ /\ fragment_tx' = [fragment_tx EXCEPT ![o] = Drained(s)]
                 /\ net' = net \cup DueFrames(o, s)
                 /\ outcome' = [outcome EXCEPT ![o][a] = "inFlight"]
                 /\ UNCHANGED faults
              \/ /\ faults < MaxFaults
                 /\ faults' = faults + 1
                 /\ outcome' = [outcome EXCEPT ![o][a] = "Refused"]
                 /\ UNCHANGED <<fragment_tx, net>>
    /\ UNCHANGED <<rxVars, restarted, crowded, late, expired>>

\* service_fragment_tx, also reached from age_ack_table: the timer, then
\* every due block.
ServiceFragmentTx(o) ==
    /\ fragment_tx[o].active
    /\ LET s == fragment_tx[o]
           p == Polled(s)
       IN  \/ /\ TimedOut(s) /\ s.retries >= MaxFrameRetries
              /\ Finish(o, "NoAck")
              /\ UNCHANGED <<net, faults>>
           \/ /\ ~(TimedOut(s) /\ s.retries >= MaxFrameRetries)
              /\ p.due # {}
              /\ fragment_tx' = [fragment_tx EXCEPT ![o] = Drained(p)]
              /\ net' = net \cup DueFrames(o, p)
              /\ UNCHANGED <<outcome, faults>>
           \/ \* secure_fragment has no key or no counter left for block b
              /\ ~(TimedOut(s) /\ s.retries >= MaxFrameRetries)
              /\ faults < MaxFaults
              /\ faults' = faults + 1
              /\ \E b \in p.due : net' = net \cup {f \in DueFrames(o, p) : f.block < b}
              /\ Finish(o, "SecurityFail")
    /\ UNCHANGED <<aps_counter, sent, rxVars, restarted, crowded, late, expired>>

\* handle_fragment_ack.  The frame's own durable commit may fail afterwards:
\* then the runtime returns before service_fragmented_send and the due blocks
\* wait for the next maintenance.
HandleFragmentAck(f) ==
    /\ f \in net /\ f.kind = "ack"
    /\ LET o == f.dst
           s == fragment_tx[o]
           t == Applied(s, f)
           advances == /\ s.active /\ s.aps_counter = f.aps_counter
                       /\ f.window_start = s.window_start /\ Newly(s, f) # {}
       IN  \/ /\ ~advances
              /\ net' = net \ {f}
              /\ UNCHANGED <<fragment_tx, outcome, faults>>
           \/ /\ advances
              /\ IF Complete(t)
                 THEN /\ Finish(o, "Success")
                      /\ net' = net \ {f}
                      /\ UNCHANGED faults
                 ELSE \/ /\ fragment_tx' = [fragment_tx EXCEPT ![o] = Drained(t)]
                         /\ net' = (net \ {f}) \cup DueFrames(o, t)
                         /\ UNCHANGED <<outcome, faults>>
                      \/ /\ faults < MaxFaults
                         /\ faults' = faults + 1
                         /\ fragment_tx' = [fragment_tx EXCEPT ![o] = t]
                         /\ net' = net \ {f}
                         /\ UNCHANGED outcome
    /\ UNCHANGED <<aps_counter, sent, rxVars, restarted, crowded, late, expired>>

\* The originator restarts: ApsLayer::new, its session and counter are gone.
Restart(o) ==
    /\ o \notin restarted /\ Cardinality(restarted) < MaxRestarts
    /\ restarted' = restarted \cup {o}
    /\ aps_counter' = [aps_counter EXCEPT ![o] = 0]
    /\ fragment_tx' = [fragment_tx EXCEPT ![o] = NoTx]
    /\ outcome' = [outcome EXCEPT ![o] =
                     [a \in Requests |-> IF outcome[o][a] = "inFlight" THEN "Forgotten" ELSE outcome[o][a]]]
    /\ UNCHANGED <<sent, rxVars, net, faults, crowded, late, expired>>

-----------------------------------------------------------------------------
(* The receiver. *)

\* Mutant: sessions are told apart by their source only.
MutMatches(e, f) == e.active /\ e.src = f.src
Matches(e, f) == e.active /\ e.src = f.src /\ e.aps_counter = f.aps_counter

WindowEnd(e) == IF e.total_blocks = 0 THEN e.window_start + WindowSize
                ELSE Min({e.window_start + WindowSize, e.total_blocks})
WindowComplete(e) == e.total_blocks # 0 /\ e.window_start .. (WindowEnd(e) - 1) \subseteq Received(e)
IsComplete(e) == e.total_blocks # 0 /\ 0..(e.total_blocks - 1) \subseteq Received(e)

\* Mutant: the bitfield is cumulative, it covers the gaps below the newest block.
MutAckBits(e) == {b \in e.window_start .. (e.window_start + 7) :
                    b >= e.window_start + WindowSize \/ \E x \in Received(e) : b <= x}
\* ReassemblyEntry::ack: bits beyond the window and beyond the last block are 1.
AckBits(e) == {b \in e.window_start .. (e.window_start + 7) :
                 \/ b >= e.window_start + WindowSize
                 \/ e.total_blocks # 0 /\ b >= e.total_blocks
                 \/ b \in Received(e)}
AckFrame(f, ws, bits) == [kind |-> "ack", dst |-> f.src, aps_counter |-> f.aps_counter,
                          window_start |-> ws, bits |-> bits, copy |-> 0]

\* insert_block_inner from the point where the session is known: the session
\* with the total it has after this frame ...
WithTotal(e, f) == IF f.block = 0 /\ e.total_blocks = 0 THEN [e EXCEPT !.total_blocks = f.total] ELSE e
\* ... what makes the frame inconsistent with it ...
Contradicts(e, f) ==
    \/ f.block = 0 /\ e.total_blocks = 0 /\ \E b \in Received(e) : b >= f.total
    \/ f.block = 0 /\ e.total_blocks # 0 /\ e.total_blocks # f.total
    \/ f.block >= WithTotal(e, f).total_blocks /\ WithTotal(e, f).total_blocks # 0
Forgets(e, f) == f.block = 0 /\ e.total_blocks = 0 /\ \E b \in Received(e) : b >= f.total
\* ... what puts it outside the receive window ...
Outside(e, f) ==
    \/ e.delivered
    \/ f.block < e.window_start
    \/ f.block >= e.window_start + WindowSize
         /\ (~WindowComplete(e) \/ f.block >= e.window_start + 2 * WindowSize)
\* ... and the session that has stored it.
Stored(e, f) ==
    LET moved == f.block >= e.window_start + WindowSize
        new   == f.block \notin Received(e)
    IN  [e EXCEPT !.window_start = IF moved THEN @ + WindowSize ELSE @,
                  !.data[f.block] = IF new THEN f.asdu ELSE @,
                  !.idle = IF moved \/ new THEN 0 ELSE @]

FreshEntry(f) == [EmptyEntry EXCEPT !.active = TRUE, !.src = f.src, !.aps_counter = f.aps_counter]

\* The slot insert_block uses for a frame (none when all are taken) and the
\* session it finds or opens there.
SlotFor(es, f) ==
    LET hits == {i \in Slots : Matches(es[i], f)}
        free == {i \in Slots : ~es[i].active}
    IN  IF hits # {} THEN {Min(hits)} ELSE IF free # {} THEN {Min(free)} ELSE {}
SessionFor(e, f) == IF e.active THEN e ELSE FreshEntry(f)
\* After a rejection no session without a block is left behind.
Purged(es) == Reset(es, {i \in Slots : es[i].active /\ Received(es[i]) = {}})
\* The acknowledgement once a block is stored: the ASDU is complete, or every
\* later block of the window is there.
AckFor(n, f) ==
    IF IsComplete(n) \/ (f.block + 1) .. (WindowEnd(n) - 1) \subseteq Received(n)
    THEN {AckFrame(f, n.window_start, AckBits(n))} ELSE {}

\* rollback_block after a failed commit: the block is forgotten again, and
\* with its last block the session.
RolledBack(e, b) ==
    IF Received(e) = {b} THEN EmptyEntry ELSE [e EXCEPT !.data[b] = 0, !.delivered = FALSE]

Finalized(es) == Reset(es, {i \in Slots : es[i].delivered})

\* The ASDU of a completed session is handed up: whole if one request sent
\* all of its blocks.
Accept(e) ==
    LET asdus == {e.data[b] : b \in Received(e)}
    IN  IF Cardinality(asdus) = 1
        THEN /\ accepted' = [accepted EXCEPT ![e.src] =
                               [a \in Requests |-> Min({2, accepted[e.src][a] + (IF a \in asdus THEN 1 ELSE 0)})]]
             /\ UNCHANGED mixed
        ELSE /\ mixed' = mixed \cup {e.src}
             /\ UNCHANGED accepted

\* send_pending_aps_ack with acknowledgement A queued: it is sent, or the MAC
\* refuses it and it stays queued.
SendPendingAck(A, rest) ==
    \/ /\ net' = rest \cup A
       /\ pending_ack' = {}
       /\ UNCHANGED faults
    \/ /\ A # {} /\ faults < MaxFaults
       /\ faults' = faults + 1
       /\ net' = rest
       /\ pending_ack' = A

\* receive_fragment for a block of a transaction that is already delivered:
\* the final acknowledgement is repeated.
RepeatFinalAck(f, d) ==
    /\ entries' = Finalized(entries)
    /\ SendPendingAck({AckFrame(f, d.window, d.window .. (d.window + 7))}, net \ {f})
    /\ UNCHANGED <<dup_table, accepted, mixed>>

\* insert_block drops the frame; the sessions become es.
DropBlock(f, es) ==
    /\ entries' = es
    /\ SendPendingAck(pending_ack, net \ {f})
    /\ UNCHANGED <<dup_table, accepted, mixed>>

\* insert_block stores the block, or already holds it, and slot i of es becomes
\* n; the commit of the frame's effects follows.
StoreBlock(f, es, i, n, new) ==
    \/ \* complete_data_persistence, and the acknowledgement goes out
       /\ IF IsComplete(n)
          THEN /\ entries' = [es EXCEPT ![i] = [n EXCEPT !.delivered = TRUE]]
               /\ dup_table' = dup_table \cup {[src |-> f.src, aps_counter |-> f.aps_counter,
                                                window |-> n.window_start, age |-> 0]}
               /\ Accept(n)
          ELSE /\ entries' = [es EXCEPT ![i] = n]
               /\ UNCHANGED <<dup_table, accepted, mixed>>
       /\ SendPendingAck(IF AckFor(n, f) # {} THEN AckFor(n, f) ELSE pending_ack, net \ {f})
    \/ \* abort_data_persistence, and the acknowledgement is discarded
       /\ faults < MaxFaults
       /\ faults' = faults + 1
       /\ entries' = [es EXCEPT ![i] = IF new THEN RolledBack(n, f.block) ELSE n]
       /\ pending_ack' = {}
       /\ net' = net \ {f}
       /\ UNCHANGED <<dup_table, accepted, mixed>>

\* receive_fragment with insert_block.
OfferBlock(f, es) ==
    \/ SlotFor(es, f) = {} /\ DropBlock(f, Purged(es))
    \/ \E i \in SlotFor(es, f) : \E e \in {SessionFor(es[i], f)} : \E w \in {WithTotal(e, f)} :
         \/ /\ Contradicts(e, f)
            /\ DropBlock(f, Purged(IF Forgets(e, f) THEN Reset(es, {i}) ELSE es))
         \/ /\ ~Contradicts(e, f) /\ Outside(w, f)
            /\ DropBlock(f, [es EXCEPT ![i] = w])
         \/ /\ ~Contradicts(e, f) /\ ~Outside(w, f)
            /\ \E n \in {Stored(w, f)} : StoreBlock(f, es, i, n, f.block \notin Received(w))

ReceiveFragment(f) ==
    /\ f \in net /\ f.kind = "block"
    /\ LET done == {d \in dup_table : d.src = f.src /\ d.aps_counter = f.aps_counter}
       IN  \/ \E d \in done : RepeatFinalAck(f, d)
           \/ done = {} /\ OfferBlock(f, Finalized(entries))
    /\ UNCHANGED <<txVars, restarted, crowded, late, expired>>

\* Any other frame the receiver accepts: delivered sessions are freed, a kept
\* acknowledgement is sent, and the frame's own duplicate entry may displace
\* the oldest one of a full table.
ReceiveOther ==
    /\ entries' = Finalized(entries)
    /\ \/ UNCHANGED <<dup_table, faults, crowded>>
       \/ /\ faults < MaxFaults /\ dup_table # {}
          /\ faults' = faults + 1
          /\ \E d \in dup_table : /\ \A x \in dup_table : x.age <= d.age
                                  /\ dup_table' = dup_table \ {d}
                                  /\ crowded' = crowded \cup {d.src}
    /\ net' = net \cup pending_ack
    /\ pending_ack' = {}
    /\ <<entries, pending_ack, dup_table>>' # <<entries, pending_ack, dup_table>>
    /\ UNCHANGED <<txVars, accepted, mixed, restarted, late, expired>>

\* Mutant: a session whose first block never came does not expire.
MutStale == {i \in Slots : /\ entries[i].active /\ entries[i].total_blocks # 0
                           /\ ~entries[i].delivered /\ entries[i].idle >= RxTimeout}
\* age_dup_table: sessions whose window has not moved for RxTimeout.
Stale == {i \in Slots : entries[i].active /\ ~entries[i].delivered /\ entries[i].idle >= RxTimeout}
ExpireSessions ==
    /\ Stale # {}
    /\ entries' = Reset(entries, Stale)
    /\ expired' = expired \cup {<<entries[i].src, entries[i].aps_counter + 1>> : i \in Stale}
    /\ UNCHANGED <<txVars, dup_table, pending_ack, net, accepted, mixed, faults, restarted, crowded, late>>

-----------------------------------------------------------------------------
(* The network and the clock. *)

Lose(f) ==
    /\ f \in net /\ faults < MaxFaults
    /\ net' = net \ {f}
    /\ faults' = faults + 1
    /\ UNCHANGED <<txVars, rxVars, restarted, crowded, late, expired>>

\* A frame is repeated on its way: a second copy of it arrives.
Repeat(f) ==
    /\ f \in net /\ faults < MaxFaults /\ f.copy = 0
    /\ net' = net \cup {[f EXCEPT !.copy = 1]}
    /\ faults' = faults + 1
    /\ UNCHANGED <<txVars, rxVars, restarted, crowded, late, expired>>

Older(n, cap) == Min({n + 1, cap})
\* One acknowledgement wait passes.  A frame that outlives it is late, a fault.
Tick ==
    /\ net = {} \/ faults < MaxFaults
    /\ faults' = IF net = {} THEN faults ELSE faults + 1
    /\ fragment_tx' = [o \in Originators |-> IF fragment_tx[o].active /\ fragment_tx[o].waiting
                                            THEN [fragment_tx[o] EXCEPT !.waited = Older(@, 1)]
                                            ELSE fragment_tx[o]]
    /\ entries' = [i \in Slots |-> IF entries[i].active
                                   THEN [entries[i] EXCEPT !.idle = Older(@, RxTimeout)] ELSE entries[i]]
    /\ dup_table' = {[d EXCEPT !.age = @ + 1] : d \in {x \in dup_table : x.age + 1 < DupTimeout}}
    /\ late' = late \cup {f.src : f \in {x \in net : x.kind = "block"}}
    /\ UNCHANGED <<aps_counter, net, sent, outcome, pending_ack, accepted, mixed, restarted, crowded, expired>>

-----------------------------------------------------------------------------
Init ==
    /\ fragment_tx = [o \in Originators |-> NoTx]
    /\ aps_counter = [o \in Originators |-> 0]
    /\ entries = [i \in Slots |-> EmptyEntry]
    /\ dup_table = {}
    /\ pending_ack = {}
    /\ net = {}
    /\ sent = [o \in Originators |-> 0]
    /\ outcome = [o \in Originators |-> [a \in Requests |-> "unused"]]
    /\ accepted = [o \in Originators |-> [a \in Requests |-> 0]]
    /\ mixed = {}
    /\ faults = 0
    /\ restarted = {}
    /\ crowded = {}
    /\ late = {}
    /\ expired = {}

Next ==
    \/ \E o \in Originators : StartFragmentedTx(o) \/ ServiceFragmentTx(o) \/ Restart(o)
    \/ \E f \in net : HandleFragmentAck(f) \/ ReceiveFragment(f) \/ Lose(f) \/ Repeat(f)
    \/ ReceiveOther
    \/ ExpireSessions
    \/ Tick

Spec == Init /\ [][Next]_vars

\* Every frame in the air arrives or is lost in the end, the clock runs, and
\* maintenance comes round on both sides.
FairSpec ==
    /\ Spec
    /\ []<>(net = {})
    /\ WF_vars(Tick)
    /\ WF_vars(ExpireSessions)
    /\ \A o \in Originators : WF_vars(ServiceFragmentTx(o))

-----------------------------------------------------------------------------
\* The confirm says SUCCESS only for an ASDU the receiver handed up and
\* committed, whatever was lost, repeated or rolled back on the way (fragment_tx.rs
\* handle_fragment_ack against apsde.rs receive_fragment), with two exceptions:
\* the originator restarted and reused the APS counter, or the receiver's session
\* expired between two acknowledgements.  The originator then counts blocks the
\* receiver has forgotten, and copies of the others complete its window.
ConfirmedIsAccepted ==
    \A o \in Originators \ restarted, a \in Requests :
        outcome[o][a] = "Success" => accepted[o][a] > 0 \/ <<o, a>> \in expired

\* Blocks of two ASDUs are never put together, unless the originator restarted
\* while the receiver still held a session under the reused APS counter.
AcceptedIsWhole == mixed \subseteq restarted

\* An ASDU is handed up at most once, although retransmissions outlive the
\* duplicate-rejection entry (it lives two waits, apsDuplicateRejectionTimeout,
\* and the retries span three): the timer repeats the lowest unacknowledged
\* block only, and that never makes up the whole ASDU again.  The exceptions are
\* an entry that other traffic displaced, blocks that arrive after a wait, and
\* APS counters used again after a restart.
AcceptedOnce ==
    \A o \in Originators \ (crowded \cup late \cup restarted), a \in Requests : accepted[o][a] <= 1

\* A request in flight is confirmed in the end, with whatever result.
EveryRequestConfirmed ==
    \A o \in Originators, a \in Requests :
        outcome[o][a] = "inFlight" ~> outcome[o][a] # "inFlight"

\* A session that is not delivered is completed or expires: no lost block and
\* no abandoned transaction holds a reassembly slot for ever.
SessionsEnd ==
    \A i \in Slots :
        (entries[i].active /\ ~entries[i].delivered) ~> (~entries[i].active \/ entries[i].delivered)

\* "A lost block is recovered by the acknowledgement timer": a transaction
\* fails with NO_ACK only after more faults than there are retries.
LostBlockRecovered ==
    \A o \in Originators, a \in Requests :
        outcome[o][a] = "NoAck" => faults > MaxFrameRetries
=============================================================================
