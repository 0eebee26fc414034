---------------------------- MODULE TclkExchange ----------------------------
(***************************************************************************)
(* The unique Trust Center link key (TCLK) exchange of a joining node:     *)
(* zigbee-bdb/src/tclk_exchange.rs (stages, budgets, timers) driven by     *)
(* step_tclk_exchange in zigbee-bdb/src/steering.rs.  Once the node has the *)
(* network key it probes the Trust Center's Node Descriptor, asks for a     *)
(* unique link key, proves possession with Verify-Key, and only commits the *)
(* commissioned network when a Confirm-Key authenticated by that key        *)
(* arrives.                                                                 *)
(*                                                                          *)
(* Between two steps of the machine the APS layer processes whatever the    *)
(* network delivers (a late Confirm-Key, another Transport-Key), time       *)
(* passes on a wrapping clock, and the durable store may fail.  The Trust   *)
(* Center and the network are external: the Trust Center may send a key     *)
(* unasked, answer late, never, or repeatedly; what is in flight may never  *)
(* arrive.  It does not hand out again a key it has replaced.               *)
(*                                                                          *)
(* The APS counters of confirmed and rejected keys are only ever compared   *)
(* with the baseline taken at the last Verify-Key, so they are the two      *)
(* flags confirmOk and confirmBad ("above the baseline").  Counters and     *)
(* their reservations are the subject of CounterReservation.                *)
(***************************************************************************)
EXTENDS Integers, FiniteSets

CONSTANTS
    Keys,             \* unique link keys the Trust Center may generate
    Default,          \* the preconfigured (global or install-code) link key
    JoinKey,          \* the key the node joined with
    NoKey,            \* no Trust Center key-pair entry
    MessageAttempts,  \* TCLK_MESSAGE_ATTEMPTS
    AttemptsMax,      \* bdbTCLinkKeyExchangeAttemptsMax, not yet clamped
    StartDelay, Backoff, Window, Margin,  \* timing constants, in clock units
    ClockModulus,     \* the monotonic clock counts modulo this (2^32 us)
    ArmTimes,         \* clock values at which an exchange may be armed
    MaxLag,           \* a step that can make progress is taken within this time
    MaxInFlight,      \* bound: messages on their way to the node
    MaxExchanges      \* bound: steering attempts

ASSUME ExchangeAssumption ==
    /\ Default \notin Keys /\ NoKey \notin Keys \cup {Default, JoinKey}
    /\ JoinKey \notin Keys
    /\ {MessageAttempts, StartDelay, Backoff, Window, Margin,
        MaxInFlight, MaxExchanges, ClockModulus} \subseteq Nat \ {0}
    /\ AttemptsMax \in Nat /\ MaxLag \in Nat
    /\ ArmTimes \subseteq 0..(ClockModulus - 1)

VARIABLES
    stage,       \* TclkExchange::stage, "Idle" when no exchange is armed
    nodeDescBudget, requestKeyBudget, verifyKeyBudget,
    now, armedAt, stageStartedAt,
    lag,         \* for how long a step has been due
    slot,        \* the ZDO pending-response slot of the Node_Desc_req
    verifySent,  \* verify_key_was_sent
    confirmOk, confirmBad,
    entry,       \* key of the Trust Center's key-pair entry
    record,      \* the durable record: reserved TCLK and the commissioned flag
    tcKey,       \* external: the key the Trust Center keeps for this node
    spent,       \* external: keys it has replaced
    proofs,      \* keys whose Verify-Key hash has been transmitted
    toNode,      \* messages on their way to the node
    confirmed,   \* history: keys confirmed to the node in this exchange
    legacyTc,    \* history: the Trust Center said it is pre-R21
    exchanges

budgets == <<nodeDescBudget, requestKeyBudget, verifyKeyBudget>>
clock == <<now, armedAt, stageStartedAt>>
external == <<tcKey, spent>>
history == <<confirmed, legacyTc, exchanges>>
vars == <<stage, budgets, clock, lag, slot, verifySent, confirmOk, confirmBad,
          entry, record, external, proofs, toNode, history>>

-----------------------------------------------------------------------------
\* The stages and the time each may last.

Terminal == {"Complete", "Failed"}
SendStages == {"SendNodeDesc", "SendRequestKey", "SendVerifyKey"}
RetryStages == {"RetryNodeDesc", "RetryRequestKey", "RetryVerifyKey"}
AwaitStages == {"AwaitNodeDesc", "AwaitTclk", "AwaitConfirmKey"}
Running == {"StartDelay"} \cup SendStages \cup RetryStages \cup AwaitStages

AttemptsUnclamped == AttemptsMax

\* with_attempts_max clamps the attribute to 1..TCLK_MESSAGE_ATTEMPTS.
Attempts ==
    IF AttemptsMax < 1 THEN 1
    ELSE IF AttemptsMax > MessageAttempts THEN MessageAttempts ELSE AttemptsMax

Deadline ==
    StartDelay + 3 * MessageAttempts * Window
               + 3 * (MessageAttempts - 1) * Backoff + Margin

ElapsedWithoutWrap(since) == IF now < since THEN 0 ELSE now - since

Elapsed(since) == (now - since) % ClockModulus

DeadlineExpired == Elapsed(armedAt) >= Deadline

StageTimedOut ==
    Elapsed(stageStartedAt) >= IF stage \in RetryStages THEN Backoff ELSE Window

Enter(s) ==
    /\ stage' = s
    /\ stageStartedAt' = now
    /\ UNCHANGED <<now, armedAt>>

Stay == UNCHANGED <<stage, clock>>

\* Neither the preconfigured key nor the key joined with is a replacement.
HasReplacement == entry \notin {NoKey, Default, JoinKey}

-----------------------------------------------------------------------------
\* Durable persistence.  A store that reports failure may or may not have
\* reached flash; the machine treats it as not stored.

NoRecord == [key |-> NoKey, commissioned |-> FALSE]

Reserved(k) == [record EXCEPT !.key = k]

Persisted(r) == record' = r

NotPersisted(r) == record' \in {record, r}

CommitAcceptsAnyKey == entry # NoKey

\* commit_network accepts only the key that was reserved.
CommitAccepted == record.key = entry

-----------------------------------------------------------------------------
\* Terminal transitions.

LeaveWithoutRelease == slot' = slot /\ entry' = NoKey

\* cancel_pending_tclk_response and leave_after_initial_commissioning_failure.
ReleaseAndLeave == slot' = "free" /\ entry' = NoKey

Fail ==
    /\ stage' = "Failed"
    /\ ReleaseAndLeave
    /\ UNCHANGED clock

Succeed == stage' = "Complete" /\ UNCHANGED clock

\* finalize_tclk_success: opening the permit-joining window may be refused,
\* the commit may be refused or fail, and only then is the node commissioned.
FinalizeSuccess ==
    LET committed == [record EXCEPT !.commissioned = TRUE] IN
    /\ \/ Fail /\ UNCHANGED record
       \/ CommitAccepted /\ Fail /\ NotPersisted(committed)
       \/ /\ CommitAccepted /\ Persisted(committed)
          /\ Succeed /\ UNCHANGED <<slot, entry>>
    /\ UNCHANGED <<budgets, verifySent, confirmOk, confirmBad, proofs, legacyTc>>

\* finalize_pre_r21: reserve and install the preconfigured key, then commit.
FinalizePreR21 ==
    LET reserved == Reserved(Default)
        committed == [reserved EXCEPT !.commissioned = TRUE]
    IN
    /\ legacyTc' = TRUE
    /\ \/ Fail /\ record' \in {record, reserved, committed}
       \/ /\ Persisted(committed) /\ Succeed
          /\ slot' = "free" /\ entry' = Default
    /\ UNCHANGED <<budgets, verifySent, confirmOk, confirmBad, proofs>>

-----------------------------------------------------------------------------
\* One step of the machine: advance_tclk_exchange called from a runtime tick.

StepDeadline ==
    /\ Fail
    /\ UNCHANGED <<budgets, verifySent, confirmOk, confirmBad, record, proofs,
                   legacyTc>>

StepStartDelay ==
    /\ stage = "StartDelay"
    /\ IF Elapsed(armedAt) >= StartDelay THEN Enter("SendNodeDesc") ELSE Stay
    /\ UNCHANGED <<budgets, slot, verifySent, confirmOk, confirmBad, entry,
                   record, proofs, legacyTc>>

\* Reserve the installed replacement, then verify it; a store failure leaves.
ReserveAndVerify ==
    /\ \/ Persisted(Reserved(entry)) /\ Enter("SendVerifyKey")
          /\ UNCHANGED <<slot, entry>>
       \/ NotPersisted(Reserved(entry)) /\ Fail
    /\ UNCHANGED <<budgets, verifySent, confirmOk, confirmBad, proofs, legacyTc>>

StepSendNodeDesc ==
    /\ stage = "SendNodeDesc"
    /\ \/ HasReplacement /\ ReserveAndVerify
       \/ /\ ~HasReplacement /\ nodeDescBudget = 0 /\ Fail
          /\ UNCHANGED <<budgets, verifySent, confirmOk, confirmBad, record,
                         proofs, legacyTc>>
       \/ /\ ~HasReplacement /\ nodeDescBudget > 0
          /\ nodeDescBudget' = nodeDescBudget - 1
          /\ \/ slot' = "waiting" /\ Enter("AwaitNodeDesc")
             \/ /\ slot' = slot
                /\ IF nodeDescBudget' > 0 THEN Enter("RetryNodeDesc") ELSE Stay
          /\ UNCHANGED <<requestKeyBudget, verifyKeyBudget, verifySent,
                         confirmOk, confirmBad, entry, record, proofs, legacyTc>>

StepRetry ==
    /\ stage \in RetryStages
    /\ IF ~StageTimedOut THEN Stay
       ELSE Enter(CASE stage = "RetryNodeDesc" -> "SendNodeDesc"
                    [] stage = "RetryRequestKey" -> "SendRequestKey"
                    [] stage = "RetryVerifyKey" -> "SendVerifyKey")
    /\ UNCHANGED <<budgets, slot, verifySent, confirmOk, confirmBad, entry,
                   record, proofs, legacyTc>>

\* The answer is an R21 (or later) descriptor, a pre-R21 one, or unusable
\* (malformed, an error status, another address, no descriptor).
StepAwaitNodeDesc ==
    /\ stage = "AwaitNodeDesc"
    /\ \/ slot = "pre" /\ FinalizePreR21
       \/ /\ slot # "pre"
          /\ CASE slot = "r21" -> slot' = "free" /\ Enter("SendRequestKey")
               [] slot = "bad" -> slot' = "free" /\ Enter("SendNodeDesc")
               [] slot = "waiting" ->
                    IF StageTimedOut
                    THEN slot' = "free" /\ Enter("SendNodeDesc")
                    ELSE slot' = slot /\ Stay
          /\ UNCHANGED <<budgets, verifySent, confirmOk, confirmBad, entry,
                         record, proofs, legacyTc>>

StepSendRequestKey ==
    /\ stage = "SendRequestKey"
    /\ \/ /\ requestKeyBudget = 0 /\ Fail
          /\ UNCHANGED budgets
       \/ /\ requestKeyBudget > 0
          /\ requestKeyBudget' = requestKeyBudget - 1
          /\ \/ Enter("AwaitTclk")
             \/ IF requestKeyBudget' > 0 THEN Enter("RetryRequestKey") ELSE Stay
          /\ UNCHANGED <<nodeDescBudget, verifyKeyBudget, slot, entry>>
    /\ UNCHANGED <<verifySent, confirmOk, confirmBad, record, proofs, legacyTc>>

StepAwaitTclk ==
    /\ stage = "AwaitTclk"
    /\ \/ HasReplacement /\ ReserveAndVerify
       \/ /\ ~HasReplacement
          /\ IF StageTimedOut THEN Enter("SendRequestKey") ELSE Stay
          /\ UNCHANGED <<budgets, slot, verifySent, confirmOk, confirmBad,
                         entry, record, proofs, legacyTc>>

\* clear_unconfirmed_tc_link_key falls back to a pre-provisioned join key.
WithoutReplacement ==
    IF ~HasReplacement THEN entry
    ELSE IF JoinKey # Default THEN JoinKey ELSE NoKey

LateConfirmOverlooked == FALSE

\* A late Confirm-Key is consumed before the message is transmitted again.
LateConfirm == verifySent /\ confirmOk

LateRejection == verifySent /\ ~confirmOk /\ confirmBad

TransmitVerifyKey ==
    /\ verifyKeyBudget' = verifyKeyBudget - 1
    /\ confirmOk' = FALSE /\ confirmBad' = FALSE
    /\ \/ verifySent' = TRUE /\ proofs' = proofs \cup {entry}
          /\ Enter("AwaitConfirmKey")
       \/ /\ UNCHANGED <<verifySent, proofs>>
          /\ IF verifyKeyBudget' > 0 THEN Enter("RetryVerifyKey") ELSE Stay
    /\ UNCHANGED <<nodeDescBudget, requestKeyBudget, entry, slot>>

RequestReplacement ==
    /\ entry' = WithoutReplacement
    /\ verifyKeyBudget' = Attempts /\ verifySent' = FALSE
    /\ Enter("SendRequestKey")
    /\ IF LateRejection THEN confirmOk' = FALSE /\ confirmBad' = FALSE
       ELSE UNCHANGED <<confirmOk, confirmBad>>
    /\ UNCHANGED <<nodeDescBudget, requestKeyBudget, proofs, slot>>

StepSendVerifyKey ==
    /\ stage = "SendVerifyKey"
    /\ \/ LateConfirm /\ FinalizeSuccess
       \/ /\ ~LateConfirm
          /\ \/ /\ LateRejection /\ verifyKeyBudget > 0
                /\ Enter("RetryVerifyKey")
                /\ confirmOk' = FALSE /\ confirmBad' = FALSE
                /\ UNCHANGED <<budgets, verifySent, entry, slot, proofs>>
             \/ /\ ~LateRejection /\ verifyKeyBudget > 0 /\ TransmitVerifyKey
             \/ verifyKeyBudget = 0 /\ requestKeyBudget > 0 /\ RequestReplacement
             \/ /\ verifyKeyBudget = 0 /\ requestKeyBudget = 0 /\ Fail
                /\ UNCHANGED <<budgets, verifySent, confirmOk, confirmBad, proofs>>
          /\ UNCHANGED <<record, legacyTc>>

StepAwaitConfirmKey ==
    /\ stage = "AwaitConfirmKey"
    /\ \/ confirmOk /\ FinalizeSuccess
       \/ /\ ~confirmOk
          /\ IF confirmBad
             THEN /\ confirmBad' = FALSE
                  /\ Enter(IF verifyKeyBudget > 0 THEN "RetryVerifyKey"
                           ELSE "SendVerifyKey")
             ELSE /\ UNCHANGED confirmBad
                  /\ IF StageTimedOut THEN Enter("SendVerifyKey") ELSE Stay
          /\ UNCHANGED <<budgets, slot, verifySent, confirmOk, entry, record,
                         proofs, legacyTc>>

Step ==
    /\ stage \in Running
    /\ lag' = 0
    /\ \/ DeadlineExpired /\ StepDeadline
       \/ /\ ~DeadlineExpired
          /\ \/ StepStartDelay \/ StepSendNodeDesc \/ StepRetry
             \/ StepAwaitNodeDesc \/ StepSendRequestKey \/ StepAwaitTclk
             \/ StepSendVerifyKey \/ StepAwaitConfirmKey
    /\ UNCHANGED <<external, toNode, confirmed, exchanges>>

-----------------------------------------------------------------------------
\* What the APS and ZDO layers do between two steps.

DeliverNodeDesc(answer) ==
    /\ slot = "waiting"
    /\ slot' = answer
    /\ UNCHANGED <<stage, budgets, clock, lag, verifySent, confirmOk,
                   confirmBad, entry, record, external, proofs, toNode, history>>

\* An APS-secured frame opens under the key-pair entry, and under the
\* preconfigured key only while there is no entry.
Opens(under) == under = IF entry = NoKey THEN Default ELSE entry

DeliverTransportKey(m) ==
    /\ m.type = "TransportKey" /\ stage \in Running
    /\ entry' = IF Opens(m.under) THEN m.key ELSE entry
    /\ toNode' = toNode \ {m}
    /\ UNCHANGED <<stage, budgets, clock, lag, slot, verifySent, confirmOk,
                   confirmBad, record, external, proofs, history>>

DeliverConfirmKey(m) ==
    LET authenticated == Opens(m.under) /\ m.under # Default IN
    /\ m.type = "ConfirmKey" /\ stage \in Running
    /\ confirmOk' = (confirmOk \/ (authenticated /\ m.ok))
    /\ confirmBad' = (confirmBad \/ (authenticated /\ ~m.ok))
    /\ confirmed' = IF authenticated /\ m.ok THEN confirmed \cup {m.under}
                    ELSE confirmed
    /\ toNode' = toNode \ {m}
    /\ UNCHANGED <<stage, budgets, clock, lag, slot, verifySent, entry, record,
                   external, proofs, legacyTc, exchanges>>

\* The parent told the node to leave before anything was committed.
AbandonInitialCommissioning ==
    /\ stage \in Running
    /\ stage' = "Idle"
    /\ ReleaseAndLeave
    /\ UNCHANGED <<budgets, clock, lag, verifySent, confirmOk, confirmBad,
                   record, external, proofs, toNode, history>>

\* A step now would do something: transmit, consume what arrived, or find a
\* timer expired.
StepDue ==
    \/ DeadlineExpired
    \/ stage \in SendStages
    \/ stage = "StartDelay" /\ Elapsed(armedAt) >= StartDelay
    \/ stage \in RetryStages \cup AwaitStages /\ StageTimedOut
    \/ slot \notin {"free", "waiting"}
    \/ stage = "AwaitTclk" /\ HasReplacement
    \/ stage = "AwaitConfirmKey" /\ (confirmOk \/ confirmBad)

\* The runtime advances the exchange on every tick, so a due step is late by
\* at most MaxLag.  The clock matters only while an exchange runs; Arm picks
\* the time it has reached when the next one starts.
Tick ==
    /\ stage \in Running
    /\ StepDue => lag < MaxLag
    /\ now' = (now + 1) % ClockModulus
    /\ lag' = IF StepDue THEN lag + 1 ELSE 0
    /\ UNCHANGED <<stage, budgets, armedAt, stageStartedAt, slot, verifySent,
                   confirmOk, confirmBad, entry, record, external, proofs,
                   toNode, history>>

\* A join reached the network: reserve_network_security cleared the record,
\* and the exchange is armed right after Device_annce.
Arm ==
    /\ stage \in {"Idle", "Failed"}
    /\ exchanges < MaxExchanges
    /\ exchanges' = exchanges + 1
    /\ stage' = "StartDelay"
    /\ now' \in ArmTimes /\ armedAt' = now' /\ stageStartedAt' = now'
    /\ lag' = 0
    /\ nodeDescBudget' = Attempts
    /\ requestKeyBudget' = Attempts
    /\ verifyKeyBudget' = Attempts
    /\ verifySent' = FALSE /\ confirmOk' = FALSE /\ confirmBad' = FALSE
    /\ entry' = IF JoinKey = Default THEN NoKey ELSE JoinKey
    /\ record' = NoRecord
    /\ confirmed' = {} /\ legacyTc' = FALSE
    /\ UNCHANGED <<slot, external, proofs, toNode>>

-----------------------------------------------------------------------------
\* The Trust Center.

TcSendsKey(k, under) ==
    /\ Cardinality(toNode) < MaxInFlight
    /\ k \notin spent
    /\ under \in {JoinKey, tcKey}
    /\ tcKey' = k
    /\ spent' = spent \cup ({tcKey} \ {k, Default})
    /\ toNode' = toNode \cup {[type |-> "TransportKey", key |-> k, under |-> under]}
    /\ UNCHANGED <<stage, budgets, clock, lag, slot, verifySent, confirmOk,
                   confirmBad, entry, record, proofs, history>>

\* It confirms a Verify-Key that proves its key, or rejects it (it may have
\* replaced the key since), under its own key.
TcAnswersVerify(k) ==
    /\ Cardinality(toNode) < MaxInFlight
    /\ tcKey # Default
    /\ \E ok \in {k = tcKey, FALSE} :
         toNode' = toNode \cup {[type |-> "ConfirmKey", under |-> tcKey, ok |-> ok]}
    /\ UNCHANGED <<stage, budgets, clock, lag, slot, verifySent, confirmOk,
                   confirmBad, entry, record, external, proofs, history>>

-----------------------------------------------------------------------------
Init ==
    /\ stage = "Idle"
    /\ nodeDescBudget = 0 /\ requestKeyBudget = 0 /\ verifyKeyBudget = 0
    /\ now \in ArmTimes /\ armedAt = now /\ stageStartedAt = now /\ lag = 0
    /\ slot = "free"
    /\ verifySent = FALSE /\ confirmOk = FALSE /\ confirmBad = FALSE
    /\ entry = NoKey /\ record = NoRecord
    /\ tcKey = Default /\ spent = {}
    /\ proofs = {} /\ toNode = {}
    /\ confirmed = {} /\ legacyTc = FALSE /\ exchanges = 0

Next ==
    \/ Step
    \/ \E answer \in {"r21", "pre", "bad"} : DeliverNodeDesc(answer)
    \/ \E m \in toNode : DeliverTransportKey(m) \/ DeliverConfirmKey(m)
    \/ AbandonInitialCommissioning
    \/ Tick
    \/ Arm
    \/ \E k \in Keys, under \in {JoinKey} \cup Keys : TcSendsKey(k, under)
    \/ \E k \in proofs : TcAnswersVerify(k)

Spec == Init /\ [][Next]_vars

\* The runtime advances an armed exchange on every tick, and time passes.
FairSpec == Spec /\ WF_vars(Step) /\ WF_vars(Tick)

-----------------------------------------------------------------------------
LinkKeys == Keys \cup {Default, JoinKey}

Messages ==
    [type : {"TransportKey"}, key : Keys, under : LinkKeys]
        \cup [type : {"ConfirmKey"}, under : Keys, ok : BOOLEAN]

\* The type invariant: every stage, timer, budget and message of the exchange
\* stays in its range, and no budget exceeds TCLK_MESSAGE_ATTEMPTS.
TypeOK ==
    /\ stage \in Running \cup Terminal \cup {"Idle"}
    /\ {nodeDescBudget, requestKeyBudget, verifyKeyBudget}
            \subseteq 0..MessageAttempts
    /\ {now, armedAt, stageStartedAt} \subseteq 0..(ClockModulus - 1)
    /\ lag \in 0..MaxLag
    /\ slot \in {"free", "waiting", "r21", "pre", "bad"}
    /\ {verifySent, confirmOk, confirmBad, legacyTc} \subseteq BOOLEAN
    /\ entry \in LinkKeys \cup {NoKey}
    /\ record \in [key : LinkKeys \cup {NoKey}, commissioned : BOOLEAN]
    /\ tcKey \in Keys \cup {Default} /\ spent \subseteq Keys
    /\ proofs \subseteq LinkKeys /\ confirmed \subseteq LinkKeys
    /\ toNode \subseteq Messages /\ exchanges \in 0..MaxExchanges

\* A network is committed as commissioned only with a key the Trust Center
\* confirmed to this node during this exchange, whatever keys and answers
\* arrived between the steps, or with the preconfigured key after a pre-R21
\* Trust Center identified itself.
CommittedKeyConfirmed ==
    record.commissioned =>
        \/ record.key \in confirmed
        \/ record.key = Default /\ legacyTc

\* The exchange owns a ZDO pending-response slot exactly while it awaits the
\* Node_Desc_rsp: no timeout, deadline, failure or abandoned join leaks it.
SlotOwnedWhileAwaiting == (stage = "AwaitNodeDesc") <=> (slot # "free")

\* A Verify-Key is never transmitted again once its Confirm-Key has arrived,
\* even when the confirmation lost the race with the response window.
AnsweredVerifyNotResent ==
    [][(verifySent /\ confirmOk /\ {stage, stage'} \subseteq Running) =>
           verifyKeyBudget' >= verifyKeyBudget /\ confirmOk']_vars

\* Every armed exchange ends, whatever is lost, delayed or rejected and
\* wherever the clock wraps, while the runtime keeps ticking.
ExchangeEnds == stage \in Running ~> stage \notin Running
=============================================================================
