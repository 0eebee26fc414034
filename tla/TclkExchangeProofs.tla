------------------------- MODULE TclkExchangeProofs -------------------------
(***************************************************************************)
(* Proofs about TclkExchange, for every set of link keys, every retry      *)
(* budget, every timing and every bound on what is in flight.              *)
(***************************************************************************)
EXTENDS TclkExchange, TLAPS

Stages == Running \cup Terminal \cup {"Idle"}
Slots == {"free", "waiting", "r21", "pre", "bad"}
RecordType == [key : LinkKeys \cup {NoKey}, commissioned : BOOLEAN]

\* The type invariant, one variable at a time.
Typed ==
    /\ stage \in Stages
    /\ nodeDescBudget \in 0..MessageAttempts
    /\ requestKeyBudget \in 0..MessageAttempts
    /\ verifyKeyBudget \in 0..MessageAttempts
    /\ now \in 0..(ClockModulus - 1)
    /\ armedAt \in 0..(ClockModulus - 1)
    /\ stageStartedAt \in 0..(ClockModulus - 1)
    /\ lag \in 0..MaxLag
    /\ slot \in Slots
    /\ verifySent \in BOOLEAN /\ confirmOk \in BOOLEAN
    /\ confirmBad \in BOOLEAN /\ legacyTc \in BOOLEAN
    /\ entry \in LinkKeys \cup {NoKey}
    /\ record \in RecordType
    /\ tcKey \in Keys \cup {Default} /\ spent \subseteq Keys
    /\ proofs \subseteq LinkKeys /\ confirmed \subseteq LinkKeys
    /\ toNode \subseteq Messages /\ exchanges \in 0..MaxExchanges

\* Typed is the type invariant.
LEMMA TypeParts == (TypeOK <=> Typed) /\ (TypeOK' <=> Typed')
<1>1. TypeOK <=> Typed
  BY DEF TypeOK, Typed, Stages, Slots, RecordType
<1>2. TypeOK' <=> Typed'
  BY DEF TypeOK, Typed, Stages, Slots, RecordType
<1>3. QED
  BY <1>1, <1>2

\* The constants, in the form the provers need.
LEMMA Constants ==
    /\ MessageAttempts \in Nat \ {0} /\ MaxLag \in Nat
    /\ ClockModulus \in Nat \ {0} /\ MaxExchanges \in Nat
    /\ AttemptsMax \in Nat
    /\ Attempts \in 1..MessageAttempts
    /\ \A t \in ArmTimes : t \in 0..(ClockModulus - 1)
    /\ \A t \in 0..(ClockModulus - 1) :
         (t + 1) % ClockModulus \in 0..(ClockModulus - 1)
<1>1. /\ MessageAttempts \in Nat \ {0} /\ MaxLag \in Nat
      /\ ClockModulus \in Nat \ {0} /\ MaxExchanges \in Nat
      /\ AttemptsMax \in Nat /\ ArmTimes \subseteq 0..(ClockModulus - 1)
  BY ExchangeAssumption
<1>2. Attempts \in 1..MessageAttempts
  BY <1>1 DEF Attempts
<1>3. QED
  BY <1>1, <1>2

\* Where the keys of different kinds live.
LEMMA KeyKinds ==
    /\ Default \notin Keys /\ JoinKey \notin Keys
    /\ NoKey \notin Keys /\ NoKey # Default /\ NoKey # JoinKey
    /\ Keys \subseteq LinkKeys /\ Default \in LinkKeys /\ JoinKey \in LinkKeys
BY ExchangeAssumption DEF LinkKeys

-----------------------------------------------------------------------------
(* What a step of the machine can do to the keys and the record.           *)

VerifyStages == {"SendVerifyKey", "RetryVerifyKey", "AwaitConfirmKey"}

\* Once a replacement key is reserved and until it is committed or given up,
\* both the entry and the record hold generated keys, and only then can a
\* Verify-Key be outstanding.
StageInv ==
    /\ stage \in VerifyStages => entry \in Keys /\ record.key \in Keys
    /\ stage \in Running => ~record.commissioned
    /\ verifySent /\ stage \in Running => stage \in VerifyStages
    /\ stage = "AwaitConfirmKey" => verifySent

\* It goes on with the keys it has.  A confirmation is only ever consumed, and
\* a transmitted Verify-Key forgets the ones before it.
Moves ==
    /\ entry' = entry /\ record' = record /\ legacyTc' = legacyTc
    /\ stage \in Running /\ stage' \in Running
    /\ stage' \in VerifyStages <=> stage \in VerifyStages
    /\ verifySent' => stage' \in VerifyStages
    /\ verifySent' /\ confirmOk' => verifySent /\ confirmOk
    /\ stage' = "AwaitConfirmKey" => verifySent'

\* It reserves the replacement key it found.
Reserves ==
    /\ stage \in Running \ VerifyStages /\ stage' = "SendVerifyKey"
    /\ entry \in Keys /\ entry' = entry
    /\ record' = Reserved(entry)
    /\ legacyTc' = legacyTc
    /\ verifySent' = verifySent

\* It gives the unconfirmed key up and asks for another one.
Replaces ==
    /\ stage \in VerifyStages /\ stage' = "SendRequestKey"
    /\ entry' \in {JoinKey, NoKey} /\ record' = record
    /\ legacyTc' = legacyTc
    /\ verifySent' = FALSE

\* It ends: with nothing committed, with the confirmed key, or with the
\* preconfigured key of a pre-R21 Trust Center.
Ends ==
    /\ stage \in Running /\ stage' \in Terminal
    /\ entry' \in {entry, NoKey, Default}
    /\ legacyTc => legacyTc'
    /\ \/ ~record'.commissioned
       \/ /\ stage \in VerifyStages /\ verifySent /\ confirmOk
          /\ record.key = entry /\ record'.key = entry
       \/ record'.key = Default /\ legacyTc'

\* Every step of the machine is one of the four.
LEMMA StepEffect ==
    ASSUME Typed, StageInv, SlotOwnedWhileAwaiting, Step
    PROVE  Moves \/ Reserves \/ Replaces \/ Ends
<1> USE DEF Running, SendStages, RetryStages, AwaitStages, Terminal, VerifyStages
<1>a. /\ record \in RecordType /\ verifySent \in BOOLEAN /\ confirmOk \in BOOLEAN
      /\ entry \in LinkKeys \cup {NoKey}
      /\ stage \in Running /\ ~record.commissioned
      /\ verifySent => stage \in VerifyStages
  BY DEF Typed, Step, StageInv
<1>b. HasReplacement <=> entry \in Keys
  BY <1>a, KeyKinds DEF HasReplacement, LinkKeys
<1>c. \A k : Reserved(k).commissioned = FALSE /\ Reserved(k).key = k
  BY <1>a DEF Reserved, RecordType
<1>d. ASSUME Fail, UNCHANGED <<record, legacyTc>>
      PROVE  Ends
  BY <1>a, <1>d DEF Ends, Fail, ReleaseAndLeave
<1>e. ASSUME FinalizeSuccess, stage \in VerifyStages, verifySent, confirmOk
      PROVE  Ends
  <2> DEFINE committed == [record EXCEPT !.commissioned = TRUE]
  <2>1. committed.key = record.key
    BY <1>a DEF RecordType
  <2>2. CASE Fail /\ UNCHANGED record
    BY <1>d, <1>e, <2>2 DEF FinalizeSuccess
  <2>3. CASE CommitAccepted /\ Fail /\ NotPersisted(committed)
    <3>1. /\ record.key = entry /\ record' \in {record, committed}
          /\ legacyTc' = legacyTc /\ entry' = NoKey /\ stage' = "Failed"
      BY <1>e, <2>3 DEF FinalizeSuccess, CommitAccepted, NotPersisted, Fail,
         ReleaseAndLeave
    <3>2. QED
      BY <1>a, <1>e, <2>1, <3>1 DEF Ends
  <2>4. CASE /\ CommitAccepted /\ Persisted(committed)
             /\ Succeed /\ UNCHANGED <<slot, entry>>
    <3>1. /\ record.key = entry /\ record' = committed
          /\ legacyTc' = legacyTc /\ entry' = entry /\ stage' = "Complete"
      BY <1>e, <2>4 DEF FinalizeSuccess, CommitAccepted, Persisted, Succeed
    <3>2. QED
      BY <1>a, <1>e, <2>1, <3>1 DEF Ends
  <2>5. QED
    BY <1>e, <2>2, <2>3, <2>4 DEF FinalizeSuccess
<1>f. ASSUME ReserveAndVerify, entry \in Keys, stage \notin VerifyStages
      PROVE  Reserves \/ Ends
  <2>1. CASE Persisted(Reserved(entry)) /\ Enter("SendVerifyKey")
             /\ UNCHANGED <<slot, entry>>
    BY <1>a, <1>f, <2>1 DEF ReserveAndVerify, Persisted, Enter, Reserves
  <2>2. CASE NotPersisted(Reserved(entry)) /\ Fail
    BY <1>a, <1>c, <1>f, <2>2
       DEF ReserveAndVerify, NotPersisted, Fail, ReleaseAndLeave, Ends
  <2>3. QED
    BY <1>f, <2>1, <2>2 DEF ReserveAndVerify
<1>g. ASSUME UNCHANGED <<entry, record, legacyTc, verifySent, confirmOk>>,
             stage' \in Running,
             stage' \in VerifyStages <=> stage \in VerifyStages,
             stage' = "AwaitConfirmKey" => stage = "AwaitConfirmKey"
      PROVE  Moves
  BY <1>a, <1>g DEF Moves, StageInv
<1>1. CASE StepDeadline
  BY <1>1, <1>d DEF StepDeadline
<1>2. CASE StepStartDelay
  BY <1>2, <1>g DEF StepStartDelay, Enter, Stay
<1>3. CASE StepSendNodeDesc
  <2>1. CASE HasReplacement /\ ReserveAndVerify
    BY <1>3, <1>b, <1>f, <2>1 DEF StepSendNodeDesc
  <2>2. CASE ~HasReplacement /\ nodeDescBudget = 0 /\ Fail
             /\ UNCHANGED <<record, legacyTc>>
    BY <1>d, <2>2
  <2>3. CASE /\ UNCHANGED <<entry, record, legacyTc, verifySent, confirmOk>>
             /\ stage' \in {"AwaitNodeDesc", "RetryNodeDesc", "SendNodeDesc"}
    BY <1>3, <1>g, <2>3 DEF StepSendNodeDesc
  <2>4. QED
    BY <1>3, <2>1, <2>2, <2>3 DEF StepSendNodeDesc, Enter, Stay
<1>4. CASE StepRetry
  BY <1>4, <1>g DEF StepRetry, Enter, Stay
<1>5. CASE StepAwaitNodeDesc
  <2>1. CASE slot = "pre" /\ FinalizePreR21
    <3> DEFINE committed == [Reserved(Default) EXCEPT !.commissioned = TRUE]
    <3>1. committed.key = Default
      BY <1>a DEF Reserved, RecordType
    <3>2. /\ legacyTc' = TRUE /\ stage' \in {"Failed", "Complete"}
          /\ entry' \in {NoKey, Default}
          /\ record' \in {record, Reserved(Default), committed}
      BY <2>1 DEF FinalizePreR21, Fail, ReleaseAndLeave, Persisted, Succeed
    <3>3. ~record'.commissioned \/ record'.key = Default
      BY <1>a, <1>c, <3>1, <3>2
    <3>4. QED
      BY <1>a, <3>2, <3>3 DEF Ends
  <2>2. CASE /\ UNCHANGED <<entry, record, legacyTc, verifySent, confirmOk>>
             /\ stage' \in {"AwaitNodeDesc", "SendRequestKey", "SendNodeDesc"}
    BY <1>5, <1>g, <2>2 DEF StepAwaitNodeDesc
  <2>3. slot \in Slots \ {"free"}
    BY <1>5 DEF Typed, SlotOwnedWhileAwaiting, StepAwaitNodeDesc
  <2>4. QED
    BY <1>5, <2>1, <2>2, <2>3 DEF StepAwaitNodeDesc, Enter, Stay, Slots
<1>6. CASE StepSendRequestKey
  <2>1. CASE Fail /\ UNCHANGED <<record, legacyTc>>
    BY <1>d, <2>1
  <2>2. CASE /\ UNCHANGED <<entry, record, legacyTc, verifySent, confirmOk>>
             /\ stage' \in {"AwaitTclk", "RetryRequestKey", "SendRequestKey"}
    BY <1>6, <1>g, <2>2 DEF StepSendRequestKey
  <2>3. QED
    BY <1>6, <2>1, <2>2 DEF StepSendRequestKey, Enter, Stay
<1>7. CASE StepAwaitTclk
  <2>1. CASE HasReplacement /\ ReserveAndVerify
    BY <1>7, <1>b, <1>f, <2>1 DEF StepAwaitTclk
  <2>2. CASE /\ UNCHANGED <<entry, record, legacyTc, verifySent, confirmOk>>
             /\ stage' \in {"AwaitTclk", "SendRequestKey"}
    BY <1>7, <1>g, <2>2 DEF StepAwaitTclk
  <2>3. QED
    BY <1>7, <2>1, <2>2 DEF StepAwaitTclk, Enter, Stay
<1>8. CASE StepSendVerifyKey
  <2>1. stage = "SendVerifyKey" /\ entry \in Keys
    BY <1>8 DEF StepSendVerifyKey, StageInv
  <2>2. CASE LateConfirm /\ FinalizeSuccess
    BY <1>e, <2>1, <2>2 DEF LateConfirm
  <2>3. CASE /\ ~LateConfirm /\ UNCHANGED <<record, legacyTc>>
             /\ LateRejection /\ verifyKeyBudget > 0
             /\ Enter("RetryVerifyKey")
             /\ confirmOk' = FALSE /\ confirmBad' = FALSE
             /\ UNCHANGED <<budgets, verifySent, entry, slot, proofs>>
    BY <1>a, <2>1, <2>3 DEF Moves, Enter
  <2>4. CASE /\ ~LateConfirm /\ UNCHANGED <<record, legacyTc>>
             /\ TransmitVerifyKey
    BY <1>a, <2>1, <2>4 DEF Moves, TransmitVerifyKey, Enter, Stay
  <2>5. CASE /\ ~LateConfirm /\ UNCHANGED <<record, legacyTc>>
             /\ RequestReplacement
    <3>1. entry' \in {JoinKey, NoKey}
      BY <1>b, <2>1, <2>5 DEF RequestReplacement, WithoutReplacement
    <3>2. QED
      BY <1>a, <2>1, <2>5, <3>1 DEF Replaces, RequestReplacement, Enter
  <2>6. CASE /\ ~LateConfirm /\ UNCHANGED <<record, legacyTc>> /\ Fail
    BY <1>d, <2>6
  <2>7. QED
    BY <1>8, <2>2, <2>3, <2>4, <2>5, <2>6 DEF StepSendVerifyKey
<1>9. CASE StepAwaitConfirmKey
  <2>1. stage = "AwaitConfirmKey" /\ verifySent
    BY <1>9 DEF StepAwaitConfirmKey, StageInv
  <2>2. CASE confirmOk /\ FinalizeSuccess
    BY <1>e, <2>1, <2>2
  <2>3. CASE /\ UNCHANGED <<entry, record, legacyTc, verifySent, confirmOk>>
             /\ stage' \in VerifyStages
    BY <1>a, <2>1, <2>3 DEF Moves
  <2>4. QED
    BY <1>9, <2>2, <2>3 DEF StepAwaitConfirmKey, Enter, Stay
<1>10. QED
  BY <1>1, <1>2, <1>3, <1>4, <1>5, <1>6, <1>7, <1>8, <1>9 DEF Step

-----------------------------------------------------------------------------
(* Types, the pending-response slot and the stages.                        *)

\* What the machine leaves to the rest of the node.
LEMMA StepFrame ==
    ASSUME Step
    PROVE  UNCHANGED <<tcKey, spent, toNode, confirmed, exchanges>>
BY DEF Step, external

\* One step of the machine keeps every variable in its type.
LEMMA StepType ==
    ASSUME Typed, StageInv, SlotOwnedWhileAwaiting, Step
    PROVE  Typed'
<1> USE Constants DEF Running, SendStages, RetryStages, AwaitStages, Terminal,
                      Stages, Slots, budgets, clock
<1>a. UNCHANGED <<tcKey, spent, toNode, confirmed, exchanges>> /\ lag' = 0
  BY StepFrame DEF Step
<1>b. entry' \in LinkKeys \cup {NoKey}
  BY StepEffect, KeyKinds DEF Typed, Moves, Reserves, Replaces, Ends
<1>c. record' \in RecordType
  <2>1. /\ record \in RecordType /\ entry \in LinkKeys \cup {NoKey}
        /\ Default \in LinkKeys
    BY KeyKinds DEF Typed
  <2>2. \A r \in RecordType : [r EXCEPT !.commissioned = TRUE] \in RecordType
    BY DEF RecordType
  <2>3. Reserved(entry) \in RecordType /\ Reserved(Default) \in RecordType
    BY <2>1 DEF Reserved, RecordType
  <2>4. \/ record' = record \/ record' \in RecordType
        \/ record' \in {record, Reserved(entry)}
        \/ record' = [record EXCEPT !.commissioned = TRUE]
        \/ record' \in {record, Reserved(Default),
                        [Reserved(Default) EXCEPT !.commissioned = TRUE]}
    BY DEF Step, StepDeadline, StepStartDelay, StepSendNodeDesc, StepRetry,
       StepAwaitNodeDesc, StepSendRequestKey, StepAwaitTclk, StepSendVerifyKey,
       StepAwaitConfirmKey, FinalizeSuccess, FinalizePreR21, ReserveAndVerify,
       Persisted, NotPersisted
  <2>5. QED
    BY <2>1, <2>2, <2>3, <2>4
<1>d. proofs' \subseteq LinkKeys
  <2>1. proofs' = proofs \/ (stage = "SendVerifyKey" /\ proofs' = proofs \cup {entry})
    BY DEF Step, StepDeadline, StepStartDelay, StepSendNodeDesc, StepRetry,
       StepAwaitNodeDesc, StepSendRequestKey, StepAwaitTclk, StepSendVerifyKey,
       StepAwaitConfirmKey, FinalizeSuccess, FinalizePreR21, ReserveAndVerify,
       TransmitVerifyKey, RequestReplacement
  <2>2. QED
    BY <2>1, KeyKinds DEF Typed, StageInv, VerifyStages
<1>e. stage' \in Stages
  BY StepEffect DEF Moves, Reserves, Replaces, Ends
<1>f. /\ now' = now /\ armedAt' = armedAt
      /\ stageStartedAt' \in {stageStartedAt, now}
  <2>1. Fail \/ Stay \/ Succeed \/ (\E s : Enter(s))
    <3>1. slot \in Slots /\ (stage = "AwaitNodeDesc" => slot # "free")
      BY DEF Typed, SlotOwnedWhileAwaiting
    <3>2. QED
      BY <3>1 DEF Step, StepDeadline, StepStartDelay, StepSendNodeDesc, StepRetry,
         StepAwaitNodeDesc, StepSendRequestKey, StepAwaitTclk, StepSendVerifyKey,
         StepAwaitConfirmKey, FinalizeSuccess, FinalizePreR21, ReserveAndVerify,
         TransmitVerifyKey, RequestReplacement
  <2>2. QED
    BY <2>1 DEF Fail, Stay, Succeed, Enter
<1>g. slot' \in Slots
  <2>1. slot \in Slots /\ (stage = "AwaitNodeDesc" => slot # "free")
    BY DEF Typed, SlotOwnedWhileAwaiting
  <2>2. slot' \in {slot, "free", "waiting"}
    BY <2>1 DEF Step, StepDeadline, StepStartDelay, StepSendNodeDesc, StepRetry,
       StepAwaitNodeDesc, StepSendRequestKey, StepAwaitTclk, StepSendVerifyKey,
       StepAwaitConfirmKey, FinalizeSuccess, FinalizePreR21, ReserveAndVerify,
       TransmitVerifyKey, RequestReplacement, Fail, ReleaseAndLeave
  <2>3. QED
    BY <2>1, <2>2
<1>h. /\ verifySent' \in BOOLEAN /\ confirmOk' \in BOOLEAN
      /\ confirmBad' \in BOOLEAN /\ legacyTc' \in BOOLEAN
  <2>1. /\ verifySent' \in {verifySent, TRUE, FALSE}
        /\ confirmOk' \in {confirmOk, FALSE}
        /\ confirmBad' \in {confirmBad, FALSE}
        /\ legacyTc' \in {legacyTc, TRUE}
    BY DEF Step, StepDeadline, StepStartDelay, StepSendNodeDesc, StepRetry,
       StepAwaitNodeDesc, StepSendRequestKey, StepAwaitTclk, StepSendVerifyKey,
       StepAwaitConfirmKey, FinalizeSuccess, FinalizePreR21, ReserveAndVerify,
       TransmitVerifyKey, RequestReplacement
  <2>2. QED
    BY <2>1 DEF Typed
<1>i. /\ nodeDescBudget' \in 0..MessageAttempts
      /\ requestKeyBudget' \in 0..MessageAttempts
      /\ verifyKeyBudget' \in 0..MessageAttempts
  <2>1. /\ \/ nodeDescBudget' = nodeDescBudget
           \/ nodeDescBudget > 0 /\ nodeDescBudget' = nodeDescBudget - 1
        /\ \/ requestKeyBudget' = requestKeyBudget
           \/ requestKeyBudget > 0 /\ requestKeyBudget' = requestKeyBudget - 1
        /\ \/ verifyKeyBudget' \in {verifyKeyBudget, Attempts}
           \/ verifyKeyBudget > 0 /\ verifyKeyBudget' = verifyKeyBudget - 1
    BY DEF Step, StepDeadline, StepStartDelay, StepSendNodeDesc, StepRetry,
       StepAwaitNodeDesc, StepSendRequestKey, StepAwaitTclk, StepSendVerifyKey,
       StepAwaitConfirmKey, FinalizeSuccess, FinalizePreR21, ReserveAndVerify,
       TransmitVerifyKey, RequestReplacement
  <2>2. QED
    BY <2>1 DEF Typed
<1>j. /\ now' \in 0..(ClockModulus - 1) /\ armedAt' \in 0..(ClockModulus - 1)
      /\ stageStartedAt' \in 0..(ClockModulus - 1)
  BY <1>f DEF Typed
<1>k. 0 \in 0..MaxLag
  OBVIOUS
<1>l. /\ tcKey' \in Keys \cup {Default} /\ spent' \subseteq Keys
      /\ confirmed' \subseteq LinkKeys
      /\ toNode' \subseteq Messages /\ exchanges' \in 0..MaxExchanges
  BY <1>a DEF Typed
<1>m. QED
  BY <1>a, <1>b, <1>c, <1>d, <1>e, <1>g, <1>h, <1>i, <1>j, <1>k, <1>l DEF Typed

\* What the network and the clock do keeps the types too.
LEMMA EnvironmentType ==
    ASSUME Typed, Next, ~Step
    PROVE  Typed'
<1> USE Constants, KeyKinds DEF budgets, clock, external, history
<1>1. ASSUME NEW answer \in {"r21", "pre", "bad"}, DeliverNodeDesc(answer)
      PROVE  Typed'
  BY <1>1 DEF DeliverNodeDesc, Typed, Slots
<1>2. ASSUME NEW m \in toNode, DeliverTransportKey(m)
      PROVE  Typed'
  <2>1. m \in Messages /\ m.type = "TransportKey"
    BY <1>2 DEF Typed, DeliverTransportKey
  <2>2. m.key \in Keys
    BY <2>1 DEF Messages
  <2>3. QED
    BY <1>2, <2>2 DEF DeliverTransportKey, Typed
<1>3. ASSUME NEW m \in toNode, DeliverConfirmKey(m)
      PROVE  Typed'
  <2>1. m \in Messages /\ m.type = "ConfirmKey"
    BY <1>3 DEF Typed, DeliverConfirmKey
  <2>2. m.under \in Keys
    BY <2>1 DEF Messages
  <2>3. confirmOk' \in BOOLEAN /\ confirmBad' \in BOOLEAN
    BY <1>3 DEF DeliverConfirmKey
  <2>4. confirmed' \subseteq LinkKeys /\ toNode' \subseteq Messages
    BY <1>3, <2>2 DEF DeliverConfirmKey, Typed
  <2>5. QED
    BY <1>3, <2>3, <2>4 DEF DeliverConfirmKey, Typed
<1>4. CASE AbandonInitialCommissioning
  BY <1>4 DEF AbandonInitialCommissioning, ReleaseAndLeave, Typed, Stages, Slots
<1>5. CASE Tick
  <2>1. now' \in 0..(ClockModulus - 1)
    BY <1>5 DEF Tick, Typed
  <2>2. lag' \in 0..MaxLag
    BY <1>5 DEF Tick, Typed
  <2>3. QED
    BY <1>5, <2>1, <2>2 DEF Tick, Typed
<1>6. CASE Arm
  <2>1. /\ stage' \in Stages /\ lag' \in 0..MaxLag
        /\ now' \in 0..(ClockModulus - 1) /\ armedAt' \in 0..(ClockModulus - 1)
        /\ stageStartedAt' \in 0..(ClockModulus - 1)
        /\ exchanges' \in 0..MaxExchanges
    BY <1>6 DEF Arm, Typed, Stages, Running
  <2>2. NoRecord \in RecordType
    BY DEF NoRecord, RecordType
  <2>3. entry' \in LinkKeys \cup {NoKey}
    BY <1>6 DEF Arm
  <2>4. /\ nodeDescBudget' \in 0..MessageAttempts
        /\ requestKeyBudget' \in 0..MessageAttempts
        /\ verifyKeyBudget' \in 0..MessageAttempts
    BY <1>6 DEF Arm
  <2>5. /\ verifySent' \in BOOLEAN /\ confirmOk' \in BOOLEAN
        /\ confirmBad' \in BOOLEAN /\ legacyTc' \in BOOLEAN
    BY <1>6 DEF Arm
  <2>6. /\ slot' \in Slots /\ record' \in RecordType
        /\ tcKey' \in Keys \cup {Default} /\ spent' \subseteq Keys
        /\ proofs' \subseteq LinkKeys /\ confirmed' \subseteq LinkKeys
        /\ toNode' \subseteq Messages
    BY <1>6, <2>2 DEF Arm, Typed
  <2>7. QED
    BY <2>1, <2>3, <2>4, <2>5, <2>6 DEF Typed
<1>7. ASSUME NEW k \in Keys, NEW under \in {JoinKey} \cup Keys,
             TcSendsKey(k, under)
      PROVE  Typed'
  <2>1. [type |-> "TransportKey", key |-> k, under |-> under] \in Messages
    BY DEF Messages
  <2>2. spent' \subseteq Keys
    BY <1>7 DEF TcSendsKey, Typed
  <2>3. QED
    BY <1>7, <2>1, <2>2 DEF TcSendsKey, Typed
<1>8. ASSUME NEW k \in proofs, TcAnswersVerify(k)
      PROVE  Typed'
  <2>1. PICK ok \in {k = tcKey, FALSE} :
           toNode' = toNode \cup {[type |-> "ConfirmKey", under |-> tcKey, ok |-> ok]}
    BY <1>8 DEF TcAnswersVerify
  <2>2. ok \in BOOLEAN
    OBVIOUS
  <2>3. [type |-> "ConfirmKey", under |-> tcKey, ok |-> ok] \in Messages
    BY <1>8, <2>2 DEF TcAnswersVerify, Typed, Messages
  <2>4. QED
    BY <1>8, <2>1, <2>3 DEF TcAnswersVerify, Typed
<1>9. QED
  BY <1>1, <1>2, <1>3, <1>4, <1>5, <1>6, <1>7, <1>8 DEF Next

\* The pending-response slot follows the stage through every step.
LEMMA SlotStep ==
    ASSUME Typed, StageInv, SlotOwnedWhileAwaiting, Next
    PROVE  SlotOwnedWhileAwaiting'
<1> USE DEF SlotOwnedWhileAwaiting, budgets, clock
<1>a. slot \in Slots
  BY DEF Typed
<1>b. ASSUME UNCHANGED slot, stage # "AwaitNodeDesc", stage' # "AwaitNodeDesc"
      PROVE  SlotOwnedWhileAwaiting'
  BY <1>b
<1>c. ASSUME slot' = "free", stage' # "AwaitNodeDesc"
      PROVE  SlotOwnedWhileAwaiting'
  BY <1>c
<1>d. Fail => slot' = "free" /\ stage' = "Failed"
  BY DEF Fail, ReleaseAndLeave
<1>e. FinalizeSuccess => (slot' = "free" \/ UNCHANGED slot) /\ stage' \in Terminal
  BY <1>d DEF FinalizeSuccess, Succeed, Terminal
<1>1. CASE Step
  <2>1. CASE StepDeadline \/ StepStartDelay \/ StepRetry
    BY <1>c, <1>d, <2>1 DEF StepDeadline, StepStartDelay, StepRetry, Enter, Stay,
       RetryStages
  <2>2. CASE StepSendNodeDesc
    BY <1>d, <2>2 DEF StepSendNodeDesc, ReserveAndVerify, Enter, Stay
  <2>3. CASE StepAwaitNodeDesc
    BY <1>a, <1>d, <2>3 DEF StepAwaitNodeDesc, FinalizePreR21, Succeed, Enter,
       Stay, Slots
  <2>4. CASE StepSendRequestKey \/ StepAwaitTclk
    BY <1>d, <2>4 DEF StepSendRequestKey, StepAwaitTclk, ReserveAndVerify, Enter, Stay
  <2>5. CASE StepSendVerifyKey
    BY <1>d, <1>e, <2>5 DEF StepSendVerifyKey, TransmitVerifyKey,
       RequestReplacement, Enter, Stay, Terminal
  <2>6. CASE StepAwaitConfirmKey
    BY <1>d, <1>e, <2>6 DEF StepAwaitConfirmKey, Enter, Stay, Terminal
  <2>7. QED
    BY <1>1, <2>1, <2>2, <2>3, <2>4, <2>5, <2>6 DEF Step
<1>2. ASSUME NEW answer \in {"r21", "pre", "bad"}, DeliverNodeDesc(answer)
      PROVE  SlotOwnedWhileAwaiting'
  BY <1>2 DEF DeliverNodeDesc
<1>3. ASSUME NEW m \in toNode, DeliverTransportKey(m) \/ DeliverConfirmKey(m)
      PROVE  SlotOwnedWhileAwaiting'
  BY <1>3 DEF DeliverTransportKey, DeliverConfirmKey
<1>4. CASE AbandonInitialCommissioning
  BY <1>4 DEF AbandonInitialCommissioning, ReleaseAndLeave
<1>5. CASE Tick
  BY <1>5 DEF Tick
<1>6. CASE Arm
  BY <1>6 DEF Arm
<1>7. ASSUME NEW k, NEW under, TcSendsKey(k, under) \/ TcAnswersVerify(k)
      PROVE  SlotOwnedWhileAwaiting'
  BY <1>7 DEF TcSendsKey, TcAnswersVerify
<1>8. QED
  BY <1>1, <1>2, <1>3, <1>4, <1>5, <1>6, <1>7 DEF Next

\* What one step, of the machine or of its environment, can do to the fields
\* the invariants below are about.  Nothing but the machine and Arm changes the
\* record, nothing but they and a Transport-Key the entry.
LEMMA EnvironmentFrame ==
    ASSUME Next, ~Step, ~Arm
    PROVE  /\ UNCHANGED <<record, verifySent, legacyTc>>
           /\ stage' = stage \/ (stage' = "Idle" /\ entry' = NoKey)
BY DEF Next, DeliverNodeDesc, DeliverTransportKey, DeliverConfirmKey,
   AbandonInitialCommissioning, ReleaseAndLeave, Tick, TcSendsKey, TcAnswersVerify,
   history

\* The entry holds what it held, or the key of a delivered Transport-Key that
\* opened under it.
LEMMA EnvironmentEntry ==
    ASSUME Next, ~Step, ~Arm
    PROVE  \/ entry' = entry
           \/ entry' = NoKey /\ stage' = "Idle"
           \/ \E m \in toNode : /\ m.type = "TransportKey" /\ Opens(m.under)
                                /\ entry' = m.key
BY DEF Next, DeliverNodeDesc, DeliverTransportKey, DeliverConfirmKey,
   AbandonInitialCommissioning, ReleaseAndLeave, Tick, TcSendsKey, TcAnswersVerify

\* The stages keep their relation to the keys and the record.
LEMMA StageStep ==
    ASSUME Typed, StageInv, SlotOwnedWhileAwaiting, Next
    PROVE  StageInv'
<1> USE KeyKinds DEF Running, SendStages, RetryStages, AwaitStages, Terminal,
                     VerifyStages
<1>a. record \in RecordType
  BY DEF Typed
<1>1. CASE Step
  <2>1. CASE Moves
    BY <2>1 DEF Moves, StageInv
  <2>2. CASE Reserves
    <3>1. record'.key = entry /\ record'.commissioned = record.commissioned
      BY <1>a, <2>2 DEF Reserves, Reserved, RecordType
    <3>2. QED
      BY <2>2, <3>1 DEF Reserves, StageInv
  <2>3. CASE Replaces
    BY <2>3 DEF Replaces, StageInv
  <2>4. CASE Ends
    BY <2>4 DEF Ends, StageInv
  <2>5. QED
    BY <1>1, <2>1, <2>2, <2>3, <2>4, StepEffect
<1>2. CASE Arm
  <2>1. /\ stage' = "StartDelay" /\ ~verifySent'
        /\ record' = NoRecord /\ ~NoRecord.commissioned
    BY <1>2 DEF Arm, NoRecord
  <2>2. QED
    BY <2>1 DEF StageInv
<1>3. CASE ~Step /\ ~Arm
  <2>1. UNCHANGED <<record, verifySent>>
    BY <1>3, EnvironmentFrame
  <2>2. stage' = stage \/ stage' = "Idle"
    BY <1>3, EnvironmentFrame
  <2>3. stage' # "Idle" /\ entry \in Keys => entry' \in Keys
    <3>1. \A m \in toNode : m.type = "TransportKey" => m.key \in Keys
      BY DEF Typed, Messages
    <3>2. QED
      BY <1>3, <3>1, EnvironmentEntry
  <2>4. QED
    BY <2>1, <2>2, <2>3 DEF StageInv
<1>4. QED
  BY <1>1, <1>2, <1>3

-----------------------------------------------------------------------------
(* The order in which the Trust Center generated its keys.                 *)
(*                                                                         *)
(* A confirmation only says that some key was confirmed since the last     *)
(* Verify-Key, and commit_network only compares the reserved key with the  *)
(* entry.  That the two are about the same key rests on an order: a key is *)
(* sent under itself, under one generated before it, or under the join     *)
(* key, so while a Verify-Key is outstanding the entry only moves forward, *)
(* and an entry that equals the reserved key has never been another one.   *)

\* The keys the Trust Center has generated for this node.
Issued == spent \cup ({tcKey} \ {Default})

\* Every generated key the node has seen was issued by the Trust Center.
IssuedInv ==
    /\ \A m \in toNode : m.type = "TransportKey" =>
          m.key \in Issued /\ (m.under \in Keys => m.under \in Issued)
    /\ entry \in Keys => entry \in Issued
    /\ stage \in VerifyStages => record.key \in Issued
    /\ confirmed \subseteq Issued

\* Key a is key b or was generated before it.
UpTo(rank, a, b) == a = b \/ rank[a] < rank[b]

\* rank is an order of generation that explains the state.
Ranked(rank) ==
    /\ \A k \in spent : tcKey \in Keys /\ rank[k] < rank[tcKey]
    /\ \A m \in toNode : m.type = "TransportKey" /\ m.under \in Keys =>
          UpTo(rank, m.under, m.key)
    /\ stage \in VerifyStages => UpTo(rank, record.key, entry)
    /\ stage \in VerifyStages /\ verifySent /\ confirmOk =>
         \E c \in confirmed : UpTo(rank, record.key, c) /\ UpTo(rank, c, entry)

OrderInv == \E rank \in [Keys -> Nat] : Ranked(rank)

\* UpTo is a partial order on the generated keys.
LEMMA UpToOrder ==
    ASSUME NEW rank \in [Keys -> Nat], NEW a \in Keys, NEW b \in Keys, NEW c \in Keys
    PROVE  /\ UpTo(rank, a, b) /\ UpTo(rank, b, c) => UpTo(rank, a, c)
           /\ UpTo(rank, a, b) /\ UpTo(rank, b, a) => a = b
           /\ UpTo(rank, a, a)
<1>1. rank[a] \in Nat /\ rank[b] \in Nat /\ rank[c] \in Nat
  OBVIOUS
<1>2. QED
  BY <1>1 DEF UpTo

\* An entry that opened a Transport-Key in the verification stages was that
\* message's protecting key.
LEMMA OpensUnderEntry ==
    ASSUME NEW k, entry \in Keys, Opens(k)
    PROVE  k = entry
BY KeyKinds DEF Opens

\* No key reaches the node that the Trust Center did not issue.
LEMMA IssuedStep ==
    ASSUME Typed, StageInv, SlotOwnedWhileAwaiting, IssuedInv, Next
    PROVE  IssuedInv'
<1> USE KeyKinds
<1>a. record \in RecordType
  BY DEF Typed
<1>1. CASE Step
  <2>a. UNCHANGED <<tcKey, spent, toNode, confirmed>> /\ UNCHANGED Issued
    BY <1>1, StepFrame DEF Issued
  <2>1. CASE Moves
    BY <2>a, <2>1 DEF Moves, IssuedInv
  <2>2. CASE Reserves
    <3>1. record'.key = entry
      BY <1>a, <2>2 DEF Reserves, Reserved, RecordType
    <3>2. QED
      BY <2>a, <2>2, <3>1 DEF Reserves, IssuedInv
  <2>3. CASE Replaces
    BY <2>a, <2>3 DEF Replaces, IssuedInv, VerifyStages
  <2>4. CASE Ends
    BY <2>a, <2>4 DEF Ends, IssuedInv, VerifyStages, Terminal
  <2>5. QED
    BY <1>1, <2>1, <2>2, <2>3, <2>4, StepEffect
<1>2. CASE Arm
  <2>1. /\ UNCHANGED <<toNode, Issued>> /\ entry' \notin Keys
        /\ stage' = "StartDelay" /\ confirmed' = {}
    BY <1>2 DEF Arm, external, Issued
  <2>2. QED
    BY <2>1 DEF IssuedInv, VerifyStages
<1>3. ASSUME NEW m \in toNode, DeliverTransportKey(m)
      PROVE  IssuedInv'
  <2>1. /\ UNCHANGED <<stage, record, confirmed, Issued>>
        /\ toNode' \subseteq toNode
        /\ entry' \in {entry, m.key} /\ m.type = "TransportKey"
    BY <1>3 DEF DeliverTransportKey, external, history, Issued
  <2>2. QED
    BY <2>1 DEF IssuedInv
<1>4. ASSUME NEW m \in toNode, DeliverConfirmKey(m)
      PROVE  IssuedInv'
  <2>1. m \in Messages /\ m.type = "ConfirmKey"
    BY <1>4 DEF Typed, DeliverConfirmKey
  <2>2. m.under \in Keys
    BY <2>1 DEF Messages
  <2>3. /\ UNCHANGED <<stage, record, entry, Issued>> /\ toNode' \subseteq toNode
        /\ \/ confirmed' = confirmed
           \/ Opens(m.under) /\ confirmed' = confirmed \cup {m.under}
    BY <1>4 DEF DeliverConfirmKey, external, Issued
  <2>4. Opens(m.under) => m.under = entry
    BY <2>2 DEF Opens
  <2>5. QED
    BY <2>2, <2>3, <2>4 DEF IssuedInv
<1>5. ASSUME NEW k \in Keys, NEW under \in {JoinKey} \cup Keys, TcSendsKey(k, under)
      PROVE  IssuedInv'
  <2> DEFINE msg == [type |-> "TransportKey", key |-> k, under |-> under]
  <2>1. /\ UNCHANGED <<stage, record, entry, confirmed>>
        /\ toNode' = toNode \cup {msg}
        /\ tcKey' = k /\ spent' = spent \cup ({tcKey} \ {k, Default})
        /\ under \in {JoinKey, tcKey}
    BY <1>5 DEF TcSendsKey, history
  <2>2. Issued \subseteq Issued' /\ k \in Issued'
    BY <2>1 DEF Issued
  <2>3. under \in Keys => under \in Issued'
    BY <2>1, <2>2 DEF Issued
  <2>4. msg.key = k /\ msg.under = under
    OBVIOUS
  <2> HIDE DEF msg
  <2>5. QED
    BY <2>1, <2>2, <2>3, <2>4 DEF IssuedInv
<1>6. ASSUME NEW k, TcAnswersVerify(k)
      PROVE  IssuedInv'
  <2>1. PICK msg : msg.type = "ConfirmKey" /\ toNode' = toNode \cup {msg}
    BY <1>6 DEF TcAnswersVerify
  <2>2. UNCHANGED <<stage, record, entry, confirmed, Issued>>
    BY <1>6 DEF TcAnswersVerify, external, history, Issued
  <2>3. QED
    BY <2>1, <2>2 DEF IssuedInv
<1>7. CASE \/ \E answer \in {"r21", "pre", "bad"} : DeliverNodeDesc(answer)
           \/ AbandonInitialCommissioning \/ Tick
  <2>1. /\ UNCHANGED <<record, confirmed, toNode, Issued>>
        /\ UNCHANGED <<stage, entry>> \/ (stage' = "Idle" /\ entry' = NoKey)
    BY <1>7 DEF DeliverNodeDesc, AbandonInitialCommissioning, ReleaseAndLeave,
       Tick, external, history, Issued
  <2>2. QED
    BY <2>1 DEF IssuedInv, VerifyStages
<1>8. QED
  BY <1>1, <1>2, <1>3, <1>4, <1>5, <1>6, <1>7 DEF Next

\* The order of generation survives every step; a new key comes last.
LEMMA OrderStep ==
    ASSUME Typed, StageInv, SlotOwnedWhileAwaiting, IssuedInv, OrderInv, Next
    PROVE  OrderInv'
<1> USE KeyKinds
<1>a. record \in RecordType
  BY DEF Typed
<1>b. PICK rank \in [Keys -> Nat] : Ranked(rank)
  BY DEF OrderInv
<1>c. stage \in VerifyStages => entry \in Keys /\ record.key \in Keys
  BY DEF StageInv
<1>d. spent \subseteq Keys /\ confirmed \subseteq Keys
  BY DEF Typed, IssuedInv, Issued
<1>e. \A m \in toNode : m.type = "TransportKey" => m.key \in Keys
  BY DEF Typed, Messages
<1>f. Ranked(rank)' => OrderInv'
  BY DEF OrderInv
<1>1. CASE Step
  <2>a. UNCHANGED <<tcKey, spent, toNode, confirmed>>
    BY <1>1, StepFrame
  <2>1. CASE Moves
    BY <1>b, <1>f, <2>a, <2>1 DEF Moves, Ranked
  <2>2. CASE Reserves
    <3>1. record'.key = entry /\ ~verifySent' /\ entry' = entry
      BY <1>a, <2>2 DEF Reserves, Reserved, RecordType, StageInv
    <3>2. UpTo(rank, record'.key, entry')
      BY <3>1 DEF UpTo
    <3>3. QED
      BY <1>b, <1>f, <2>a, <3>1, <3>2 DEF Ranked
  <2>3. CASE Replaces \/ Ends
    <3>1. stage' \notin VerifyStages
      BY <2>3 DEF Replaces, Ends, VerifyStages, Terminal
    <3>2. QED
      BY <1>b, <1>f, <2>a, <3>1 DEF Ranked
  <2>4. QED
    BY <1>1, <2>1, <2>2, <2>3, StepEffect
<1>2. CASE Arm
  <2>1. UNCHANGED <<tcKey, spent, toNode>> /\ stage' \notin VerifyStages
    BY <1>2 DEF Arm, external, VerifyStages
  <2>2. QED
    BY <1>b, <1>f, <2>1 DEF Ranked
<1>3. ASSUME NEW m \in toNode, DeliverTransportKey(m)
      PROVE  OrderInv'
  <2>1. /\ UNCHANGED <<stage, record, confirmed, tcKey, spent, verifySent, confirmOk>>
        /\ toNode' \subseteq toNode /\ m.type = "TransportKey"
        /\ entry' = entry \/ (Opens(m.under) /\ entry' = m.key)
    BY <1>3 DEF DeliverTransportKey, external, history
  <2>2. CASE entry' = entry
    BY <1>b, <1>f, <2>1, <2>2 DEF Ranked
  <2>3. CASE Opens(m.under) /\ entry' = m.key /\ stage \in VerifyStages
    <3>1. UpTo(rank, entry, entry') /\ entry' \in Keys
      BY <1>b, <1>c, <1>e, <2>1, <2>3, OpensUnderEntry DEF Ranked
    <3>2. UpTo(rank, record.key, entry')
      BY <1>b, <1>c, <2>3, <3>1, UpToOrder DEF Ranked
    <3>3. \A c \in confirmed : UpTo(rank, c, entry) => UpTo(rank, c, entry')
      BY <1>c, <1>d, <2>3, <3>1, UpToOrder
    <3>4. QED
      BY <1>b, <1>f, <2>1, <3>2, <3>3 DEF Ranked
  <2>4. CASE stage \notin VerifyStages
    BY <1>b, <1>f, <2>1, <2>4 DEF Ranked
  <2>5. QED
    BY <2>1, <2>2, <2>3, <2>4
<1>4. ASSUME NEW m \in toNode, DeliverConfirmKey(m)
      PROVE  OrderInv'
  <2>1. /\ UNCHANGED <<stage, record, entry, tcKey, spent, verifySent>>
        /\ toNode' \subseteq toNode /\ confirmed \subseteq confirmed'
        /\ confirmOk' => confirmOk \/ (Opens(m.under) /\ m.under \in confirmed')
    BY <1>4 DEF DeliverConfirmKey, external
  <2>2. CASE stage \in VerifyStages /\ Opens(m.under) /\ m.under \in confirmed'
    <3>1. m.under = entry
      BY <1>c, <2>2, OpensUnderEntry
    <3>2. UpTo(rank, record.key, entry) /\ UpTo(rank, entry, entry)
      BY <1>b, <2>2 DEF Ranked, UpTo
    <3>3. QED
      BY <1>b, <1>f, <2>1, <2>2, <3>1, <3>2 DEF Ranked
  <2>3. CASE stage \notin VerifyStages
    BY <1>b, <1>f, <2>1, <2>3 DEF Ranked
  <2>4. CASE confirmOk' => confirmOk
    BY <1>b, <1>f, <2>1, <2>4 DEF Ranked
  <2>5. QED
    BY <2>1, <2>2, <2>3, <2>4
<1>5. ASSUME NEW k \in Keys, NEW under \in {JoinKey} \cup Keys, TcSendsKey(k, under)
      PROVE  OrderInv'
  <2> DEFINE msg == [type |-> "TransportKey", key |-> k, under |-> under]
             last == IF tcKey \in Keys THEN rank[tcKey] + 1 ELSE 0
             extended == IF k = tcKey THEN rank ELSE [rank EXCEPT ![k] = last]
  <2>1. /\ UNCHANGED <<stage, record, entry, confirmed, verifySent, confirmOk>>
        /\ toNode' = toNode \cup {msg} /\ k \notin spent
        /\ tcKey' = k /\ spent' = spent \cup ({tcKey} \ {k, Default})
        /\ under \in {JoinKey, tcKey} /\ tcKey \in Keys \cup {Default}
    BY <1>5 DEF TcSendsKey, history, Typed
  <2>2. msg.key = k /\ msg.under = under
    OBVIOUS
  <2>3. extended \in [Keys -> Nat]
    OBVIOUS
  <2>4. \A a \in Issued : a \in Keys /\ extended[a] = rank[a]
    BY <1>d, <2>1 DEF Issued
  <2>5. \A a \in Issued \ {k} : rank[a] < extended[k]
    <3>1. CASE k = tcKey
      BY <1>b, <2>1, <3>1 DEF Ranked, Issued
    <3>2. CASE k # tcKey
      <4>1. extended[k] = last
        BY <3>2
      <4>2. \A a \in Issued : tcKey \in Keys /\ (rank[a] < rank[tcKey] \/ a = tcKey)
        BY <1>b, <2>1 DEF Ranked, Issued
      <4>3. \A a \in Issued : rank[a] \in Nat /\ rank[a] < last
        BY <2>4, <4>2
      <4>4. QED
        BY <4>1, <4>3
    <3>3. QED
      BY <3>1, <3>2
  <2> HIDE DEF extended, msg
  <2>p. PICK new \in [Keys -> Nat] :
          /\ \A a \in Issued : a \in Keys /\ new[a] = rank[a]
          /\ \A a \in Issued \ {k} : rank[a] < new[k]
    BY <2>3, <2>4, <2>5
  <2>6. \A a \in Issued, b \in Issued : UpTo(rank, a, b) => UpTo(new, a, b)
    BY <2>p DEF UpTo
  <2>7. \A a \in spent' : tcKey' \in Keys /\ new[a] < new[tcKey']
    BY <2>1, <2>p DEF Issued
  <2>8. under \in Keys => UpTo(new, under, k)
    BY <2>1, <2>p DEF Issued, UpTo
  <2>9. \A m \in toNode : m.type = "TransportKey" /\ m.under \in Keys =>
           UpTo(new, m.under, m.key)
    BY <1>b, <2>6 DEF IssuedInv, Ranked
  <2>10. stage \in VerifyStages =>
           record.key \in Issued /\ entry \in Issued /\ confirmed \subseteq Issued
    BY <1>c DEF IssuedInv
  <2>11. Ranked(new)'
    BY <1>b, <2>1, <2>2, <2>6, <2>7, <2>8, <2>9, <2>10 DEF Ranked
  <2>12. QED
    BY <2>11 DEF OrderInv
<1>6. ASSUME NEW k, TcAnswersVerify(k)
      PROVE  OrderInv'
  <2>1. PICK msg : msg.type = "ConfirmKey" /\ toNode' = toNode \cup {msg}
    BY <1>6 DEF TcAnswersVerify
  <2>2. UNCHANGED <<stage, record, entry, confirmed, tcKey, spent, verifySent,
                    confirmOk>>
    BY <1>6 DEF TcAnswersVerify, external, history
  <2>3. QED
    BY <1>b, <1>f, <2>1, <2>2 DEF Ranked
<1>7. CASE \/ \E answer \in {"r21", "pre", "bad"} : DeliverNodeDesc(answer)
           \/ AbandonInitialCommissioning \/ Tick
  <2>1. /\ UNCHANGED <<record, confirmed, toNode, tcKey, spent, verifySent, confirmOk>>
        /\ UNCHANGED <<stage, entry>> \/ (stage' = "Idle" /\ entry' = NoKey)
    BY <1>7 DEF DeliverNodeDesc, AbandonInitialCommissioning, ReleaseAndLeave,
       Tick, external, history
  <2>2. QED
    BY <1>b, <1>f, <2>1 DEF Ranked, VerifyStages
<1>8. QED
  BY <1>1, <1>2, <1>3, <1>4, <1>5, <1>6, <1>7 DEF Next

\* A step commits only what was confirmed.
LEMMA CommitStep ==
    ASSUME Typed, StageInv, SlotOwnedWhileAwaiting, IssuedInv, OrderInv,
           CommittedKeyConfirmed, Next
    PROVE  CommittedKeyConfirmed'
<1>a. record \in RecordType
  BY DEF Typed
<1>1. CASE Step
  <2>a. UNCHANGED confirmed
    BY <1>1, StepFrame
  <2>b. ~record.commissioned
    BY <1>1 DEF Step, StageInv
  <2>1. CASE Moves \/ Replaces
    BY <2>b, <2>1 DEF Moves, Replaces, CommittedKeyConfirmed
  <2>2. CASE Reserves
    <3>1. record'.commissioned = record.commissioned
      BY <1>a, <2>2 DEF Reserves, Reserved, RecordType
    <3>2. QED
      BY <2>b, <3>1 DEF CommittedKeyConfirmed
  <2>3. CASE Ends
    <3>1. CASE ~record'.commissioned
      BY <3>1 DEF CommittedKeyConfirmed
    <3>2. CASE /\ stage \in VerifyStages /\ verifySent /\ confirmOk
               /\ record.key = entry /\ record'.key = entry
      <4>1. PICK rank \in [Keys -> Nat] : Ranked(rank)
        BY DEF OrderInv
      <4>2. PICK c \in confirmed : UpTo(rank, entry, c) /\ UpTo(rank, c, entry)
        BY <3>2, <4>1 DEF Ranked
      <4>3. c \in Keys /\ entry \in Keys
        BY <3>2 DEF StageInv, Typed, IssuedInv, Issued
      <4>4. c = entry
        BY <4>2, <4>3, UpToOrder
      <4>5. QED
        BY <2>a, <3>2, <4>4 DEF CommittedKeyConfirmed
    <3>3. CASE record'.key = Default /\ legacyTc'
      BY <3>3 DEF CommittedKeyConfirmed
    <3>4. QED
      BY <2>3, <3>1, <3>2, <3>3 DEF Ends
  <2>4. QED
    BY <1>1, <2>1, <2>2, <2>3, StepEffect
<1>2. CASE Arm
  BY <1>2 DEF Arm, NoRecord, CommittedKeyConfirmed
<1>3. CASE ~Step /\ ~Arm
  <2>1. UNCHANGED <<record, legacyTc>>
    BY <1>3, EnvironmentFrame
  <2>2. confirmed \subseteq confirmed'
    BY <1>3 DEF Next, DeliverNodeDesc, DeliverTransportKey, DeliverConfirmKey,
       AbandonInitialCommissioning, Tick, TcSendsKey, TcAnswersVerify, history
  <2>3. QED
    BY <2>1, <2>2 DEF CommittedKeyConfirmed
<1>4. QED
  BY <1>1, <1>2, <1>3

-----------------------------------------------------------------------------
(* The theorems.                                                           *)

\* The inductive invariant: types, slot and stages, the order of the keys,
\* and what may be committed.
Inv ==
    /\ Typed /\ SlotOwnedWhileAwaiting /\ StageInv
    /\ IssuedInv /\ OrderInv /\ CommittedKeyConfirmed

\* Inv holds in every state of an exchange.
LEMMA ExchangeInvariant == Spec => []Inv
<1>1. Init => Inv
  <2> SUFFICES ASSUME Init PROVE Inv
    OBVIOUS
  <2> USE Constants, KeyKinds DEF Init
  <2>1. NoRecord \in RecordType /\ ~NoRecord.commissioned
    BY DEF NoRecord, RecordType
  <2>2. Typed
    <3>1. /\ 0 \in 0..MessageAttempts /\ 0 \in 0..MaxLag /\ 0 \in 0..MaxExchanges
          /\ now \in 0..(ClockModulus - 1)
      OBVIOUS
    <3>2. QED
      BY <2>1, <3>1 DEF Typed, Stages, Slots
  <2>3. SlotOwnedWhileAwaiting /\ StageInv
    BY <2>1 DEF SlotOwnedWhileAwaiting, StageInv, VerifyStages, Running,
       SendStages, RetryStages, AwaitStages
  <2>4. IssuedInv
    BY DEF IssuedInv, VerifyStages
  <2>5. OrderInv
    <3>1. [k \in Keys |-> 0] \in [Keys -> Nat]
      OBVIOUS
    <3>2. Ranked([k \in Keys |-> 0])
      BY DEF Ranked, VerifyStages
    <3>3. QED
      BY <3>1, <3>2 DEF OrderInv
  <2>6. CommittedKeyConfirmed
    BY <2>1 DEF CommittedKeyConfirmed
  <2>7. QED
    BY <2>2, <2>3, <2>4, <2>5, <2>6 DEF Inv
<1>2. Inv /\ [Next]_vars => Inv'
  <2> SUFFICES ASSUME Inv, [Next]_vars PROVE Inv'
    OBVIOUS
  <2>1. CASE Next
    <3>1. Typed'
      BY <2>1, StepType, EnvironmentType DEF Inv
    <3>2. QED
      BY <2>1, <3>1, SlotStep, StageStep, IssuedStep, OrderStep, CommitStep DEF Inv
  <2>2. CASE UNCHANGED vars
    BY <2>2 DEF vars, budgets, clock, external, history, Inv, Typed,
       SlotOwnedWhileAwaiting, StageInv, IssuedInv, Issued, OrderInv, Ranked,
       CommittedKeyConfirmed
  <2>3. QED
    BY <2>1, <2>2
<1>3. QED
  BY <1>1, <1>2, PTL DEF Spec

\* Every stage, timer, budget and message of the exchange stays in its range.
THEOREM TypeCorrect == Spec => []TypeOK
<1>1. Inv => TypeOK
  BY TypeParts DEF Inv
<1>2. QED
  BY <1>1, ExchangeInvariant, PTL

\* The network is committed only with a key that was confirmed to this node in
\* this exchange, or with the preconfigured key of a pre-R21 Trust Center:
\* for any number of keys the Trust Center generates and messages in flight,
\* however they overtake each other.
THEOREM CommitsOnlyConfirmed == Spec => []CommittedKeyConfirmed
<1>1. Inv => CommittedKeyConfirmed
  BY DEF Inv
<1>2. QED
  BY <1>1, ExchangeInvariant, PTL

\* The ZDO pending-response slot is held exactly while a Node_Desc_rsp is
\* awaited: no timeout, deadline, failure or abandoned join leaks it.
THEOREM SlotNeverLeaks == Spec => []SlotOwnedWhileAwaiting
<1>1. Inv => SlotOwnedWhileAwaiting
  BY DEF Inv
<1>2. QED
  BY <1>1, ExchangeInvariant, PTL

\* A Verify-Key whose Confirm-Key has arrived is not transmitted again, even
\* when the confirmation lost the race with the response window.
THEOREM NoVerifyAfterConfirm == Spec => AnsweredVerifyNotResent
<1> DEFINE Kept == (verifySent /\ confirmOk /\ {stage, stage'} \subseteq Running) =>
                     verifyKeyBudget' >= verifyKeyBudget /\ confirmOk'
<1>1. Inv /\ [Next]_vars => [Kept]_vars
  <2> SUFFICES ASSUME Inv, Next, verifySent, confirmOk,
                      stage \in Running, stage' \in Running
               PROVE  verifyKeyBudget' >= verifyKeyBudget /\ confirmOk'
    OBVIOUS
  <2> USE DEF budgets, Running, SendStages, RetryStages, AwaitStages, Terminal
  <2>a. verifyKeyBudget \in Int /\ stage \in VerifyStages
    BY DEF Inv, Typed, StageInv
  <2>b. ASSUME UNCHANGED <<verifyKeyBudget, confirmOk>>
        PROVE  verifyKeyBudget' >= verifyKeyBudget /\ confirmOk'
    BY <2>a, <2>b
  <2>1. CASE Step
    <3>1. ~Fail /\ ~FinalizeSuccess
      BY DEF Fail, FinalizeSuccess, Succeed
    <3>2. UNCHANGED <<verifyKeyBudget, confirmOk>>
      BY <2>1, <2>a, <3>1 DEF Step, StepDeadline, StepStartDelay, StepSendNodeDesc,
         StepRetry, StepAwaitNodeDesc, StepSendRequestKey, StepAwaitTclk,
         StepSendVerifyKey, StepAwaitConfirmKey, LateConfirm, VerifyStages
    <3>3. QED
      BY <2>b, <3>2
  <2>2. CASE ~Step
    <3>1. ~Arm
      BY DEF Arm
    <3>2. verifyKeyBudget' = verifyKeyBudget /\ (confirmOk => confirmOk')
      BY <2>2, <3>1 DEF Next, DeliverNodeDesc, DeliverTransportKey,
         DeliverConfirmKey, AbandonInitialCommissioning, Tick, TcSendsKey,
         TcAnswersVerify
    <3>3. QED
      BY <2>a, <3>2
  <2>3. QED
    BY <2>1, <2>2
<1>2. QED
  BY <1>1, ExchangeInvariant, PTL DEF Spec, AnsweredVerifyNotResent
=============================================================================
