--------------------------- MODULE EthMost_proofs ---------------------------
(***************************************************************************)
(* Proofs about EthMost for every set of guardians, tokens, requests and   *)
(* every bound.                                                            *)
(***************************************************************************)
EXTENDS EthMost, Sums, SequenceTheorems

\* The parts of the assumption, one by one.
LEMMA Constants ==
    /\ Amounts \subseteq Nat
    /\ Mintable \subseteq Tokens
    /\ Weth \in Tokens \ Mintable
    /\ Zero \notin Tokens
    /\ Limits \subseteq [Tokens -> Nat]
    /\ Funds \in [Tokens -> Nat]
    /\ MaxCommitteeId \in Nat
    /\ MaxNonce \in Nat
    /\ IsFiniteSet(Guardians)
  BY EthMostAssumption

LEMMA IncomingType ==
    ASSUME NEW r \in Incoming
    PROVE  /\ r \in Request
           /\ r.committeeId \in CommitteeIds
           /\ r.amount \in Nat
           /\ r.destToken \in Tokens \cup {Zero}
  BY EthMostAssumption DEF Request

\* Popping the innermost frame.
LEMMA PopProperties ==
    ASSUME NEW S, NEW s \in Seq(S), Len(s) > 0
    PROVE  /\ SubSeq(s, 1, Len(s) - 1) \in Seq(S)
           /\ Len(SubSeq(s, 1, Len(s) - 1)) = Len(s) - 1
           /\ \A i \in 1 .. Len(s) - 1 : SubSeq(s, 1, Len(s) - 1)[i] = s[i]
<1> DEFINE n == Len(s) - 1
<1>1. n \in Nat /\ n \in Int /\ 1 \in Int /\ \A i \in 1 .. n : s[i] \in S
  BY SMT
<1> HIDE DEF n
<1>2. /\ SubSeq(s, 1, n) \in Seq(S)
      /\ Len(SubSeq(s, 1, n)) = IF 1 <= n THEN n - 1 + 1 ELSE 0
      /\ \A i \in 1 .. n - 1 + 1 : SubSeq(s, 1, n)[i] = s[1 + i - 1]
  BY <1>1, SubSeqProperties
<1>3. /\ SubSeq(s, 1, n) \in Seq(S)
      /\ Len(SubSeq(s, 1, n)) = n
      /\ \A i \in 1 .. n : SubSeq(s, 1, n)[i] = s[i]
  BY <1>1, <1>2, SMT
<1> QED BY <1>3 DEF n

LEMMA ConfigUnchanged == ConfigType /\ UNCHANGED config => ConfigType'
  BY SMT DEF ConfigType, config

LEMMA VotingUnchanged == VotingType /\ UNCHANGED voting => VotingType'
  BY SMT DEF VotingType, voting

LEMMA MoneyUnchanged == MoneyType /\ UNCHANGED money => MoneyType'
  BY SMT DEF MoneyType, money

LEMMA LogUnchanged == LogType /\ UNCHANGED log => LogType'
  BY SMT DEF LogType, log

\* Logging a request of the right type keeps the log's type.
LEMMA EmitType ==
    ASSUME TypeOK, NEW destToken \in RemoteTokens \cup {Zero}, NEW amount \in Nat,
           NEW receiver \in Receivers, Emit(destToken, amount, receiver)
    PROVE  requestNonce' \in Nat /\ sent' \in Seq(Request)
<1> DEFINE r == [committeeId |-> committeeId, destToken |-> destToken, amount |-> amount,
                 receiver |-> receiver, nonce |-> requestNonce]
<1>1. r \in Request
  BY SMT DEF TypeOK, ConfigType, LogType, Request
<1> QED
  BY <1>1, SMT DEF Emit, TypeOK, LogType

\* A step that leaves the suspended calls, the flags and the balances alone, or happens
\* outside of any call, keeps FramesCovered.
LEMMA FramesUnchanged ==
    FramesCovered /\ UNCHANGED <<frames, isLocalToken, balance>> => FramesCovered'
  BY DEF FramesCovered

LEMMA FramesGrow ==
    ASSUME TypeOK, FramesCovered, UNCHANGED <<frames, isLocalToken>>,
           \A t \in Tokens : balance'[t] >= balance[t] /\ balance[t] \in Nat /\ balance'[t] \in Nat
    PROVE  FramesCovered'
<1>1. \A i \in 1 .. Len(frames) : frames[i].token \in Tokens /\ frames[i].amount \in Nat
  <2>1. \A i \in 1 .. Len(frames) : frames[i] \in Frame
    BY SMT DEF TypeOK, LogType
  <2> QED BY <2>1, SMT DEF Frame
<1> QED BY <1>1, SMT DEF FramesCovered

LEMMA NoFrames ==
    frames = <<>> /\ UNCHANGED frames => FramesCovered'
  BY SMT DEF FramesCovered

TypeInv == TypeOK /\ FramesCovered

\* Every handler of AbstractMost.sol and Most.sol keeps the types of storage and logs, and
\* what a suspended sendRequest has to burn stays in the contract.
THEOREM TypeCorrect == Spec => [](TypeOK /\ FramesCovered)
<1>1. Init => TypeInv
  BY Constants, SMT DEF Init, TypeInv, TypeOK, FramesCovered, ConfigType, VotingType, MoneyType,
     LogType, CommitteeIds, NoMembers, ValidCommittee, Thresholds
<1>2. TypeInv /\ [Next]_vars => TypeInv'
  <2> SUFFICES ASSUME TypeInv, [Next]_vars PROVE TypeInv'
    OBVIOUS
  <2>0. /\ TypeOK /\ FramesCovered
        /\ UNCHANGED config => ConfigType'
        /\ UNCHANGED voting => VotingType'
        /\ UNCHANGED money => MoneyType'
        /\ UNCHANGED log => LogType'
        /\ UNCHANGED <<config, money, log>> => FramesCovered'
    BY ConfigUnchanged, VotingUnchanged, MoneyUnchanged, LogUnchanged, FramesUnchanged
       DEF TypeInv, TypeOK, config, money, log
  <2>1. ASSUME NEW t \in Tokens, NEW amount \in Amounts, NEW receiver \in Receivers,
               SendRequest(t, amount, receiver)
        PROVE  TypeInv'
    <3> DEFINE f == [token |-> t, destToken |-> supportedPairs[t], amount |-> amount,
                     receiver |-> receiver]
    <3>0. amount \in Nat /\ Len(frames) \in Nat
      BY <2>0, Constants DEF TypeOK, LogType
    <3>1. MoneyType'
      BY <2>0, <2>1, <3>0, SMT DEF SendRequest, TypeOK, MoneyType
    <3>2. f \in Frame
      BY <2>0, <2>1, <3>0, SMT DEF SendRequest, TypeOK, ConfigType, Frame
    <3>3. LogType'
      BY <2>0, <2>1, <3>2, SMT DEF SendRequest, TypeOK, LogType
    <3>4. FramesCovered'
      <4>1. /\ frames' = Append(frames, f)
            /\ balance' = [balance EXCEPT ![t] = @ + amount]
            /\ isLocalToken' = isLocalToken
            /\ isLocalToken[t] \/ t \in Mintable
            /\ frames # <<>> => frames[Len(frames)].token \notin Mintable
        BY <2>1 DEF SendRequest, MaySend, config
      <4>2. frames \in Seq(Frame) /\ balance \in [Tokens -> Nat]
        BY <2>0 DEF TypeOK, LogType, MoneyType
      <4>3. ASSUME NEW i \in 1 .. Len(frames) PROVE frames[i] \in Frame /\ frames'[i] = frames[i]
        BY <4>1, <4>2, SMT
      <4>4. Len(frames') = Len(frames) + 1 /\ frames'[Len(frames) + 1] = f
        BY <4>1, <4>2, SMT
      <4> SUFFICES ASSUME NEW i \in 1 .. Len(frames) + 1
                   PROVE  /\ isLocalToken[frames'[i].token] \/ frames'[i].token \in Mintable
                          /\ i < Len(frames) + 1 => frames'[i].token \notin Mintable
                          /\ ~isLocalToken[frames'[i].token] =>
                                balance'[frames'[i].token] >= frames'[i].amount
        BY <4>1, <4>4 DEF FramesCovered
      <4>5. CASE i = Len(frames) + 1
        BY <3>0, <4>1, <4>2, <4>4, <4>5, SMT
      <4>6. CASE i \in 1 .. Len(frames)
        <5>1. frames'[i].token \notin Mintable /\ isLocalToken[frames'[i].token]
          BY <2>0, <3>0, <4>1, <4>3, <4>6, SMT DEF FramesCovered
        <5> QED BY <5>1
      <4> QED BY <3>0, <4>5, <4>6, SMT
    <3> QED BY <2>0, <2>1, <3>1, <3>3, <3>4 DEF SendRequest, TypeInv, TypeOK
  <2>2. ASSUME SendRequestReturns PROVE TypeInv'
    <3> DEFINE f == frames[Len(frames)]
    <3>0. frames \in Seq(Frame) /\ Len(frames) \in Nat /\ Len(frames) > 0
      BY <2>0, <2>2, SMT DEF SendRequestReturns, TypeOK, LogType
    <3>1. f \in Frame /\ f.token \in Tokens /\ f.amount \in Nat
      <4>1. f \in Frame
        BY <3>0, ElementOfSeq
      <4> QED BY <4>1, SMT DEF Frame
    <3>2. MoneyType'
      <4>1. ~isLocalToken[f.token] => balance[f.token] >= f.amount
        BY <2>0, <3>0, SMT DEF FramesCovered
      <4> QED
        BY <2>0, <2>2, <3>1, <4>1, SMT DEF SendRequestReturns, TypeOK, MoneyType
    <3>3. LogType'
      <4>1. requestNonce' \in Nat /\ sent' \in Seq(Request)
        BY <2>0, <2>2, <3>1, EmitType DEF SendRequestReturns, Frame
      <4> QED
        BY <2>2, <3>0, <4>1, SMT DEF SendRequestReturns, LogType
    <3>4. FramesCovered'
      <4>1. /\ frames' = SubSeq(frames, 1, Len(frames) - 1)
            /\ isLocalToken' = isLocalToken
        BY <2>2 DEF SendRequestReturns, config
      <4>2. Len(frames') = Len(frames) - 1 /\ \A i \in 1 .. Len(frames) - 1 : frames'[i] = frames[i]
        BY <3>0, <4>1, PopProperties
      <4>3. ASSUME NEW i \in 1 .. Len(frames) - 1
            PROVE  frames'[i] = frames[i] /\ isLocalToken[frames[i].token] /\ frames[i].token \notin Mintable
        BY <2>0, <3>0, <4>2, SMT DEF FramesCovered
      <4> QED BY <4>1, <4>2, <4>3 DEF FramesCovered
    <3> QED BY <2>0, <2>2, <3>2, <3>3, <3>4 DEF SendRequestReturns, TypeInv, TypeOK
  <2>3. ASSUME NEW amount \in Amounts, NEW receiver \in Receivers,
               SendRequestNative(amount, receiver)
        PROVE  TypeInv'
    <3>0. amount \in Nat /\ supportedPairs[Weth] \in RemoteTokens \cup {Zero}
      BY <2>0, Constants DEF TypeOK, ConfigType
    <3>1. MoneyType'
      BY <2>0, <2>3, <3>0, Constants, SMT DEF SendRequestNative, TypeOK, MoneyType
    <3>2. LogType'
      BY <2>0, <2>3, <3>0, EmitType DEF SendRequestNative, TypeOK, LogType
    <3>3. FramesCovered'
      <4>1. /\ UNCHANGED <<frames, isLocalToken>>
            /\ \A t \in Tokens : balance'[t] >= balance[t] /\ balance[t] \in Nat /\ balance'[t] \in Nat
        BY <2>0, <2>3, <3>0, <3>1, Constants, SMT
           DEF SendRequestNative, TypeOK, MoneyType, config
      <4> QED BY <2>0, <4>1, FramesGrow
    <3> QED BY <2>0, <2>3, <3>1, <3>2, <3>3 DEF SendRequestNative, TypeInv, TypeOK
  <2>4. ASSUME NEW amount \in Amounts, NEW receiver \in Receivers,
               SendRequestAzeroToNative(amount, receiver)
        PROVE  TypeInv'
    <3>0. amount \in Nat /\ Zero \in RemoteTokens \cup {Zero}
      BY Constants
    <3>1. MoneyType'
      BY <2>0, <2>4, <3>0, Constants, SMT DEF SendRequestAzeroToNative, TypeOK, MoneyType
    <3>2. LogType'
      BY <2>0, <2>4, <3>0, EmitType DEF SendRequestAzeroToNative, TypeOK, LogType
    <3>3. FramesCovered'
      BY <2>0, <2>4, FramesUnchanged DEF SendRequestAzeroToNative, config
    <3> QED BY <2>0, <2>4, <3>1, <3>2, <3>3 DEF SendRequestAzeroToNative, TypeInv, TypeOK
  <2>5. ASSUME NEW g \in Guardians, NEW r \in Incoming, ReceiveRequest(g, r)
        PROVE  TypeInv'
    <3>0. r.amount \in Nat /\ r.destToken \in Tokens \cup {Zero} /\ r \in Incoming
      BY IncomingType
    <3>1. MoneyType' /\ VotingType'
      <4>1. CASE ~ThresholdMet(r)
        <5>1. /\ signatures' = [signatures EXCEPT ![r] = @ \cup {g}]
              /\ signatureCount' = [signatureCount EXCEPT ![r] = @ + 1]
              /\ UNCHANGED <<processedRequests, payouts, failed>>
              /\ UNCHANGED <<balance, ether, outside, recovered>>
          BY <2>5, <4>1 DEF ReceiveRequest
        <5> QED
          BY <2>0, <5>1, MoneyUnchanged, SMT DEF TypeOK, VotingType, money
      <4>2. CASE OnReceiveRequestThresholdMet(r)
        <5>1. /\ signatures' = [signatures EXCEPT ![r] = @ \cup {g}]
              /\ signatureCount' = [signatureCount EXCEPT ![r] = 0]
              /\ processedRequests' = processedRequests \cup {r}
              /\ payouts' = [payouts EXCEPT ![r] = @ + 1]
              /\ UNCHANGED recovered
          BY <2>5, <4>2 DEF ReceiveRequest, OnReceiveRequestThresholdMet
        <5>2. MoneyType' /\ failed' \subseteq Incoming
          <6>1. CASE PayEther(r)
            BY <2>0, <3>0, <5>1, <6>1, Constants, SMT DEF PayEther, TypeOK, MoneyType, VotingType
          <6>2. CASE PayMint(r)
            BY <2>0, <3>0, <5>1, <6>2, Constants, SMT DEF PayMint, TypeOK, MoneyType, VotingType
          <6>3. CASE PayTransfer(r)
            BY <2>0, <3>0, <5>1, <6>3, Constants, SMT DEF PayTransfer, TypeOK, MoneyType, VotingType
          <6> QED BY <4>2, <6>1, <6>2, <6>3 DEF OnReceiveRequestThresholdMet
        <5>3. VotingType'
          BY <2>0, <5>1, <5>2, SMT DEF TypeOK, VotingType
        <5> QED BY <5>2, <5>3
      <4> QED BY <2>5, <4>1, <4>2 DEF ReceiveRequest
    <3>2. FramesCovered'
      BY <2>5, NoFrames DEF ReceiveRequest, log
    <3> QED BY <2>0, <2>5, <3>1, <3>2 DEF ReceiveRequest, TypeInv, TypeOK
  <2>6. ASSUME Pause \/ Unpause PROVE TypeInv'
    BY <2>0, <2>6 DEF Pause, Unpause, TypeInv, TypeOK
  <2>7. ASSUME NEW amount \in Amounts, RecoverNative(amount) PROVE TypeInv'
    <3>1. MoneyType'
      BY <2>0, <2>7, Constants, SMT DEF RecoverNative, TypeOK, MoneyType
    <3> QED BY <2>0, <2>7, <3>1, NoFrames DEF RecoverNative, TypeInv, TypeOK, log
  <2>8. ASSUME NEW t \in Tokens, NEW amount \in Amounts, RecoverERC20(t, amount)
        PROVE  TypeInv'
    <3>1. MoneyType'
      BY <2>0, <2>8, Constants, SMT DEF RecoverERC20, TypeOK, MoneyType
    <3> QED BY <2>0, <2>8, <3>1, NoFrames DEF RecoverERC20, TypeInv, TypeOK, log
  <2>9. ASSUME NEW C \in SUBSET Guardians, NEW threshold \in Thresholds,
               SetCommittee(C, threshold)
        PROVE  TypeInv'
    <3>1. threshold \in Nat
      BY Constants, FS_CardinalityType, SMT DEF Thresholds
    <3>2. ConfigType'
      BY <2>0, <2>9, <3>1, Constants, SMT
         DEF SetCommittee, NewCommitteeId, CommitteeIds, TypeOK, ConfigType
    <3> QED BY <2>0, <2>9, <3>2, NoFrames DEF SetCommittee, TypeInv, TypeOK, log
  <2>10. ASSUME NEW t \in Tokens \cup {Zero}, SetWrappedAzeroAddress(t) PROVE TypeInv'
    <3>1. ConfigType'
      BY <2>0, <2>10, SMT DEF SetWrappedAzeroAddress, TypeOK, ConfigType
    <3> QED BY <2>0, <2>10, <3>1, NoFrames DEF SetWrappedAzeroAddress, TypeInv, TypeOK, log
  <2>11. ASSUME NEW t \in Tokens, RemovePair(t) PROVE TypeInv'
    <3>1. ConfigType'
      BY <2>0, <2>11, SMT DEF RemovePair, TypeOK, ConfigType
    <3> QED BY <2>0, <2>11, <3>1, NoFrames DEF RemovePair, TypeInv, TypeOK, log
  <2>12. ASSUME NEW t \in Tokens, NEW isLocal \in BOOLEAN, SetLocalToken(t, isLocal)
         PROVE  TypeInv'
    <3>1. ConfigType'
      BY <2>0, <2>12, SMT DEF SetLocalToken, TypeOK, ConfigType
    <3> QED BY <2>0, <2>12, <3>1, NoFrames DEF SetLocalToken, TypeInv, TypeOK, log
  <2>13. ASSUME NEW t \in Tokens, NEW to \in RemoteTokens, NEW isLocal \in BOOLEAN,
                AddPair(t, to, isLocal)
         PROVE  TypeInv'
    <3>1. ConfigType'
      BY <2>0, <2>13, SMT DEF AddPair, TypeOK, ConfigType
    <3> QED BY <2>0, <2>13, <3>1, NoFrames DEF AddPair, TypeInv, TypeOK, log
  <2>14. ASSUME NEW limit \in Limits, SetTransferLimitContract(limit) PROVE TypeInv'
    BY <2>0, <2>14, Constants DEF SetTransferLimitContract, TypeInv, TypeOK
  <2>15. CASE UNCHANGED vars
    BY <2>0, <2>15 DEF vars, TypeInv, TypeOK
  <2> QED
    BY <2>1, <2>2, <2>3, <2>4, <2>5, <2>6, <2>7, <2>8, <2>9, <2>10, <2>11, <2>12, <2>13,
       <2>14, <2>15 DEF Next, Send, Receive, Govern
<1> QED
  BY <1>1, <1>2, PTL DEF Spec, TypeInv

-----------------------------------------------------------------------------
(* Voting *)

\* Committees in use can reach their threshold; ids not used yet have no members.
CommitteeInv ==
    \A c \in CommitteeIds :
        IF c <= committeeId
        THEN signatureThreshold[c] > 0 /\ signatureThreshold[c] <= Cardinality(committee[c])
        ELSE committee[c] = {}

\* The count of a pending request is the number of its signatures and below the threshold.
VoteInv(r) ==
    /\ signatures[r] \subseteq committee[r.committeeId]
    /\ r \notin processedRequests =>
          /\ signatureCount[r] = Cardinality(signatures[r])
          /\ r.committeeId <= committeeId => signatureCount[r] < signatureThreshold[r.committeeId]
    /\ r \in processedRequests =>
          /\ r.committeeId <= committeeId
          /\ signatureThreshold[r.committeeId] <= Cardinality(signatures[r])

VotingInv ==
    /\ TypeOK
    /\ CommitteeInv
    /\ \A r \in Incoming : VoteInv(r)
    /\ PaidExactlyOnce

\* A step that leaves votes and committees alone keeps the invariant.
LEMMA VotingStutter ==
    ASSUME VotingInv, TypeOK',
           UNCHANGED <<committeeId, committee, signatureThreshold, voting>>
    PROVE  VotingInv'
  BY DEF VotingInv, CommitteeInv, VoteInv, PaidExactlyOnce, voting

\* One vote: the signature is new, so count and signatures grow together.
LEMMA VotingReceive ==
    ASSUME VotingInv, TypeOK', NEW g \in Guardians, NEW r \in Incoming, ReceiveRequest(g, r)
    PROVE  VotingInv'
<1>1. /\ UNCHANGED <<committeeId, committee, signatureThreshold>>
      /\ signatures' = [signatures EXCEPT ![r] = @ \cup {g}]
      /\ g \in committee[r.committeeId]
      /\ r \notin processedRequests
      /\ g \notin signatures[r]
  BY DEF ReceiveRequest, NeedsSignature, IsInCommittee, HasSignedRequest, config
<1>2. /\ signatures \in [Incoming -> SUBSET Guardians]
      /\ signatureCount \in [Incoming -> Nat]
      /\ payouts \in [Incoming -> Nat]
      /\ signatureThreshold \in [CommitteeIds -> Nat]
      /\ committeeId \in Nat
  <2>1. committeeId \in Nat
    BY Constants, SMT DEF VotingInv, TypeOK, ConfigType, CommitteeIds
  <2> QED BY <2>1 DEF VotingInv, TypeOK, VotingType, ConfigType
<1>3. r.committeeId \in CommitteeIds /\ r.committeeId \in Nat
  BY IncomingType, Constants, SMT DEF CommitteeIds
<1>4. r.committeeId <= committeeId
  BY <1>1, <1>3 DEF VotingInv, CommitteeInv
<1>5. /\ Cardinality(signatures[r]) \in Nat
      /\ Cardinality(signatures'[r]) = Cardinality(signatures[r]) + 1
  <2>1. IsFiniteSet(signatures[r])
    BY <1>2, Constants, FS_Subset
  <2> QED BY <1>1, <1>2, <2>1, FS_AddElement, FS_CardinalityType
<1>6. signatureCount[r] = Cardinality(signatures[r]) /\ payouts[r] = 0
  BY <1>1 DEF VotingInv, VoteInv, PaidExactlyOnce
<1>7. CommitteeInv'
  BY <1>1 DEF VotingInv, CommitteeInv
<1>8. ASSUME NEW q \in Incoming, q # r,
             processedRequests' \subseteq processedRequests \cup {r},
             processedRequests \subseteq processedRequests',
             signatureCount'[q] = signatureCount[q]
      PROVE  VoteInv(q)'
  <2>1. signatures'[q] = signatures[q] /\ (q \in processedRequests' <=> q \in processedRequests)
    BY <1>1, <1>2, <1>8
  <2> QED BY <1>1, <1>8, <2>1 DEF VotingInv, VoteInv
<1>9. CASE ~ThresholdMet(r)
  <2>1. /\ signatureCount' = [signatureCount EXCEPT ![r] = @ + 1]
        /\ UNCHANGED <<processedRequests, payouts>>
    BY <1>9 DEF ReceiveRequest
  <2>2. ~(signatureCount[r] + 1 >= signatureThreshold[r.committeeId])
    BY <1>9 DEF ThresholdMet
  <2>3. VoteInv(r)'
    BY <1>1, <1>2, <1>3, <1>5, <1>6, <2>1, <2>2, SMT DEF VotingInv, VoteInv
  <2>4. \A q \in Incoming : VoteInv(q)'
    BY <1>2, <1>8, <2>1, <2>3
  <2> QED BY <1>7, <2>1, <2>4 DEF VotingInv, PaidExactlyOnce
<1>10. CASE ThresholdMet(r)
  <2>1. /\ processedRequests' = processedRequests \cup {r}
        /\ signatureCount' = [signatureCount EXCEPT ![r] = 0]
        /\ payouts' = [payouts EXCEPT ![r] = @ + 1]
    BY <1>10 DEF ReceiveRequest, OnReceiveRequestThresholdMet
  <2>2. signatureCount[r] + 1 >= signatureThreshold[r.committeeId]
    BY <1>10 DEF ThresholdMet
  <2>3. VoteInv(r)'
    BY <1>1, <1>2, <1>3, <1>4, <1>5, <1>6, <2>1, <2>2, SMT DEF VotingInv, VoteInv
  <2>4. \A q \in Incoming : VoteInv(q)'
    BY <1>2, <1>8, <2>1, <2>3
  <2>5. PaidExactlyOnce'
    BY <1>1, <1>2, <1>6, <2>1, SMT DEF VotingInv, PaidExactlyOnce
  <2> QED BY <1>7, <2>4, <2>5 DEF VotingInv
<1> QED BY <1>9, <1>10

\* A new committee takes an unused id, for which nobody can have voted yet.
LEMMA VotingSetCommittee ==
    ASSUME VotingInv, TypeOK', NEW C \in SUBSET Guardians, NEW threshold \in Thresholds,
           SetCommittee(C, threshold)
    PROVE  VotingInv'
<1>1. /\ committeeId' = committeeId + 1
      /\ committee' = [committee EXCEPT ![committeeId + 1] = C]
      /\ signatureThreshold' = [signatureThreshold EXCEPT ![committeeId + 1] = threshold]
      /\ UNCHANGED voting
      /\ committeeId + 1 \in CommitteeIds
      /\ committeeId \in Nat
      /\ threshold > 0 /\ threshold <= Cardinality(C)
  <2>1. committeeId \in 0 .. MaxCommitteeId
    BY DEF VotingInv, TypeOK, ConfigType, CommitteeIds
  <2>2. Cardinality(C) \in Nat
    BY Constants, FS_Subset, FS_CardinalityType
  <2>3. threshold \in Nat
    BY Constants, FS_CardinalityType, SMT DEF Thresholds
  <2> QED BY <2>1, <2>2, <2>3, Constants, SMT DEF SetCommittee, ValidCommittee, NewCommitteeId, CommitteeIds
<1>2. committee \in [CommitteeIds -> SUBSET Guardians] /\ signatureThreshold \in [CommitteeIds -> Nat]
  BY DEF VotingInv, TypeOK, ConfigType
<1>3. CommitteeInv'
  BY <1>1, <1>2, Constants, SMT DEF VotingInv, CommitteeInv, CommitteeIds
<1>4. ASSUME NEW r \in Incoming PROVE VoteInv(r)'
  <2>1. r.committeeId \in CommitteeIds
    BY IncomingType
  <2>2. UNCHANGED <<signatures[r], signatureCount[r], processedRequests>>
    BY <1>1 DEF voting
  <2>3. VoteInv(r)
    BY DEF VotingInv
  <2>4. CASE r.committeeId = committeeId + 1
    <3>1. ~(r.committeeId <= committeeId)
      BY <1>1, <2>4, SMT
    <3>2. signatures[r] = {} /\ r \notin processedRequests
      BY <2>1, <2>3, <3>1 DEF VoteInv, VotingInv, CommitteeInv
    <3>3. signatureCount[r] = 0
      BY <2>3, <3>2, FS_EmptySet DEF VoteInv
    <3>4. Cardinality({}) = 0
      BY FS_EmptySet
    <3>5. signatureThreshold'[r.committeeId] = threshold
      BY <1>1, <1>2, <2>1, <2>4
    <3> QED BY <1>1, <2>2, <3>2, <3>3, <3>4, <3>5 DEF VoteInv
  <2>5. CASE r.committeeId # committeeId + 1
    <3>1. committee'[r.committeeId] = committee[r.committeeId]
          /\ signatureThreshold'[r.committeeId] = signatureThreshold[r.committeeId]
      BY <1>1, <1>2, <2>1, <2>5
    <3>2. r.committeeId <= committeeId' <=> r.committeeId <= committeeId
      BY <1>1, <2>1, <2>5, Constants, SMT DEF CommitteeIds
    <3> QED BY <2>2, <2>3, <3>1, <3>2 DEF VoteInv
  <2> QED BY <2>4, <2>5
<1> QED BY <1>1, <1>3, <1>4 DEF VotingInv, PaidExactlyOnce, voting

\* Every step is a vote, a change of committee, or leaves votes and committees alone.
LEMMA StepKinds ==
    ASSUME [Next]_vars
    PROVE  \/ \E g \in Guardians, r \in Incoming : ReceiveRequest(g, r)
           \/ \E C \in SUBSET Guardians, threshold \in Thresholds : SetCommittee(C, threshold)
           \/ UNCHANGED <<committeeId, committee, signatureThreshold, voting>>
<1>1. CASE Send
  BY <1>1 DEF Send, SendRequest, SendRequestReturns, SendRequestNative,
     SendRequestAzeroToNative, config
<1>2. CASE Receive
  BY <1>2 DEF Receive
<1>3. CASE Govern
  <2> DEFINE Same == UNCHANGED <<committeeId, committee, signatureThreshold, voting>>
  <2>1. Pause \/ Unpause => Same
    BY DEF Pause, Unpause, config
  <2>2. \A amount \in Amounts : RecoverNative(amount) => Same
    BY DEF RecoverNative, config
  <2>3. \A amount \in Amounts, t \in Tokens : RecoverERC20(t, amount) => Same
    BY DEF RecoverERC20, config
  <2>4. \A t : SetWrappedAzeroAddress(t) \/ RemovePair(t) => Same
    BY DEF SetWrappedAzeroAddress, RemovePair
  <2>5. \A t, isLocal : SetLocalToken(t, isLocal) => Same
    BY DEF SetLocalToken
  <2>6. \A t, to, isLocal : AddPair(t, to, isLocal) => Same
    BY DEF AddPair
  <2>7. \A limit : SetTransferLimitContract(limit) => Same
    BY DEF SetTransferLimitContract, config
  <2> QED BY <1>3, <2>1, <2>2, <2>3, <2>4, <2>5, <2>6, <2>7 DEF Govern
<1>4. CASE UNCHANGED vars
  BY <1>4 DEF vars, config
<1> QED BY <1>1, <1>2, <1>3, <1>4 DEF Next

\* In every reachable state counts match signatures and committees can reach their threshold.
THEOREM VotingInvariant == Spec => []VotingInv
<1>1. Init /\ TypeOK => VotingInv
  <2> SUFFICES ASSUME Init, TypeOK PROVE VotingInv
    OBVIOUS
  <2>1. PICK C \in SUBSET Guardians, threshold \in Thresholds :
          /\ ValidCommittee(C, threshold)
          /\ committee = [NoMembers EXCEPT ![0] = C]
          /\ signatureThreshold = [[c \in CommitteeIds |-> 0] EXCEPT ![0] = threshold]
    BY DEF Init
  <2>2. Cardinality(C) \in Nat /\ threshold \in Nat
    <3>1. IsFiniteSet(C)
      BY Constants, FS_Subset
    <3> QED BY <3>1, Constants, FS_CardinalityType, SMT DEF Thresholds
  <2>3. committeeId = 0 /\ 0 \in CommitteeIds
    BY Constants, SMT DEF Init, CommitteeIds
  <2>4. threshold > 0 /\ threshold <= Cardinality(C)
    BY <2>1, <2>2, SMT DEF ValidCommittee
  <2>5. CommitteeInv
    BY <2>1, <2>2, <2>3, <2>4, Constants, SMT DEF CommitteeInv, NoMembers, CommitteeIds
  <2>6. ASSUME NEW r \in Incoming PROVE VoteInv(r)
    <3>1. signatures[r] = {} /\ signatureCount[r] = 0 /\ r \notin processedRequests
      BY DEF Init
    <3>2. Cardinality({}) = 0
      BY FS_EmptySet
    <3>3. r.committeeId \in CommitteeIds /\ (r.committeeId <= committeeId => r.committeeId = 0)
      BY <2>3, IncomingType, Constants, SMT DEF CommitteeIds
    <3>4. signatureThreshold[0] = threshold
      BY <2>1, <2>3
    <3> QED BY <2>2, <2>4, <3>1, <3>2, <3>3, <3>4 DEF VoteInv
  <2>7. PaidExactlyOnce
    BY DEF Init, PaidExactlyOnce
  <2> QED BY <2>5, <2>6, <2>7 DEF VotingInv
<1>2. VotingInv /\ TypeOK' /\ [Next]_vars => VotingInv'
  BY StepKinds, VotingReceive, VotingSetCommittee, VotingStutter
<1>3. Spec => []TypeOK
  BY TypeCorrect, PTL
<1> QED
  BY <1>1, <1>2, <1>3, PTL DEF Spec

\* A processed request has the votes of a quorum of its own committee.
THEOREM QuorumTheorem == Spec => []QuorumBehindProcessed
<1>1. VotingInv => QuorumBehindProcessed
  <2> SUFFICES ASSUME VotingInv, NEW r \in processedRequests
               PROVE  /\ signatures[r] \subseteq committee[r.committeeId]
                      /\ Cardinality(signatures[r]) >= signatureThreshold[r.committeeId]
                      /\ signatureThreshold[r.committeeId] > 0
    BY DEF QuorumBehindProcessed
  <2>1. r \in Incoming
    BY DEF VotingInv, TypeOK, VotingType
  <2>2. VoteInv(r) /\ r.committeeId \in CommitteeIds
    BY <2>1, IncomingType DEF VotingInv
  <2>3. signatureThreshold[r.committeeId] > 0
    BY <2>2 DEF VotingInv, CommitteeInv, VoteInv
  <2>4. Cardinality(signatures[r]) \in Nat /\ signatureThreshold[r.committeeId] \in Nat
    BY <2>1, <2>2, Constants, FS_Subset, FS_CardinalityType
       DEF VotingInv, TypeOK, VotingType, ConfigType
  <2> QED BY <2>2, <2>3, <2>4, SMT DEF VoteInv
<1> QED BY <1>1, VotingInvariant, PTL

\* A request that no member of its committee can vote for any more is processed.
THEOREM AllSignedTheorem == Spec => []AllSignedMeansProcessed
<1>1. VotingInv => AllSignedMeansProcessed
  <2> SUFFICES ASSUME VotingInv, NEW r \in Incoming, r.committeeId <= committeeId,
                      \A g \in Guardians : ~NeedsSignature(r, g), r \notin processedRequests
               PROVE  FALSE
    BY DEF AllSignedMeansProcessed
  <2>1. r.committeeId \in CommitteeIds /\ VoteInv(r)
    BY IncomingType DEF VotingInv
  <2>2. committee[r.committeeId] \subseteq Guardians
    BY <2>1 DEF VotingInv, TypeOK, ConfigType
  <2>3. committee[r.committeeId] \subseteq signatures[r]
    BY <2>2 DEF NeedsSignature, IsInCommittee, HasSignedRequest
  <2>4. committee[r.committeeId] = signatures[r]
    BY <2>1, <2>3 DEF VoteInv
  <2>5. Cardinality(signatures[r]) \in Nat /\ signatureThreshold[r.committeeId] \in Nat
    BY <2>1, Constants, FS_Subset, FS_CardinalityType
       DEF VotingInv, TypeOK, VotingType, ConfigType
  <2>6. /\ signatureThreshold[r.committeeId] <= Cardinality(signatures[r])
        /\ Cardinality(signatures[r]) < signatureThreshold[r.committeeId]
    BY <2>1, <2>4 DEF VotingInv, CommitteeInv, VoteInv
  <2> QED BY <2>5, <2>6, SMT
<1> QED BY <1>1, VotingInvariant, PTL

\* Every processed request was paid out exactly once, every other one never.
THEOREM PaidOnceTheorem == Spec => []PaidExactlyOnce
<1>1. VotingInv => PaidExactlyOnce
  BY DEF VotingInv
<1> QED BY <1>1, VotingInvariant, PTL

\* Governance never touches the members or the threshold of a committee that exists.
THEOREM ImmutableTheorem == Spec => CommitteesAreImmutable
<1>1. TypeOK /\ [Next]_vars =>
        [\A c \in 0 .. committeeId : /\ committee'[c] = committee[c]
                                      /\ signatureThreshold'[c] = signatureThreshold[c]]_vars
  <2> SUFFICES ASSUME TypeOK, [Next]_vars, NEW c \in 0 .. committeeId
               PROVE  committee'[c] = committee[c] /\ signatureThreshold'[c] = signatureThreshold[c]
    OBVIOUS
  <2>1. ASSUME NEW C \in SUBSET Guardians, NEW threshold \in Thresholds, SetCommittee(C, threshold)
        PROVE  committee'[c] = committee[c] /\ signatureThreshold'[c] = signatureThreshold[c]
    <3>1. committeeId \in Nat /\ c # committeeId + 1 /\ c \in CommitteeIds
      BY Constants, SMT DEF TypeOK, ConfigType, CommitteeIds
    <3> QED BY <2>1, <3>1 DEF SetCommittee, NewCommitteeId, TypeOK, ConfigType
  <2> QED BY <2>1, StepKinds DEF ReceiveRequest, config
<1> QED BY <1>1, TypeCorrect, PTL DEF Spec, CommitteesAreImmutable

\* needsSignature of an existing committee never turns true again.
THEOREM SettledTheorem == Spec => SettledStaysSettled
<1>1. TypeOK /\ [Next]_vars =>
        [\A r \in Incoming, g \in Guardians :
            r.committeeId <= committeeId /\ ~NeedsSignature(r, g) => ~NeedsSignature(r, g)']_vars
  <2> SUFFICES ASSUME TypeOK, [Next]_vars, NEW r \in Incoming, NEW g \in Guardians,
                      r.committeeId <= committeeId, NeedsSignature(r, g)'
               PROVE  NeedsSignature(r, g)
    OBVIOUS
  <2>1. r.committeeId \in CommitteeIds
    BY IncomingType
  <2>2. CASE UNCHANGED <<committeeId, committee, signatureThreshold, voting>>
    BY <2>2 DEF NeedsSignature, IsInCommittee, HasSignedRequest, voting
  <2>3. ASSUME NEW h \in Guardians, NEW q \in Incoming, ReceiveRequest(h, q)
        PROVE  NeedsSignature(r, g)
    <3>1. processedRequests \subseteq processedRequests' /\ UNCHANGED committee
      BY <2>3 DEF ReceiveRequest, OnReceiveRequestThresholdMet, config
    <3>2. signatures[r] \subseteq signatures'[r]
      BY <2>3 DEF ReceiveRequest, TypeOK, VotingType
    <3> QED BY <3>1, <3>2 DEF NeedsSignature, IsInCommittee, HasSignedRequest
  <2>4. ASSUME NEW C \in SUBSET Guardians, NEW threshold \in Thresholds, SetCommittee(C, threshold)
        PROVE  NeedsSignature(r, g)
    <3>1. r.committeeId # committeeId + 1
      BY <2>1, Constants, SMT DEF TypeOK, ConfigType, CommitteeIds
    <3>2. committee'[r.committeeId] = committee[r.committeeId] /\ UNCHANGED voting
      BY <2>1, <2>4, <3>1 DEF SetCommittee, NewCommitteeId, TypeOK, ConfigType
    <3> QED BY <3>2 DEF NeedsSignature, IsInCommittee, HasSignedRequest, voting
  <2> QED BY <2>2, <2>3, <2>4, StepKinds
<1> QED BY <1>1, TypeCorrect, PTL DEF Spec, SettledStaysSettled

-----------------------------------------------------------------------------
(* The log of requests *)

\* The nonce of a logged request is its place in the log.
NonceInv ==
    /\ requestNonce = Len(sent)
    /\ \A i \in 1 .. Len(sent) : sent[i].nonce = i - 1

LEMMA EmitNonce ==
    ASSUME TypeOK, NonceInv, NEW destToken, NEW amount, NEW receiver,
           Emit(destToken, amount, receiver)
    PROVE  NonceInv'
<1> DEFINE r == [committeeId |-> committeeId, destToken |-> destToken, amount |-> amount,
                 receiver |-> receiver, nonce |-> requestNonce]
<1>1. sent' = Append(sent, r) /\ requestNonce' = requestNonce + 1 /\ r.nonce = requestNonce
  BY DEF Emit
<1> HIDE DEF r
<1>2. sent \in Seq(Request) /\ Len(sent) \in Nat
  BY DEF TypeOK, LogType
<1>3. /\ Len(sent') = Len(sent) + 1
      /\ \A i \in 1 .. Len(sent) : sent'[i] = sent[i]
      /\ sent'[Len(sent) + 1] = r
  BY <1>1, <1>2, SMT
<1> QED BY <1>1, <1>2, <1>3, SMT DEF NonceInv

\* No two requests in the log have the same hash, reentrant sends included.
THEOREM UniqueTheorem == Spec => []RequestsAreUnique
<1>1. Init => NonceInv
  BY SMT DEF Init, NonceInv
<1>2. NonceInv /\ TypeOK /\ [Next]_vars => NonceInv'
  <2> SUFFICES ASSUME NonceInv, TypeOK, [Next]_vars PROVE NonceInv'
    OBVIOUS
  <2>1. CASE UNCHANGED <<sent, requestNonce>>
    BY <2>1 DEF NonceInv
  <2>2. ASSUME NEW t \in Tokens, NEW amount \in Amounts, NEW receiver \in Receivers,
               SendRequest(t, amount, receiver)
        PROVE  NonceInv'
    BY <2>1, <2>2 DEF SendRequest
  <2>3. CASE SendRequestReturns
    BY <2>3, EmitNonce DEF SendRequestReturns
  <2>4. ASSUME NEW amount \in Amounts, NEW receiver \in Receivers,
               SendRequestNative(amount, receiver) \/ SendRequestAzeroToNative(amount, receiver)
        PROVE  NonceInv'
    BY <2>4, EmitNonce DEF SendRequestNative, SendRequestAzeroToNative
  <2>5. CASE Receive
    BY <2>1, <2>5 DEF Receive, ReceiveRequest, log
  <2>6. CASE Govern
    <3>1. UNCHANGED log
      BY <2>6 DEF Govern, Pause, Unpause, RecoverNative, RecoverERC20, SetCommittee,
         SetWrappedAzeroAddress, RemovePair, SetLocalToken, AddPair, SetTransferLimitContract
    <3> QED BY <2>1, <3>1 DEF log
  <2>7. CASE UNCHANGED vars
    BY <2>1, <2>7 DEF vars, log
  <2> QED BY <2>2, <2>3, <2>4, <2>5, <2>6, <2>7 DEF Next, Send
<1>3. NonceInv /\ TypeOK => RequestsAreUnique
  BY SMT DEF NonceInv, RequestsAreUnique, TypeOK, LogType
<1> QED BY <1>1, <1>2, <1>3, TypeCorrect, PTL DEF Spec
-----------------------------------------------------------------------------
(* Refused ether *)

Amount == [r \in Incoming |-> r.amount]
Refused == {r \in failed : r.destToken = Zero}

\* Only processed requests failed, and finitely many of them.
RefusedInv ==
    /\ VotingInv
    /\ failed \subseteq processedRequests
    /\ IsFiniteSet(failed)
    /\ RefusedEtherIsKept

\* Apart from votes, only recoverNative moves ether, and it logs what it takes.
LEMMA EtherSteps ==
    ASSUME TypeOK, [Next]_vars
    PROVE  \/ \E g \in Guardians, r \in Incoming : ReceiveRequest(g, r)
           \/ UNCHANGED <<processedRequests, failed>> /\ ether' + recovered' = ether + recovered
<1> DEFINE Same == UNCHANGED <<processedRequests, failed>> /\ ether' + recovered' = ether + recovered
<1>1. CASE Send
  BY <1>1 DEF Send, SendRequest, SendRequestReturns, SendRequestNative,
     SendRequestAzeroToNative, voting
<1>2. CASE Receive
  BY <1>2 DEF Receive
<1>3. CASE Govern
  <2>1. Pause \/ Unpause => Same
    BY DEF Pause, Unpause, voting, money
  <2>2. \A amount \in Amounts : RecoverNative(amount) => Same
    <3> TAKE amount \in Amounts
    <3>1. ether \in Nat /\ recovered \in Nat /\ amount \in Nat
      BY Constants DEF TypeOK, MoneyType
    <3> QED BY <3>1, SMT DEF RecoverNative, voting
  <2>3. \A amount \in Amounts, t \in Tokens : RecoverERC20(t, amount) => Same
    BY DEF RecoverERC20, voting
  <2>4. \A t : SetWrappedAzeroAddress(t) \/ RemovePair(t) => Same
    BY DEF SetWrappedAzeroAddress, RemovePair, voting, money
  <2>5. \A t, isLocal : SetLocalToken(t, isLocal) => Same
    BY DEF SetLocalToken, voting, money
  <2>6. \A t, to, isLocal : AddPair(t, to, isLocal) => Same
    BY DEF AddPair, voting, money
  <2>7. \A limit : SetTransferLimitContract(limit) => Same
    BY DEF SetTransferLimitContract, voting, money
  <2>8. \A C, threshold : SetCommittee(C, threshold) => Same
    BY DEF SetCommittee, voting, money
  <2> QED BY <1>3, <2>1, <2>2, <2>3, <2>4, <2>5, <2>6, <2>7, <2>8 DEF Govern
<1>4. CASE UNCHANGED vars
  BY <1>4 DEF vars, voting, money
<1> QED BY <1>1, <1>2, <1>3, <1>4 DEF Next

\* A vote leaves the failures alone or adds the request, with its ether if it was for some.
LEMMA PaymentKinds ==
    ASSUME NEW g \in Guardians, NEW r \in Incoming, ReceiveRequest(g, r)
    PROVE  /\ r \notin processedRequests
           /\ UNCHANGED recovered
           /\ processedRequests \subseteq processedRequests'
           /\ \/ UNCHANGED <<failed, ether>>
              \/ /\ failed' = failed \cup {r}
                 /\ r \in processedRequests'
                 /\ \/ r.destToken = Zero /\ ether' = ether + r.amount
                    \/ r.destToken # Zero /\ UNCHANGED ether
<1>1. r \notin processedRequests /\ UNCHANGED recovered
  BY DEF ReceiveRequest, NeedsSignature
<1>2. CASE ~ThresholdMet(r)
  BY <1>1, <1>2 DEF ReceiveRequest
<1>3. CASE OnReceiveRequestThresholdMet(r)
  <2>1. processedRequests' = processedRequests \cup {r}
    BY <1>3 DEF OnReceiveRequestThresholdMet
  <2>2. CASE PayEther(r)
    BY <1>1, <2>1, <2>2 DEF PayEther
  <2>3. CASE PayMint(r)
    BY <1>1, <2>1, <2>3 DEF PayMint
  <2>4. CASE PayTransfer(r)
    BY <1>1, <2>1, <2>4, Constants DEF PayTransfer
  <2> QED BY <1>3, <2>2, <2>3, <2>4 DEF OnReceiveRequestThresholdMet
<1> QED BY <1>2, <1>3 DEF ReceiveRequest

\* A refused payout adds its own amount once: the request was not processed before.
LEMMA RefusedReceive ==
    ASSUME RefusedInv, VotingInv', NEW g \in Guardians, NEW r \in Incoming, ReceiveRequest(g, r)
    PROVE  RefusedInv'
<1>1. /\ r \notin processedRequests /\ UNCHANGED recovered
      /\ processedRequests \subseteq processedRequests'
      /\ failed \subseteq processedRequests /\ IsFiniteSet(failed)
      /\ ether + recovered = SumFunctionOnSet(Amount, Refused)
      /\ failed \subseteq Incoming
  BY PaymentKinds DEF RefusedInv, RefusedEtherIsKept, Amount, Refused, VotingInv, TypeOK, VotingType
<1>2. CASE UNCHANGED <<failed, ether>>
  BY <1>1, <1>2 DEF RefusedInv, RefusedEtherIsKept
<1>3. CASE /\ failed' = failed \cup {r}
           /\ r \in processedRequests'
           /\ r.destToken # Zero /\ UNCHANGED ether
  <2>1. Refused' = Refused /\ IsFiniteSet(failed')
    BY <1>1, <1>3, FS_AddElement DEF Refused
  <2> QED BY <1>1, <1>3, <2>1 DEF RefusedInv, RefusedEtherIsKept, Amount, Refused
<1>4. CASE /\ failed' = failed \cup {r}
           /\ r \in processedRequests'
           /\ r.destToken = Zero /\ ether' = ether + r.amount
  <2>1. Refused' = Refused \cup {r} /\ IsFiniteSet(failed')
    BY <1>1, <1>4, FS_AddElement DEF Refused
  <2>2. /\ r \notin Refused /\ IsFiniteSet(Refused)
        /\ r.amount \in Nat /\ \A q \in Refused : Amount[q] \in Nat
    BY <1>1, FS_Subset, IncomingType DEF Refused, Amount
  <2>3. Amount[r] = r.amount
    BY DEF Amount
  <2>4. SumFunctionOnSet(Amount, Refused \cup {r}) = SumFunctionOnSet(Amount, Refused) + r.amount
    BY <2>2, <2>3, SumAdd
  <2>5. ether \in Nat /\ recovered \in Nat
    BY DEF RefusedInv, VotingInv, TypeOK, MoneyType
  <2>6. ether' + recovered = SumFunctionOnSet(Amount, Refused \cup {r})
    BY <1>1, <1>4, <2>2, <2>4, <2>5, SMT
  <2>7. ether' + recovered' = SumFunctionOnSet(Amount, Refused')
    BY <1>1, <2>1, <2>6
  <2>8. RefusedEtherIsKept'
    BY <2>7 DEF RefusedEtherIsKept, Amount, Refused
  <2> QED BY <1>1, <1>4, <2>1, <2>8 DEF RefusedInv
<1> QED BY <1>2, <1>3, <1>4, PaymentKinds

\* The ether in the contract is that of the transfers their receivers refused, less what the
\* owner recovered: nothing else ever leaves or enters it.
THEOREM RefusedTheorem == Spec => []RefusedEtherIsKept
<1>1. Init /\ VotingInv => RefusedInv
  <2> SUFFICES ASSUME Init, VotingInv PROVE RefusedInv
    OBVIOUS
  <2>1. failed = {} /\ ether + recovered = 0 /\ Refused = {}
    <3>1. failed = {} /\ ether = 0 /\ recovered = 0
      BY DEF Init
    <3>2. 0 + 0 = 0
      BY SMT
    <3> QED BY <3>1, <3>2 DEF Refused
  <2>2. RefusedEtherIsKept
    BY <2>1, SumEmpty DEF RefusedEtherIsKept, Refused
  <2> QED BY <2>1, <2>2, FS_EmptySet DEF RefusedInv
<1>2. RefusedInv /\ VotingInv' /\ [Next]_vars => RefusedInv'
  <2> SUFFICES ASSUME RefusedInv, VotingInv', [Next]_vars PROVE RefusedInv'
    OBVIOUS
  <2>1. CASE UNCHANGED <<processedRequests, failed>> /\ ether' + recovered' = ether + recovered
    BY <2>1 DEF RefusedInv, RefusedEtherIsKept
  <2> QED BY <2>1, EtherSteps, RefusedReceive DEF RefusedInv, VotingInv
<1>3. RefusedInv => RefusedEtherIsKept
  BY DEF RefusedInv
<1> QED BY <1>1, <1>2, <1>3, VotingInvariant, PTL DEF Spec

-----------------------------------------------------------------------------
(* Refinement *)

LEMMA SameCardinality == \A S : Voting!Cardinality(S) = Cardinality(S)
  BY DEF Voting!Cardinality, Cardinality, Voting!IsFiniteSet, IsFiniteSet

\* AbstractMost.sol, which counts signatures, implements the voting scheme, which looks at
\* the set of voters.
THEOREM RefinementTheorem == Spec => ImplementsVoting
<1>1. Init /\ VotingInv => Voting!Init
  <2> SUFFICES ASSUME Init, VotingInv PROVE Voting!Init
    OBVIOUS
  <2>1. committeeId = 0 /\ 0 \in CommitteeIds
    BY Constants, SMT DEF Init, CommitteeIds
  <2>2. Voting!CanDecide(committee[0], signatureThreshold[0])
    BY <2>1, SameCardinality DEF Voting!CanDecide, VotingInv, CommitteeInv
  <2>3. \A c \in CommitteeIds \ {0} : committee[c] = {}
    BY <2>1, Constants, SMT DEF VotingInv, CommitteeInv, CommitteeIds
  <2>4. committee \in [CommitteeIds -> SUBSET Guardians]
    BY DEF VotingInv, TypeOK, ConfigType
  <2> QED BY <2>1, <2>2, <2>3, <2>4 DEF Init, Voting!Init
<1>2. VotingInv /\ [Next]_vars => [Voting!Next]_Voting!vars
  <2> SUFFICES ASSUME VotingInv, [Next]_vars PROVE [Voting!Next]_Voting!vars
    OBVIOUS
  <2>1. CASE UNCHANGED <<committeeId, committee, signatureThreshold, voting>>
    BY <2>1 DEF Voting!vars, voting
  <2>2. ASSUME NEW g \in Guardians, NEW r \in Incoming, ReceiveRequest(g, r)
        PROVE  Voting!Vote(g, r)
    <3>1. /\ r \notin processedRequests
          /\ g \in committee[r.committeeId] \ signatures[r]
          /\ signatures' = [signatures EXCEPT ![r] = @ \cup {g}]
          /\ UNCHANGED <<committeeId, committee, signatureThreshold>>
      BY <2>2 DEF ReceiveRequest, NeedsSignature, IsInCommittee, HasSignedRequest, config
    <3>2. Cardinality(signatures[r] \cup {g}) = signatureCount[r] + 1
      <4>1. IsFiniteSet(signatures[r])
        BY Constants, FS_Subset DEF VotingInv, TypeOK, VotingType
      <4>2. Cardinality(signatures[r] \cup {g}) = Cardinality(signatures[r]) + 1
        BY <3>1, <4>1, FS_AddElement
      <4> QED BY <3>1, <4>2 DEF VotingInv, VoteInv
    <3>3. processedRequests' = IF Cardinality(signatures[r] \cup {g}) >= signatureThreshold[r.committeeId]
                               THEN processedRequests \cup {r} ELSE processedRequests
      BY <2>2, <3>2 DEF ReceiveRequest, ThresholdMet, OnReceiveRequestThresholdMet
    <3> QED BY <3>1, <3>3, SameCardinality DEF Voting!Vote
  <2>3. ASSUME NEW C \in SUBSET Guardians, NEW threshold \in Thresholds, SetCommittee(C, threshold)
        PROVE  Voting!Next
    <3>1. Cardinality(C) \in Nat /\ threshold \in Nat
      <4>1. IsFiniteSet(C)
        BY Constants, FS_Subset
      <4> QED BY <4>1, Constants, FS_CardinalityType, SMT DEF Thresholds
    <3>2. threshold > 0 /\ threshold <= Cardinality(C) /\ threshold \in 1 .. Cardinality(C)
      BY <2>3, <3>1, SMT DEF SetCommittee, ValidCommittee
    <3>3. Voting!NewCommittee(C, threshold)
      BY <2>3, <3>2, SameCardinality
         DEF SetCommittee, NewCommitteeId, Voting!NewCommittee, Voting!CanDecide, voting
    <3> QED BY <3>2, <3>3, SameCardinality DEF Voting!Next
  <2> QED BY <2>1, <2>2, <2>3, StepKinds DEF Voting!Next
<1> QED BY <1>1, <1>2, VotingInvariant, PTL DEF Spec, ImplementsVoting, Voting!Spec
=============================================================================
