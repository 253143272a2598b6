-------------------------- MODULE AzeroMost_proofs --------------------------
(***************************************************************************)
(* Proofs about AzeroMost for every set of guardians, tokens, requests,    *)
(* prices and fees, and every bound.                                       *)
(***************************************************************************)
EXTENDS AzeroMost, Sums, SequenceTheorems

\* The parts of the assumption, one by one.
LEMMA Constants ==
    /\ IsFiniteSet(Guardians)
    /\ WAzero \in Tokens
    /\ Mintable \subseteq Tokens
    /\ WAzero \notin Mintable
    /\ Zero \notin Tokens
    /\ Amounts \subseteq Nat
    /\ Funds \in [Tokens -> Nat]
    /\ RATIO \in Nat \ {0}
    /\ U128 \in Nat \ {0}
    /\ FeeParams \subseteq [relay_gas_usage : Nat, min : Nat, max : Nat, default : Nat, buffer : Nat]
    /\ OracleAnswers \subseteq [price : Nat, stale : BOOLEAN]
    /\ \A answer \in OracleAnswers : [answer EXCEPT !.stale = TRUE] \in OracleAnswers
    /\ PocketLimits \subseteq Nat
    /\ GasUsages \subseteq Nat
    /\ MaxCommitteeId \in Nat
  BY AzeroMostAssumption

LEMMA IncomingType ==
    ASSUME NEW r \in Incoming
    PROVE  /\ r \in Request
           /\ r.committeeId \in CommitteeIds
           /\ r.amount \in Nat
           /\ r.destToken \in Tokens \cup {Zero}
  BY AzeroMostAssumption DEF Request

-----------------------------------------------------------------------------
(* Arithmetic *)

LEMMA DivType ==
    ASSUME NEW a \in Nat, NEW b \in Nat \ {0}
    PROVE  a \div b \in Nat /\ b * (a \div b) <= a /\ a < b * (a \div b) + b
  BY SMT

LEMMA ProductType ==
    ASSUME NEW a \in Nat, NEW b \in Nat
    PROVE  a * b \in Nat
  BY SMT

LEMMA DivMonotone ==
    ASSUME NEW a \in Nat, NEW b \in Nat, NEW n \in Nat \ {0}, a <= b
    PROVE  a \div n <= b \div n
  BY SMT

LEMMA MinOfTwo ==
    ASSUME NEW a \in Nat, NEW b \in Nat
    PROVE  Min({a, b}) \in Nat /\ Min({a, b}) <= a /\ Min({a, b}) <= b
  BY SMT DEF Min

LEMMA MinOfThree ==
    ASSUME NEW a \in Nat, NEW b \in Nat, NEW c \in Nat
    PROVE  Min({a, b, c}) \in Nat /\ Min({a, b, c}) <= a /\ Min({a, b, c}) <= b /\ Min({a, b, c}) <= c
  BY SMT DEF Min

\* The quotient of a fee or an amount, and the fee itself.
LEMMA BaseFeeType ==
    ASSUME ConfigType
    PROVE  BaseFee \in Nat
<1>1. /\ fee_params.relay_gas_usage \in Nat /\ fee_params.min \in Nat /\ fee_params.max \in Nat
      /\ fee_params.default \in Nat /\ fee_params.buffer \in Nat
  BY Constants DEF ConfigType
<1>2. oracle # NoAnswer => oracle.price \in Nat
  BY Constants DEF ConfigType
<1>3. GasPriceWithLimits \in Nat
  BY <1>1, <1>2 DEF GasPriceWithLimits
<1>4. GasPriceWithLimits * fee_params.relay_gas_usage \in Nat
  BY <1>1, <1>3, ProductType
<1>5. 100 + fee_params.buffer \in Nat
  BY <1>1, SMT
<1>6. BaseFeePercent \in Nat
  BY <1>4, <1>5, ProductType DEF BaseFeePercent
<1> QED BY <1>6, DivType, SMT DEF BaseFee

\* Pocket money never exceeds the account it is taken from.
LEMMA PocketMoneyType ==
    ASSUME ConfigType, MoneyType
    PROVE  CurrentPocketMoneyValue \in Nat /\ CurrentPocketMoneyValue <= pocket_money_balance
<1>0. pocket_money_balance \in Nat /\ max_pocket_money \in Nat /\ eth_transfer_gas_usage \in Nat
  BY DEF MoneyType, ConfigType
<1>1. CASE oracle = NoAnswer
  BY <1>0, <1>1, SMT DEF CurrentPocketMoneyValue
<1>2. CASE oracle # NoAnswer
  <2> DEFINE estimate == ((eth_transfer_gas_usage * oracle.price * 3) % U128) \div 4
  <2>1. oracle.price \in Nat
    BY <1>2, Constants DEF ConfigType
  <2>2. eth_transfer_gas_usage * oracle.price \in Nat
    BY <1>0, <2>1, ProductType
  <2>3. eth_transfer_gas_usage * oracle.price * 3 \in Nat
    BY <2>2, ProductType, SMT
  <2>4. (eth_transfer_gas_usage * oracle.price * 3) % U128 \in Nat
    BY <2>3, Constants, SMT
  <2>5. estimate \in Nat
    BY <2>4, DivType, SMT
  <2>6. CurrentPocketMoneyValue = Min({max_pocket_money, estimate, pocket_money_balance})
    BY <1>2 DEF CurrentPocketMoneyValue
  <2> HIDE DEF estimate
  <2> QED BY <1>0, <2>5, <2>6, MinOfThree
<1> QED BY <1>1, <1>2

LEMMA FromRemoteType == ASSUME NEW amount \in Nat PROVE FromRemote(amount) \in Nat
  BY Constants, DivType DEF FromRemote

LEMMA ToRemoteType == ASSUME NEW amount \in Nat PROVE ToRemote(amount) \in Nat
<1>1. amount * RATIO \in Nat
  BY Constants, ProductType
<1>2. U128 - 1 \in Nat
  BY Constants, SMT
<1> QED BY <1>1, <1>2, MinOfTwo DEF ToRemote

\* An outstanding reward is what is missing to the member's share.
LEMMA OutstandingType ==
    ASSUME MembersType, MoneyType, NEW c \in CommitteeIds, NEW g \in Guardians
    PROVE  /\ OutstandingMemberRewards(c, g) \in Nat
           /\ g \in committees[c] => MemberShare(c) \in Nat
           /\ OutstandingMemberRewards(c, g) > 0 =>
                 /\ g \in committees[c]
                 /\ paid_out[c][g] + OutstandingMemberRewards(c, g) = MemberShare(c)
<1>1. collected[c] \in Nat /\ paid_out[c][g] \in Nat /\ committees[c] \subseteq Guardians
  BY DEF MembersType, MoneyType
<1>2. ASSUME g \in committees[c] PROVE MemberShare(c) \in Nat
  <2>1. Cardinality(committees[c]) \in Nat \ {0}
    BY <1>1, <1>2, Constants, FS_Subset, FS_CardinalityType, FS_EmptySet
  <2> QED BY <1>1, <2>1, DivType DEF MemberShare
<1> QED BY <1>1, <1>2, SMT DEF OutstandingMemberRewards

-----------------------------------------------------------------------------
(* Types *)

LEMMA Unchanged ==
    ASSUME TypeOK
    PROVE  /\ UNCHANGED members => MembersType'
           /\ UNCHANGED <<is_halted, pairs, minter, pricing>> => ConfigType'
           /\ UNCHANGED voting => VotingType'
           /\ UNCHANGED <<rewards, psp22, coin>> => MoneyType'
           /\ UNCHANGED log => LogType'
<1>1. UNCHANGED members => MembersType'
  BY DEF TypeOK, MembersType, members
<1>2. UNCHANGED <<is_halted, pairs, minter, pricing>> => ConfigType'
  BY DEF TypeOK, ConfigType, pairs, pricing
<1>3. UNCHANGED voting => VotingType'
  BY DEF TypeOK, VotingType, voting
<1>4. UNCHANGED <<rewards, psp22, coin>> => MoneyType'
  BY DEF TypeOK, MoneyType, rewards, psp22, coin
<1>5. UNCHANGED log => LogType'
  BY DEF TypeOK, LogType, log
<1> QED BY <1>1, <1>2, <1>3, <1>4, <1>5

\* Charging the fee and logging a request of the right type.
LEMMA ChargeType ==
    ASSUME TypeOK, NEW destToken \in RemoteTokens \cup {Zero}, NEW amount \in Nat,
           NEW receiver \in Receivers, ChargeAndEmit(destToken, amount, receiver),
           balance' \in [Tokens -> Nat], outside' \in [Tokens -> Nat]
    PROVE  TypeOK'
<1> DEFINE r == [committeeId |-> committee_id, destToken |-> destToken, amount |-> amount,
                 receiver |-> receiver, nonce |-> request_nonce]
<1>1. r \in Request
  BY SMT DEF TypeOK, MembersType, LogType, Request
<1>2. LogType'
  BY <1>1, SMT DEF ChargeAndEmit, TypeOK, LogType
<1>3. BaseFee \in Nat
  BY BaseFeeType DEF TypeOK
<1>4. /\ collected' = [collected EXCEPT ![committee_id] = @ + BaseFee]
      /\ azero' = azero + BaseFee
      /\ UNCHANGED <<paid_out, pocket_money_balance, recovered>>
      /\ UNCHANGED <<is_halted, voting, members, pairs, minter, pricing>>
  BY DEF ChargeAndEmit
<1> HIDE DEF BaseFee
<1>5. MoneyType'
  BY <1>3, <1>4, SMT DEF TypeOK, MoneyType, MembersType
<1> QED BY <1>2, <1>4, <1>5, Unchanged DEF TypeOK

\* Burning or locking moves what users own.
LEMMA BurnOrLockType ==
    ASSUME TypeOK, NEW t \in Tokens, NEW amount \in Nat, BurnOrLock(t, amount)
    PROVE  balance' \in [Tokens -> Nat] /\ outside' \in [Tokens -> Nat]
  BY SMT DEF BurnOrLock, TypeOK, MoneyType

\* Executing a request overdraws nothing.
LEMMA ExecuteType ==
    ASSUME TypeOK, NEW r \in Incoming, Execute(r), UNCHANGED rewards
    PROVE  MoneyType'
<1>0. /\ r.amount \in Nat /\ r.destToken \in Tokens \cup {Zero} /\ FromRemote(r.amount) \in Nat
  BY IncomingType, FromRemoteType
<1>1. balance' \in [Tokens -> Nat] /\ outside' \in [Tokens -> Nat]
  <2>1. CASE UnwrapAzeroTo(r)
    <3> HIDE DEF FromRemote
    <3> QED BY <1>0, <2>1, Constants, SMT DEF UnwrapAzeroTo, TypeOK, MoneyType
  <2>2. CASE Transfer(r)
    BY <1>0, <2>2, SMT DEF Transfer, TypeOK, MoneyType, ConfigType
  <2>3. CASE MintTo(r)
    BY <1>0, <2>3, Constants, SMT DEF MintTo, EnsureMinter, TypeOK, MoneyType, ConfigType
  <2> QED BY <2>1, <2>2, <2>3 DEF Execute
<1>2. azero' \in Nat /\ pocket_money_balance' \in Nat /\ recovered' \in Nat
  <2>1. CurrentPocketMoneyValue \in Nat /\ CurrentPocketMoneyValue <= pocket_money_balance
    BY PocketMoneyType DEF TypeOK
  <2> QED BY <2>1, SMT DEF Execute, SendPocketMoney, coin, TypeOK, MoneyType
<1> QED BY <1>1, <1>2 DEF TypeOK, MoneyType, rewards

\* Every message of most/lib.rs keeps the types of storage and logs: no balance, no account
\* of pocket money and no reward is overdrawn.
THEOREM TypeCorrect == Spec => []TypeOK
<1>1. Init => TypeOK
  <2> SUFFICES ASSUME Init PROVE TypeOK
    OBVIOUS
  <2>1. MembersType
    BY Constants, FS_CardinalityType, SMT DEF Init, MembersType, CommitteeIds, Thresholds
  <2>2. ConfigType
    BY Constants DEF Init, ConfigType
  <2>3. VotingType
    BY SMT DEF Init, VotingType
  <2>4. MoneyType
    BY Constants, SMT DEF Init, MoneyType
  <2>5. LogType
    BY SMT DEF Init, LogType
  <2> QED BY <2>1, <2>2, <2>3, <2>4, <2>5 DEF TypeOK
<1>2. TypeOK /\ [Next]_vars => TypeOK'
  <2> SUFFICES ASSUME TypeOK, [Next]_vars PROVE TypeOK'
    OBVIOUS
  <2>0. /\ MembersType /\ ConfigType /\ VotingType /\ MoneyType /\ LogType
        /\ Amounts \subseteq Nat
    BY Constants DEF TypeOK
  <2>1. ASSUME NEW t \in Tokens, NEW amount \in Amounts, NEW receiver \in Receivers,
               SendRequest(t, amount, receiver)
        PROVE  TypeOK'
    <3>1. supported_pairs[t] \in RemoteTokens \cup {Zero}
      BY <2>0 DEF ConfigType
    <3> QED BY <2>0, <2>1, <3>1, ChargeType, BurnOrLockType DEF SendRequest
  <2>2. ASSUME NEW amount \in Amounts, NEW receiver \in Receivers,
               SendRequestNativeEther(amount, receiver)
        PROVE  TypeOK'
    <3>1. weth \in Tokens
      BY <2>0, <2>2 DEF SendRequestNativeEther, ConfigType
    <3> QED BY <2>0, <2>2, <3>1, ChargeType, BurnOrLockType DEF SendRequestNativeEther
  <2>3. ASSUME NEW amount \in Amounts, NEW receiver \in Receivers,
               SendRequestNativeAzero(amount, receiver)
        PROVE  TypeOK'
    <3>1. supported_pairs[WAzero] \in RemoteTokens \cup {Zero} /\ ToRemote(amount) \in Nat
      BY <2>0, ToRemoteType, Constants DEF ConfigType
    <3>2. balance' \in [Tokens -> Nat] /\ outside' \in [Tokens -> Nat]
      BY <2>0, <2>3, Constants, SMT DEF SendRequestNativeAzero, MoneyType
    <3> QED BY <2>3, <3>1, <3>2, ChargeType DEF SendRequestNativeAzero
  <2>4. ASSUME NEW g \in Guardians, NEW r \in Incoming, ReceiveRequest(g, r)
        PROVE  TypeOK'
    <3>1. UNCHANGED <<is_halted, members, pairs, minter, pricing, rewards, log>>
      BY <2>4 DEF ReceiveRequest
    <3>2. MoneyType' /\ VotingType'
      <4>0. signatures' = [signatures EXCEPT ![r] = @ \cup {g}]
        BY <2>4 DEF ReceiveRequest
      <4>1. CASE ~ThresholdMet(r)
        <5>1. /\ signature_count' = [signature_count EXCEPT ![r] = @ + 1]
              /\ UNCHANGED <<processed_requests, executed, psp22, coin>>
          BY <2>4, <4>1 DEF ReceiveRequest
        <5> QED BY <2>0, <3>1, <4>0, <5>1, Unchanged, SMT DEF VotingType
      <4>2. CASE Execute(r)
        <5>1. /\ signature_count' = [signature_count EXCEPT ![r] = 0]
              /\ processed_requests' = processed_requests \cup {r}
              /\ executed' = [executed EXCEPT ![r] = @ + 1]
          BY <4>2 DEF Execute
        <5>2. VotingType'
          BY <2>0, <4>0, <5>1, SMT DEF VotingType
        <5> QED BY <3>1, <4>2, <5>2, ExecuteType
      <4> QED BY <2>4, <4>1, <4>2 DEF ReceiveRequest
    <3> QED BY <3>1, <3>2, Unchanged DEF TypeOK
  <2>5. ASSUME NEW c \in CommitteeIds, NEW g \in Guardians, PayoutRewards(c, g)
        PROVE  TypeOK'
    <3>1. OutstandingMemberRewards(c, g) \in Nat
      BY <2>0, OutstandingType
    <3>2. /\ azero >= OutstandingMemberRewards(c, g)
          /\ azero' = azero - OutstandingMemberRewards(c, g)
          /\ paid_out' = [paid_out EXCEPT ![c][g] = @ + OutstandingMemberRewards(c, g)]
          /\ UNCHANGED <<is_halted, voting, members, pairs, minter, pricing, collected, psp22,
                         pocket_money_balance, recovered, log>>
      BY <2>5 DEF PayoutRewards
    <3> HIDE DEF OutstandingMemberRewards
    <3>3. MoneyType'
      BY <2>0, <3>1, <3>2, SMT DEF MoneyType, psp22
    <3> QED BY <3>2, <3>3, Unchanged DEF TypeOK
  <2>6. ASSUME NEW amount \in Amounts, FundPocketMoney(amount) \/ RecoverAzero(amount)
        PROVE  TypeOK'
    <3>1. MoneyType'
      BY <2>0, <2>6, SMT DEF FundPocketMoney, RecoverAzero, MoneyType, rewards, psp22
    <3> QED BY <2>6, <3>1, Unchanged DEF FundPocketMoney, RecoverAzero, TypeOK
  <2>7. ASSUME NEW t \in Tokens, NEW amount \in Amounts, RecoverPsp22(t, amount)
        PROVE  TypeOK'
    <3>1. MoneyType'
      BY <2>0, <2>7, SMT DEF RecoverPsp22, MoneyType, rewards, coin
    <3> QED BY <2>7, <3>1, Unchanged DEF RecoverPsp22, TypeOK
  <2>8. ASSUME NEW C \in SUBSET Guardians, NEW threshold \in Thresholds,
               SetCommittee(C, threshold)
        PROVE  TypeOK'
    <3>1. threshold \in Nat
      BY Constants, FS_CardinalityType, SMT DEF Thresholds
    <3>2. MembersType'
      BY <2>0, <2>8, <3>1, Constants, SMT
         DEF SetCommittee, NewCommitteeId, CommitteeIds, MembersType
    <3> QED BY <2>8, <3>2, Unchanged DEF SetCommittee, TypeOK
  <2>9. ASSUME NEW new_state \in BOOLEAN, SetHalted(new_state) PROVE TypeOK'
    <3>1. ConfigType'
      BY <2>0, <2>9 DEF SetHalted, ConfigType, pairs, pricing
    <3> QED BY <2>9, <3>1, Unchanged DEF SetHalted, TypeOK
  <2>10. ASSUME NEW t \in Tokens, SetWeth(t) \/ SetWazero(t) PROVE TypeOK'
    <3>1. ConfigType'
      BY <2>0, <2>10 DEF SetWeth, SetWazero, ConfigType, pricing
    <3> QED BY <2>10, <3>1, Unchanged DEF SetWeth, SetWazero, TypeOK
  <2>11. ASSUME NEW t \in Tokens, RemovePair(t) PROVE TypeOK'
    <3>1. supported_pairs' \in [Tokens -> RemoteTokens \cup {Zero}]
      BY <2>0, <2>11, SMT DEF RemovePair, ConfigType
    <3>2. ConfigType'
      BY <2>0, <2>11, <3>1 DEF RemovePair, ConfigType, pricing
    <3> QED BY <2>11, <3>2, Unchanged DEF RemovePair, TypeOK
  <2>12. ASSUME NEW from \in Tokens, NEW to \in RemoteTokens, NEW is_local \in BOOLEAN,
                AddPair(from, to, is_local)
         PROVE  TypeOK'
    <3>1. supported_pairs' \in [Tokens -> RemoteTokens \cup {Zero}] /\ local_token' \subseteq Tokens
      BY <2>0, <2>12, SMT DEF AddPair, ConfigType
    <3>2. ConfigType'
      BY <2>0, <2>12, <3>1 DEF AddPair, ConfigType, pricing
    <3> QED BY <2>12, <3>2, Unchanged DEF AddPair, TypeOK
  <2>13. ASSUME NEW t \in Mintable, NEW is_most \in BOOLEAN, SetMinterBurner(t, is_most)
         PROVE  TypeOK'
    <3>1. ConfigType'
      BY <2>0, <2>13 DEF SetMinterBurner, ConfigType, pairs, pricing
    <3> QED BY <2>13, <3>1, Unchanged DEF SetMinterBurner, TypeOK
  <2>14. CASE Price
    <3>1. PriceAges => oracle' \in OracleAnswers
      BY <2>0, Constants DEF PriceAges, ConfigType
    <3>2. /\ UNCHANGED <<is_halted, voting, members, pairs, minter, rewards, psp22, coin, log>>
          /\ fee_params' \in FeeParams
          /\ oracle' \in OracleAnswers \cup {NoAnswer}
          /\ max_pocket_money' \in Nat
          /\ eth_transfer_gas_usage' \in Nat
      BY <2>0, <2>14, <3>1, Constants
         DEF Price, SetBaseFeeConstraints, SetMaxPocketMoney, SetEthTransferGasUsage,
             SetGasPriceOracle, UpdatePrice, PriceAges, ConfigType
    <3>3. ConfigType'
      BY <2>0, <3>2 DEF ConfigType, pairs
    <3> QED BY <3>2, <3>3, Unchanged DEF TypeOK
  <2>15. CASE UNCHANGED vars
    BY <2>15, Unchanged DEF vars, TypeOK
  <2> QED
    BY <2>1, <2>2, <2>3, <2>4, <2>5, <2>6, <2>7, <2>8, <2>9, <2>10, <2>11, <2>12, <2>13,
       <2>14, <2>15 DEF Next, Send, Receive, Pay, Govern
<1> QED BY <1>1, <1>2, PTL DEF Spec

-----------------------------------------------------------------------------
(* Voting *)

\* Committees in use can reach their threshold; ids not used yet have no members.
CommitteeInv ==
    \A c \in CommitteeIds :
        IF c <= committee_id
        THEN signature_thresholds[c] > 0 /\ signature_thresholds[c] <= Cardinality(committees[c])
        ELSE committees[c] = {}

\* The count of a pending request is the number of its signatures and below the threshold.
VoteInv(r) ==
    /\ signatures[r] \subseteq committees[r.committeeId]
    /\ r \notin processed_requests =>
          /\ signature_count[r] = Cardinality(signatures[r])
          /\ r.committeeId <= committee_id =>
                signature_count[r] < signature_thresholds[r.committeeId]

VotingInv ==
    /\ TypeOK
    /\ CommitteeInv
    /\ \A r \in Incoming : VoteInv(r)
    /\ ExecutedExactlyOnce

LEMMA VotingStutter ==
    ASSUME VotingInv, TypeOK', UNCHANGED <<members, voting>>
    PROVE  VotingInv'
  BY DEF VotingInv, CommitteeInv, VoteInv, ExecutedExactlyOnce, members, voting

\* One vote: the signature is new, so count and signatures grow together.
LEMMA VotingReceive ==
    ASSUME VotingInv, TypeOK', NEW g \in Guardians, NEW r \in Incoming, ReceiveRequest(g, r)
    PROVE  VotingInv'
<1>1. /\ UNCHANGED <<committee_id, committees, signature_thresholds>>
      /\ signatures' = [signatures EXCEPT ![r] = @ \cup {g}]
      /\ g \in committees[r.committeeId]
      /\ r \notin processed_requests
      /\ g \notin signatures[r]
  BY DEF ReceiveRequest, NeedsSignature, IsInCommittee, HasSignedRequest, members
<1>2. /\ signatures \in [Incoming -> SUBSET Guardians]
      /\ signature_count \in [Incoming -> Nat]
      /\ executed \in [Incoming -> Nat]
      /\ signature_thresholds \in [CommitteeIds -> Nat]
      /\ committee_id \in Nat
  <2>1. committee_id \in Nat
    BY Constants, SMT DEF VotingInv, TypeOK, MembersType, CommitteeIds
  <2> QED BY <2>1 DEF VotingInv, TypeOK, VotingType, MembersType
<1>3. r.committeeId \in CommitteeIds /\ r.committeeId \in Nat
  BY IncomingType, Constants, SMT DEF CommitteeIds
<1>4. /\ Cardinality(signatures[r]) \in Nat
      /\ Cardinality(signatures'[r]) = Cardinality(signatures[r]) + 1
  <2>1. IsFiniteSet(signatures[r])
    BY <1>2, Constants, FS_Subset
  <2> QED BY <1>1, <1>2, <2>1, FS_AddElement, FS_CardinalityType
<1>5. signature_count[r] = Cardinality(signatures[r]) /\ executed[r] = 0
  BY <1>1 DEF VotingInv, VoteInv, ExecutedExactlyOnce
<1>6. CommitteeInv'
  BY <1>1 DEF VotingInv, CommitteeInv
<1>7. ASSUME NEW q \in Incoming, q # r,
             processed_requests' \subseteq processed_requests \cup {r},
             processed_requests \subseteq processed_requests',
             signature_count'[q] = signature_count[q]
      PROVE  VoteInv(q)'
  <2>1. signatures'[q] = signatures[q] /\ (q \in processed_requests' <=> q \in processed_requests)
    BY <1>1, <1>2, <1>7
  <2> QED BY <1>1, <1>7, <2>1 DEF VotingInv, VoteInv
<1>8. CASE ~ThresholdMet(r)
  <2>1. /\ signature_count' = [signature_count EXCEPT ![r] = @ + 1]
        /\ UNCHANGED <<processed_requests, executed>>
    BY <1>8 DEF ReceiveRequest
  <2>2. ~(signature_count[r] + 1 >= signature_thresholds[r.committeeId])
    BY <1>8 DEF ThresholdMet
  <2>3. VoteInv(r)'
    BY <1>1, <1>2, <1>3, <1>4, <1>5, <2>1, <2>2, SMT DEF VotingInv, VoteInv
  <2>4. \A q \in Incoming : VoteInv(q)'
    BY <1>2, <1>7, <2>1, <2>3
  <2> QED BY <1>6, <2>1, <2>4 DEF VotingInv, ExecutedExactlyOnce
<1>9. CASE ThresholdMet(r)
  <2>1. /\ processed_requests' = processed_requests \cup {r}
        /\ signature_count' = [signature_count EXCEPT ![r] = 0]
        /\ executed' = [executed EXCEPT ![r] = @ + 1]
    BY <1>9 DEF ReceiveRequest, Execute
  <2>2. VoteInv(r)'
    BY <1>1, <1>2, <2>1 DEF VotingInv, VoteInv
  <2>3. \A q \in Incoming : VoteInv(q)'
    BY <1>2, <1>7, <2>1, <2>2
  <2>4. ExecutedExactlyOnce'
    BY <1>1, <1>2, <1>5, <2>1, SMT DEF VotingInv, ExecutedExactlyOnce
  <2> QED BY <1>6, <2>3, <2>4 DEF VotingInv
<1> QED BY <1>8, <1>9

\* What a change of the committee does to the members.
LEMMA NewCommitteeFacts ==
    ASSUME TypeOK, NEW C \in SUBSET Guardians, NEW threshold \in Thresholds,
           SetCommittee(C, threshold)
    PROVE  /\ committee_id \in Nat
           /\ committee_id + 1 \in CommitteeIds
           /\ committee_id' = committee_id + 1
           /\ committees' = [committees EXCEPT ![committee_id + 1] = C]
           /\ signature_thresholds' = [signature_thresholds EXCEPT ![committee_id + 1] = threshold]
           /\ UNCHANGED <<voting, rewards>>
           /\ threshold \in Nat /\ threshold > 0 /\ threshold <= Cardinality(C)
<1>1. committee_id \in 0 .. MaxCommitteeId
  BY DEF TypeOK, MembersType, CommitteeIds
<1>2. Cardinality(C) \in Nat /\ threshold \in Nat
  <2>1. IsFiniteSet(C)
    BY Constants, FS_Subset
  <2> QED BY <2>1, Constants, FS_CardinalityType, SMT DEF Thresholds
<1> QED
  BY <1>1, <1>2, Constants, SMT DEF SetCommittee, CheckCommittee, NewCommitteeId, CommitteeIds

\* A new committee takes an unused id, for which nobody can have voted yet.
LEMMA VotingSetCommittee ==
    ASSUME VotingInv, TypeOK', NEW C \in SUBSET Guardians, NEW threshold \in Thresholds,
           SetCommittee(C, threshold)
    PROVE  VotingInv'
<1>1. /\ committee_id \in Nat
      /\ committee_id + 1 \in CommitteeIds
      /\ committee_id' = committee_id + 1
      /\ committees' = [committees EXCEPT ![committee_id + 1] = C]
      /\ signature_thresholds' = [signature_thresholds EXCEPT ![committee_id + 1] = threshold]
      /\ UNCHANGED voting
      /\ threshold > 0 /\ threshold <= Cardinality(C)
  BY NewCommitteeFacts DEF VotingInv
<1>2. committees \in [CommitteeIds -> SUBSET Guardians] /\ signature_thresholds \in [CommitteeIds -> Nat]
  BY DEF VotingInv, TypeOK, MembersType
<1>3. CommitteeInv'
  BY <1>1, <1>2, Constants, SMT DEF VotingInv, CommitteeInv, CommitteeIds
<1>4. ASSUME NEW r \in Incoming PROVE VoteInv(r)'
  <2>1. r.committeeId \in CommitteeIds
    BY IncomingType
  <2>2. UNCHANGED <<signatures[r], signature_count[r], processed_requests>>
    BY <1>1 DEF voting
  <2>3. VoteInv(r)
    BY DEF VotingInv
  <2>4. CASE r.committeeId = committee_id + 1
    <3>1. ~(r.committeeId <= committee_id)
      BY <1>1, <2>4, SMT
    <3>2. signatures[r] = {}
      BY <2>1, <2>3, <3>1 DEF VoteInv, VotingInv, CommitteeInv
    <3>3. Cardinality({}) = 0
      BY FS_EmptySet
    <3>4. signature_thresholds'[r.committeeId] = threshold
      BY <1>1, <1>2, <2>1, <2>4
    <3> QED BY <1>1, <2>2, <2>3, <3>2, <3>3, <3>4 DEF VoteInv
  <2>5. CASE r.committeeId # committee_id + 1
    <3>1. committees'[r.committeeId] = committees[r.committeeId]
          /\ signature_thresholds'[r.committeeId] = signature_thresholds[r.committeeId]
      BY <1>1, <1>2, <2>1, <2>5
    <3>2. r.committeeId <= committee_id' <=> r.committeeId <= committee_id
      BY <1>1, <2>1, <2>5, Constants, SMT DEF CommitteeIds
    <3> QED BY <2>2, <2>3, <3>1, <3>2 DEF VoteInv
  <2> QED BY <2>4, <2>5
<1> QED BY <1>1, <1>3, <1>4 DEF VotingInv, ExecutedExactlyOnce, voting

\* Every step is a vote, a change of committee, or leaves votes and committees alone.
LEMMA StepKinds ==
    ASSUME [Next]_vars
    PROVE  \/ \E g \in Guardians, r \in Incoming : ReceiveRequest(g, r)
           \/ \E C \in SUBSET Guardians, threshold \in Thresholds : SetCommittee(C, threshold)
           \/ UNCHANGED <<members, voting>>
<1>1. CASE Send
  BY <1>1 DEF Send, SendRequest, SendRequestNativeEther, SendRequestNativeAzero, ChargeAndEmit
<1>2. CASE Receive
  BY <1>2 DEF Receive
<1>3. CASE Pay
  BY <1>3 DEF Pay, PayoutRewards, FundPocketMoney
<1>4. CASE Govern
  BY <1>4 DEF Govern, SetHalted, SetWeth, SetWazero, RemovePair, AddPair, SetMinterBurner,
     RecoverAzero, RecoverPsp22
<1>5. CASE Price
  BY <1>5 DEF Price, SetBaseFeeConstraints, SetMaxPocketMoney, SetEthTransferGasUsage,
     SetGasPriceOracle, UpdatePrice, PriceAges
<1>6. CASE UNCHANGED vars
  BY <1>6 DEF vars
<1> QED BY <1>1, <1>2, <1>3, <1>4, <1>5, <1>6 DEF Next

\* In every reachable state counts match signatures and committees can reach their threshold.
THEOREM VotingInvariant == Spec => []VotingInv
<1>1. Init /\ TypeOK => VotingInv
  <2> SUFFICES ASSUME Init, TypeOK PROVE VotingInv
    OBVIOUS
  <2>1. PICK C \in SUBSET Guardians, threshold \in Thresholds :
          /\ CheckCommittee(C, threshold)
          /\ committees = [[c \in CommitteeIds |-> {}] EXCEPT ![0] = C]
          /\ signature_thresholds = [[c \in CommitteeIds |-> 0] EXCEPT ![0] = threshold]
    BY DEF Init
  <2>2. Cardinality(C) \in Nat /\ threshold \in Nat
    <3>1. IsFiniteSet(C)
      BY Constants, FS_Subset
    <3> QED BY <3>1, Constants, FS_CardinalityType, SMT DEF Thresholds
  <2>3. committee_id = 0 /\ 0 \in CommitteeIds
    BY Constants, SMT DEF Init, CommitteeIds
  <2>4. threshold > 0 /\ threshold <= Cardinality(C)
    BY <2>1, <2>2, SMT DEF CheckCommittee
  <2>5. CommitteeInv
    BY <2>1, <2>2, <2>3, <2>4, Constants, SMT DEF CommitteeInv, CommitteeIds
  <2>6. ASSUME NEW r \in Incoming PROVE VoteInv(r)
    <3>1. signatures[r] = {} /\ signature_count[r] = 0 /\ r \notin processed_requests
      BY DEF Init
    <3>2. Cardinality({}) = 0
      BY FS_EmptySet
    <3>3. r.committeeId \in CommitteeIds /\ (r.committeeId <= committee_id => r.committeeId = 0)
      BY <2>3, IncomingType, Constants, SMT DEF CommitteeIds
    <3>4. signature_thresholds[0] = threshold
      BY <2>1, <2>3
    <3> QED BY <2>2, <2>4, <3>1, <3>2, <3>3, <3>4 DEF VoteInv
  <2>7. ExecutedExactlyOnce
    BY DEF Init, ExecutedExactlyOnce
  <2> QED BY <2>5, <2>6, <2>7 DEF VotingInv
<1>2. VotingInv /\ TypeOK' /\ [Next]_vars => VotingInv'
  BY StepKinds, VotingReceive, VotingSetCommittee, VotingStutter
<1> QED
  BY <1>1, <1>2, TypeCorrect, PTL DEF Spec

\* receive_request executes a request exactly once, in the call that marks it processed.
THEOREM ExecutedOnceTheorem == Spec => []ExecutedExactlyOnce
<1>1. VotingInv => ExecutedExactlyOnce
  BY DEF VotingInv
<1> QED BY <1>1, VotingInvariant, PTL

\* A request that no member of its committee can vote for any more is processed.
THEOREM AllSignedTheorem == Spec => []AllSignedMeansProcessed
<1>1. VotingInv => AllSignedMeansProcessed
  <2> SUFFICES ASSUME VotingInv, NEW r \in Incoming, r.committeeId <= committee_id,
                      \A g \in Guardians : ~NeedsSignature(r, g), r \notin processed_requests
               PROVE  FALSE
    BY DEF AllSignedMeansProcessed
  <2>1. r.committeeId \in CommitteeIds /\ VoteInv(r)
    BY IncomingType DEF VotingInv
  <2>2. committees[r.committeeId] \subseteq Guardians
    BY <2>1 DEF VotingInv, TypeOK, MembersType
  <2>3. committees[r.committeeId] \subseteq signatures[r]
    BY <2>2 DEF NeedsSignature, IsInCommittee, HasSignedRequest
  <2>4. committees[r.committeeId] = signatures[r]
    BY <2>1, <2>3 DEF VoteInv
  <2>5. Cardinality(signatures[r]) \in Nat /\ signature_thresholds[r.committeeId] \in Nat
    BY <2>1, Constants, FS_Subset, FS_CardinalityType
       DEF VotingInv, TypeOK, VotingType, MembersType
  <2>6. /\ signature_thresholds[r.committeeId] <= Cardinality(signatures[r])
        /\ Cardinality(signatures[r]) < signature_thresholds[r.committeeId]
    BY <2>1, <2>4 DEF VotingInv, CommitteeInv, VoteInv
  <2> QED BY <2>5, <2>6, SMT
<1> QED BY <1>1, VotingInvariant, PTL

-----------------------------------------------------------------------------
(* Rewards *)

PaidTo == [c \in CommitteeIds |-> SumFunctionOnSet(paid_out[c], Guardians)]
TotalPaid == SumFunctionOnSet(PaidTo, CommitteeIds)
TotalCollected == SumFunctionOnSet(collected, CommitteeIds)

\* All the AZERO there is or was in the contract is a fee or pocket money.
Ledger == azero + recovered + TotalPaid = pocket_money_balance + TotalCollected

RewardInv == VotingInv /\ SharesAreFair /\ Ledger

\* What charging a fee does to the books.
Charged ==
    /\ collected' = [collected EXCEPT ![committee_id] = @ + BaseFee]
    /\ azero' = azero + BaseFee
    /\ UNCHANGED <<members, paid_out, pocket_money_balance, recovered>>

LEMMA CommitteeIdsFinite == IsFiniteSet(CommitteeIds)
<1>1. 0 \in Int /\ MaxCommitteeId \in Int
  BY Constants, SMT
<1> QED BY <1>1, FS_Interval DEF CommitteeIds

LEMMA TotalsType ==
    ASSUME MoneyType
    PROVE  /\ PaidTo \in [CommitteeIds -> Nat]
           /\ TotalPaid \in Nat
           /\ TotalCollected \in Nat
<1>1. ASSUME NEW c \in CommitteeIds PROVE SumFunctionOnSet(paid_out[c], Guardians) \in Nat
  <2>1. \A g \in Guardians : paid_out[c][g] \in Nat
    BY DEF MoneyType
  <2> QED BY <2>1, Constants, SumType
<1>2. PaidTo \in [CommitteeIds -> Nat]
  BY <1>1 DEF PaidTo
<1>3. \A c \in CommitteeIds : PaidTo[c] \in Nat /\ collected[c] \in Nat
  BY <1>2 DEF MoneyType
<1> QED BY <1>2, <1>3, CommitteeIdsFinite, SumType DEF TotalPaid, TotalCollected

\* A step charges a fee, pays a reward, changes the committee, or leaves rewards alone and
\* takes as much from the pocket money as from the balance.
LEMMA RewardStepKinds ==
    ASSUME TypeOK, [Next]_vars
    PROVE  \/ Charged
           \/ \E c \in CommitteeIds, g \in Guardians : PayoutRewards(c, g)
           \/ \E C \in SUBSET Guardians, threshold \in Thresholds : SetCommittee(C, threshold)
           \/ /\ azero' + recovered' + pocket_money_balance = azero + recovered + pocket_money_balance'
              /\ UNCHANGED <<members, rewards>>
<1>0. azero \in Nat /\ recovered \in Nat /\ pocket_money_balance \in Nat
  BY DEF TypeOK, MoneyType
<1>s. UNCHANGED coin =>
        azero' + recovered' + pocket_money_balance = azero + recovered + pocket_money_balance'
  BY DEF coin
<1>1. CASE Send
  BY <1>1 DEF Send, SendRequest, SendRequestNativeEther, SendRequestNativeAzero, ChargeAndEmit, Charged
<1>2. CASE Receive
  <2>1. PICK g \in Guardians, r \in Incoming : ReceiveRequest(g, r)
    BY <1>2 DEF Receive
  <2>2. UNCHANGED <<members, rewards>> /\ (UNCHANGED coin \/ SendPocketMoney)
    BY <2>1 DEF ReceiveRequest, Execute
  <2>3. CASE SendPocketMoney
    <3>1. CurrentPocketMoneyValue \in Nat
      BY PocketMoneyType DEF TypeOK
    <3>2. azero' + recovered' + pocket_money_balance = azero + recovered + pocket_money_balance'
      BY <1>0, <2>3, <3>1, SMT DEF SendPocketMoney, coin
    <3> QED BY <2>2, <3>2
  <2> QED BY <1>s, <2>2, <2>3
<1>3. CASE Pay
  <2>1. ASSUME NEW amount \in Amounts, FundPocketMoney(amount)
        PROVE  /\ azero' + recovered' + pocket_money_balance = azero + recovered + pocket_money_balance'
               /\ UNCHANGED <<members, rewards>>
    BY <1>0, <2>1, Constants, SMT DEF FundPocketMoney
  <2> QED BY <1>3, <2>1 DEF Pay
<1>4. CASE Govern
  <2>1. ASSUME NEW amount \in Amounts, RecoverAzero(amount)
        PROVE  /\ azero' + recovered' + pocket_money_balance = azero + recovered + pocket_money_balance'
               /\ UNCHANGED <<members, rewards>>
    BY <1>0, <2>1, Constants, SMT DEF RecoverAzero
  <2> QED
    BY <1>4, <1>s, <2>1 DEF Govern, SetHalted, SetWeth, SetWazero, RemovePair, AddPair,
       SetMinterBurner, RecoverPsp22
<1>5. CASE Price
  BY <1>5, <1>s DEF Price, SetBaseFeeConstraints, SetMaxPocketMoney, SetEthTransferGasUsage,
     SetGasPriceOracle, UpdatePrice, PriceAges
<1>6. CASE UNCHANGED vars
  BY <1>6, <1>s DEF vars
<1> QED BY <1>1, <1>2, <1>3, <1>4, <1>5, <1>6 DEF Next

\* A fee raises the share of every member of the committee in office.
LEMMA RewardCharge ==
    ASSUME RewardInv, TypeOK', VotingInv', Charged
    PROVE  RewardInv'
<1>1. /\ BaseFee \in Nat /\ committee_id \in CommitteeIds
      /\ collected \in [CommitteeIds -> Nat] /\ collected' \in [CommitteeIds -> Nat]
      /\ committees \in [CommitteeIds -> SUBSET Guardians]
      /\ paid_out \in [CommitteeIds -> [Guardians -> Nat]]
      /\ azero \in Nat /\ recovered \in Nat /\ pocket_money_balance \in Nat
      /\ MoneyType /\ MoneyType'
  BY BaseFeeType DEF RewardInv, VotingInv, TypeOK, MoneyType, MembersType
<1>2. collected'[committee_id] = collected[committee_id] + BaseFee
      /\ \A c \in CommitteeIds \ {committee_id} : collected[c] = collected'[c]
  BY <1>1 DEF Charged
<1> HIDE DEF BaseFee
<1>3. SharesAreFair'
  <2> SUFFICES ASSUME NEW c \in CommitteeIds, NEW g \in Guardians, paid_out[c][g] > 0
               PROVE  g \in committees[c] /\ paid_out[c][g] <= MemberShare(c)'
    BY DEF SharesAreFair, Charged, members
  <2>1. g \in committees[c] /\ paid_out[c][g] <= MemberShare(c)
    BY DEF RewardInv, SharesAreFair
  <2>2. collected[c] \in Nat /\ collected'[c] \in Nat /\ collected[c] <= collected'[c]
    BY <1>1, <1>2, SMT
  <2>3. Cardinality(committees[c]) \in Nat \ {0}
    BY <1>1, <2>1, Constants, FS_Subset, FS_CardinalityType, FS_EmptySet
  <2>4. collected[c] \div Cardinality(committees[c]) <= collected'[c] \div Cardinality(committees[c])
    BY <2>2, <2>3, DivMonotone
  <2>5. /\ collected[c] \div Cardinality(committees[c]) \in Nat
        /\ collected'[c] \div Cardinality(committees[c]) \in Nat
        /\ paid_out[c][g] \in Nat
    BY <1>1, <2>2, <2>3, DivType
  <2>6. paid_out[c][g] <= collected'[c] \div Cardinality(committees[c])
    BY <2>1, <2>4, <2>5, SMT DEF MemberShare
  <2> QED BY <2>1, <2>6 DEF MemberShare, Charged, members
<1>4. Ledger'
  <2>1. TotalCollected' = TotalCollected + BaseFee
    <3>1. \A c \in CommitteeIds : collected[c] \in Nat
      BY <1>1
    <3>2. \A c \in CommitteeIds \ {committee_id} : collected'[c] = collected[c]
      BY <1>2
    <3> QED BY <1>1, <1>2, <3>1, <3>2, CommitteeIdsFinite, SumIncrement DEF TotalCollected
  <2>2. TotalPaid' = TotalPaid /\ TotalPaid \in Nat /\ TotalCollected \in Nat /\ TotalCollected' \in Nat
    <3>1. TotalCollected' \in Nat
      BY <1>1, CommitteeIdsFinite, SumType DEF TotalCollected
    <3> QED BY <1>1, <3>1, TotalsType DEF TotalPaid, PaidTo, Charged
  <2>3. azero + recovered + TotalPaid = pocket_money_balance + TotalCollected
    BY DEF RewardInv, Ledger
  <2>4. azero' + recovered + TotalPaid = pocket_money_balance + TotalCollected'
    <3>1. azero \in Nat /\ recovered \in Nat /\ pocket_money_balance \in Nat /\ BaseFee \in Nat
      BY <1>1
    <3>2. azero' = azero + BaseFee
      BY DEF Charged
    <3> QED BY <2>1, <2>2, <2>3, <3>1, <3>2, SMT
  <2> QED BY <2>2, <2>4 DEF Ledger, Charged
<1> QED BY <1>3, <1>4 DEF RewardInv

\* A payout brings the member to the share, out of the balance.
LEMMA RewardPayout ==
    ASSUME RewardInv, TypeOK', VotingInv', NEW c \in CommitteeIds, NEW g \in Guardians,
           PayoutRewards(c, g)
    PROVE  RewardInv'
<1> DEFINE out == OutstandingMemberRewards(c, g)
<1>1. /\ out \in Nat /\ out > 0 /\ azero >= out
      /\ azero' = azero - out
      /\ paid_out' = [paid_out EXCEPT ![c][g] = @ + out]
      /\ UNCHANGED <<members, collected, pocket_money_balance, recovered>>
      /\ g \in committees[c]
      /\ paid_out[c][g] + out = MemberShare(c)
      /\ MemberShare(c) \in Nat
  BY OutstandingType DEF PayoutRewards, RewardInv, VotingInv, TypeOK
<1>2. /\ paid_out \in [CommitteeIds -> [Guardians -> Nat]]
      /\ paid_out' \in [CommitteeIds -> [Guardians -> Nat]]
      /\ azero \in Nat /\ recovered \in Nat /\ pocket_money_balance \in Nat
      /\ MoneyType /\ MoneyType'
  BY DEF RewardInv, VotingInv, TypeOK, MoneyType
<1> HIDE DEF out
<1>3. /\ paid_out'[c][g] = paid_out[c][g] + out
      /\ \A h \in Guardians \ {g} : paid_out[c][h] = paid_out'[c][h]
      /\ \A d \in CommitteeIds \ {c} : paid_out[d] = paid_out'[d]
  BY <1>1, <1>2
<1>4. \A d \in CommitteeIds : MemberShare(d)' = MemberShare(d)
  BY <1>1 DEF MemberShare, members
<1>5. SharesAreFair'
  <2> SUFFICES ASSUME NEW d \in CommitteeIds, NEW h \in Guardians, paid_out'[d][h] > 0
               PROVE  h \in committees[d] /\ paid_out'[d][h] <= MemberShare(d)
    BY <1>1, <1>4 DEF SharesAreFair, members
  <2>1. CASE d = c /\ h = g
    <3>1. paid_out'[c][g] = MemberShare(c)
      BY <1>1, <1>3
    <3>2. MemberShare(c) <= MemberShare(c)
      BY <1>1, SMT
    <3> QED BY <1>1, <2>1, <3>1, <3>2
  <2>2. CASE d # c \/ h # g
    <3>1. paid_out'[d][h] = paid_out[d][h]
      BY <1>3, <2>2
    <3> QED BY <3>1 DEF RewardInv, SharesAreFair
  <2> QED BY <2>1, <2>2
<1>6. Ledger'
  <2>1. \A d \in CommitteeIds : PaidTo[d] \in Nat /\ PaidTo'[d] \in Nat
    <3>1. PaidTo' \in [CommitteeIds -> Nat]
      <4>1. ASSUME NEW d \in CommitteeIds PROVE SumFunctionOnSet(paid_out'[d], Guardians) \in Nat
        <5>1. \A h \in Guardians : paid_out'[d][h] \in Nat
          BY <1>2
        <5> QED BY <5>1, Constants, SumType
      <4> QED BY <4>1 DEF PaidTo
    <3> QED BY <1>2, <3>1, TotalsType
  <2>2. \A d \in CommitteeIds \ {c} : PaidTo[d] = PaidTo'[d]
    BY <1>3 DEF PaidTo
  <2>3. PaidTo'[c] + paid_out[c][g] = PaidTo[c] + paid_out'[c][g]
    <3>1. \A h \in Guardians : paid_out[c][h] \in Nat /\ paid_out'[c][h] \in Nat
      BY <1>2
    <3> QED BY <1>3, <3>1, Constants, SumUpdate DEF PaidTo
  <2>4. TotalPaid' + PaidTo[c] = TotalPaid + PaidTo'[c]
    BY <2>1, <2>2, CommitteeIdsFinite, SumUpdate DEF TotalPaid
  <2>5. TotalPaid \in Nat /\ TotalPaid' \in Nat /\ TotalCollected \in Nat
    BY <1>2, <2>1, CommitteeIdsFinite, SumType, TotalsType DEF TotalPaid
  <2>6. PaidTo[c] \in Nat /\ PaidTo'[c] \in Nat /\ paid_out[c][g] \in Nat
    BY <1>2, <2>1
  <2>7. TotalCollected' = TotalCollected
    BY <1>1 DEF TotalCollected
  <2>8. azero + recovered + TotalPaid = pocket_money_balance + TotalCollected
    BY DEF RewardInv, Ledger
  <2>9. azero' + recovered + TotalPaid' = pocket_money_balance + TotalCollected
    <3>1. azero \in Nat /\ recovered \in Nat /\ pocket_money_balance \in Nat
      BY <1>2
    <3>2. out \in Nat /\ azero' = azero - out
      BY <1>1
    <3>3. PaidTo'[c] = PaidTo[c] + out
      BY <1>3, <2>3, <2>6, <3>2, SMT
    <3>4. TotalPaid' = TotalPaid + out
      BY <2>4, <2>5, <2>6, <3>2, <3>3, SMT
    <3> QED BY <2>5, <2>8, <3>1, <3>2, <3>4, SMT
  <2> QED BY <1>1, <2>7, <2>9 DEF Ledger
<1> QED BY <1>5, <1>6 DEF RewardInv

\* The id of a new committee was not used, so that nobody was paid under it.
LEMMA RewardSetCommittee ==
    ASSUME RewardInv, TypeOK', VotingInv', NEW C \in SUBSET Guardians,
           NEW threshold \in Thresholds, SetCommittee(C, threshold)
    PROVE  RewardInv'
<1>1. /\ committee_id \in Nat
      /\ committee_id + 1 \in CommitteeIds
      /\ committees' = [committees EXCEPT ![committee_id + 1] = C]
      /\ UNCHANGED <<rewards, coin>>
  BY NewCommitteeFacts DEF RewardInv, VotingInv, SetCommittee
<1>2. committees \in [CommitteeIds -> SUBSET Guardians]
  BY DEF RewardInv, VotingInv, TypeOK, MembersType
<1>3. committees[committee_id + 1] = {}
  <2>1. ~(committee_id + 1 <= committee_id)
    BY <1>1, SMT
  <2> QED BY <1>1, <2>1 DEF RewardInv, VotingInv, CommitteeInv
<1>4. SharesAreFair'
  <2> SUFFICES ASSUME NEW c \in CommitteeIds, NEW g \in Guardians, paid_out[c][g] > 0
               PROVE  g \in committees'[c] /\ paid_out[c][g] <= MemberShare(c)'
    BY <1>1 DEF SharesAreFair, rewards
  <2>1. g \in committees[c] /\ paid_out[c][g] <= MemberShare(c)
    BY DEF RewardInv, SharesAreFair
  <2>2. c # committee_id + 1
    BY <1>3, <2>1
  <2>3. committees'[c] = committees[c]
    BY <1>1, <1>2, <2>2
  <2> QED BY <1>1, <2>1, <2>3 DEF MemberShare, rewards
<1>5. Ledger'
  BY <1>1 DEF RewardInv, Ledger, TotalPaid, TotalCollected, PaidTo, rewards, coin
<1> QED BY <1>4, <1>5 DEF RewardInv

\* In every reachable state the books balance and nobody has more than a share.
THEOREM RewardInvariant == Spec => []RewardInv
<1>1. Init /\ VotingInv => RewardInv
  <2> SUFFICES ASSUME Init, VotingInv PROVE RewardInv
    OBVIOUS
  <2>0. ~(0 > 0) /\ 0 + 0 + 0 = 0 + 0
    BY SMT
  <2>1. SharesAreFair
    BY <2>0 DEF Init, SharesAreFair
  <2>2. ASSUME NEW c \in CommitteeIds PROVE PaidTo[c] = 0
    <3>1. \A g \in Guardians : paid_out[c][g] = 0
      BY DEF Init
    <3> QED BY <3>1, Constants, SumZero DEF PaidTo
  <2>3. \A c \in CommitteeIds : collected[c] = 0
    BY DEF Init
  <2>4. TotalPaid = 0 /\ TotalCollected = 0
    BY <2>2, <2>3, CommitteeIdsFinite, SumZero DEF TotalPaid, TotalCollected
  <2> QED BY <2>0, <2>1, <2>4 DEF Init, RewardInv, Ledger
<1>2. RewardInv /\ TypeOK' /\ VotingInv' /\ [Next]_vars => RewardInv'
  <2> SUFFICES ASSUME RewardInv, TypeOK', VotingInv', [Next]_vars PROVE RewardInv'
    OBVIOUS
  <2>1. ASSUME azero' + recovered' + pocket_money_balance = azero + recovered + pocket_money_balance',
               UNCHANGED <<members, rewards>>
        PROVE  RewardInv'
    <3>1. SharesAreFair'
      BY <2>1 DEF RewardInv, SharesAreFair, MemberShare, members, rewards
    <3>2. TotalPaid' = TotalPaid /\ TotalCollected' = TotalCollected
      BY <2>1 DEF TotalPaid, TotalCollected, PaidTo, rewards
    <3>3. TotalPaid \in Nat /\ TotalCollected \in Nat
      BY TotalsType DEF RewardInv, VotingInv, TypeOK
    <3>4. azero + recovered + TotalPaid = pocket_money_balance + TotalCollected
      BY DEF RewardInv, Ledger
    <3>5. /\ azero \in Nat /\ recovered \in Nat /\ pocket_money_balance \in Nat
          /\ azero' \in Nat /\ recovered' \in Nat /\ pocket_money_balance' \in Nat
      BY DEF RewardInv, VotingInv, TypeOK, MoneyType
    <3>6. azero' + recovered' + TotalPaid = pocket_money_balance' + TotalCollected
      BY <2>1, <3>3, <3>4, <3>5, SMT
    <3> QED BY <3>1, <3>2, <3>6 DEF RewardInv, Ledger
  <2>2. TypeOK
    BY DEF RewardInv, VotingInv
  <2> QED BY <2>1, <2>2, RewardStepKinds, RewardCharge, RewardPayout, RewardSetCommittee
<1> QED BY <1>1, <1>2, TypeCorrect, VotingInvariant, PTL DEF Spec

\* No member was paid more than an equal share of what the committee collected.
THEOREM SharesTheorem == Spec => []SharesAreFair
<1>1. RewardInv => SharesAreFair
  BY DEF RewardInv
<1> QED BY <1>1, RewardInvariant, PTL

\* What the members of a committee were paid or may ask for is at most what it collected.
LEMMA SharesFit ==
    ASSUME RewardInv, NEW c \in CommitteeIds
    PROVE  /\ OutstandingRewards[c] \in Nat
           /\ OutstandingRewards[c] + PaidTo[c] \in Nat
           /\ OutstandingRewards[c] + PaidTo[c] <= collected[c]
<1> DEFINE C == committees[c]
           k == MemberShare(c)
           out == [g \in Guardians |-> OutstandingMemberRewards(c, g)]
           both == [g \in Guardians |-> out[g] + paid_out[c][g]]
<1>0. /\ C \subseteq Guardians /\ IsFiniteSet(C) /\ IsFiniteSet(Guardians \ C)
      /\ collected[c] \in Nat
      /\ \A g \in Guardians : paid_out[c][g] \in Nat
      /\ MembersType /\ MoneyType
  BY Constants, FS_Subset DEF RewardInv, VotingInv, TypeOK, MembersType, MoneyType
<1>1. \A g \in Guardians : out[g] \in Nat
  BY <1>0, OutstandingType
<1>2. ASSUME NEW g \in C PROVE both[g] = k /\ k \in Nat
  <2>1. k \in Nat /\ paid_out[c][g] \in Nat
    BY <1>0, OutstandingType
  <2>2. paid_out[c][g] <= k
    BY <1>0, <2>1, SMT DEF RewardInv, SharesAreFair
  <2>3. OutstandingMemberRewards(c, g) = IF k > paid_out[c][g] THEN k - paid_out[c][g] ELSE 0
    BY DEF OutstandingMemberRewards
  <2>4. both[g] = OutstandingMemberRewards(c, g) + paid_out[c][g]
    BY <1>0
  <2> HIDE DEF both, k
  <2> QED BY <2>1, <2>2, <2>3, <2>4, SMT
<1>3. ASSUME NEW g \in Guardians \ C PROVE both[g] = 0
  <2>1. OutstandingMemberRewards(c, g) = 0
    BY DEF OutstandingMemberRewards
  <2>2. paid_out[c][g] = 0
    BY <1>0, SMT DEF RewardInv, SharesAreFair
  <2> QED BY <2>1, <2>2, SMT
<1>4. \A g \in Guardians : both[g] = out[g] + paid_out[c][g] /\ both[g] \in Nat
  BY <1>0, <1>1, SMT
<1>5. OutstandingRewards[c] = SumFunctionOnSet(out, Guardians)
  BY DEF OutstandingRewards
<1> HIDE DEF both, out, k
<1>6. SumFunctionOnSet(both, Guardians) = OutstandingRewards[c] + PaidTo[c]
  BY <1>0, <1>1, <1>4, <1>5, Constants, SumPlus DEF PaidTo
<1>7. /\ OutstandingRewards[c] \in Nat
      /\ SumFunctionOnSet(both, Guardians) \in Nat
      /\ SumFunctionOnSet(both, C) \in Nat
  BY <1>0, <1>1, <1>4, <1>5, Constants, SumType
<1>8. SumFunctionOnSet(both, Guardians \ C) = 0
  BY <1>0, <1>3, SumZero
<1>9. SumFunctionOnSet(both, Guardians) = SumFunctionOnSet(both, C)
  <2>1. SumFunctionOnSet(both, C \cup (Guardians \ C)) =
            SumFunctionOnSet(both, C) + SumFunctionOnSet(both, Guardians \ C)
    BY <1>0, <1>4, SumUnion
  <2>2. C \cup (Guardians \ C) = Guardians
    BY <1>0
  <2> QED BY <1>7, <1>8, <2>1, <2>2, SMT
<1>10. SumFunctionOnSet(both, C) <= collected[c]
  <2>1. CASE C = {}
    BY <1>0, <2>1, SumEmpty, SMT
  <2>2. CASE C # {}
    <3>1. Cardinality(C) \in Nat \ {0}
      BY <1>0, <2>2, FS_CardinalityType, FS_EmptySet
    <3>2. k \in Nat
      BY <1>2, <2>2
    <3>3. SumFunctionOnSet(both, C) = Cardinality(C) * k
      BY <1>0, <1>2, <3>2, SumConstant
    <3>4. Cardinality(C) * k <= collected[c]
      BY <1>0, <3>1, DivType DEF k, MemberShare
    <3> QED BY <3>3, <3>4
  <2> QED BY <2>1, <2>2
<1> QED BY <1>6, <1>7, <1>9, <1>10

\* Every member of every committee can be paid what is outstanding, and all the pocket money
\* handed out, from the AZERO of the contract and what the owner took: the books balance,
\* and the shares of a committee, rounded down, fit in what it collected.
THEOREM PayableTheorem == Spec => []RewardsArePayable
<1>1. RewardInv => RewardsArePayable
  <2> SUFFICES ASSUME RewardInv PROVE RewardsArePayable
    OBVIOUS
  <2> DEFINE both == [c \in CommitteeIds |-> OutstandingRewards[c] + PaidTo[c]]
             TotalOut == SumFunctionOnSet(OutstandingRewards, CommitteeIds)
  <2>0. /\ azero \in Nat /\ recovered \in Nat /\ pocket_money_balance \in Nat /\ MoneyType
        /\ \A c \in CommitteeIds : collected[c] \in Nat
    BY DEF RewardInv, VotingInv, TypeOK, MoneyType
  <2>1. \A c \in CommitteeIds : PaidTo[c] \in Nat
    BY <2>0, TotalsType
  <2>2. \A c \in CommitteeIds :
          /\ OutstandingRewards[c] \in Nat /\ both[c] \in Nat
          /\ both[c] = OutstandingRewards[c] + PaidTo[c]
          /\ both[c] <= collected[c]
    BY SharesFit
  <2> HIDE DEF both
  <2>3. SumFunctionOnSet(both, CommitteeIds) = TotalOut + TotalPaid
    BY <2>1, <2>2, CommitteeIdsFinite, SumPlus DEF TotalPaid
  <2>4. SumFunctionOnSet(both, CommitteeIds) <= TotalCollected
    BY <2>0, <2>2, CommitteeIdsFinite, SumMonotone DEF TotalCollected
  <2>5. TotalOut \in Nat /\ TotalPaid \in Nat /\ TotalCollected \in Nat
    BY <2>0, <2>2, CommitteeIdsFinite, SumType, TotalsType
  <2>6. azero + recovered + TotalPaid = pocket_money_balance + TotalCollected
    BY DEF RewardInv, Ledger
  <2> HIDE DEF TotalOut
  <2>7. azero + recovered >= pocket_money_balance + TotalOut
    BY <2>0, <2>3, <2>4, <2>5, <2>6, SMT
  <2> QED BY <2>7 DEF RewardsArePayable, TotalOut
<1> QED BY <1>1, RewardInvariant, PTL

-----------------------------------------------------------------------------
(* Refinement *)

LEMMA SameCardinality == \A S : Voting!Cardinality(S) = Cardinality(S)
  BY DEF Voting!Cardinality, Cardinality, Voting!IsFiniteSet, IsFiniteSet

\* most/lib.rs, which counts signatures and may refuse to pay, implements the voting scheme,
\* which looks at the set of voters.
THEOREM RefinementTheorem == Spec => ImplementsVoting
<1>1. Init /\ VotingInv => Voting!Init
  <2> SUFFICES ASSUME Init, VotingInv PROVE Voting!Init
    OBVIOUS
  <2>1. committee_id = 0 /\ 0 \in CommitteeIds
    BY Constants, SMT DEF Init, CommitteeIds
  <2>2. Voting!CanDecide(committees[0], signature_thresholds[0])
    BY <2>1, SameCardinality DEF Voting!CanDecide, VotingInv, CommitteeInv
  <2>3. \A c \in CommitteeIds \ {0} : committees[c] = {}
    BY <2>1, Constants, SMT DEF VotingInv, CommitteeInv, CommitteeIds
  <2>4. committees \in [CommitteeIds -> SUBSET Guardians]
    BY DEF VotingInv, TypeOK, MembersType
  <2> QED BY <2>1, <2>2, <2>3, <2>4 DEF Init, Voting!Init
<1>2. VotingInv /\ [Next]_vars => [Voting!Next]_Voting!vars
  <2> SUFFICES ASSUME VotingInv, [Next]_vars PROVE [Voting!Next]_Voting!vars
    OBVIOUS
  <2>1. CASE UNCHANGED <<members, voting>>
    BY <2>1 DEF Voting!vars, members, voting
  <2>2. ASSUME NEW g \in Guardians, NEW r \in Incoming, ReceiveRequest(g, r)
        PROVE  Voting!Vote(g, r)
    <3>1. /\ r \notin processed_requests
          /\ g \in committees[r.committeeId] \ signatures[r]
          /\ signatures' = [signatures EXCEPT ![r] = @ \cup {g}]
          /\ UNCHANGED <<committee_id, committees, signature_thresholds>>
      BY <2>2 DEF ReceiveRequest, NeedsSignature, IsInCommittee, HasSignedRequest, members
    <3>2. Cardinality(signatures[r] \cup {g}) = signature_count[r] + 1
      <4>1. IsFiniteSet(signatures[r])
        BY Constants, FS_Subset DEF VotingInv, TypeOK, VotingType
      <4>2. Cardinality(signatures[r] \cup {g}) = Cardinality(signatures[r]) + 1
        BY <3>1, <4>1, FS_AddElement
      <4> QED BY <3>1, <4>2 DEF VotingInv, VoteInv
    <3>3. processed_requests' =
              IF Cardinality(signatures[r] \cup {g}) >= signature_thresholds[r.committeeId]
              THEN processed_requests \cup {r} ELSE processed_requests
      BY <2>2, <3>2 DEF ReceiveRequest, ThresholdMet, Execute
    <3> QED BY <3>1, <3>3, SameCardinality DEF Voting!Vote
  <2>3. ASSUME NEW C \in SUBSET Guardians, NEW threshold \in Thresholds, SetCommittee(C, threshold)
        PROVE  Voting!Next
    <3>1. /\ committee_id' = committee_id + 1
          /\ committees' = [committees EXCEPT ![committee_id + 1] = C]
          /\ signature_thresholds' = [signature_thresholds EXCEPT ![committee_id + 1] = threshold]
          /\ UNCHANGED voting
          /\ threshold \in Nat /\ threshold > 0 /\ threshold <= Cardinality(C)
      BY <2>3, NewCommitteeFacts DEF VotingInv
    <3>2. Cardinality(C) \in Nat
      BY Constants, FS_Subset, FS_CardinalityType
    <3>3. threshold \in 1 .. Cardinality(C)
      BY <3>1, <3>2, SMT
    <3>4. Voting!NewCommittee(C, threshold)
      BY <3>1, SameCardinality DEF Voting!NewCommittee, Voting!CanDecide, voting
    <3> QED BY <3>3, <3>4, SameCardinality DEF Voting!Next
  <2> QED BY <2>1, <2>2, <2>3, StepKinds DEF Voting!Next
<1> QED BY <1>1, <1>2, VotingInvariant, PTL DEF Spec, ImplementsVoting, Voting!Spec
=============================================================================
