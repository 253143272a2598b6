-------------------------- MODULE L2Bridge_proofs --------------------------
(***************************************************************************)
(* Proofs about L2Bridge for every set of guardians, committees and        *)
(* tokens, any amounts and fees, any exchange the pool may make, and any   *)
(* depth of calls within calls.  The last part is about the pool itself,   *)
(* for any fees, amounts and amplification coefficients: it is solvent,    *)
(* and makes only exchanges of the kind L2Bridge expects.                  *)
(***************************************************************************)
EXTENDS L2Bridge, StableSwapTwoPool, Sums, SequenceTheorems

LEMMA ChainsAre == \A c \in Chains : /\ c = "azero" \/ c = "l2"
                                     /\ Other(c) \in Chains /\ Other(c) # c
  BY DEF Chains, Other

LEMMA TokensAre ==
    /\ Tokens.azero = Locals \cup {WrappedAzero} /\ Tokens["azero"] = Locals \cup {WrappedAzero}
    /\ Tokens.l2 = Wrapped \cup BAzeros /\ Tokens["l2"] = Wrapped \cup BAzeros
  BY DEF Tokens

\* No token is two tokens.
LEMMA TokensDiffer ==
    /\ WrappedAzero \notin Locals
    /\ Wrapped \cap BAzeros = {}
    /\ (Locals \cup {WrappedAzero}) \cap (Wrapped \cup BAzeros) = {}
    /\ Zero \notin Locals \cup {WrappedAzero} \cup Wrapped \cup BAzeros
    /\ (Locals \cup {WrappedAzero}) \cap Chains = {}
    /\ PoolCoin \in BAzeros
  BY L2BridgeAssumption, TokensAre

LEMMA Pairs ==
    /\ \A t \in Locals : Partner[t] \in Wrapped /\ Partner[Partner[t]] = t
    /\ \A t \in Wrapped : Partner[t] \in Locals /\ Partner[Partner[t]] = t
    /\ Partner[WrappedAzero] \in BAzeros /\ \A t \in BAzeros : Partner[t] = WrappedAzero
    /\ \A t \in Tokens.azero : Partner[t] \in Tokens.l2
    /\ \A t \in Tokens.l2 : Partner[t] \in Tokens.azero
<1>1. /\ \A t \in Locals : Partner[t] \in Wrapped /\ Partner[Partner[t]] = t
      /\ \A t \in Wrapped : Partner[t] \in Locals /\ Partner[Partner[t]] = t
      /\ Partner[WrappedAzero] \in BAzeros /\ \A t \in BAzeros : Partner[t] = WrappedAzero
  BY L2BridgeAssumption
<1> QED BY <1>1, TokensAre

\* The names of AZERO, and no others.
LEMMA AzerosAre ==
    /\ Zero \in Azeros /\ WrappedAzero \in Azeros /\ BAzeros \subseteq Azeros
    /\ \A t \in Locals \cup Wrapped : t \notin Azeros
  BY TokensDiffer DEF Azeros

LEMMA Numbers ==
    /\ Endowment \in Nat /\ PoolNative \in Nat /\ PoolBAzero \in Nat /\ Deposit \in Nat
    /\ Amounts \subseteq Nat /\ Surpluses \subseteq Nat /\ FlatFees \subseteq Nat
    /\ RATIO \in Nat \ {0} /\ Percent \in Nat \ {0} /\ MIN_SWAP_RATE \in Nat
    /\ MaxCommitteeId \in Nat
  BY L2BridgeAssumption

LEMMA SwapType ==
    ASSUME NEW amount \in Nat, NEW toBAzero \in BOOLEAN
    PROVE  CalcMinAmountOutSwap(amount, toBAzero) \in Nat
<1>1. amount \div Percent \in Nat
  BY Numbers, SMT
<1>2. (amount \div Percent) * MIN_SWAP_RATE \in Nat
  <2> DEFINE q == amount \div Percent
  <2>1. q \in Nat
    BY <1>1
  <2> HIDE DEF q
  <2>2. q * MIN_SWAP_RATE \in Nat
    BY <2>1, Numbers, SMT
  <2> QED BY <2>2 DEF q
<1> DEFINE share == (amount \div Percent) * MIN_SWAP_RATE
<1>3. share \in Nat
  BY <1>2
<1>4. CalcMinAmountOutSwap(amount, toBAzero) = IF toBAzero THEN share \div RATIO ELSE share * RATIO
  BY DEF CalcMinAmountOutSwap
<1> HIDE DEF share
<1>5. share \div RATIO \in Nat /\ share * RATIO \in Nat
  BY <1>3, Numbers, SMT
<1> QED BY <1>4, <1>5

\* A user gets back what it paid too much.
LEMMA FlatFee ==
    ASSUME NEW c, flat_fee[c] \in Nat, NEW amount \in Nat, NEW transferred \in Values(c, amount)
    PROVE  HandleFlatFee(c, amount, transferred) = {amount}
<1>1. PICK s \in Surpluses : transferred = amount + flat_fee[c] + s
  BY DEF Values
<1>2. s \in Nat
  BY <1>1, Numbers
<1> DEFINE fee == flat_fee[c]
<1>3. fee \in Nat
  OBVIOUS
<1>4. HandleFlatFee(c, amount, transferred) =
        IF transferred < amount + fee THEN {} ELSE {transferred - fee - (transferred - amount - fee)}
  BY DEF HandleFlatFee
<1> HIDE DEF fee
<1>5. transferred = amount + fee + s
  BY <1>1 DEF fee
<1>6. ~(transferred < amount + fee) /\ transferred - fee - (transferred - amount - fee) = amount
  BY <1>2, <1>3, <1>5, SMT
<1> QED BY <1>4, <1>6

-----------------------------------------------------------------------------
(* What governance sets *)

\* The committees in use can reach their thresholds, their faulty members alone cannot.
CommitteeInv ==
    \A c \in Chains, i \in CommitteeIds :
        IF i <= committee_id[c]
        THEN /\ Cardinality(committees[c][i] \cap Faulty) < signature_thresholds[c][i]
             /\ signature_thresholds[c][i] <= Cardinality(committees[c][i])
        ELSE committees[c][i] = {}

MembersInv ==
    /\ committee_id \in [Chains -> CommitteeIds]
    /\ committees \in [Chains -> [CommitteeIds -> SUBSET Guardians]]
    /\ signature_thresholds \in [Chains -> [CommitteeIds -> Nat]]
    /\ CommitteeInv

\* A supported pair is a token and its partner.
PairsInv ==
    /\ \A c \in Chains : supported_pairs[c] \in [Tokens[c] -> Tokens[Other(c)] \cup {Zero}]
    /\ DOMAIN supported_pairs = Chains
    /\ \A c \in Chains : \A t \in Tokens[c] :
          supported_pairs[c][t] # Zero => supported_pairs[c][t] = Partner[t]

SettingsInv ==
    /\ flat_fee \in [Chains -> FlatFees]
    /\ wazero = WrappedAzero
    /\ bAzeroAddress \in BAzeros
    /\ isLocalToken \subseteq Tokens.l2
    /\ governed \in Nat

ConfInv == MembersInv /\ PairsInv /\ SettingsInv

settings == <<flat_fee, wazero, bAzeroAddress, isLocalToken, governed>>

books == <<coin, locked, users, supply, pool, frames, refused, recovered>>

\* The steps, by whether they touch the settings or the money.
LEMMA Steps ==
    ASSUME [Next]_vars
    PROVE  \/ Send \/ Receive
           \/ \E c \in Chains, C \in Committees : SetCommittee(c, C)
           \/ \E t \in Tokens.azero \cup Tokens.l2 : AddPair(t) \/ RemovePair(t)
           \/ \E c \in Chains, fee \in FlatFees : SetFlatFee(c, fee)
           \/ SetWazero(WrappedAzero)
           \/ \E t \in BAzeros : SetBridgedAzeroAddress(t)
           \/ \E t \in Tokens.l2, isLocal \in BOOLEAN : SetLocalToken(t, isLocal)
           \/ \E c \in Chains, amount \in Amounts : RecoverCoin(c, amount)
           \/ \E t \in Tokens.azero, amount \in Amounts : RecoverPsp22(t, amount)
           \/ \E c \in Chains, state \in BOOLEAN : SetHalted(c, state)
           \/ UNCHANGED vars
  BY DEF Next, GovernTokens, GovernChain

LEMMA SendSettings ==
    ASSUME Send
    PROVE  UNCHANGED <<members, supported_pairs, settings, halted, voting>>
  BY DEF Send, SendRequest, SendRequestNativeAzero, BeginNative, BeginToken, EndNative, EndToken,
     settings, azero, l2

LEMMA PaySettings ==
    ASSUME NEW r, PayAzero(r) \/ RemoteTokenTransfer(r) \/ NativeTransfer(r)
    PROVE  UNCHANGED <<wazero, bAzeroAddress, isLocalToken, frames>>
<1>1. PayAzero(r) => UNCHANGED <<wazero, bAzeroAddress, isLocalToken, frames>>
  BY DEF PayAzero, l2
<1>2. RemoteTokenTransfer(r) => UNCHANGED <<wazero, bAzeroAddress, isLocalToken, frames>>
  BY DEF RemoteTokenTransfer, azero
<1>3. NativeTransfer(r) => UNCHANGED <<wazero, bAzeroAddress, isLocalToken, frames>>
  BY DEF NativeTransfer, azero
<1> QED BY <1>1, <1>2, <1>3

LEMMA ReceiveKinds ==
    ASSUME Receive
    PROVE  \E g \in Guardians : \E r :
              /\ (g \in Faulty /\ r \in Forged) \/ \E c \in Chains : r \in Logged(c)
              /\ ReceiveRequest(g, r)
<1>1. Faulty \subseteq Guardians
  BY L2BridgeAssumption
<1> QED BY <1>1 DEF Receive, Relay, Forge

LEMMA ReceiveSettings ==
    ASSUME NEW g, NEW r, ReceiveRequest(g, r)
    PROVE  UNCHANGED <<members, supported_pairs, settings, halted, log, recovered, frames>>
<1>1. UNCHANGED <<halted, members, supported_pairs, flat_fee, log, recovered, governed>>
  BY DEF ReceiveRequest
<1>2. UNCHANGED <<wazero, bAzeroAddress, isLocalToken, frames>>
  BY PaySettings DEF ReceiveRequest, azero, l2
<1> QED BY <1>1, <1>2 DEF settings

LEMMA GovernSettings ==
    /\ \A c, C : SetCommittee(c, C) =>
          UNCHANGED <<supported_pairs, flat_fee, wazero, bAzeroAddress, isLocalToken, voting, log, books>>
    /\ \A t : AddPair(t) \/ RemovePair(t) =>
          UNCHANGED <<members, flat_fee, wazero, bAzeroAddress, voting, log, books>>
    /\ \A c, fee : SetFlatFee(c, fee) =>
          UNCHANGED <<members, supported_pairs, wazero, bAzeroAddress, isLocalToken, voting, log, books>>
    /\ \A t : SetWazero(t) =>
          UNCHANGED <<members, supported_pairs, flat_fee, bAzeroAddress, isLocalToken, voting, log, books>>
    /\ \A t : SetBridgedAzeroAddress(t) =>
          UNCHANGED <<members, supported_pairs, flat_fee, wazero, isLocalToken, voting, log, books>>
    /\ \A t, isLocal : SetLocalToken(t, isLocal) =>
          UNCHANGED <<members, supported_pairs, flat_fee, wazero, bAzeroAddress, voting, log, books>>
    /\ \A c, state : SetHalted(c, state) =>
          UNCHANGED <<members, supported_pairs, settings, voting, log, books>>
    /\ \A t, amount : RecoverPsp22(t, amount) \/ RecoverCoin(t, amount) =>
          UNCHANGED <<members, supported_pairs, flat_fee, wazero, bAzeroAddress, isLocalToken, voting,
                      log, supply, pool, frames, refused>>
<1> USE DEF azero, l2, books, settings
<1>1. \A c, C : SetCommittee(c, C) =>
          UNCHANGED <<supported_pairs, flat_fee, wazero, bAzeroAddress, isLocalToken, voting, log, books>>
  BY DEF SetCommittee
<1>2. \A t : AddPair(t) \/ RemovePair(t) =>
          UNCHANGED <<members, flat_fee, wazero, bAzeroAddress, voting, log, books>>
  BY DEF AddPair, RemovePair
<1>3. \A c, fee : SetFlatFee(c, fee) =>
          UNCHANGED <<members, supported_pairs, wazero, bAzeroAddress, isLocalToken, voting, log, books>>
  BY DEF SetFlatFee
<1>4. \A t : SetWazero(t) =>
          UNCHANGED <<members, supported_pairs, flat_fee, bAzeroAddress, isLocalToken, voting, log, books>>
  BY DEF SetWazero
<1>5. \A t : SetBridgedAzeroAddress(t) =>
          UNCHANGED <<members, supported_pairs, flat_fee, wazero, isLocalToken, voting, log, books>>
  BY DEF SetBridgedAzeroAddress
<1>6. \A t, isLocal : SetLocalToken(t, isLocal) =>
          UNCHANGED <<members, supported_pairs, flat_fee, wazero, bAzeroAddress, voting, log, books>>
  BY DEF SetLocalToken
<1>7. \A c, state : SetHalted(c, state) =>
          UNCHANGED <<members, supported_pairs, settings, voting, log, books>>
  BY DEF SetHalted
<1>8. \A t, amount : RecoverPsp22(t, amount) \/ RecoverCoin(t, amount) =>
          UNCHANGED <<members, supported_pairs, flat_fee, wazero, bAzeroAddress, isLocalToken, voting,
                      log, supply, pool, frames, refused>>
  BY DEF RecoverPsp22, RecoverCoin
<1> QED BY <1>1, <1>2, <1>3, <1>4, <1>5, <1>6, <1>7, <1>8

LEMMA MembersInit == Init => MembersInv
<1> SUFFICES ASSUME Init PROVE MembersInv
  OBVIOUS
<1>1. PICK C \in Committees :
        /\ CheckCommittee(C)
        /\ committees = [c \in Chains |-> [i \in CommitteeIds |-> IF i = 0 THEN C.members ELSE {}]]
        /\ signature_thresholds =
              [c \in Chains |-> [i \in CommitteeIds |-> IF i = 0 THEN C.threshold ELSE 0]]
  BY DEF Init
<1>2. committee_id = [c \in Chains |-> 0]
  BY DEF Init
<1>3. /\ C.members \subseteq Guardians /\ C.threshold \in Nat
      /\ Cardinality(C.members \cap Faulty) < C.threshold
      /\ Cardinality(C.members) \in Nat /\ C.threshold <= Cardinality(C.members)
  <2>1. C.members \subseteq Guardians /\ C.threshold \in Nat
        /\ Cardinality(C.members \cap Faulty) < C.threshold
    BY L2BridgeAssumption
  <2>2. Cardinality(C.members) \in Nat
    BY <2>1, L2BridgeAssumption, FS_Subset, FS_CardinalityType
  <2> QED BY <1>1, <2>1, <2>2, SMT DEF CheckCommittee
<1>4. 0 \in CommitteeIds /\ \A i \in CommitteeIds : i \in Nat /\ (i <= 0 <=> i = 0)
  BY Numbers, SMT DEF CommitteeIds
<1>5. committee_id \in [Chains -> CommitteeIds]
  BY <1>2, <1>4
<1>6. committees \in [Chains -> [CommitteeIds -> SUBSET Guardians]]
  BY <1>1, <1>3
<1>7. signature_thresholds \in [Chains -> [CommitteeIds -> Nat]]
  BY <1>1, <1>3, SMT
<1>8. CommitteeInv
  <2> SUFFICES ASSUME NEW c \in Chains, NEW i \in CommitteeIds
               PROVE  IF i <= committee_id[c]
                      THEN /\ Cardinality(committees[c][i] \cap Faulty) < signature_thresholds[c][i]
                           /\ signature_thresholds[c][i] <= Cardinality(committees[c][i])
                      ELSE committees[c][i] = {}
    BY DEF CommitteeInv
  <2>1. committee_id[c] = 0 /\ (i <= 0 <=> i = 0)
    BY <1>2, <1>4
  <2>2. /\ committees[c][i] = IF i = 0 THEN C.members ELSE {}
        /\ signature_thresholds[c][i] = IF i = 0 THEN C.threshold ELSE 0
    BY <1>1
  <2> QED BY <1>3, <2>1, <2>2, Zenon
<1> QED BY <1>5, <1>6, <1>7, <1>8 DEF MembersInv

LEMMA MembersSet ==
    ASSUME MembersInv, NEW c \in Chains, NEW C \in Committees, SetCommittee(c, C)
    PROVE  MembersInv'
<1> DEFINE new == committee_id[c] + 1
<1>1. /\ CheckCommittee(C)
      /\ committee_id[c] < MaxCommitteeId
      /\ committee_id' = [committee_id EXCEPT ![c] = new]
      /\ committees' = [committees EXCEPT ![c][new] = C.members]
      /\ signature_thresholds' = [signature_thresholds EXCEPT ![c][new] = C.threshold]
  BY DEF SetCommittee
<1>2. /\ C.members \subseteq Guardians /\ C.threshold \in Nat
      /\ Cardinality(C.members \cap Faulty) < C.threshold
      /\ Cardinality(C.members) \in Nat /\ C.threshold <= Cardinality(C.members)
  <2>1. C.members \subseteq Guardians /\ C.threshold \in Nat
        /\ Cardinality(C.members \cap Faulty) < C.threshold
    BY L2BridgeAssumption
  <2>2. Cardinality(C.members) \in Nat
    BY <2>1, L2BridgeAssumption, FS_Subset, FS_CardinalityType
  <2> QED BY <1>1, <2>1, <2>2, SMT DEF CheckCommittee
<1>3. /\ committee_id \in [Chains -> CommitteeIds]
      /\ committees \in [Chains -> [CommitteeIds -> SUBSET Guardians]]
      /\ signature_thresholds \in [Chains -> [CommitteeIds -> Nat]]
  BY DEF MembersInv
<1>4. committee_id[c] \in CommitteeIds
  BY <1>3
<1>5. new \in CommitteeIds /\ \A i \in CommitteeIds : i <= new <=> (i <= committee_id[c] \/ i = new)
  BY <1>1, <1>4, Numbers, SMT DEF CommitteeIds
<1> HIDE DEF new
<1>6. /\ committee_id' \in [Chains -> CommitteeIds] /\ committee_id'[c] = new
      /\ \A d \in Chains \ {c} : committee_id'[d] = committee_id[d]
  BY <1>1, <1>3, <1>5
<1>7. /\ committees' \in [Chains -> [CommitteeIds -> SUBSET Guardians]]
      /\ committees'[c][new] = C.members
      /\ \A i \in CommitteeIds \ {new} : committees'[c][i] = committees[c][i]
      /\ \A d \in Chains \ {c} : committees'[d] = committees[d]
  BY <1>1, <1>2, <1>3, <1>5
<1>8. /\ signature_thresholds' \in [Chains -> [CommitteeIds -> Nat]]
      /\ signature_thresholds'[c][new] = C.threshold
      /\ \A i \in CommitteeIds \ {new} : signature_thresholds'[c][i] = signature_thresholds[c][i]
      /\ \A d \in Chains \ {c} : signature_thresholds'[d] = signature_thresholds[d]
  BY <1>1, <1>2, <1>3, <1>5
<1>9. ASSUME NEW d \in Chains, NEW i \in CommitteeIds
      PROVE  IF i <= committee_id'[d]
             THEN /\ Cardinality(committees'[d][i] \cap Faulty) < signature_thresholds'[d][i]
                  /\ signature_thresholds'[d][i] <= Cardinality(committees'[d][i])
             ELSE committees'[d][i] = {}
  <2>0. IF i <= committee_id[d]
        THEN /\ Cardinality(committees[d][i] \cap Faulty) < signature_thresholds[d][i]
             /\ signature_thresholds[d][i] <= Cardinality(committees[d][i])
        ELSE committees[d][i] = {}
    BY DEF MembersInv, CommitteeInv
  <2>1. CASE d # c
    <3>1. /\ committee_id'[d] = committee_id[d] /\ committees'[d] = committees[d]
          /\ signature_thresholds'[d] = signature_thresholds[d]
      BY <2>1, <1>6, <1>7, <1>8
    <3> QED BY <2>0, <3>1, Zenon
  <2>2. CASE d = c /\ i = new
    <3>1. i <= committee_id'[d]
      BY <2>2, <1>5, <1>6
    <3> QED BY <2>2, <3>1, <1>2, <1>7, <1>8
  <2>3. CASE d = c /\ i # new
    <3>1. /\ committees'[d][i] = committees[d][i]
          /\ signature_thresholds'[d][i] = signature_thresholds[d][i]
          /\ i <= committee_id'[d] <=> i <= committee_id[d]
      BY <2>3, <1>5, <1>6, <1>7, <1>8
    <3> QED BY <2>0, <3>1, Zenon
  <2> QED BY <2>1, <2>2, <2>3
<1> QED BY <1>6, <1>7, <1>8, <1>9 DEF MembersInv, CommitteeInv

LEMMA PairsInit == Init => PairsInv
<1> SUFFICES ASSUME Init PROVE PairsInv
  OBVIOUS
<1>1. supported_pairs = [c \in Chains |-> [t \in Tokens[c] |->
                            IF t \in Locals \cup Wrapped \cup {PoolCoin} THEN Partner[t] ELSE Zero]]
  BY DEF Init
<1>2. \A c \in Chains : \A t \in Tokens[c] :
         Partner[t] \in Tokens[Other(c)]
  BY ChainsAre, TokensAre, TokensDiffer, Pairs DEF Other
<1> QED BY <1>1, <1>2 DEF PairsInv

LEMMA PairsSet ==
    ASSUME PairsInv, NEW t \in Tokens.azero \cup Tokens.l2, AddPair(t) \/ RemovePair(t)
    PROVE  PairsInv'
<1>1. PICK c \in Chains :
        /\ t \in Tokens[c]
        /\ \/ supported_pairs' = [supported_pairs EXCEPT ![c][t] = Partner[t]]
           \/ supported_pairs' = [supported_pairs EXCEPT ![c][t] = Zero]
  BY DEF AddPair, RemovePair
<1>2. Partner[t] \in Tokens[Other(c)]
  BY <1>1, ChainsAre, TokensAre, TokensDiffer, Pairs DEF Other
<1>3. PICK p \in {Partner[t], Zero} : supported_pairs' = [supported_pairs EXCEPT ![c][t] = p]
  BY <1>1
<1>4. /\ DOMAIN supported_pairs' = Chains
      /\ supported_pairs'[c] = [supported_pairs[c] EXCEPT ![t] = p]
      /\ \A d \in Chains \ {c} : supported_pairs'[d] = supported_pairs[d]
  BY <1>3 DEF PairsInv
<1>5. /\ supported_pairs'[c] \in [Tokens[c] -> Tokens[Other(c)] \cup {Zero}]
      /\ supported_pairs'[c][t] = p
      /\ \A u \in Tokens[c] \ {t} : supported_pairs'[c][u] = supported_pairs[c][u]
  BY <1>1, <1>2, <1>3, <1>4 DEF PairsInv
<1> QED BY <1>3, <1>4, <1>5 DEF PairsInv

LEMMA SettingsStep ==
    ASSUME SettingsInv, [Next]_vars
    PROVE  SettingsInv'
<1>0. ASSUME Govern PROVE governed' \in Nat
  BY <1>0, SMT DEF SettingsInv, Govern
<1> USE DEF SettingsInv
<1>1. CASE Send
  BY <1>1, SendSettings DEF settings
<1>2. CASE Receive
  BY <1>2, ReceiveKinds, ReceiveSettings DEF settings
<1>3. ASSUME NEW c \in Chains, NEW C \in Committees, SetCommittee(c, C) PROVE SettingsInv'
  BY <1>0, <1>3, GovernSettings DEF SetCommittee
<1>4. ASSUME NEW t \in Tokens.azero \cup Tokens.l2, AddPair(t) \/ RemovePair(t) PROVE SettingsInv'
  BY <1>0, <1>4, GovernSettings DEF AddPair, RemovePair, l2
<1>5. ASSUME NEW c \in Chains, NEW fee \in FlatFees, SetFlatFee(c, fee) PROVE SettingsInv'
  BY <1>0, <1>5, GovernSettings DEF SetFlatFee
<1>6. CASE SetWazero(WrappedAzero)
  BY <1>0, <1>6, GovernSettings DEF SetWazero
<1>7. ASSUME NEW t \in BAzeros, SetBridgedAzeroAddress(t) PROVE SettingsInv'
  BY <1>0, <1>7, GovernSettings DEF SetBridgedAzeroAddress
<1>8. ASSUME NEW t \in Tokens.l2, NEW isLocal \in BOOLEAN, SetLocalToken(t, isLocal) PROVE SettingsInv'
  <2>1. t \in Tokens.l2
    BY TokensAre
  <2>2. isLocalToken' \subseteq isLocalToken \cup {t}
    BY <1>8 DEF SetLocalToken
  <2> QED BY <1>0, <1>8, <2>1, <2>2, GovernSettings DEF SetLocalToken
<1>9. ASSUME NEW c, NEW amount, RecoverCoin(c, amount) \/ RecoverPsp22(c, amount) PROVE SettingsInv'
  BY <1>0, <1>9, GovernSettings DEF RecoverCoin, RecoverPsp22
<1>10. ASSUME NEW c, NEW state, SetHalted(c, state) PROVE SettingsInv'
  BY <1>10, GovernSettings DEF settings
<1>11. CASE UNCHANGED vars
  BY <1>11 DEF vars, azero, l2
<1> QED BY <1>1, <1>2, <1>3, <1>4, <1>5, <1>6, <1>7, <1>8, <1>9, <1>10, <1>11, Steps

LEMMA ConfStep ==
    ASSUME ConfInv, [Next]_vars
    PROVE  ConfInv'
<1>1. MembersInv'
  <2>1. ASSUME UNCHANGED members PROVE MembersInv'
    BY <2>1 DEF ConfInv, MembersInv, CommitteeInv, members
  <2>2. ASSUME NEW c \in Chains, NEW C \in Committees, SetCommittee(c, C) PROVE MembersInv'
    BY <2>2, MembersSet DEF ConfInv
  <2>3. UNCHANGED vars => UNCHANGED members
    BY DEF vars
  <2> QED BY <2>1, <2>2, <2>3, Steps, SendSettings, ReceiveKinds, ReceiveSettings, GovernSettings
<1>2. PairsInv'
  <2>1. ASSUME UNCHANGED supported_pairs PROVE PairsInv'
    BY <2>1 DEF ConfInv, PairsInv
  <2>2. ASSUME NEW t \in Tokens.azero \cup Tokens.l2, AddPair(t) \/ RemovePair(t) PROVE PairsInv'
    BY <2>2, PairsSet DEF ConfInv
  <2>3. UNCHANGED vars => UNCHANGED supported_pairs
    BY DEF vars
  <2> QED BY <2>1, <2>2, <2>3, Steps, SendSettings, ReceiveKinds, ReceiveSettings, GovernSettings
<1> QED BY <1>1, <1>2, SettingsStep DEF ConfInv

\* What governance sets keeps to the assumptions: enough honest members in each committee,
\* and pairs of a token and its partner (set_committee, add_pair, set_wazero).
THEOREM ConfInvariant == Spec => []ConfInv
<1>1. Init => ConfInv
  <2>1. Init => SettingsInv
    <3>1. DEFAULT_FLAT_FEE \in FlatFees
      BY L2BridgeAssumption
    <3> QED BY <3>1, TokensDiffer DEF Init, SettingsInv
  <2> QED BY <2>1, MembersInit, PairsInit DEF ConfInv
<1> QED BY <1>1, ConfStep, PTL DEF Spec

-----------------------------------------------------------------------------
(* The steps that move money, with the settings filled in *)

Frame == [token : Tokens.l2 \cup {Zero}, amount : Nat, surplus : BOOLEAN]

MoneyInv ==
    /\ coin \in [Chains -> Nat]
    /\ locked \in [Tokens.azero -> Nat]
    /\ users \in [Tokens.azero -> Nat]
    /\ supply \in [Tokens.l2 -> Nat]
    /\ pool \in [native : Nat, bAzero : Nat] /\ pool.bAzero <= supply[PoolCoin]
    /\ frames \in Seq(Frame)
    /\ refused \in Nat
    /\ recovered \in [Tokens.azero \cup Chains -> Nat]

Locks(t, token, amount) ==
    /\ \/ t \in Tokens.azero /\ token = Partner[t]
       \/ t = WrappedAzero /\ token = Zero
    /\ Emit("azero", token, amount)
    /\ locked' = [locked EXCEPT ![t] = @ + amount]
    /\ users' \in [Tokens.azero -> Nat]
    /\ UNCHANGED <<members, voting, coin, supply, pool, frames, refused, recovered>>

\* What a call has paid in that is not for a token.
PaidIn(frame) == IF frame.token = Zero THEN frame.amount ELSE 0

Begins(frame) ==
    /\ coin' = [coin EXCEPT !["l2"] = @ + PaidIn(frame)]
    /\ frames' = Append(frames, frame)
    /\ UNCHANGED <<members, voting, log, locked, users, supply, pool, refused, recovered>>

Swaps(out) ==
    /\ frames # <<>> /\ Top.token = Zero
    /\ out <= pool.bAzero
    /\ pool' = [native |-> pool.native + Top.amount, bAzero |-> pool.bAzero - out]
    /\ supply' = [supply EXCEPT ![PoolCoin] = @ - out]
    /\ Emit("l2", Zero, out)
    /\ coin' = [coin EXCEPT !["l2"] = @ - Top.amount]
    /\ Pop
    /\ UNCHANGED <<members, voting, locked, users, refused, recovered>>

Burns(t, amount) ==
    /\ frames # <<>> /\ Top.token = t /\ Top.amount = amount
    /\ Circulating(t) >= amount
    /\ supply' = [supply EXCEPT ![t] = @ - amount]
    /\ Emit("l2", Partner[t], amount)
    /\ Pop
    /\ UNCHANGED <<members, voting, coin, locked, users, pool, refused, recovered>>

LEMMA TopType ==
    ASSUME frames \in Seq(Frame), frames # <<>>
    PROVE  /\ Top \in Frame /\ Top.amount \in Nat /\ Top.token \in Tokens.l2 \cup {Zero}
           /\ Len(frames) \in Nat \ {0}
<1>1. Len(frames) \in Nat \ {0}
  BY EmptySeq
<1>2. Top \in Frame
  BY <1>1, SMT DEF Top
<1> QED BY <1>1, <1>2 DEF Frame

LEMMA SendRequestLocks ==
    ASSUME ConfInv, MoneyInv, NEW t \in Tokens.azero, NEW amount \in Amounts,
           NEW value \in Values("azero", 0), SendRequest(t, amount, value)
    PROVE  Locks(t, Partner[t], amount)
<1>1. flat_fee["azero"] \in Nat /\ amount \in Nat /\ t \in Tokens["azero"] /\ t \in Tokens.azero
  BY Numbers, TokensAre DEF ConfInv, SettingsInv, Chains
<1>2. HandleFlatFee("azero", 0, value) = {0}
  BY <1>1, FlatFee, SMT
<1>3. coin' = coin
  <2>1. coin' = [coin EXCEPT !["azero"] = coin["azero"] + 0]
    BY <1>2 DEF SendRequest
  <2>2. coin \in [Chains -> Nat] /\ "azero" \in Chains
    BY DEF MoneyInv, Chains
  <2>3. coin["azero"] + 0 = coin["azero"]
    BY <2>2, SMT
  <2>4. coin' = [coin EXCEPT !["azero"] = coin["azero"]]
    BY <2>1, <2>3
  <2> HIDE DEF Chains
  <2> QED BY <2>2, <2>4
<1>4. supported_pairs["azero"][t] = Partner[t]
  <2>1. supported_pairs["azero"][t] # Zero
    BY DEF SendRequest
  <2> QED BY <1>1, <2>1 DEF ConfInv, PairsInv, Chains
<1>5. users' \in [Tokens.azero -> Nat]
  BY <1>1, SMT DEF SendRequest, MoneyInv
<1>6. Emit("azero", Partner[t], amount) /\ locked' = [locked EXCEPT ![t] = @ + amount]
  BY <1>4 DEF SendRequest
<1>7. UNCHANGED <<members, voting, supply, pool, frames, refused, recovered>>
  BY DEF SendRequest, l2
<1> QED BY <1>3, <1>5, <1>6, <1>7 DEF Locks

LEMMA SendNativeLocks ==
    ASSUME ConfInv, MoneyInv, NEW amount \in Amounts, NEW value \in Values("azero", amount),
           SendRequestNativeAzero(amount, value)
    PROVE  Locks(WrappedAzero, Zero, amount)
<1>1. flat_fee["azero"] \in Nat /\ amount \in Nat /\ wazero = WrappedAzero
  BY Numbers DEF ConfInv, SettingsInv, Chains
<1>2. HandleFlatFee("azero", amount, value) = {amount}
  BY <1>1, FlatFee
<1>3. coin' = coin
  <2>1. coin' = [coin EXCEPT !["azero"] = coin["azero"] + amount - amount]
    BY <1>2 DEF SendRequestNativeAzero
  <2>2. coin \in [Chains -> Nat] /\ "azero" \in Chains
    BY DEF MoneyInv, Chains
  <2>3. coin["azero"] + amount - amount = coin["azero"]
    BY <1>1, <2>2, SMT
  <2>4. coin' = [coin EXCEPT !["azero"] = coin["azero"]]
    BY <2>1, <2>3
  <2> QED BY <2>2, <2>4
<1>6. Emit("azero", Zero, amount) /\ locked' = [locked EXCEPT ![WrappedAzero] = @ + amount]
  BY <1>1 DEF SendRequestNativeAzero
<1>7. UNCHANGED <<members, voting, users, supply, pool, frames, refused, recovered>>
  BY DEF SendRequestNativeAzero, l2
<1> QED BY <1>6, <1>7, <1>3 DEF Locks, MoneyInv

LEMMA BeginNativeBegins ==
    ASSUME ConfInv, MoneyInv, NEW amount \in Amounts, NEW value \in Values("l2", amount),
           BeginNative(amount, value)
    PROVE  \E frame \in Frame : Begins(frame)
<1> DEFINE surplus == value > amount + flat_fee.l2
           frame == [token |-> Zero, amount |-> amount, surplus |-> surplus]
<1>1. flat_fee["l2"] \in Nat /\ amount \in Nat
  BY Numbers DEF ConfInv, SettingsInv, Chains
<1>2. HandleFlatFee("l2", amount, value) = {amount}
  BY <1>1, FlatFee
<1>3. surplus \in BOOLEAN
  OBVIOUS
<1>4. frames' = Append(frames, frame)
  BY DEF BeginNative
<1>5. coin' = [coin EXCEPT !["l2"] = @ + amount]
  BY <1>2 DEF BeginNative
<1>6. UNCHANGED <<members, voting, log, locked, users, supply, pool, refused, recovered>>
  BY DEF BeginNative, azero
<1> HIDE DEF surplus
<1>7. frame \in Frame /\ PaidIn(frame) = amount
  BY <1>1, <1>3, Zenon DEF Frame, PaidIn
<1>8. coin' = [coin EXCEPT !["l2"] = @ + PaidIn(frame)]
  BY <1>5, <1>7
<1> HIDE DEF frame
<1> QED BY <1>4, <1>6, <1>7, <1>8 DEF Begins

LEMMA BeginTokenBegins ==
    ASSUME ConfInv, MoneyInv, NEW t \in Tokens.l2, NEW amount \in Amounts,
           NEW value \in Values("l2", 0), BeginToken(t, amount, value)
    PROVE  \E frame \in Frame : Begins(frame)
<1> DEFINE surplus == value > flat_fee.l2
           frame == [token |-> t, amount |-> amount, surplus |-> surplus]
<1>1. flat_fee["l2"] \in Nat /\ amount \in Nat /\ t # Zero
  BY Numbers, TokensAre, TokensDiffer DEF ConfInv, SettingsInv, Chains
<1>2. HandleFlatFee("l2", 0, value) = {0}
  BY <1>1, FlatFee, SMT
<1>3. surplus \in BOOLEAN
  OBVIOUS
<1>4. frames' = Append(frames, frame)
  BY DEF BeginToken
<1>5. coin' = [coin EXCEPT !["l2"] = @ + 0]
  BY <1>2 DEF BeginToken
<1>6. UNCHANGED <<members, voting, log, locked, users, supply, pool, refused, recovered>>
  BY DEF BeginToken, azero
<1> HIDE DEF surplus
<1>7. frame \in Frame /\ PaidIn(frame) = 0
  BY <1>1, <1>3, Zenon DEF Frame, PaidIn
<1>8. coin' = [coin EXCEPT !["l2"] = @ + PaidIn(frame)]
  BY <1>5, <1>7
<1> HIDE DEF frame
<1> QED BY <1>4, <1>6, <1>7, <1>8 DEF Begins

LEMMA EndNativeSwaps ==
    ASSUME MoneyInv, EndNative
    PROVE  \E out \in Nat : Swaps(out)
<1>1. frames # <<>> /\ Top.token = Zero
  BY DEF EndNative
<1>2. CalcMinAmountOutSwap(Top.amount, TRUE) \in Nat
  BY <1>1, TopType, SwapType DEF MoneyInv
<1>3. PICK out \in CalcMinAmountOutSwap(Top.amount, TRUE) .. pool.bAzero :
        /\ pool' = [native |-> pool.native + Top.amount, bAzero |-> pool.bAzero - out]
        /\ supply' = [supply EXCEPT ![PoolCoin] = @ - out]
        /\ Emit("l2", Zero, out)
  BY DEF EndNative
<1>4. pool.bAzero \in Nat
  BY DEF MoneyInv
<1>5. out \in Nat /\ out <= pool.bAzero
  <2> DEFINE low == CalcMinAmountOutSwap(Top.amount, TRUE)
             high == pool.bAzero
  <2>1. low \in Nat /\ high \in Nat /\ out \in low .. high
    BY <1>2, <1>3, <1>4
  <2> HIDE DEF low, high
  <2>2. out \in Nat /\ out <= high
    BY <2>1, SMT
  <2> QED BY <2>2 DEF high
<1>6. coin' = [coin EXCEPT !["l2"] = @ - Top.amount] /\ Pop
  BY DEF EndNative
<1>7. UNCHANGED <<members, voting, locked, users, refused, recovered>>
  BY DEF EndNative, azero
<1> QED BY <1>1, <1>3, <1>5, <1>6, <1>7 DEF Swaps

LEMMA EndTokenBurns ==
    ASSUME ConfInv, MoneyInv, EndToken
    PROVE  \E t \in Tokens.l2, amount \in Nat : Burns(t, amount)
<1>1. frames # <<>> /\ Top.token # Zero
  BY DEF EndToken
<1>2. Top.token \in Tokens.l2 /\ Top.amount \in Nat /\ Top.token \in Tokens["l2"]
  BY <1>1, TopType, TokensAre DEF MoneyInv
<1>3. supported_pairs["l2"][Top.token] = Partner[Top.token]
  <2>1. supported_pairs["l2"][Top.token] # Zero
    BY DEF EndToken
  <2> QED BY <1>2, <2>1 DEF ConfInv, PairsInv, Chains
<1>4. /\ Circulating(Top.token) >= Top.amount
      /\ supply' = [supply EXCEPT ![Top.token] = @ - Top.amount]
      /\ Emit("l2", Partner[Top.token], Top.amount)
      /\ Pop
  BY <1>3 DEF EndToken
<1>5. UNCHANGED <<members, voting, coin, locked, users, pool, refused, recovered>>
  BY DEF EndToken, azero
<1>6. Burns(Top.token, Top.amount)
  BY <1>1, <1>4, <1>5 DEF Burns
<1> QED BY <1>2, <1>6

LEMMA SendKinds ==
    ASSUME ConfInv, MoneyInv, Send
    PROVE  \/ \E t \in Tokens.azero, amount \in Nat : Locks(t, Partner[t], amount)
           \/ \E amount \in Nat : Locks(WrappedAzero, Zero, amount)
           \/ \E frame \in Frame : Begins(frame)
           \/ \E out \in Nat : Swaps(out)
           \/ \E t \in Tokens.l2, amount \in Nat : Burns(t, amount)
<1>1. Amounts \subseteq Nat
  BY Numbers
<1> QED BY <1>1, SendRequestLocks, SendNativeLocks, BeginNativeBegins, BeginTokenBegins,
     EndNativeSwaps, EndTokenBurns DEF Send

-----------------------------------------------------------------------------
(* Logs *)

Elements(s) == {s[i] : i \in 1 .. Len(s)}

LEMMA ElementsAppend ==
    ASSUME NEW S, NEW s \in Seq(S), NEW e
    PROVE  Elements(Append(s, e)) = Elements(s) \cup {e}
<1>1. Len(s) \in Nat /\ Len(Append(s, e)) = Len(s) + 1
  BY SMT
<1>2. \A i \in 1 .. Len(s) : Append(s, e)[i] = s[i]
  BY SMT
<1>3. Append(s, e)[Len(s) + 1] = e
  BY SMT
<1>4. 1 .. Len(s) + 1 = (1 .. Len(s)) \cup {Len(s) + 1}
  BY <1>1, SMT
<1> QED BY <1>1, <1>2, <1>3, <1>4, Zenon DEF Elements

\* The requests a chain may log.
From(c) == {r \in Requests : /\ r.to = Other(c)
                             /\ r.token \in (IF c = "azero" THEN Tokens.l2 ELSE Tokens.azero) \cup {Zero}}

\* A log numbers its requests.
Numbered(s, nonce) ==
    /\ nonce = Len(s)
    /\ \A i \in 1 .. Len(s) : s[i].nonce < i

LEMMA NumberedAppend ==
    ASSUME NEW S, NEW s \in Seq(S), NEW nonce, Numbered(s, nonce), NEW r, r.nonce = nonce
    PROVE  r \notin Elements(s) /\ Numbered(Append(s, r), nonce + 1)
<1>1. nonce = Len(s) /\ Len(s) \in Nat /\ \A i \in 1 .. Len(s) : s[i].nonce < i
  BY SMT DEF Numbered
<1>2. r \notin Elements(s)
  BY <1>1, SMT DEF Elements
<1>3. /\ Len(Append(s, r)) = Len(s) + 1
      /\ \A i \in 1 .. Len(s) : Append(s, r)[i] = s[i]
      /\ Append(s, r)[Len(s) + 1] = r
  BY SMT
<1>4. \A i \in 1 .. Len(s) + 1 : i \in 1 .. Len(s) \/ i = Len(s) + 1
  BY <1>1, SMT
<1>5. r.nonce < Len(s) + 1
  BY <1>1, SMT
<1>6. \A i \in 1 .. Len(s) + 1 : Append(s, r)[i].nonce < i
  BY <1>1, <1>3, <1>4, <1>5
<1> QED BY <1>1, <1>2, <1>3, <1>6 DEF Numbered

LogInv ==
    /\ request_nonce \in [Chains -> Nat]
    /\ DOMAIN sent = Chains /\ sent = [c \in Chains |-> sent[c]]
    /\ \A c \in Chains : sent[c] \in Seq(From(c)) /\ Numbered(sent[c], request_nonce[c])

AllLogged == Logged("azero") \cup Logged("l2")

LEMMA LoggedType ==
    ASSUME LogInv
    PROVE  /\ \A c \in Chains : Logged(c) \subseteq From(c) /\ Logged(c) \subseteq AllLogged
           /\ AllLogged \subseteq Requests
           /\ \A r \in AllLogged : r \in Logged(Other(r.to)) /\ r.to \in Chains
<1>1. \A c \in Chains : Logged(c) \subseteq From(c)
  BY SMT DEF LogInv, Logged
<1>2. \A c \in Chains : Logged(c) \subseteq AllLogged
  BY ChainsAre DEF AllLogged
<1>3. "azero" \in Chains /\ "l2" \in Chains
  BY DEF Chains
<1>4. AllLogged \subseteq Requests
  BY <1>1, <1>3 DEF AllLogged, From
<1>5. ASSUME NEW r \in AllLogged PROVE r \in Logged(Other(r.to)) /\ r.to \in Chains
  <2>1. PICK c \in Chains : r \in Logged(c)
    BY <1>3 DEF AllLogged
  <2>2. r.to = Other(c) /\ r.to \in Chains /\ Other(Other(c)) = c
    BY <1>1, <2>1, ChainsAre DEF From, Other
  <2> QED BY <2>1, <2>2
<1> QED BY <1>1, <1>2, <1>4, <1>5

LEMMA EmitLogs ==
    ASSUME MembersInv, LogInv, NEW c \in Chains,
           NEW token \in (IF c = "azero" THEN Tokens.l2 ELSE Tokens.azero) \cup {Zero}, NEW amount \in Nat,
           Emit(c, token, amount)
    PROVE  /\ LogInv'
           /\ \E r \in Requests : /\ r.token = token /\ r.amount = amount
                                  /\ r \notin AllLogged
                                  /\ AllLogged' = AllLogged \cup {r}
<1> DEFINE r == [to |-> Other(c), committeeId |-> committee_id[c], token |-> token,
                 amount |-> amount, nonce |-> request_nonce[c]]
<1>1. r \in From(c) /\ r \in Requests
  <2>1. committee_id[c] \in CommitteeIds /\ request_nonce[c] \in Nat /\ Other(c) \in Chains
    BY ChainsAre DEF MembersInv, LogInv
  <2>2. token \in Tokens.azero \cup Tokens.l2 \cup {Zero}
    BY TokensAre
  <2>3. r \in Requests
    BY <2>1, <2>2 DEF Requests
  <2> QED BY <2>3 DEF From
<1>2. r.token = token /\ r.amount = amount /\ r.nonce = request_nonce[c] /\ r.to = Other(c)
  OBVIOUS
<1>3. /\ sent' = [sent EXCEPT ![c] = Append(@, r)]
      /\ request_nonce' = [request_nonce EXCEPT ![c] = @ + 1]
  BY DEF Emit
<1> HIDE DEF r
<1>4. /\ DOMAIN sent' = Chains /\ sent' = [d \in Chains |-> sent'[d]]
      /\ sent'[c] = Append(sent[c], r)
      /\ \A d \in Chains \ {c} : sent'[d] = sent[d]
  BY <1>3 DEF LogInv
<1>5. /\ request_nonce' \in [Chains -> Nat] /\ request_nonce'[c] = request_nonce[c] + 1
      /\ \A d \in Chains \ {c} : request_nonce'[d] = request_nonce[d]
  BY <1>3, SMT DEF LogInv
<1>6. sent[c] \in Seq(From(c)) /\ Numbered(sent[c], request_nonce[c])
  BY DEF LogInv
<1>7. Append(sent[c], r) \in Seq(From(c))
  BY <1>1, <1>6, SMT
<1>8. r \notin Elements(sent[c]) /\ Numbered(Append(sent[c], r), request_nonce[c] + 1)
  BY <1>2, <1>6, NumberedAppend
<1>9. LogInv'
  BY <1>4, <1>5, <1>7, <1>8 DEF LogInv
<1>10. Logged(c)' = Logged(c) \cup {r} /\ r \notin Logged(c)
  BY <1>4, <1>6, <1>8, ElementsAppend DEF Logged, Elements
<1>11. Logged(Other(c))' = Logged(Other(c))
  BY <1>4, ChainsAre DEF Logged
<1>12. r \notin Logged(Other(c))
  BY <1>2, ChainsAre, LoggedType DEF From
<1>13. AllLogged = Logged(c) \cup Logged(Other(c))
  BY ChainsAre DEF AllLogged, Other
<1>14. AllLogged' = Logged(c)' \cup Logged(Other(c))'
  BY ChainsAre DEF AllLogged, Other
<1>15. r \notin AllLogged /\ AllLogged' = AllLogged \cup {r}
  BY <1>10, <1>11, <1>12, <1>13, <1>14
<1> QED BY <1>1, <1>2, <1>9, <1>15

-----------------------------------------------------------------------------
(* Coins *)

\* The native coins the calls under way have paid in.
NativeOf(s) == {i \in 1 .. Len(s) : s[i].token = Zero}
UnderWay(s) == SumFunctionOnSet([i \in 1 .. Len(s) |-> s[i].amount], NativeOf(s))

LEMMA UnderWayType ==
    ASSUME NEW s \in Seq(Frame)
    PROVE  IsFiniteSet(NativeOf(s)) /\ UnderWay(s) \in Nat
<1>1. Len(s) \in Nat /\ NativeOf(s) \subseteq 1 .. Len(s)
  BY SMT DEF NativeOf
<1>2. IsFiniteSet(NativeOf(s))
  <2>1. IsFiniteSet(1 .. Len(s))
    BY <1>1, FS_Interval, SMT
  <2> QED BY <1>1, <2>1, FS_Subset
<1> DEFINE f == [i \in 1 .. Len(s) |-> s[i].amount]
<1>3. \A i \in 1 .. Len(s) : f[i] \in Nat
  <2>1. \A i \in 1 .. Len(s) : s[i] \in Frame
    BY SMT
  <2> QED BY <2>1 DEF Frame
<1> HIDE DEF f
<1>4. SumFunctionOnSet(f, NativeOf(s)) \in Nat
  BY <1>1, <1>2, <1>3, SumType
<1> QED BY <1>2, <1>4 DEF f, UnderWay

LEMMA UnderWayGrows ==
    ASSUME NEW s \in Seq(Frame), NEW t \in Seq(Frame), Len(t) = Len(s) + 1,
           \A i \in 1 .. Len(s) : t[i] = s[i]
    PROVE  UnderWay(t) = UnderWay(s) + PaidIn(t[Len(t)])
<1> DEFINE f == [i \in 1 .. Len(s) |-> s[i].amount]
           g == [i \in 1 .. Len(t) |-> t[i].amount]
           n == Len(t)
           last == t[n]
<1>1. Len(s) \in Nat /\ n \in Nat /\ n = Len(s) + 1 /\ n \notin 1 .. Len(s)
  BY SMT
<1>2. \A i : i \in 1 .. n <=> i \in 1 .. Len(s) \/ i = n
  BY <1>1, SMT
<1>3. /\ \A i \in 1 .. Len(s) : f[i] = s[i].amount
      /\ \A i \in 1 .. n : g[i] = t[i].amount /\ t[i] \in Frame
  BY SMT
<1>4. /\ \A i \in 1 .. Len(s) : f[i] = g[i]
      /\ \A i \in 1 .. n : g[i] \in Nat
      /\ g[n] = last.amount
  BY <1>2, <1>3 DEF Frame
<1>5. UnderWay(s) = SumFunctionOnSet(f, NativeOf(s)) /\ UnderWay(t) = SumFunctionOnSet(g, NativeOf(t))
  BY DEF UnderWay
<1>6. IsFiniteSet(NativeOf(s)) /\ UnderWay(s) \in Nat /\ NativeOf(s) \subseteq 1 .. Len(s)
  BY UnderWayType DEF NativeOf
<1> HIDE DEF f, g, n
<1>7. NativeOf(t) = IF last.token = Zero THEN NativeOf(s) \cup {n} ELSE NativeOf(s)
  <2>1. NativeOf(t) = {i \in 1 .. n : t[i].token = Zero}
    BY DEF NativeOf, n
  <2>2. \A i \in 1 .. Len(s) : i \in NativeOf(s) <=> t[i].token = Zero
    BY DEF NativeOf
  <2> QED BY <1>2, <1>6, <2>1, <2>2
<1>8. SumFunctionOnSet(g, NativeOf(s)) = UnderWay(s)
  BY <1>4, <1>5, <1>6, SumSame
<1>9. CASE last.token = Zero
  <2>1. SumFunctionOnSet(g, NativeOf(s) \cup {n}) = SumFunctionOnSet(g, NativeOf(s)) + g[n]
    <3>1. n \in 1 .. n /\ n \notin NativeOf(s)
      BY <1>1, <1>2, <1>6
    <3>2. \A i \in NativeOf(s) : g[i] \in Nat
      BY <1>2, <1>4, <1>6
    <3>3. g[n] \in Nat
      BY <1>4, <3>1
    <3> QED BY <1>6, <3>1, <3>2, <3>3, SumAdd
  <2> QED BY <1>4, <1>5, <1>7, <1>8, <1>9, <2>1 DEF PaidIn, n
<1>10. CASE last.token # Zero
  <2>1. PaidIn(last) = 0 /\ UnderWay(t) = UnderWay(s)
    BY <1>5, <1>7, <1>8, <1>10 DEF PaidIn
  <2> QED BY <1>6, <2>1, SMT DEF n
<1> QED BY <1>9, <1>10

LEMMA UnderWayPush ==
    ASSUME frames \in Seq(Frame), NEW frame \in Frame, frames' = Append(frames, frame)
    PROVE  /\ frames' \in Seq(Frame)
           /\ UnderWay(frames') = UnderWay(frames) + PaidIn(frame)
<1>1. /\ frames' \in Seq(Frame) /\ Len(frames') = Len(frames) + 1
      /\ \A i \in 1 .. Len(frames) : frames'[i] = frames[i]
      /\ frames'[Len(frames')] = frame
  BY SMT
<1> QED BY <1>1, UnderWayGrows

LEMMA UnderWayPop ==
    ASSUME frames \in Seq(Frame), frames # <<>>, Pop
    PROVE  /\ frames' \in Seq(Frame)
           /\ UnderWay(frames) = UnderWay(frames') + PaidIn(Top)
<1>1. Len(frames) \in Nat \ {0}
  BY TopType
<1>2. /\ frames' \in Seq(Frame) /\ Len(frames) = Len(frames') + 1
      /\ \A i \in 1 .. Len(frames') : frames[i] = frames'[i]
  <2> DEFINE n == Len(frames) - 1
  <2>1. n \in Nat /\ Len(frames) = n + 1
    BY <1>1, SMT
  <2>2. frames' = SubSeq(frames, 1, n)
    BY DEF Pop
  <2> HIDE DEF n
  <2>3. \A i \in 1 .. n : i \in 1 .. Len(frames)
    BY <2>1, SMT
  <2>4. frames' \in Seq(Frame) /\ Len(frames') = n /\ \A i \in 1 .. n : frames'[i] = frames[i]
    BY <2>1, <2>2, <2>3, SubSeqProperties, SMT
  <2> QED BY <2>1, <2>4
<1> QED BY <1>2, UnderWayGrows DEF Top

CoinInv ==
    /\ coin["azero"] + recovered["azero"] = Endowment
    /\ coin["l2"] + recovered["l2"] = refused + UnderWay(frames)
    /\ recovered["l2"] <= refused

LEMMA CoinsAre == CoinInv => CoinsAreAccounted
  BY DEF CoinInv, CoinsAreAccounted, UnderWay, NativeOf

LEMMA UnderWayNone == UnderWay(<<>>) = 0
<1>1. NativeOf(<<>>) = {}
  BY SMT DEF NativeOf
<1> QED BY <1>1, SumEmpty DEF UnderWay

\* The numbers the invariants are about, without the functions around them.
LEMMA MoneyTypes ==
    ASSUME MoneyInv
    PROVE  /\ coin["azero"] \in Nat /\ coin["l2"] \in Nat
           /\ recovered["azero"] \in Nat /\ recovered["l2"] \in Nat
           /\ refused \in Nat /\ UnderWay(frames) \in Nat
           /\ pool.native \in Nat /\ pool.bAzero \in Nat /\ supply[PoolCoin] \in Nat
           /\ pool.bAzero <= supply[PoolCoin]
           /\ PoolCoin \in Tokens.l2
<1>1. "azero" \in Chains /\ "l2" \in Chains /\ PoolCoin \in Tokens.l2
  BY TokensAre, TokensDiffer DEF Chains
<1>2. UnderWay(frames) \in Nat
  BY UnderWayType DEF MoneyInv
<1> QED BY <1>1, <1>2 DEF MoneyInv

LEMMA LocksMoney ==
    ASSUME ConfInv, LogInv, MoneyInv, CoinInv,
           NEW t \in Tokens.azero, NEW token, NEW amount \in Nat, Locks(t, token, amount)
    PROVE  LogInv' /\ MoneyInv' /\ CoinInv'
<1>1. token \in Tokens.l2 \cup {Zero} /\ "azero" \in Chains
  BY Pairs DEF Locks, Chains
<1>2. LogInv'
  BY <1>1, EmitLogs DEF Locks, ConfInv
<1>3. locked' \in [Tokens.azero -> Nat]
  BY SMT DEF Locks, MoneyInv
<1>4. MoneyInv'
  BY <1>3 DEF Locks, MoneyInv
<1>5. CoinInv'
  BY DEF Locks, CoinInv
<1> QED BY <1>2, <1>4, <1>5

LEMMA BeginsMoney ==
    ASSUME LogInv, MoneyInv, CoinInv, NEW frame \in Frame, Begins(frame)
    PROVE  LogInv' /\ MoneyInv' /\ CoinInv'
<1>1. frames' \in Seq(Frame) /\ UnderWay(frames') = UnderWay(frames) + PaidIn(frame)
  BY UnderWayPush DEF Begins, MoneyInv
<1>2. PaidIn(frame) \in Nat
  BY DEF Frame, PaidIn
<1>3. coin' \in [Chains -> Nat] /\ coin'["azero"] = coin["azero"] /\ coin'["l2"] = coin["l2"] + PaidIn(frame)
  <2>1. coin \in [Chains -> Nat] /\ coin' = [coin EXCEPT !["l2"] = @ + PaidIn(frame)]
    BY DEF Begins, MoneyInv
  <2> QED BY <1>2, <2>1, SMT DEF Chains
<1>4. LogInv'
  BY DEF Begins, LogInv, log
<1>5. MoneyInv'
  BY <1>1, <1>3 DEF Begins, MoneyInv
<1>6. CoinInv'
  <2>1. UNCHANGED <<recovered, refused>>
    BY DEF Begins
  <2>2. coin["l2"] + PaidIn(frame) + recovered["l2"] = refused + (UnderWay(frames) + PaidIn(frame))
    <3>1. coin["l2"] + recovered["l2"] = refused + UnderWay(frames)
      BY DEF CoinInv
    <3> QED BY <1>2, <3>1, MoneyTypes, SMT
  <2> QED BY <1>1, <1>3, <2>1, <2>2 DEF CoinInv
<1> QED BY <1>4, <1>5, <1>6

LEMMA SwapsMoney ==
    ASSUME ConfInv, LogInv, MoneyInv, CoinInv, NEW out \in Nat, Swaps(out)
    PROVE  LogInv' /\ MoneyInv' /\ CoinInv'
<1>1. /\ frames' \in Seq(Frame) /\ UnderWay(frames) = UnderWay(frames') + PaidIn(Top)
      /\ PaidIn(Top) = Top.amount /\ Top.amount \in Nat
  BY UnderWayPop, TopType DEF Swaps, MoneyInv, PaidIn
<1>2. UnderWay(frames') \in Nat
  BY <1>1, UnderWayType
<1>3. coin["l2"] >= Top.amount
  BY <1>1, <1>2, MoneyTypes, SMT DEF CoinInv
<1>4. coin' \in [Chains -> Nat] /\ coin'["azero"] = coin["azero"] /\ coin'["l2"] = coin["l2"] - Top.amount
  <2>1. coin \in [Chains -> Nat] /\ coin' = [coin EXCEPT !["l2"] = @ - Top.amount]
    BY DEF Swaps, MoneyInv
  <2> QED BY <1>1, <1>3, <2>1, SMT DEF Chains
<1>5. supply' \in [Tokens.l2 -> Nat] /\ supply'[PoolCoin] = supply[PoolCoin] - out
  <2>1. supply \in [Tokens.l2 -> Nat] /\ supply' = [supply EXCEPT ![PoolCoin] = @ - out] /\ out <= pool.bAzero
    BY DEF Swaps, MoneyInv
  <2>2. supply[PoolCoin] - out \in Nat
    BY <2>1, MoneyTypes, SMT
  <2> QED BY <2>1, <2>2, MoneyTypes
<1>6. pool' \in [native : Nat, bAzero : Nat] /\ pool'.bAzero <= supply'[PoolCoin]
  <2>1. pool' = [native |-> pool.native + Top.amount, bAzero |-> pool.bAzero - out] /\ out <= pool.bAzero
    BY DEF Swaps
  <2>2. pool.native + Top.amount \in Nat /\ pool.bAzero - out \in Nat
        /\ pool.bAzero - out <= supply[PoolCoin] - out
    <3>1. out <= pool.bAzero
      BY <2>1
    <3> DEFINE native == pool.native
               bAzero == pool.bAzero
               total == supply[PoolCoin]
               amount == Top.amount
    <3>2. native \in Nat /\ bAzero \in Nat /\ total \in Nat /\ bAzero <= total
          /\ amount \in Nat /\ out <= bAzero
      BY <1>1, <3>1, MoneyTypes
    <3> HIDE DEF native, bAzero, total, amount
    <3>3. native + amount \in Nat /\ bAzero - out \in Nat /\ bAzero - out <= total - out
      BY <3>2, SMT
    <3> QED BY <3>3 DEF native, bAzero, total, amount
  <2> QED BY <1>5, <2>1, <2>2
<1>7. LogInv'
  <2>1. Emit("l2", Zero, out) /\ "l2" \in Chains
    BY DEF Swaps, Chains
  <2> QED BY <2>1, EmitLogs DEF ConfInv
<1>8. MoneyInv'
  BY <1>1, <1>4, <1>5, <1>6 DEF Swaps, MoneyInv
<1>9. CoinInv'
  <2>1. UNCHANGED <<recovered, refused>>
    BY DEF Swaps
  <2>2. coin["l2"] - Top.amount + recovered["l2"] = refused + UnderWay(frames')
    <3>1. coin["l2"] + recovered["l2"] = refused + (UnderWay(frames') + Top.amount)
      BY <1>1 DEF CoinInv
    <3> DEFINE c == coin["l2"]
               taken == recovered["l2"]
               left == UnderWay(frames')
               amount == Top.amount
    <3>2. c \in Nat /\ taken \in Nat /\ left \in Nat /\ amount \in Nat /\ refused \in Nat
          /\ c + taken = refused + (left + amount)
      BY <1>1, <1>2, <3>1, MoneyTypes
    <3> HIDE DEF c, taken, left, amount
    <3>3. c - amount + taken = refused + left
      BY <3>2, SMT
    <3> QED BY <3>3 DEF c, taken, left, amount
  <2> QED BY <1>4, <2>1, <2>2 DEF CoinInv
<1> QED BY <1>7, <1>8, <1>9

LEMMA BurnsMoney ==
    ASSUME ConfInv, LogInv, MoneyInv, CoinInv, NEW t \in Tokens.l2, NEW amount \in Nat, Burns(t, amount)
    PROVE  LogInv' /\ MoneyInv' /\ CoinInv'
<1>1. t # Zero
  BY TokensAre, TokensDiffer
<1>2. frames' \in Seq(Frame) /\ UnderWay(frames) = UnderWay(frames') + 0
  BY <1>1, UnderWayPop DEF Burns, MoneyInv, PaidIn
<1>3. UnderWay(frames) = UnderWay(frames')
  BY <1>2, UnderWayType, SMT
<1>4. supply' \in [Tokens.l2 -> Nat] /\ pool'.bAzero <= supply'[PoolCoin]
  <2>1. /\ supply \in [Tokens.l2 -> Nat] /\ supply' = [supply EXCEPT ![t] = @ - amount]
        /\ Circulating(t) >= amount /\ pool' = pool
    BY DEF Burns, MoneyInv
  <2> DEFINE total == supply[t]
             owned == pool.bAzero
  <2>2. total \in Nat /\ owned \in Nat
    BY <2>1, MoneyTypes
  <2>3. CASE t = PoolCoin
    <3>1. owned <= total /\ total - owned >= amount
      BY <2>1, <2>3, MoneyTypes DEF Circulating
    <3> HIDE DEF total, owned
    <3>2. total - amount \in Nat /\ owned <= total - amount
      BY <2>2, <3>1, SMT
    <3>3. supply'[PoolCoin] = total - amount /\ supply' \in [Tokens.l2 -> Nat]
      BY <2>1, <2>3, <3>2 DEF total
    <3> QED BY <2>1, <3>2, <3>3 DEF owned
  <2>4. CASE t # PoolCoin
    <3>1. total >= amount
      BY <2>1, <2>4 DEF Circulating
    <3> HIDE DEF total, owned
    <3>2. total - amount \in Nat
      BY <2>2, <3>1, SMT
    <3>3. supply'[PoolCoin] = supply[PoolCoin] /\ supply' \in [Tokens.l2 -> Nat]
      BY <2>1, <2>4, <3>2, MoneyTypes DEF total
    <3> QED BY <2>1, <3>3, MoneyTypes
  <2> QED BY <2>3, <2>4
<1>5. LogInv'
  <2>1. Emit("l2", Partner[t], amount) /\ "l2" \in Chains /\ Partner[t] \in Tokens.azero
    BY Pairs DEF Burns, Chains
  <2> QED BY <2>1, EmitLogs DEF ConfInv
<1>6. MoneyInv'
  BY <1>2, <1>4 DEF Burns, MoneyInv
<1>7. CoinInv'
  BY <1>3 DEF Burns, CoinInv
<1> QED BY <1>5, <1>6, <1>7

LEMMA PayMoney ==
    ASSUME ConfInv, MoneyInv, CoinInv, NEW r, r.amount \in Nat, UNCHANGED <<recovered, frames>>,
           PayAzero(r) \/ RemoteTokenTransfer(r) \/ NativeTransfer(r)
    PROVE  MoneyInv' /\ CoinInv'
<1>1. CASE PayAzero(r)
  <2>1. PICK t \in Tokens.azero :
          /\ locked[t] >= r.amount
          /\ locked' = [locked EXCEPT ![t] = @ - r.amount]
          /\ users' = IF r.token = Zero THEN users ELSE [users EXCEPT ![t] = @ + r.amount]
    BY <1>1 DEF PayAzero
  <2>2. UNCHANGED <<coin, supply, pool, refused>>
    BY <1>1 DEF PayAzero, l2
  <2>3. locked' \in [Tokens.azero -> Nat]
    BY <2>1, SMT DEF MoneyInv
  <2>4. users' \in [Tokens.azero -> Nat]
    <3>1. [users EXCEPT ![t] = @ + r.amount] \in [Tokens.azero -> Nat]
      BY SMT DEF MoneyInv
    <3> QED BY <2>1, <3>1 DEF MoneyInv
  <2> QED BY <2>2, <2>3, <2>4 DEF MoneyInv, CoinInv
<1>2. CASE RemoteTokenTransfer(r)
  <2>1. UNCHANGED <<coin, locked, users, pool, refused>>
        /\ supply' = [supply EXCEPT ![r.token] = @ + r.amount]
    BY <1>2 DEF RemoteTokenTransfer, azero
  <2>2. supply' \in [Tokens.l2 -> Nat] /\ supply'[PoolCoin] >= supply[PoolCoin]
    <3>1. supply \in [Tokens.l2 -> Nat]
      BY DEF MoneyInv
    <3>2. \A u \in Tokens.l2 : supply'[u] = IF u = r.token THEN supply[u] + r.amount ELSE supply[u]
      BY <2>1, <3>1
    <3>3. \A u \in Tokens.l2 : supply[u] \in Nat /\ supply[u] + r.amount \in Nat /\ supply[u] + r.amount >= supply[u]
                               /\ supply[u] >= supply[u]
      BY <3>1, SMT
    <3>4. supply' = [u \in Tokens.l2 |-> supply'[u]]
      BY <2>1, <3>1
    <3> QED BY <3>2, <3>3, <3>4, MoneyTypes
  <2>3. pool'.bAzero <= supply'[PoolCoin]
    <3>1. supply'[PoolCoin] \in Nat /\ pool'.bAzero = pool.bAzero
      BY <2>1, <2>2, MoneyTypes
    <3> QED BY <2>2, <3>1, MoneyTypes, SMT
  <2> QED BY <2>1, <2>2, <2>3 DEF MoneyInv, CoinInv
<1>3. CASE NativeTransfer(r)
  <2> DEFINE b == bAzeroAddress
  <2>1. UNCHANGED <<locked, users>> /\ supply' = [supply EXCEPT ![b] = @ + r.amount]
    BY <1>3 DEF NativeTransfer, azero
  <2>2. b \in Tokens.l2
    BY TokensAre DEF ConfInv, SettingsInv
  <2>3. /\ supply' \in [Tokens.l2 -> Nat] /\ supply'[b] = supply[b] + r.amount
        /\ \A u \in Tokens.l2 \ {b} : supply'[u] = supply[u]
    <3>1. supply \in [Tokens.l2 -> Nat]
      BY DEF MoneyInv
    <3>2. supply[b] + r.amount \in Nat
      BY <2>2, <3>1, SMT
    <3> QED BY <2>1, <2>2, <3>1, <3>2
  <2>4. CASE UNCHANGED <<coin, pool, refused>>
    <3>1. supply[b] \in Nat
      BY <2>2 DEF MoneyInv
    <3>2. supply'[PoolCoin] >= supply[PoolCoin]
      BY <2>3, <3>1, MoneyTypes, SMT
    <3>3. supply'[PoolCoin] \in Nat
      BY <2>3, MoneyTypes
    <3>4. pool'.bAzero <= supply'[PoolCoin]
      BY <2>4, <3>2, <3>3, MoneyTypes, SMT
    <3> QED BY <2>1, <2>3, <2>4, <3>4 DEF MoneyInv, CoinInv
  <2>5. ASSUME b = PoolCoin,
               NEW out \in CalcMinAmountOutSwap(r.amount, FALSE) .. pool.native,
               pool' = [native |-> pool.native - out, bAzero |-> pool.bAzero + r.amount],
               \/ UNCHANGED <<coin, refused>>
               \/ coin' = [coin EXCEPT !["l2"] = @ + out] /\ refused' = refused + out
        PROVE  MoneyInv' /\ CoinInv'
    <3>1. out \in Nat /\ out <= pool.native
      <4> DEFINE low == CalcMinAmountOutSwap(r.amount, FALSE)
                 high == pool.native
      <4>1. low \in Nat /\ high \in Nat /\ out \in low .. high
        BY <2>5, SwapType, MoneyTypes
      <4> HIDE DEF low, high
      <4>2. out \in Nat /\ out <= high
        BY <4>1, SMT
      <4> QED BY <4>2 DEF high
    <3>2. pool' \in [native : Nat, bAzero : Nat] /\ pool'.bAzero <= supply'[PoolCoin]
      <4>1. pool.native - out \in Nat /\ pool.bAzero + r.amount \in Nat
            /\ pool.bAzero + r.amount <= supply[PoolCoin] + r.amount
        BY <3>1, MoneyTypes, SMT
      <4> QED BY <2>3, <2>5, <4>1
    <3>3. CASE UNCHANGED <<coin, refused>>
      BY <2>1, <2>3, <3>2, <3>3 DEF MoneyInv, CoinInv
    <3>4. CASE coin' = [coin EXCEPT !["l2"] = @ + out] /\ refused' = refused + out
      <4>1. /\ coin' \in [Chains -> Nat] /\ refused' \in Nat
            /\ coin'["azero"] = coin["azero"] /\ coin'["l2"] = coin["l2"] + out
        <5>1. coin \in [Chains -> Nat] /\ refused \in Nat
          BY DEF MoneyInv
        <5> QED BY <3>1, <3>4, <5>1, SMT DEF Chains
      <4>2. MoneyInv'
        BY <2>1, <2>3, <3>2, <4>1 DEF MoneyInv
      <4>3. CoinInv'
        <5> DEFINE c == coin["l2"]
                   t == recovered["l2"]
                   w == UnderWay(frames)
        <5>1. /\ c \in Nat /\ t \in Nat /\ w \in Nat /\ refused \in Nat
              /\ c + t = refused + w /\ t <= refused
          BY MoneyTypes DEF CoinInv
        <5>2. UNCHANGED <<recovered, frames>>
          BY <2>1
        <5> HIDE DEF c, t, w
        <5>3. c + out + t = refused + out + w /\ t <= refused + out
          BY <3>1, <5>1, SMT
        <5>4. /\ coin'["l2"] + recovered'["l2"] = refused' + UnderWay(frames')
              /\ recovered'["l2"] <= refused'
          BY <3>4, <4>1, <5>2, <5>3 DEF c, t, w
        <5> QED BY <4>1, <5>2, <5>4 DEF CoinInv
      <4> QED BY <4>2, <4>3
    <3> QED BY <2>5, <3>3, <3>4
  <2> QED BY <1>3, <2>4, <2>5 DEF NativeTransfer
<1> QED BY <1>1, <1>2, <1>3

LEMMA RecoverMoney ==
    ASSUME LogInv, MoneyInv, CoinInv, NEW amount \in Nat,
           \/ \E t \in Tokens.azero : RecoverPsp22(t, amount)
           \/ \E c \in Chains : RecoverCoin(c, amount)
    PROVE  LogInv' /\ MoneyInv' /\ CoinInv'
<1>0. UNCHANGED <<log, supply, pool, frames, refused>>
  BY GovernSettings
<1>1. LogInv'
  BY <1>0 DEF LogInv, log
<1>2. ASSUME NEW t \in Tokens.azero, RecoverPsp22(t, amount) PROVE MoneyInv' /\ CoinInv'
  <2>1. /\ locked[t] >= amount
        /\ locked' = [locked EXCEPT ![t] = @ - amount]
        /\ users' = [users EXCEPT ![t] = @ + amount]
        /\ recovered' = [recovered EXCEPT ![t] = @ + amount]
        /\ UNCHANGED coin
    BY <1>2 DEF RecoverPsp22
  <2>2. locked' \in [Tokens.azero -> Nat] /\ users' \in [Tokens.azero -> Nat]
    BY <2>1, SMT DEF MoneyInv
  <2>3. t \notin Chains
    BY TokensAre, TokensDiffer
  <2>4. /\ recovered' \in [Tokens.azero \cup Chains -> Nat]
        /\ \A c \in Chains : recovered'[c] = recovered[c]
    <3>1. recovered \in [Tokens.azero \cup Chains -> Nat]
      BY DEF MoneyInv
    <3>2. recovered[t] + amount \in Nat
      BY <3>1, SMT
    <3> QED BY <2>1, <2>3, <3>1, <3>2
  <2>5. recovered'["azero"] = recovered["azero"] /\ recovered'["l2"] = recovered["l2"]
    BY <2>4 DEF Chains
  <2> QED BY <1>0, <2>1, <2>2, <2>4, <2>5 DEF MoneyInv, CoinInv
<1>3. ASSUME NEW c \in Chains, RecoverCoin(c, amount) PROVE MoneyInv' /\ CoinInv'
  <2>1. /\ frames = <<>>
        /\ coin[c] >= amount
        /\ coin' = [coin EXCEPT ![c] = @ - amount]
        /\ recovered' = [recovered EXCEPT ![c] = @ + amount]
        /\ UNCHANGED <<locked, users>>
    BY <1>3 DEF RecoverCoin, Govern, azero
  <2>2. coin[c] \in Nat /\ recovered[c] \in Nat
    BY DEF MoneyInv
  <2>3. /\ coin' \in [Chains -> Nat] /\ coin'[c] = coin[c] - amount
        /\ \A d \in Chains \ {c} : coin'[d] = coin[d]
    <3>1. coin \in [Chains -> Nat]
      BY DEF MoneyInv
    <3>2. coin[c] - amount \in Nat
      BY <2>1, <2>2, SMT
    <3> QED BY <2>1, <3>1, <3>2
  <2>4. /\ recovered' \in [Tokens.azero \cup Chains -> Nat] /\ recovered'[c] = recovered[c] + amount
        /\ \A d \in Chains \ {c} : recovered'[d] = recovered[d]
    <3>1. recovered \in [Tokens.azero \cup Chains -> Nat]
      BY DEF MoneyInv
    <3>2. recovered[c] + amount \in Nat
      BY <2>2, SMT
    <3> QED BY <2>1, <3>1, <3>2
  <2>5. MoneyInv'
    BY <1>0, <2>1, <2>3, <2>4 DEF MoneyInv
  <2>6. coin'[c] + recovered'[c] = coin[c] + recovered[c]
    BY <2>2, <2>3, <2>4, SMT
  <2>7. \A d \in Chains : coin'[d] + recovered'[d] = coin[d] + recovered[d]
    BY <2>3, <2>4, <2>6
  <2>8. recovered'["l2"] <= refused'
    <3>1. refused' \in Nat /\ coin'["l2"] \in Nat /\ recovered'["l2"] \in Nat
      BY <2>5 DEF MoneyInv, Chains
    <3>2. refused' = refused /\ UnderWay(frames) = 0
      BY <1>0, <2>1, UnderWayNone
    <3>3. coin'["l2"] + recovered'["l2"] = refused' + 0
      BY <2>7, <3>2 DEF CoinInv, Chains
    <3> QED BY <3>1, <3>3, SMT
  <2>9. CoinInv'
    BY <1>0, <2>7, <2>8 DEF CoinInv, Chains
  <2> QED BY <2>5, <2>9
<1> QED BY <1>1, <1>2, <1>3

LEMMA VotedRequest ==
    ASSUME LogInv, NEW g, NEW r, (g \in Faulty /\ r \in Forged) \/ \E c \in Chains : r \in Logged(c)
    PROVE  r \in Requests /\ r.amount \in Nat /\ (g \in Faulty \/ r \in AllLogged)
<1>1. Forged \subseteq Requests
  BY L2BridgeAssumption
<1>2. r \in Requests /\ (g \in Faulty \/ r \in AllLogged)
  BY <1>1, LoggedType
<1> QED BY <1>2 DEF Requests

LEMMA MoneyStep ==
    ASSUME ConfInv, LogInv, MoneyInv, CoinInv, [Next]_vars
    PROVE  LogInv' /\ MoneyInv' /\ CoinInv'
<1>1. CASE Send
  <2>1. \A t \in Locals : t \in Tokens.azero
    BY TokensAre
  <2>2. WrappedAzero \in Tokens.azero
    BY TokensAre
  <2> QED BY <1>1, <2>1, <2>2, SendKinds, LocksMoney, BeginsMoney, SwapsMoney, BurnsMoney
<1>2. CASE Receive
  <2>1. PICK g \in Guardians : \E r :
          /\ (g \in Faulty /\ r \in Forged) \/ \E c \in Chains : r \in Logged(c)
          /\ ReceiveRequest(g, r)
    BY <1>2, ReceiveKinds
  <2>2. PICK r : /\ (g \in Faulty /\ r \in Forged) \/ \E c \in Chains : r \in Logged(c)
                 /\ ReceiveRequest(g, r)
    BY <2>1
  <2>3. r.amount \in Nat
    BY <2>2, VotedRequest
  <2>4. UNCHANGED <<log, recovered, frames>>
    BY <2>2, ReceiveSettings
  <2>5. LogInv'
    BY <2>4 DEF LogInv, log
  <2>6. CASE PayAzero(r) \/ RemoteTokenTransfer(r) \/ NativeTransfer(r)
    BY <2>3, <2>4, <2>5, <2>6, PayMoney
  <2>7. CASE UNCHANGED <<coin, azero, l2>>
    BY <2>4, <2>5, <2>7 DEF MoneyInv, CoinInv, azero, l2
  <2> QED BY <2>2, <2>6, <2>7 DEF ReceiveRequest
<1>3. ASSUME UNCHANGED <<log, books>> PROVE LogInv' /\ MoneyInv' /\ CoinInv'
  BY <1>3 DEF LogInv, MoneyInv, CoinInv, log, books
<1>4. UNCHANGED vars => UNCHANGED <<log, books>>
  BY DEF vars, books, azero, l2
<1>5. Amounts \subseteq Nat
  BY Numbers
<1> QED BY <1>1, <1>2, <1>3, <1>4, <1>5, Steps, GovernSettings, RecoverMoney

-----------------------------------------------------------------------------
(* Votes *)

VotesType ==
    /\ signatures \subseteq Guardians \X Requests
    /\ pending \in [DOMAIN pending -> Nat \ {0}] /\ DOMAIN pending \subseteq Requests \ processed
    /\ processed \subseteq Requests

LEMMA CountType ==
    ASSUME VotesType, NEW r
    PROVE  Count(r) \in Nat
<1>1. CASE r \in DOMAIN pending
  <2>1. pending[r] \in Nat
    BY <1>1 DEF VotesType
  <2> QED BY <1>1, <2>1 DEF Count
<1>2. CASE r \notin DOMAIN pending
  BY <1>2 DEF Count
<1> QED BY <1>1, <1>2

\* What a vote does to the counts.
LEMMA CountVoted ==
    ASSUME VotesType, NEW g \in Guardians, NEW r \in Requests, ReceiveRequest(g, r)
    PROVE  /\ VotesType'
           /\ r \notin processed /\ <<g, r>> \notin signatures
           /\ g \in committees[r.to][r.committeeId]
           /\ signatures' = signatures \cup {<<g, r>>}
           /\ \A q : q # r => Count(q)' = Count(q)
           /\ \/ /\ Count(r) + 1 >= signature_thresholds[r.to][r.committeeId]
                 /\ processed' = processed \cup {r}
              \/ /\ ~(Count(r) + 1 >= signature_thresholds[r.to][r.committeeId])
                 /\ processed' = processed /\ Count(r)' = Count(r) + 1
<1>1. /\ r \notin processed /\ <<g, r>> \notin signatures
      /\ g \in committees[r.to][r.committeeId]
      /\ signatures' = signatures \cup {<<g, r>>}
  BY DEF ReceiveRequest, NeedsSignature, IsInCommittee
<1>2. signatures' \subseteq Guardians \X Requests
  BY <1>1 DEF VotesType
<1>3. CASE /\ ThresholdMet(r)
           /\ processed' = processed \cup {r}
           /\ pending' = Restrict(pending, DOMAIN pending \ {r})
  <2>1. /\ DOMAIN pending' = DOMAIN pending \ {r}
        /\ pending' = [x \in DOMAIN pending \ {r} |-> pending[x]]
    BY <1>3 DEF Restrict
  <2>2. VotesType'
    BY <1>2, <1>3, <2>1 DEF VotesType
  <2>3. \A q : q # r => Count(q)' = Count(q)
    BY <2>1 DEF Count
  <2> QED BY <1>1, <1>3, <2>2, <2>3 DEF ThresholdMet
<1>4. CASE ~ThresholdMet(r) /\ pending' = Counted(r) /\ processed' = processed
  <2>1. /\ DOMAIN pending' = DOMAIN pending \cup {r}
        /\ pending'[r] = Count(r) + 1
        /\ \A x \in DOMAIN pending \ {r} : pending'[x] = pending[x]
        /\ pending' = [x \in DOMAIN pending \cup {r} |-> pending'[x]]
    BY <1>4 DEF Counted
  <2>2. Count(r) + 1 \in Nat \ {0}
    BY CountType, SMT
  <2>3. VotesType'
    BY <1>1, <1>2, <1>4, <2>1, <2>2 DEF VotesType
  <2>4. Count(r)' = Count(r) + 1 /\ \A q : q # r => Count(q)' = Count(q)
    BY <2>1 DEF Count
  <2> QED BY <1>1, <1>4, <2>3, <2>4 DEF ThresholdMet
<1> QED BY <1>3, <1>4 DEF ReceiveRequest

Voters(r) == {g \in Guardians : <<g, r>> \in signatures}

\* The count of a pending request is the number of its voters and below the threshold, and
\* only faulty guardians have voted for what was not logged.
VoteInv(r) ==
    /\ Voters(r) \subseteq committees[r.to][r.committeeId]
    /\ r \notin processed =>
          /\ Count(r) = Cardinality(Voters(r))
          /\ r.committeeId <= committee_id[r.to] => Count(r) < signature_thresholds[r.to][r.committeeId]
    /\ r \notin AllLogged => Voters(r) \subseteq Faulty

VotingInv ==
    /\ VotesType
    /\ processed \subseteq AllLogged
    /\ \A r \in Requests : VoteInv(r)

LEMMA RequestParts ==
    ASSUME NEW r \in Requests
    PROVE  r.to \in Chains /\ r.committeeId \in CommitteeIds /\ r.committeeId \in Nat /\ r.amount \in Nat
<1>1. CommitteeIds \subseteq Nat
  BY Numbers, SMT DEF CommitteeIds
<1> QED BY <1>1 DEF Requests

LEMMA VotersFinite ==
    ASSUME NEW r
    PROVE  IsFiniteSet(Voters(r)) /\ Cardinality(Voters(r)) \in Nat
<1>1. IsFiniteSet(Guardians) /\ Voters(r) \subseteq Guardians
  BY L2BridgeAssumption DEF Voters
<1> QED BY <1>1, FS_Subset, FS_CardinalityType

\* A member of a committee is in one that governance has set.
LEMMA MemberOf ==
    ASSUME MembersInv, NEW r \in Requests, NEW g \in committees[r.to][r.committeeId]
    PROVE  /\ r.committeeId <= committee_id[r.to]
           /\ Cardinality(committees[r.to][r.committeeId] \cap Faulty)
                 < signature_thresholds[r.to][r.committeeId]
  BY RequestParts DEF MembersInv, CommitteeInv

LEMMA VotingReceive ==
    ASSUME MembersInv, VotingInv, NEW g \in Guardians, NEW r \in Requests,
           g \in Faulty \/ r \in AllLogged, ReceiveRequest(g, r), AllLogged' = AllLogged,
           UNCHANGED members
    PROVE  VotingInv' /\ (r \in processed' => r \in AllLogged)
<1> DEFINE committee == committees[r.to][r.committeeId]
           threshold == signature_thresholds[r.to][r.committeeId]
<1>1. /\ VotesType'
      /\ r \notin processed /\ <<g, r>> \notin signatures
      /\ g \in committee
      /\ signatures' = signatures \cup {<<g, r>>}
      /\ \A q : q # r => Count(q)' = Count(q)
  BY CountVoted DEF VotingInv
<1>2. \/ Count(r) + 1 >= threshold /\ processed' = processed \cup {r}
      \/ ~(Count(r) + 1 >= threshold) /\ processed' = processed /\ Count(r)' = Count(r) + 1
  BY CountVoted DEF VotingInv
<1>3. UNCHANGED <<committee_id, committees, signature_thresholds>>
  BY DEF members
<1>4. Voters(r)' = Voters(r) \cup {g} /\ g \notin Voters(r)
  BY <1>1 DEF Voters
<1>5. \A q : q # r => Voters(q)' = Voters(q)
  BY <1>1 DEF Voters
<1>6. VoteInv(r)
  BY DEF VotingInv
<1>7. Cardinality(Voters(r)') = Count(r) + 1 /\ Count(r) \in Nat
  <2>1. Count(r) = Cardinality(Voters(r)) /\ IsFiniteSet(Voters(r)) /\ Cardinality(Voters(r)) \in Nat
    BY <1>1, <1>6, VotersFinite DEF VoteInv
  <2>2. Cardinality(Voters(r) \cup {g}) = Cardinality(Voters(r)) + 1
    BY <1>4, <2>1, FS_AddElement
  <2> QED BY <1>4, <2>1, <2>2
<1>8. Voters(r)' \subseteq committee /\ (r \notin AllLogged => Voters(r)' \subseteq Faulty)
  BY <1>1, <1>4, <1>6 DEF VoteInv
<1>9. threshold \in Nat /\ Cardinality(committee \cap Faulty) < threshold /\ r.committeeId <= committee_id[r.to]
  BY <1>1, MemberOf, RequestParts DEF MembersInv
<1>10. ASSUME Count(r) + 1 >= threshold PROVE r \in AllLogged
  <2>1. SUFFICES ASSUME Voters(r)' \subseteq committee \cap Faulty PROVE FALSE
    BY <1>8
  <2>2. IsFiniteSet(committee \cap Faulty)
    BY L2BridgeAssumption, FS_Subset
  <2>3. Cardinality(Voters(r)') <= Cardinality(committee \cap Faulty)
        /\ Cardinality(committee \cap Faulty) \in Nat
    BY <2>1, <2>2, FS_Subset, FS_CardinalityType
  <2> QED BY <1>7, <1>9, <1>10, <2>3, SMT
<1>11. VoteInv(r)'
  <2>1. CASE processed' = processed \cup {r}
    BY <1>3, <1>8, <2>1 DEF VoteInv
  <2>2. CASE ~(Count(r) + 1 >= threshold) /\ Count(r)' = Count(r) + 1
    <3>1. Count(r)' = Cardinality(Voters(r)') /\ Count(r)' < threshold
      BY <1>7, <1>9, <2>2, SMT
    <3> QED BY <1>3, <1>8, <3>1 DEF VoteInv
  <2> QED BY <1>2, <2>1, <2>2
<1>12. ASSUME NEW q \in Requests, q # r PROVE VoteInv(q)'
  <2>1. VoteInv(q) /\ Count(q)' = Count(q) /\ Voters(q)' = Voters(q)
    BY <1>1, <1>5, <1>12 DEF VotingInv
  <2>2. q \notin processed' => q \notin processed
    BY <1>2
  <2> QED BY <1>3, <2>1, <2>2 DEF VoteInv
<1>13. processed' \subseteq AllLogged
  BY <1>2, <1>10 DEF VotingInv
<1> QED BY <1>1, <1>11, <1>12, <1>13 DEF VotingInv

LEMMA VotingSend ==
    ASSUME VotingInv, UNCHANGED <<members, voting>>, AllLogged \subseteq AllLogged'
    PROVE  VotingInv'
<1>1. UNCHANGED <<committee_id, committees, signature_thresholds, signatures, pending, processed>>
  BY DEF members, voting
<1>2. ASSUME NEW r \in Requests PROVE VoteInv(r)'
  <2>1. VoteInv(r) /\ Voters(r)' = Voters(r) /\ Count(r)' = Count(r)
    BY <1>1 DEF VotingInv, Voters, Count
  <2> QED BY <1>1, <2>1 DEF VoteInv
<1>3. VotesType' /\ processed' \subseteq AllLogged'
  BY <1>1 DEF VotingInv, VotesType
<1> QED BY <1>2, <1>3 DEF VotingInv

LEMMA VotingSetCommittee ==
    ASSUME MembersInv, MembersInv', VotingInv, NEW c \in Chains, NEW C \in Committees,
           SetCommittee(c, C), AllLogged' = AllLogged
    PROVE  VotingInv'
<1>1. UNCHANGED <<signatures, pending, processed>>
  BY DEF SetCommittee, voting
<1>2. ASSUME NEW r \in Requests PROVE VoteInv(r)'
  <2>1. VoteInv(r) /\ Voters(r)' = Voters(r) /\ Count(r)' = Count(r)
    BY <1>1 DEF VotingInv, Voters, Count
  <2>2. CASE r.committeeId <= committee_id[r.to]
    <3>1. /\ committees'[r.to][r.committeeId] = committees[r.to][r.committeeId]
          /\ signature_thresholds'[r.to][r.committeeId] = signature_thresholds[r.to][r.committeeId]
      <4>1. r.committeeId # committee_id[r.to] + 1
        <5>1. r.committeeId \in Nat /\ committee_id[r.to] \in Nat
          BY RequestParts, Numbers, SMT DEF MembersInv, CommitteeIds
        <5> QED BY <2>2, <5>1, SMT
      <4> QED BY <4>1, RequestParts DEF SetCommittee, MembersInv
    <3> QED BY <1>1, <2>1, <2>2, <3>1 DEF VoteInv
  <2>3. CASE ~(r.committeeId <= committee_id[r.to])
    <3>1. committees[r.to][r.committeeId] = {}
      BY <2>3, RequestParts DEF MembersInv, CommitteeInv
    <3>2. Voters(r) = {}
      BY <2>1, <3>1 DEF VoteInv
    <3>3. r \notin processed => Count(r) = 0
      BY <2>1, <3>2, FS_EmptySet DEF VoteInv
    <3>4. r.committeeId <= committee_id'[r.to] => 0 < signature_thresholds'[r.to][r.committeeId]
      <4>1. r.committeeId <= committee_id'[r.to] =>
              Cardinality(committees'[r.to][r.committeeId] \cap Faulty)
                 < signature_thresholds'[r.to][r.committeeId]
        BY RequestParts DEF MembersInv, CommitteeInv
      <4>2. Cardinality(committees'[r.to][r.committeeId] \cap Faulty) \in Nat
        <5>1. IsFiniteSet(committees'[r.to][r.committeeId] \cap Faulty)
          BY L2BridgeAssumption, FS_Subset
        <5> QED BY <5>1, FS_CardinalityType
      <4>3. signature_thresholds'[r.to][r.committeeId] \in Nat
        BY RequestParts DEF MembersInv
      <4> QED BY <4>1, <4>2, <4>3, SMT
    <3> QED BY <1>1, <2>1, <3>2, <3>3, <3>4, FS_EmptySet DEF VoteInv
  <2> QED BY <2>2, <2>3
<1>3. VotesType' /\ processed' \subseteq AllLogged'
  BY <1>1 DEF VotingInv, VotesType
<1> QED BY <1>2, <1>3 DEF VotingInv

LEMMA AllLoggedGrows ==
    ASSUME ConfInv, LogInv, MoneyInv, Send
    PROVE  AllLogged \subseteq AllLogged'
<1>1. UNCHANGED log => AllLogged' = AllLogged
  BY DEF log, AllLogged, Logged
<1>2. ASSUME NEW c \in Chains, NEW token \in (IF c = "azero" THEN Tokens.l2 ELSE Tokens.azero) \cup {Zero},
             NEW amount \in Nat, Emit(c, token, amount)
      PROVE  AllLogged \subseteq AllLogged'
  BY <1>2, EmitLogs DEF ConfInv
<1>3. ASSUME NEW t, NEW token, NEW amount \in Nat, Locks(t, token, amount)
      PROVE  AllLogged \subseteq AllLogged'
  <2>1. token \in Tokens.l2 \cup {Zero} /\ "azero" \in Chains /\ Emit("azero", token, amount)
    BY <1>3, Pairs DEF Locks, Chains
  <2> QED BY <1>2, <2>1
<1>4. ASSUME NEW out \in Nat, Swaps(out) PROVE AllLogged \subseteq AllLogged'
  <2>1. "l2" \in Chains /\ Emit("l2", Zero, out)
    BY <1>4 DEF Swaps, Chains
  <2> QED BY <1>2, <2>1
<1>5. ASSUME NEW t \in Tokens.l2, NEW amount \in Nat, Burns(t, amount) PROVE AllLogged \subseteq AllLogged'
  <2>1. Partner[t] \in Tokens.azero /\ "l2" \in Chains /\ Emit("l2", Partner[t], amount)
    BY <1>5, Pairs DEF Burns, Chains
  <2> QED BY <1>2, <2>1
<1>6. ASSUME NEW frame, Begins(frame) PROVE AllLogged \subseteq AllLogged'
  BY <1>1, <1>6 DEF Begins
<1> QED BY <1>3, <1>4, <1>5, <1>6, SendKinds

LEMMA VotingStep ==
    ASSUME ConfInv, ConfInv', LogInv, MoneyInv, VotingInv, [Next]_vars
    PROVE  VotingInv'
<1>1. UNCHANGED log => AllLogged' = AllLogged
  BY DEF log, AllLogged, Logged
<1>2. CASE Send
  BY <1>2, SendSettings, AllLoggedGrows, VotingSend
<1>3. ASSUME NEW g \in Guardians, NEW r, ReceiveRequest(g, r),
             (g \in Faulty /\ r \in Forged) \/ \E c \in Chains : r \in Logged(c)
      PROVE  VotingInv'
  <2>1. r \in Requests /\ (g \in Faulty \/ r \in AllLogged)
    BY <1>3, VotedRequest
  <2>2. UNCHANGED <<members, log>>
    BY <1>3, ReceiveSettings
  <2> QED BY <1>1, <1>3, <2>1, <2>2, VotingReceive DEF ConfInv
<1>4. ASSUME NEW c \in Chains, NEW C \in Committees, SetCommittee(c, C) PROVE VotingInv'
  <2>1. AllLogged' = AllLogged
    BY <1>1, <1>4, GovernSettings
  <2> QED BY <1>4, <2>1, VotingSetCommittee DEF ConfInv
<1>5. ASSUME UNCHANGED <<members, voting, log>> PROVE VotingInv'
  BY <1>1, <1>5, VotingSend
<1>6. UNCHANGED vars => UNCHANGED <<members, voting, log>>
  BY DEF vars
<1> QED BY <1>2, <1>3, <1>4, <1>5, <1>6, Steps, ReceiveKinds, GovernSettings

HaltedType == halted \in [Chains -> BOOLEAN]

LEMMA HaltedStep ==
    ASSUME HaltedType, [Next]_vars
    PROVE  HaltedType'
<1>1. ASSUME UNCHANGED halted PROVE HaltedType'
  BY <1>1 DEF HaltedType
<1>2. ASSUME NEW c \in Chains, NEW state \in BOOLEAN, SetHalted(c, state) PROVE HaltedType'
  BY <1>2, Zenon DEF SetHalted, HaltedType
<1>3. \/ UNCHANGED halted
      \/ \E c \in Chains, state \in BOOLEAN : SetHalted(c, state)
  <2>1. \A c, C : SetCommittee(c, C) => UNCHANGED halted
    BY DEF SetCommittee
  <2>2. \A t : AddPair(t) \/ RemovePair(t) => UNCHANGED halted
    BY DEF AddPair, RemovePair
  <2>3. \A c, fee : SetFlatFee(c, fee) => UNCHANGED halted
    BY DEF SetFlatFee
  <2>4. \A t : SetWazero(t) \/ SetBridgedAzeroAddress(t) => UNCHANGED halted
    BY DEF SetWazero, SetBridgedAzeroAddress
  <2>5. \A t, x : SetLocalToken(t, x) \/ RecoverPsp22(t, x) \/ RecoverCoin(t, x) => UNCHANGED halted
    BY DEF SetLocalToken, RecoverPsp22, RecoverCoin
  <2>6. UNCHANGED vars => UNCHANGED halted
    BY DEF vars
  <2> QED BY <2>1, <2>2, <2>3, <2>4, <2>5, <2>6, Steps, SendSettings, ReceiveKinds, ReceiveSettings
<1> QED BY <1>1, <1>2, <1>3

StateInv == ConfInv /\ LogInv /\ MoneyInv /\ CoinInv /\ VotingInv /\ HaltedType

LEMMA StateInit == Init => StateInv
<1> SUFFICES ASSUME Init PROVE StateInv
  OBVIOUS
<1>1. SettingsInv
  <2>1. DEFAULT_FLAT_FEE \in FlatFees
    BY L2BridgeAssumption
  <2> QED BY <2>1, TokensDiffer DEF Init, SettingsInv
<1>2. ConfInv
  BY <1>1, MembersInit, PairsInit DEF ConfInv
<1>3. sent = [c \in Chains |-> <<>>] /\ request_nonce = [c \in Chains |-> 0]
  BY DEF Init
<1>4. LogInv
  <2>1. ASSUME NEW c \in Chains PROVE sent[c] \in Seq(From(c)) /\ Numbered(sent[c], request_nonce[c])
    <3>1. sent[c] = <<>> /\ request_nonce[c] = 0
      BY <1>3
    <3>2. <<>> \in Seq(From(c)) /\ Len(<<>>) = 0 /\ 1 .. 0 = {}
      BY SMT
    <3> QED BY <3>1, <3>2 DEF Numbered
  <2>2. request_nonce \in [Chains -> Nat]
    BY <1>3, SMT
  <2>3. DOMAIN sent = Chains /\ sent = [c \in Chains |-> sent[c]]
    BY <1>3
  <2> QED BY <2>1, <2>2, <2>3 DEF LogInv
<1>5. AllLogged = {}
  <2>1. \A c \in Chains : Logged(c) = {}
    <3>1. \A c \in Chains : sent[c] = <<>>
      BY <1>3
    <3>2. Len(<<>>) = 0 /\ 1 .. 0 = {}
      BY SMT
    <3> QED BY <3>1, <3>2 DEF Logged
  <2> QED BY <2>1 DEF AllLogged, Chains
<1>6. /\ coin = [azero |-> Endowment, l2 |-> 0]
      /\ locked = [t \in Tokens.azero |-> IF t = WrappedAzero THEN Deposit ELSE 0] /\ users = Funds
      /\ supply = [t \in Tokens.l2 |-> IF t = PoolCoin THEN PoolBAzero ELSE 0]
      /\ pool = [native |-> PoolNative, bAzero |-> PoolBAzero]
      /\ frames = <<>> /\ refused = 0
      /\ recovered = [t \in Tokens.azero \cup Chains |-> 0]
  BY DEF Init
<1>7. MoneyInv
  <2>1. coin \in [Chains -> Nat]
    BY <1>6, Numbers DEF Chains
  <2>2. locked \in [Tokens.azero -> Nat] /\ users \in [Tokens.azero -> Nat]
    BY <1>6, L2BridgeAssumption, Numbers
  <2>3. supply \in [Tokens.l2 -> Nat] /\ supply[PoolCoin] = PoolBAzero
    BY <1>6, Numbers, TokensAre, TokensDiffer
  <2>4. pool \in [native : Nat, bAzero : Nat] /\ pool.bAzero <= supply[PoolCoin]
    BY <1>6, <2>3, Numbers
  <2>5. frames \in Seq(Frame)
    BY <1>6, SMT
  <2>6. refused \in Nat /\ recovered \in [Tokens.azero \cup Chains -> Nat]
    BY <1>6
  <2> QED BY <2>1, <2>2, <2>3, <2>4, <2>5, <2>6 DEF MoneyInv
<1>8. CoinInv
  <2>1. coin["azero"] = Endowment /\ coin["l2"] = 0 /\ refused = 0 /\ UnderWay(frames) = 0
    BY <1>6, UnderWayNone
  <2>2. recovered["azero"] = 0 /\ recovered["l2"] = 0
    BY <1>6 DEF Chains
  <2> QED BY <2>1, <2>2, Numbers, SMT DEF CoinInv
<1>9. signatures = {} /\ pending = <<>> /\ processed = {}
  BY DEF Init
<1>10. DOMAIN pending = {} /\ pending \in [{} -> Nat \ {0}]
  BY <1>9, SMT
<1>11. ASSUME NEW r \in Requests PROVE VoteInv(r)
  <2>1. Voters(r) = {} /\ Count(r) = 0 /\ Cardinality({}) = 0
    BY <1>9, <1>10, FS_EmptySet DEF Voters, Count
  <2>2. r.committeeId <= committee_id[r.to] => 0 < signature_thresholds[r.to][r.committeeId]
    <3>1. r.committeeId <= committee_id[r.to] =>
            Cardinality(committees[r.to][r.committeeId] \cap Faulty)
               < signature_thresholds[r.to][r.committeeId]
      BY <1>2, RequestParts DEF ConfInv, MembersInv, CommitteeInv
    <3>2. IsFiniteSet(committees[r.to][r.committeeId] \cap Faulty)
      BY L2BridgeAssumption, FS_Subset
    <3>3. Cardinality(committees[r.to][r.committeeId] \cap Faulty) \in Nat
      BY <3>2, FS_CardinalityType
    <3>4. signature_thresholds[r.to][r.committeeId] \in Nat
      BY <1>2, RequestParts DEF ConfInv, MembersInv
    <3> QED BY <3>1, <3>3, <3>4, SMT
  <2> QED BY <2>1, <2>2 DEF VoteInv
<1>12. VotingInv
  BY <1>9, <1>10, <1>11 DEF VotingInv, VotesType
<1>13. HaltedType
  BY Zenon DEF Init, HaltedType
<1> QED BY <1>2, <1>4, <1>7, <1>8, <1>12, <1>13 DEF StateInv

LEMMA StateStep ==
    ASSUME StateInv, [Next]_vars
    PROVE  StateInv'
<1>1. ConfInv'
  BY ConfStep DEF StateInv
<1>2. LogInv' /\ MoneyInv' /\ CoinInv'
  BY MoneyStep DEF StateInv
<1>3. VotingInv' /\ HaltedType'
  BY <1>1, VotingStep, HaltedStep DEF StateInv
<1> QED BY <1>1, <1>2, <1>3 DEF StateInv

\* Settings, logs, money and votes hang together, whatever the pool answers, whoever is
\* called back and however the committees change (MostL2.sol, most-l2/lib.rs).
THEOREM StateInvariant == Spec => []StateInv
  BY StateInit, StateStep, PTL DEF Spec

\* Every variable keeps its type: no balance, supply or liquidity is overdrawn by a burn, a
\* swap or a payout, also when calls are nested (MostL2.sol, most-l2/lib.rs).
THEOREM TypeCorrect == Spec => []TypeOK
<1>1. StateInv => TypeOK
  <2> SUFFICES ASSUME StateInv PROVE TypeOK
    OBVIOUS
  <2>1. sent \in [Chains -> Seq(Requests)] /\ request_nonce \in [Chains -> Nat]
    <3>1. \A c \in Chains : sent[c] \in Seq(Requests)
      <4>1. \A c \in Chains : From(c) \subseteq Requests
        BY DEF From
      <4>2. \A c \in Chains : sent[c] \in Seq(From(c))
        BY DEF StateInv, LogInv
      <4> QED BY <4>1, <4>2, SMT
    <3> QED BY <3>1 DEF StateInv, LogInv
  <2>2. halted \in [Chains -> BOOLEAN]
    BY DEF StateInv, HaltedType
  <2>3. /\ committee_id \in [Chains -> CommitteeIds]
        /\ committees \in [Chains -> [CommitteeIds -> SUBSET Guardians]]
        /\ signature_thresholds \in [Chains -> [CommitteeIds -> Nat]]
        /\ \A c \in Chains : supported_pairs[c] \in [Tokens[c] -> Tokens[Other(c)] \cup {Zero}]
    BY DEF StateInv, ConfInv, MembersInv, PairsInv
  <2>4. /\ flat_fee \in [Chains -> FlatFees]
        /\ wazero \in Tokens.azero \cup {Zero} /\ bAzeroAddress \in BAzeros
        /\ isLocalToken \subseteq Tokens.l2 /\ governed \in Nat
    BY TokensAre DEF StateInv, ConfInv, SettingsInv
  <2>5. VotesType /\ MoneyInv
    BY DEF StateInv, VotingInv
  <2> QED BY <2>1, <2>2, <2>3, <2>4, <2>5 DEF TypeOK, VotesType, MoneyInv, Frame
<1> QED BY <1>1, StateInvariant, PTL

\* Fee and surplus pass through, and what is paid for nested calls is kept apart (MostL2.sol
\* handle_flat_fee, sendRequestNative; most-l2/lib.rs handle_flat_fee).
THEOREM CoinsTheorem == Spec => []CoinsAreAccounted
<1>1. StateInv => CoinsAreAccounted
  BY CoinsAre DEF StateInv
<1> QED BY <1>1, StateInvariant, PTL

\* With fewer faulty members than the threshold in each committee, only what the other chain
\* has logged is paid (receive_request, receiveRequest).
THEOREM NoForgedTheorem == Spec => []NoForgedPayout
<1>1. StateInv => NoForgedPayout
  BY DEF StateInv, VotingInv, NoForgedPayout, AllLogged
<1> QED BY <1>1, StateInvariant, PTL

\* When the whole committee has voted, the request has been paid (receive_request).
THEOREM AllSignedTheorem == Spec => []AllSignedMeansProcessed
<1>1. StateInv => AllSignedMeansProcessed
  <2> SUFFICES ASSUME StateInv, NEW c \in Chains, NEW r \in Logged(c),
                      r.committeeId <= committee_id[r.to],
                      \A g \in Guardians : ~NeedsSignature(r, g), r \notin processed
               PROVE  FALSE
    BY DEF AllSignedMeansProcessed
  <2>1. r \in Requests
    BY LoggedType DEF StateInv
  <2> DEFINE committee == committees[r.to][r.committeeId]
             threshold == signature_thresholds[r.to][r.committeeId]
  <2>2. /\ threshold \in Nat /\ threshold <= Cardinality(committee)
        /\ committee \subseteq Guardians
    <3>1. threshold \in Nat /\ committee \subseteq Guardians
      BY <2>1, RequestParts DEF StateInv, ConfInv, MembersInv
    <3>2. threshold <= Cardinality(committee)
      BY <2>1, RequestParts DEF StateInv, ConfInv, MembersInv, CommitteeInv
    <3> QED BY <3>1, <3>2
  <2>3. committee \subseteq Voters(r)
    BY <2>2 DEF NeedsSignature, IsInCommittee, Voters
  <2>4. VoteInv(r)
    BY <2>1 DEF StateInv, VotingInv
  <2>5. Count(r) = Cardinality(Voters(r)) /\ Count(r) < threshold /\ Voters(r) = committee
    BY <2>3, <2>4 DEF VoteInv
  <2>6. Cardinality(committee) < threshold /\ Cardinality(committee) \in Nat
    BY <2>5, VotersFinite
  <2> HIDE DEF committee, threshold
  <2> QED BY <2>2, <2>6, SMT
<1> QED BY <1>1, StateInvariant, PTL

\* Once a request of an existing committee needs no vote of a guardian, it never does again,
\* whatever is processed, replaced or configured: the guardian may forget it
\* (most-l2/lib.rs lines 523-544, AbstractMost.sol lines 409-424).
SettledStaysSettled ==
    [][\A c \in Chains, g \in Guardians : \A r \in Logged(c) :
          r.committeeId <= committee_id[r.to] /\ ~NeedsSignature(r, g) => ~NeedsSignature(r, g)']_vars

\* A guardian that a request of an existing committee needs no vote of is never needed for
\* it again: votes and payouts are not taken back, and a committee keeps its members
\* (needs_signature, set_committee in most-l2/lib.rs, AbstractMost.sol).
THEOREM SettledTheorem == Spec => SettledStaysSettled
<1>1. StateInv /\ [Next]_vars =>
        [\A c \in Chains, g \in Guardians : \A r \in Logged(c) :
            r.committeeId <= committee_id[r.to] /\ ~NeedsSignature(r, g)
                => ~NeedsSignature(r, g)']_vars
  <2> SUFFICES ASSUME StateInv, [Next]_vars, NEW c \in Chains, NEW g \in Guardians,
                      NEW r \in Logged(c),
                      r.committeeId <= committee_id[r.to], NeedsSignature(r, g)'
               PROVE  NeedsSignature(r, g)
    OBVIOUS
  <2>1. r \in Requests /\ r.to \in Chains /\ r.committeeId \in CommitteeIds /\ r.committeeId \in Nat
    BY LoggedType, RequestParts DEF StateInv
  <2>2. CASE UNCHANGED <<members, voting>>
    BY <2>2 DEF members, voting, NeedsSignature, IsInCommittee
  <2>3. ASSUME NEW h, NEW q, ReceiveRequest(h, q) PROVE NeedsSignature(r, g)
    <3>1. UNCHANGED members
      BY <2>3, ReceiveSettings
    <3>2. signatures \subseteq signatures' /\ processed \subseteq processed'
      BY <2>3 DEF ReceiveRequest
    <3> QED BY <3>1, <3>2 DEF members, NeedsSignature, IsInCommittee
  <2>4. ASSUME NEW d \in Chains, NEW C \in Committees, SetCommittee(d, C) PROVE NeedsSignature(r, g)
    <3>0. CommitteeIds \subseteq Nat
      BY Numbers, SMT DEF CommitteeIds
    <3>1. MembersInv /\ committee_id[r.to] \in Nat
      BY <2>1, <3>0 DEF StateInv, ConfInv, MembersInv
    <3>2. r.committeeId # committee_id[r.to] + 1
      BY <2>1, <3>1, SMT
    <3>3. committees'[r.to][r.committeeId] = committees[r.to][r.committeeId]
      BY <2>1, <2>4, <3>1, <3>2 DEF SetCommittee, MembersInv
    <3>4. UNCHANGED voting
      BY <2>4 DEF SetCommittee
    <3> QED BY <3>3, <3>4 DEF voting, NeedsSignature, IsInCommittee
  <2>5. UNCHANGED vars => UNCHANGED <<members, voting>>
    BY DEF vars
  <2> QED BY <2>2, <2>3, <2>4, <2>5, Steps, SendSettings, ReceiveKinds, GovernSettings
<1> QED BY <1>1, StateInvariant, PTL DEF Spec, SettledStaysSettled

-----------------------------------------------------------------------------
(* Backing *)

Way(tokens) == {r \in AllLogged \ processed : r.token \in tokens}

LEMMA WayIs == \A tokens : OnTheWay(tokens) = Total(Way(tokens))
  BY DEF OnTheWay, Way, AllLogged

\* What a request adds to the requests for some tokens.
Share(r, tokens) == IF r.token \in tokens THEN r.amount ELSE 0

LEMMA TotalAdd ==
    ASSUME NEW S, IsFiniteSet(S), S \subseteq Requests, NEW r \in Requests, r \notin S
    PROVE  Total(S) \in Nat /\ Total(S \cup {r}) = Total(S) + r.amount
<1> DEFINE T == S \cup {r}
           f == [q \in S |-> q.amount]
           g == [q \in T |-> q.amount]
<1>1. /\ \A q \in S : f[q] = g[q] /\ f[q] \in Nat /\ g[q] \in Nat
      /\ g[r] = r.amount /\ r.amount \in Nat
  BY DEF Requests
<1>2. Total(S) = SumFunctionOnSet(f, S) /\ Total(T) = SumFunctionOnSet(g, T)
  BY DEF Total
<1> HIDE DEF f, g
<1>3. SumFunctionOnSet(f, S) \in Nat /\ SumFunctionOnSet(f, S) = SumFunctionOnSet(g, S)
  BY <1>1, SumType, SumSame
<1>4. SumFunctionOnSet(g, S \cup {r}) = SumFunctionOnSet(g, S) + g[r]
  BY <1>1, SumAdd
<1> QED BY <1>1, <1>2, <1>3, <1>4

FiniteLogs == IsFiniteSet(AllLogged)

LEMMA WayType ==
    ASSUME LogInv, FiniteLogs, NEW tokens
    PROVE  /\ IsFiniteSet(Way(tokens)) /\ Way(tokens) \subseteq Requests
           /\ OnTheWay(tokens) \in Nat
<1>1. Way(tokens) \subseteq AllLogged /\ AllLogged \subseteq Requests
  BY LoggedType DEF Way
<1>2. IsFiniteSet(Way(tokens))
  BY <1>1, FS_Subset DEF FiniteLogs
<1> DEFINE f == [q \in Way(tokens) |-> q.amount]
<1>3. \A q \in Way(tokens) : f[q] \in Nat
  BY <1>1 DEF Requests
<1>4. OnTheWay(tokens) = SumFunctionOnSet(f, Way(tokens))
  BY WayIs DEF Total
<1> HIDE DEF f
<1> QED BY <1>1, <1>2, <1>3, <1>4, SumType

\* A request that is logged is on the way.
LEMMA WayLogs ==
    ASSUME LogInv, FiniteLogs, processed \subseteq AllLogged, NEW r \in Requests, r \notin AllLogged,
           AllLogged' = AllLogged \cup {r}, UNCHANGED processed, NEW tokens
    PROVE  OnTheWay(tokens)' = OnTheWay(tokens) + Share(r, tokens)
<1>1. OnTheWay(tokens) = Total(Way(tokens)) /\ OnTheWay(tokens)' = Total(Way(tokens)')
  BY WayIs DEF OnTheWay, Way, AllLogged, Total
<1>2. CASE r.token \in tokens
  <2>1. Way(tokens)' = Way(tokens) \cup {r} /\ r \notin Way(tokens)
    BY <1>2 DEF Way
  <2>2. Total(Way(tokens) \cup {r}) = Total(Way(tokens)) + r.amount
    BY <2>1, WayType, TotalAdd
  <2> QED BY <1>1, <1>2, <2>1, <2>2 DEF Share
<1>3. CASE r.token \notin tokens
  <2>1. Way(tokens)' = Way(tokens)
    BY <1>3 DEF Way
  <2>2. Share(r, tokens) = 0 /\ OnTheWay(tokens) \in Nat
    BY <1>3, WayType DEF Share
  <2> QED BY <1>1, <2>1, <2>2, SMT
<1> QED BY <1>2, <1>3

\* One that is processed has arrived.
LEMMA WayArrives ==
    ASSUME LogInv, FiniteLogs, NEW r \in Requests, r \in AllLogged, r \notin processed,
           AllLogged' = AllLogged, processed' = processed \cup {r}, NEW tokens
    PROVE  /\ OnTheWay(tokens) = OnTheWay(tokens)' + Share(r, tokens)
           /\ OnTheWay(tokens)' \in Nat
<1>1. OnTheWay(tokens) = Total(Way(tokens)) /\ OnTheWay(tokens)' = Total(Way(tokens)')
  BY WayIs DEF OnTheWay, Way, AllLogged, Total
<1>2. CASE r.token \in tokens
  <2>1. Way(tokens) = Way(tokens)' \cup {r} /\ r \notin Way(tokens)'
    BY <1>2 DEF Way
  <2>2. Way(tokens)' \subseteq Requests /\ IsFiniteSet(Way(tokens)')
    BY <2>1, WayType, FS_Subset
  <2>3. Total(Way(tokens)' \cup {r}) = Total(Way(tokens)') + r.amount /\ Total(Way(tokens)') \in Nat
    BY <2>1, <2>2, TotalAdd
  <2> QED BY <1>1, <1>2, <2>1, <2>3 DEF Share
<1>3. CASE r.token \notin tokens
  <2>1. Way(tokens)' = Way(tokens)
    BY <1>3 DEF Way
  <2>2. Share(r, tokens) = 0 /\ OnTheWay(tokens) \in Nat
    BY <1>3, WayType DEF Share
  <2> QED BY <1>1, <2>1, <2>2, SMT
<1> QED BY <1>2, <1>3

\* One side of the sheet of a token is what is locked, with what was recovered and given;
\* the other is what was minted and is on the way.
Balanced(lock, taken, given, minted, way) == lock + taken + given = minted + way

\* What the setup gave to the L2 and not to Aleph Zero.
Given == PoolBAzero - Deposit

AzeroSheet ==
    Balanced(locked[WrappedAzero], recovered[WrappedAzero], Given,
             SumFunctionOnSet(supply, BAzeros), OnTheWay(Azeros))
LocalSheet(t) ==
    Balanced(locked[t], recovered[t], 0, supply[Partner[t]], OnTheWay({t, Partner[t]}))

SheetsInv == FiniteLogs /\ AzeroSheet /\ \A t \in Locals : LocalSheet(t)

\* Both sides of a sheet change alike.
LEMMA BothGrow ==
    ASSUME NEW lock \in Nat, NEW taken \in Nat, NEW given \in Int, NEW minted \in Nat, NEW way \in Nat,
           Balanced(lock, taken, given, minted, way), NEW d \in Nat
    PROVE  Balanced(lock + d, taken, given, minted, way + d)
  BY SMT DEF Balanced

LEMMA LockedArrives ==
    ASSUME NEW lock \in Nat, NEW taken \in Nat, NEW given \in Int, NEW minted \in Nat, NEW way \in Nat,
           NEW d \in Nat, Balanced(lock, taken, given, minted, way + d)
    PROVE  Balanced(lock - d, taken, given, minted, way)
  BY SMT DEF Balanced

LEMMA MintedArrives ==
    ASSUME NEW lock \in Nat, NEW taken \in Nat, NEW given \in Int, NEW minted \in Nat, NEW way \in Nat,
           NEW d \in Nat, Balanced(lock, taken, given, minted, way + d)
    PROVE  Balanced(lock, taken, given, minted + d, way)
  BY SMT DEF Balanced

LEMMA MintedLeaves ==
    ASSUME NEW lock \in Nat, NEW taken \in Nat, NEW given \in Int, NEW minted \in Nat, NEW way \in Nat,
           NEW d \in Nat, Balanced(lock, taken, given, minted, way)
    PROVE  Balanced(lock, taken, given, minted - d, way + d)
  BY SMT DEF Balanced

LEMMA LockedTaken ==
    ASSUME NEW lock \in Nat, NEW taken \in Nat, NEW given \in Int, NEW minted \in Nat, NEW way \in Nat,
           NEW d \in Nat, Balanced(lock, taken, given, minted, way)
    PROVE  Balanced(lock - d, taken + d, given, minted, way)
  BY SMT DEF Balanced

LEMMA SheetTypes ==
    ASSUME StateInv, SheetsInv
    PROVE  /\ locked[WrappedAzero] \in Nat /\ recovered[WrappedAzero] \in Nat
           /\ Given \in Int /\ 0 \in Int
           /\ SumFunctionOnSet(supply, BAzeros) \in Nat /\ OnTheWay(Azeros) \in Nat
           /\ \A t \in Locals : /\ locked[t] \in Nat /\ recovered[t] \in Nat
                                /\ supply[Partner[t]] \in Nat
                                /\ OnTheWay({t, Partner[t]}) \in Nat
           /\ \A b \in BAzeros : supply[b] \in Nat
<1>1. MoneyInv /\ LogInv /\ FiniteLogs
  BY DEF StateInv, SheetsInv
<1>2. \A b \in BAzeros : supply[b] \in Nat
  BY <1>1, TokensAre DEF MoneyInv
<1>3. SumFunctionOnSet(supply, BAzeros) \in Nat
  BY <1>2, L2BridgeAssumption, SumType
<1>4. \A t \in Locals \cup {WrappedAzero} : locked[t] \in Nat /\ recovered[t] \in Nat
  BY <1>1, TokensAre DEF MoneyInv
<1>5. \A t \in Locals : supply[Partner[t]] \in Nat
  BY <1>1, Pairs, TokensAre DEF MoneyInv
<1>6. \A tokens : OnTheWay(tokens) \in Nat
  BY <1>1, WayType
<1>7. Given \in Int /\ 0 \in Int
  BY Numbers, SMT DEF Given
<1> QED BY <1>2, <1>3, <1>4, <1>5, <1>6, <1>7

LEMMA EmitWay ==
    ASSUME StateInv, SheetsInv, NEW c \in Chains,
           NEW token \in (IF c = "azero" THEN Tokens.l2 ELSE Tokens.azero) \cup {Zero}, NEW amount \in Nat,
           Emit(c, token, amount), UNCHANGED voting
    PROVE  /\ FiniteLogs'
           /\ \A tokens : token \in tokens => OnTheWay(tokens)' = OnTheWay(tokens) + amount
           /\ \A tokens : token \notin tokens => OnTheWay(tokens)' = OnTheWay(tokens)
<1>1. PICK r \in Requests : /\ r.token = token /\ r.amount = amount
                            /\ r \notin AllLogged
                            /\ AllLogged' = AllLogged \cup {r}
  BY EmitLogs DEF StateInv, ConfInv
<1>2. /\ LogInv /\ FiniteLogs /\ processed \subseteq AllLogged /\ UNCHANGED processed
  BY DEF StateInv, SheetsInv, VotingInv, voting
<1>3. FiniteLogs'
  BY <1>1, <1>2, FS_AddElement DEF FiniteLogs
<1>4. ASSUME NEW tokens PROVE OnTheWay(tokens)' = OnTheWay(tokens) + Share(r, tokens)
  BY <1>1, <1>2, WayLogs
<1>5. ASSUME NEW tokens, token \notin tokens PROVE OnTheWay(tokens)' = OnTheWay(tokens)
  <2>1. Share(r, tokens) = 0 /\ OnTheWay(tokens) \in Nat
    BY <1>1, <1>2, <1>5, WayType DEF Share
  <2> QED BY <1>4, <2>1, SMT
<1>6. ASSUME NEW tokens, token \in tokens PROVE OnTheWay(tokens)' = OnTheWay(tokens) + amount
  BY <1>1, <1>4, <1>6 DEF Share
<1> QED BY <1>3, <1>5, <1>6

LEMMA LocksSheets ==
    ASSUME StateInv, SheetsInv, NEW t \in Tokens.azero, NEW token, NEW amount \in Nat,
           Locks(t, token, amount)
    PROVE  SheetsInv'
<1>1. /\ token \in Tokens.l2 \cup {Zero} /\ "azero" \in Chains
      /\ Emit("azero", token, amount) /\ UNCHANGED voting
  BY Pairs DEF Locks, Chains
<1>2. /\ FiniteLogs'
      /\ \A tokens : token \in tokens => OnTheWay(tokens)' = OnTheWay(tokens) + amount
      /\ \A tokens : token \notin tokens => OnTheWay(tokens)' = OnTheWay(tokens)
  BY <1>1, EmitWay
<1>3. /\ locked'[t] = locked[t] + amount
      /\ \A u \in Tokens.azero \ {t} : locked'[u] = locked[u]
      /\ UNCHANGED <<recovered, supply>>
  BY DEF Locks, StateInv, MoneyInv
<1>4. AzeroSheet'
  <2>1. CASE t = WrappedAzero
    <3>1. token \in Azeros
      BY <2>1, Pairs, AzerosAre DEF Locks
    <3>2. OnTheWay(Azeros)' = OnTheWay(Azeros) + amount
      BY <1>2, <3>1
    <3>3. Balanced(locked[WrappedAzero] + amount, recovered[WrappedAzero], Given,
                   SumFunctionOnSet(supply, BAzeros), OnTheWay(Azeros) + amount)
      BY SheetTypes, BothGrow DEF SheetsInv, AzeroSheet
    <3> QED BY <1>3, <2>1, <3>2, <3>3 DEF AzeroSheet
  <2>2. CASE t # WrappedAzero
    <3>1. token \notin Azeros
      BY <2>2, Pairs, AzerosAre, TokensAre DEF Locks
    <3>2. OnTheWay(Azeros)' = OnTheWay(Azeros)
      BY <1>2, <3>1
    <3>3. locked'[WrappedAzero] = locked[WrappedAzero]
      BY <1>3, <2>2, TokensAre
    <3> QED BY <1>3, <3>2, <3>3 DEF SheetsInv, AzeroSheet
  <2> QED BY <2>1, <2>2
<1>5. ASSUME NEW u \in Locals PROVE LocalSheet(u)'
  <2>1. u \in Tokens.azero
    BY TokensAre
  <2>2. CASE t = u
    <3>1. token \in {u, Partner[u]}
      BY <2>2, TokensDiffer DEF Locks
    <3>2. OnTheWay({u, Partner[u]})' = OnTheWay({u, Partner[u]}) + amount
      BY <1>2, <3>1
    <3>3. Balanced(locked[u] + amount, recovered[u], 0, supply[Partner[u]],
                   OnTheWay({u, Partner[u]}) + amount)
      BY SheetTypes, BothGrow DEF SheetsInv, LocalSheet
    <3> QED BY <1>3, <2>2, <3>2, <3>3 DEF LocalSheet
  <2>3. CASE t # u
    <3>1. token \notin {u, Partner[u]}
      BY <2>3, Pairs, TokensAre, TokensDiffer DEF Locks
    <3>2. OnTheWay({u, Partner[u]})' = OnTheWay({u, Partner[u]})
      BY <1>2, <3>1
    <3>3. locked'[u] = locked[u]
      BY <1>3, <2>1, <2>3
    <3> QED BY <1>3, <3>2, <3>3 DEF SheetsInv, LocalSheet
  <2> QED BY <2>2, <2>3
<1> QED BY <1>2, <1>4, <1>5 DEF SheetsInv

\* The bAZERO there is, when one of them changes or none.
LEMMA CoinsMinted ==
    ASSUME StateInv, NEW b \in BAzeros, NEW f, NEW k \in Nat,
           \A u \in BAzeros \ {b} : f[u] = supply[u], f[b] = supply[b] + k
    PROVE  SumFunctionOnSet(f, BAzeros) = SumFunctionOnSet(supply, BAzeros) + k
<1>1. \A u \in BAzeros : supply[u] \in Nat
  BY TokensAre DEF StateInv, MoneyInv
<1>2. IsFiniteSet(BAzeros)
  BY L2BridgeAssumption
<1> QED BY <1>1, <1>2, SumIncrement

LEMMA CoinsBurned ==
    ASSUME StateInv, NEW b \in BAzeros, NEW f, NEW k \in Nat, \A u \in BAzeros : f[u] \in Nat,
           \A u \in BAzeros \ {b} : supply[u] = f[u], f[b] = supply[b] - k
    PROVE  SumFunctionOnSet(f, BAzeros) = SumFunctionOnSet(supply, BAzeros) - k
<1>1. (\A u \in BAzeros : supply[u] \in Nat) /\ IsFiniteSet(BAzeros)
  BY TokensAre, L2BridgeAssumption DEF StateInv, MoneyInv
<1>2. SumFunctionOnSet(f, BAzeros) + supply[b] = SumFunctionOnSet(supply, BAzeros) + f[b]
  BY <1>1, SumUpdate
<1> DEFINE after == SumFunctionOnSet(f, BAzeros)
           before == SumFunctionOnSet(supply, BAzeros)
           total == supply[b]
<1>3. after \in Nat /\ before \in Nat /\ total \in Nat /\ after + total = before + (total - k)
  BY <1>1, <1>2, SumType
<1> HIDE DEF after, before, total
<1>4. after = before - k
  BY <1>3, SMT
<1> QED BY <1>4 DEF after, before

LEMMA SwapsSheets ==
    ASSUME StateInv, SheetsInv, NEW out \in Nat, Swaps(out)
    PROVE  SheetsInv'
<1>1. "l2" \in Chains /\ Emit("l2", Zero, out) /\ UNCHANGED voting
  BY DEF Swaps, Chains
<1>2. /\ FiniteLogs'
      /\ \A tokens : Zero \in tokens => OnTheWay(tokens)' = OnTheWay(tokens) + out
      /\ \A tokens : Zero \notin tokens => OnTheWay(tokens)' = OnTheWay(tokens)
  BY <1>1, EmitWay
<1>3. /\ supply \in [Tokens.l2 -> Nat] /\ supply' = [supply EXCEPT ![PoolCoin] = @ - out]
      /\ supply[PoolCoin] \in Nat /\ PoolCoin \in Tokens.l2 /\ out <= pool.bAzero
      /\ pool.bAzero \in Nat /\ pool.bAzero <= supply[PoolCoin]
      /\ UNCHANGED <<locked, recovered>>
  BY MoneyTypes DEF Swaps, StateInv, MoneyInv
<1>4. /\ supply'[PoolCoin] = supply[PoolCoin] - out
      /\ \A u \in Tokens.l2 \ {PoolCoin} : supply'[u] = supply[u]
  BY <1>3
<1>5. SumFunctionOnSet(supply', BAzeros) = SumFunctionOnSet(supply, BAzeros) - out
  <2>1. /\ \A u \in BAzeros : supply[u] \in Nat /\ supply'[u] \in Nat
        /\ \A u \in BAzeros \ {PoolCoin} : supply[u] = supply'[u]
    <3>1. supply[PoolCoin] - out \in Nat
      <4> DEFINE total == supply[PoolCoin]
                 owned == pool.bAzero
      <4>1. total \in Nat /\ owned \in Nat /\ out <= owned /\ owned <= total
        BY <1>3
      <4> HIDE DEF total, owned
      <4>2. total - out \in Nat
        BY <4>1, SMT
      <4> QED BY <4>2 DEF total
    <3> QED BY <1>3, <1>4, <3>1, TokensAre
  <2> QED BY <1>4, <2>1, CoinsBurned, L2BridgeAssumption
<1>6. AzeroSheet'
  <2>1. OnTheWay(Azeros)' = OnTheWay(Azeros) + out
    BY <1>2, AzerosAre
  <2>2. Balanced(locked[WrappedAzero], recovered[WrappedAzero], Given,
                 SumFunctionOnSet(supply, BAzeros) - out, OnTheWay(Azeros) + out)
    BY SheetTypes, MintedLeaves DEF SheetsInv, AzeroSheet
  <2> QED BY <1>3, <1>5, <2>1, <2>2 DEF AzeroSheet
<1>7. ASSUME NEW u \in Locals PROVE LocalSheet(u)'
  <2>1. /\ Zero \notin {u, Partner[u]} /\ Partner[u] # PoolCoin /\ Partner[u] \in Tokens.l2
    BY Pairs, TokensAre, TokensDiffer
  <2>2. OnTheWay({u, Partner[u]})' = OnTheWay({u, Partner[u]}) /\ supply'[Partner[u]] = supply[Partner[u]]
    BY <1>2, <1>4, <2>1
  <2> QED BY <1>3, <2>2 DEF SheetsInv, LocalSheet
<1> QED BY <1>2, <1>6, <1>7 DEF SheetsInv

\* The sum of all bAZERO depends on bAZERO only.
LEMMA CoinsKept ==
    ASSUME StateInv, \A b \in BAzeros : supply'[b] = supply[b]
    PROVE  SumFunctionOnSet(supply', BAzeros) = SumFunctionOnSet(supply, BAzeros)
<1>1. IsFiniteSet(BAzeros)
  BY L2BridgeAssumption
<1> QED BY <1>1, SumSame

LEMMA BurnsSheets ==
    ASSUME StateInv, SheetsInv, NEW w \in Tokens.l2, NEW amount \in Nat, Burns(w, amount)
    PROVE  SheetsInv'
<1>1. "l2" \in Chains /\ Partner[w] \in Tokens.azero /\ Emit("l2", Partner[w], amount) /\ UNCHANGED voting
  BY Pairs DEF Burns, Chains
<1>2. /\ FiniteLogs'
      /\ \A tokens : Partner[w] \in tokens => OnTheWay(tokens)' = OnTheWay(tokens) + amount
      /\ \A tokens : Partner[w] \notin tokens => OnTheWay(tokens)' = OnTheWay(tokens)
  BY <1>1, EmitWay
<1>3. /\ supply \in [Tokens.l2 -> Nat] /\ supply' = [supply EXCEPT ![w] = @ - amount]
      /\ UNCHANGED <<locked, recovered>>
  BY DEF Burns, StateInv, MoneyInv
<1>4. /\ supply'[w] = supply[w] - amount
      /\ \A u \in Tokens.l2 \ {w} : supply'[u] = supply[u]
  BY <1>3
<1>5. AzeroSheet'
  <2>1. CASE w \in BAzeros
    <3>1. OnTheWay(Azeros)' = OnTheWay(Azeros) + amount
      BY <1>2, <2>1, Pairs, AzerosAre
    <3>2. SumFunctionOnSet(supply', BAzeros) = SumFunctionOnSet(supply, BAzeros) - amount
      <4>1. /\ \A u \in BAzeros : supply'[u] \in Nat
            /\ \A u \in BAzeros \ {w} : supply[u] = supply'[u]
        <5>1. MoneyInv'
          BY BurnsMoney DEF StateInv
        <5> QED BY <1>4, <5>1, TokensAre DEF MoneyInv
      <4> QED BY <1>4, <2>1, <4>1, CoinsBurned
    <3>3. Balanced(locked[WrappedAzero], recovered[WrappedAzero], Given,
                   SumFunctionOnSet(supply, BAzeros) - amount, OnTheWay(Azeros) + amount)
      BY SheetTypes, MintedLeaves DEF SheetsInv, AzeroSheet
    <3> QED BY <1>3, <3>1, <3>2, <3>3 DEF AzeroSheet
  <2>2. CASE w \notin BAzeros
    <3>1. OnTheWay(Azeros)' = OnTheWay(Azeros)
      BY <1>2, <2>2, Pairs, AzerosAre, TokensAre
    <3>2. \A b \in BAzeros : supply'[b] = supply[b]
      BY <1>4, <2>2, TokensAre
    <3>3. SumFunctionOnSet(supply', BAzeros) = SumFunctionOnSet(supply, BAzeros)
      BY <3>2, CoinsKept
    <3> QED BY <1>3, <3>1, <3>3 DEF SheetsInv, AzeroSheet
  <2> QED BY <2>1, <2>2
<1>6. ASSUME NEW u \in Locals PROVE LocalSheet(u)'
  <2>1. CASE Partner[u] = w
    <3>1. Partner[w] \in {u, Partner[u]}
      BY <2>1, Pairs
    <3>2. OnTheWay({u, Partner[u]})' = OnTheWay({u, Partner[u]}) + amount
      BY <1>2, <3>1
    <3>3. Balanced(locked[u], recovered[u], 0, supply[Partner[u]] - amount,
                   OnTheWay({u, Partner[u]}) + amount)
      BY SheetTypes, MintedLeaves DEF SheetsInv, LocalSheet
    <3>4. supply'[Partner[u]] = supply[Partner[u]] - amount
      BY <1>4, <2>1
    <3> QED BY <1>3, <3>2, <3>3, <3>4 DEF LocalSheet
  <2>2. CASE Partner[u] # w
    <3>1. Partner[w] \notin {u, Partner[u]} /\ Partner[u] \in Tokens.l2
      BY <1>1, <2>2, Pairs, TokensAre, TokensDiffer
    <3>2. OnTheWay({u, Partner[u]})' = OnTheWay({u, Partner[u]}) /\ supply'[Partner[u]] = supply[Partner[u]]
      BY <1>2, <1>4, <2>2, <3>1
    <3> QED BY <1>3, <3>2 DEF SheetsInv, LocalSheet
  <2> QED BY <2>1, <2>2
<1> QED BY <1>2, <1>5, <1>6 DEF SheetsInv

\* What a deciding vote takes off the way.
LEMMA ArrivesWay ==
    ASSUME StateInv, SheetsInv, NEW r \in AllLogged, r \notin processed, UNCHANGED log,
           processed' = processed \cup {r}
    PROVE  /\ FiniteLogs'
           /\ \A tokens : OnTheWay(tokens)' \in Nat
           /\ \A tokens : r.token \in tokens => OnTheWay(tokens) = OnTheWay(tokens)' + r.amount
           /\ \A tokens : r.token \notin tokens => OnTheWay(tokens)' = OnTheWay(tokens)
<1>1. LogInv /\ FiniteLogs /\ AllLogged' = AllLogged /\ r \in Requests
  BY LoggedType DEF StateInv, SheetsInv, log, AllLogged, Logged
<1>2. FiniteLogs'
  BY <1>1 DEF FiniteLogs
<1>3. ASSUME NEW tokens
      PROVE  OnTheWay(tokens) = OnTheWay(tokens)' + Share(r, tokens) /\ OnTheWay(tokens)' \in Nat
  BY <1>1, WayArrives
<1>4. ASSUME NEW tokens, r.token \notin tokens PROVE OnTheWay(tokens)' = OnTheWay(tokens)
  <2>1. Share(r, tokens) = 0
    BY <1>4 DEF Share
  <2>2. OnTheWay(tokens) = OnTheWay(tokens)' + 0 /\ OnTheWay(tokens)' \in Nat
    BY <1>3, <2>1
  <2> QED BY <2>2, SMT
<1>5. ASSUME NEW tokens, r.token \in tokens PROVE OnTheWay(tokens) = OnTheWay(tokens)' + r.amount
  BY <1>3, <1>5 DEF Share
<1> QED BY <1>2, <1>3, <1>4, <1>5

\* Aleph Zero pays out what is locked.
LEMMA PayAzeroSheets ==
    ASSUME StateInv, SheetsInv, NEW r \in AllLogged, r \notin processed, UNCHANGED <<log, recovered>>,
           processed' = processed \cup {r}, PayAzero(r)
    PROVE  SheetsInv'
<1>1. r.amount \in Nat /\ r.token \in Tokens.azero \cup {Zero}
  <2>1. r \in Requests /\ r \in Logged(Other(r.to)) /\ r.to = "azero"
    BY LoggedType DEF StateInv, PayAzero
  <2>2. Other("azero") = "l2" /\ "l2" \in Chains
    BY DEF Other, Chains
  <2>3. r \in From("l2")
    BY <2>1, <2>2, LoggedType DEF StateInv
  <2> QED BY <2>1, <2>3, RequestParts DEF From
<1>2. /\ FiniteLogs'
      /\ \A tokens : OnTheWay(tokens)' \in Nat
      /\ \A tokens : r.token \in tokens => OnTheWay(tokens) = OnTheWay(tokens)' + r.amount
      /\ \A tokens : r.token \notin tokens => OnTheWay(tokens)' = OnTheWay(tokens)
  BY ArrivesWay
<1> DEFINE t == IF r.token = Zero THEN WrappedAzero ELSE r.token
<1>3. t \in Tokens.azero /\ locked' = [locked EXCEPT ![t] = @ - r.amount] /\ UNCHANGED <<supply, recovered>>
  BY DEF PayAzero, StateInv, ConfInv, SettingsInv, l2
<1>4. locked'[t] = locked[t] - r.amount /\ \A u \in Tokens.azero \ {t} : locked'[u] = locked[u]
  BY <1>3 DEF StateInv, MoneyInv
<1>5. (t = WrappedAzero <=> r.token \in Azeros) /\ (r.token \notin Azeros => t = r.token)
      /\ (r.token # Zero => t = r.token)
  BY <1>1, AzerosAre, TokensAre
<1> HIDE DEF t
<1>6. AzeroSheet'
  <2>1. CASE r.token \in Azeros
    <3>1. OnTheWay(Azeros) = OnTheWay(Azeros)' + r.amount /\ OnTheWay(Azeros)' \in Nat
      BY <1>2, <2>1
    <3>2. Balanced(locked[WrappedAzero], recovered[WrappedAzero], Given,
                   SumFunctionOnSet(supply, BAzeros), OnTheWay(Azeros)' + r.amount)
      BY <3>1 DEF SheetsInv, AzeroSheet
    <3>3. Balanced(locked[WrappedAzero] - r.amount, recovered[WrappedAzero], Given,
                   SumFunctionOnSet(supply, BAzeros), OnTheWay(Azeros)')
      BY <1>1, <3>1, <3>2, SheetTypes, LockedArrives
    <3>4. locked'[WrappedAzero] = locked[WrappedAzero] - r.amount
      BY <1>4, <1>5, <2>1
    <3> QED BY <1>3, <3>3, <3>4 DEF AzeroSheet
  <2>2. CASE r.token \notin Azeros
    <3>1. OnTheWay(Azeros)' = OnTheWay(Azeros)
      BY <1>2, <2>2
    <3>2. locked'[WrappedAzero] = locked[WrappedAzero]
      BY <1>4, <1>5, <2>2, TokensAre
    <3> QED BY <1>3, <3>1, <3>2 DEF SheetsInv, AzeroSheet
  <2> QED BY <2>1, <2>2
<1>7. ASSUME NEW u \in Locals PROVE LocalSheet(u)'
  <2>1. CASE r.token = u
    <3>1. OnTheWay({u, Partner[u]}) = OnTheWay({u, Partner[u]})' + r.amount
          /\ OnTheWay({u, Partner[u]})' \in Nat
      BY <1>2, <2>1
    <3>2. Balanced(locked[u], recovered[u], 0, supply[Partner[u]], OnTheWay({u, Partner[u]})' + r.amount)
      BY <3>1 DEF SheetsInv, LocalSheet
    <3>3. Balanced(locked[u] - r.amount, recovered[u], 0, supply[Partner[u]], OnTheWay({u, Partner[u]})')
      BY <1>1, <3>1, <3>2, SheetTypes, LockedArrives
    <3>4. locked'[u] = locked[u] - r.amount
      BY <1>4, <1>5, <2>1, TokensDiffer
    <3> QED BY <1>3, <3>3, <3>4 DEF LocalSheet
  <2>2. CASE r.token # u
    <3>1. r.token \notin {u, Partner[u]} /\ u \in Tokens.azero \ {t}
      BY <1>1, <1>5, <2>2, Pairs, TokensAre, TokensDiffer
    <3>2. OnTheWay({u, Partner[u]})' = OnTheWay({u, Partner[u]})
      BY <1>2, <3>1
    <3>3. locked'[u] = locked[u]
      BY <1>4, <3>1
    <3> QED BY <1>3, <3>2, <3>3 DEF SheetsInv, LocalSheet
  <2> QED BY <2>1, <2>2
<1> QED BY <1>2, <1>6, <1>7 DEF SheetsInv

\* The L2 mints, whatever becomes of what was minted.
LEMMA MintSheets ==
    ASSUME StateInv, SheetsInv, NEW r \in AllLogged, r \notin processed, UNCHANGED <<log, recovered>>,
           processed' = processed \cup {r}, RemoteTokenTransfer(r) \/ NativeTransfer(r)
    PROVE  SheetsInv'
<1>1. r.amount \in Nat /\ r.token \in Tokens.l2 \cup {Zero}
  <2>1. r \in Requests /\ r \in Logged(Other(r.to)) /\ r.to = "l2"
    BY LoggedType DEF StateInv, RemoteTokenTransfer, NativeTransfer
  <2>2. Other("l2") = "azero" /\ "azero" \in Chains
    BY DEF Other, Chains
  <2>3. r \in From("azero")
    BY <2>1, <2>2, LoggedType DEF StateInv
  <2> QED BY <2>1, <2>3, RequestParts DEF From
<1>2. /\ FiniteLogs'
      /\ \A tokens : OnTheWay(tokens)' \in Nat
      /\ \A tokens : r.token \in tokens => OnTheWay(tokens) = OnTheWay(tokens)' + r.amount
      /\ \A tokens : r.token \notin tokens => OnTheWay(tokens)' = OnTheWay(tokens)
  BY ArrivesWay
<1> DEFINE t == IF r.token = Zero THEN bAzeroAddress ELSE r.token
<1>3. supply' = [supply EXCEPT ![t] = @ + r.amount] /\ UNCHANGED <<locked, recovered>>
  BY DEF RemoteTokenTransfer, NativeTransfer, azero
<1>4. /\ t \in Tokens.l2
      /\ r.token \in Azeros => t \in BAzeros
      /\ r.token \notin Azeros => t = r.token /\ t \in Wrapped
      /\ r.token # Zero => t = r.token
  BY <1>1, AzerosAre, TokensAre DEF StateInv, ConfInv, SettingsInv
<1> HIDE DEF t
<1>5. supply'[t] = supply[t] + r.amount /\ \A u \in Tokens.l2 \ {t} : supply'[u] = supply[u]
  BY <1>3, <1>4 DEF StateInv, MoneyInv
<1>6. AzeroSheet'
  <2>1. CASE r.token \in Azeros
    <3>1. OnTheWay(Azeros) = OnTheWay(Azeros)' + r.amount /\ OnTheWay(Azeros)' \in Nat
      BY <1>2, <2>1
    <3>2. Balanced(locked[WrappedAzero], recovered[WrappedAzero], Given,
                   SumFunctionOnSet(supply, BAzeros), OnTheWay(Azeros)' + r.amount)
      BY <3>1 DEF SheetsInv, AzeroSheet
    <3>3. Balanced(locked[WrappedAzero], recovered[WrappedAzero], Given,
                   SumFunctionOnSet(supply, BAzeros) + r.amount, OnTheWay(Azeros)')
      BY <1>1, <3>1, <3>2, SheetTypes, MintedArrives
    <3>4. SumFunctionOnSet(supply', BAzeros) = SumFunctionOnSet(supply, BAzeros) + r.amount
      <4>1. t \in BAzeros /\ \A u \in BAzeros \ {t} : supply'[u] = supply[u]
        BY <1>4, <1>5, <2>1, TokensAre
      <4> QED BY <1>1, <1>5, <4>1, CoinsMinted
    <3> QED BY <1>3, <3>3, <3>4 DEF AzeroSheet
  <2>2. CASE r.token \notin Azeros
    <3>1. OnTheWay(Azeros)' = OnTheWay(Azeros)
      BY <1>2, <2>2
    <3>2. \A b \in BAzeros : supply'[b] = supply[b]
      BY <1>4, <1>5, <2>2, TokensAre, TokensDiffer
    <3>3. SumFunctionOnSet(supply', BAzeros) = SumFunctionOnSet(supply, BAzeros)
      BY <3>2, CoinsKept
    <3> QED BY <1>3, <3>1, <3>3 DEF SheetsInv, AzeroSheet
  <2> QED BY <2>1, <2>2
<1>7. ASSUME NEW u \in Locals PROVE LocalSheet(u)'
  <2>1. CASE r.token = Partner[u]
    <3>1. OnTheWay({u, Partner[u]}) = OnTheWay({u, Partner[u]})' + r.amount
          /\ OnTheWay({u, Partner[u]})' \in Nat
      BY <1>2, <2>1
    <3>2. Balanced(locked[u], recovered[u], 0, supply[Partner[u]], OnTheWay({u, Partner[u]})' + r.amount)
      BY <3>1 DEF SheetsInv, LocalSheet
    <3>3. Balanced(locked[u], recovered[u], 0, supply[Partner[u]] + r.amount, OnTheWay({u, Partner[u]})')
      BY <1>1, <3>1, <3>2, SheetTypes, MintedArrives
    <3>4. supply'[Partner[u]] = supply[Partner[u]] + r.amount
      BY <1>4, <1>5, <2>1, Pairs, TokensDiffer
    <3> QED BY <1>3, <3>3, <3>4 DEF LocalSheet
  <2>2. CASE r.token # Partner[u]
    <3>1. r.token \notin {u, Partner[u]} /\ Partner[u] \in Tokens.l2 \ {t}
      BY <1>1, <1>4, <2>2, Pairs, TokensAre, TokensDiffer
    <3>2. OnTheWay({u, Partner[u]})' = OnTheWay({u, Partner[u]})
      BY <1>2, <3>1
    <3>3. supply'[Partner[u]] = supply[Partner[u]]
      BY <1>5, <3>1
    <3> QED BY <1>3, <3>2, <3>3 DEF SheetsInv, LocalSheet
  <2> QED BY <2>1, <2>2
<1> QED BY <1>2, <1>6, <1>7 DEF SheetsInv

\* The sheets depend on these only.
LEMMA SheetsKept ==
    ASSUME SheetsInv, UNCHANGED <<log, processed, locked, supply, recovered>>
    PROVE  SheetsInv'
<1>1. AllLogged' = AllLogged
  BY DEF log, AllLogged, Logged
<1>2. \A tokens : OnTheWay(tokens)' = OnTheWay(tokens)
  BY DEF log, OnTheWay, Logged, Total
<1>3. FiniteLogs'
  BY <1>1 DEF SheetsInv, FiniteLogs
<1>4. AzeroSheet'
  BY <1>2 DEF SheetsInv, AzeroSheet
<1>5. \A t \in Locals : LocalSheet(t)'
  BY <1>2 DEF SheetsInv, LocalSheet
<1> QED BY <1>3, <1>4, <1>5 DEF SheetsInv

LEMMA ReceiveSheets ==
    ASSUME StateInv, SheetsInv, Receive
    PROVE  SheetsInv'
<1>1. PICK g \in Guardians : \E r :
        /\ (g \in Faulty /\ r \in Forged) \/ \E c \in Chains : r \in Logged(c)
        /\ ReceiveRequest(g, r)
  BY ReceiveKinds
<1>2. PICK r : /\ (g \in Faulty /\ r \in Forged) \/ \E c \in Chains : r \in Logged(c)
               /\ ReceiveRequest(g, r)
  BY <1>1
<1>3. r \in Requests /\ (g \in Faulty \/ r \in AllLogged)
  BY <1>2, VotedRequest DEF StateInv
<1>4. UNCHANGED <<members, log, recovered>>
  BY <1>2, ReceiveSettings
<1>5. AllLogged' = AllLogged
  BY <1>4 DEF log, AllLogged, Logged
<1>6. r \in processed' => r \in AllLogged
  BY <1>2, <1>3, <1>4, <1>5, VotingReceive DEF StateInv, ConfInv
<1>7. r \notin processed
  BY <1>2 DEF ReceiveRequest, NeedsSignature
<1>8. CASE /\ processed' = processed \cup {r}
           /\ PayAzero(r) \/ RemoteTokenTransfer(r) \/ NativeTransfer(r)
  <2>1. r \in AllLogged
    BY <1>6, <1>8
  <2> QED BY <1>4, <1>7, <1>8, <2>1, PayAzeroSheets, MintSheets
<1>9. CASE UNCHANGED <<processed, coin, azero, l2>>
  <2>1. UNCHANGED <<processed, locked, supply>>
    BY <1>9 DEF azero, l2
  <2> QED BY <1>4, <2>1, SheetsKept
<1> QED BY <1>2, <1>8, <1>9 DEF ReceiveRequest

\* The owner takes out what was locked; coins are on no sheet.
LEMMA RecoverSheets ==
    ASSUME StateInv, SheetsInv, NEW t \in Tokens.azero, NEW amount \in Nat, RecoverPsp22(t, amount)
    PROVE  SheetsInv'
<1>1. /\ locked' = [locked EXCEPT ![t] = @ - amount]
      /\ recovered' = [recovered EXCEPT ![t] = @ + amount]
      /\ UNCHANGED <<log, processed, supply>>
  BY DEF RecoverPsp22, l2, voting
<1>2. /\ locked'[t] = locked[t] - amount /\ recovered'[t] = recovered[t] + amount
      /\ \A u \in Tokens.azero \ {t} : locked'[u] = locked[u] /\ recovered'[u] = recovered[u]
  BY <1>1 DEF StateInv, MoneyInv
<1>3. AllLogged' = AllLogged /\ \A tokens : OnTheWay(tokens)' = OnTheWay(tokens)
  BY <1>1 DEF log, AllLogged, OnTheWay, Logged, Total
<1>4. FiniteLogs'
  BY <1>3 DEF SheetsInv, FiniteLogs
<1>5. AzeroSheet'
  <2>1. CASE t = WrappedAzero
    <3>1. Balanced(locked[WrappedAzero] - amount, recovered[WrappedAzero] + amount, Given,
                   SumFunctionOnSet(supply, BAzeros), OnTheWay(Azeros))
      BY SheetTypes, LockedTaken DEF SheetsInv, AzeroSheet
    <3> QED BY <1>1, <1>2, <1>3, <2>1, <3>1 DEF AzeroSheet
  <2>2. CASE t # WrappedAzero
    <3>1. locked'[WrappedAzero] = locked[WrappedAzero] /\ recovered'[WrappedAzero] = recovered[WrappedAzero]
      BY <1>2, <2>2, TokensAre
    <3> QED BY <1>1, <1>3, <3>1 DEF SheetsInv, AzeroSheet
  <2> QED BY <2>1, <2>2
<1>6. ASSUME NEW u \in Locals PROVE LocalSheet(u)'
  <2>1. CASE t = u
    <3>1. Balanced(locked[u] - amount, recovered[u] + amount, 0, supply[Partner[u]],
                   OnTheWay({u, Partner[u]}))
      BY SheetTypes, LockedTaken DEF SheetsInv, LocalSheet
    <3> QED BY <1>1, <1>2, <1>3, <2>1, <3>1 DEF LocalSheet
  <2>2. CASE t # u
    <3>1. locked'[u] = locked[u] /\ recovered'[u] = recovered[u]
      BY <1>2, <2>2, TokensAre
    <3> QED BY <1>1, <1>3, <3>1 DEF SheetsInv, LocalSheet
  <2> QED BY <2>1, <2>2
<1> QED BY <1>4, <1>5, <1>6 DEF SheetsInv

LEMMA RecoverCoinSheets ==
    ASSUME StateInv, SheetsInv, NEW c \in Chains, NEW amount \in Nat, RecoverCoin(c, amount)
    PROVE  SheetsInv'
<1>1. /\ recovered' = [recovered EXCEPT ![c] = @ + amount]
      /\ UNCHANGED <<log, processed, locked, supply>>
  BY DEF RecoverCoin, azero, l2, voting
<1>2. \A u \in Tokens.azero : recovered'[u] = recovered[u]
  BY <1>1, TokensAre, TokensDiffer DEF StateInv, MoneyInv
<1>3. AllLogged' = AllLogged /\ \A tokens : OnTheWay(tokens)' = OnTheWay(tokens)
  BY <1>1 DEF log, AllLogged, OnTheWay, Logged, Total
<1>4. FiniteLogs'
  BY <1>3 DEF SheetsInv, FiniteLogs
<1>5. AzeroSheet'
  <2>1. recovered'[WrappedAzero] = recovered[WrappedAzero]
    BY <1>2, TokensAre
  <2> QED BY <1>1, <1>3, <2>1 DEF SheetsInv, AzeroSheet
<1>6. ASSUME NEW u \in Locals PROVE LocalSheet(u)'
  <2>1. recovered'[u] = recovered[u]
    BY <1>2, TokensAre
  <2> QED BY <1>1, <1>3, <2>1 DEF SheetsInv, LocalSheet
<1> QED BY <1>4, <1>5, <1>6 DEF SheetsInv

LEMMA SheetsInit == Init => SheetsInv
<1> SUFFICES ASSUME Init PROVE SheetsInv
  OBVIOUS
<1>1. StateInv
  BY StateInit
<1>2. AllLogged = {}
  <2>1. \A c \in Chains : sent[c] = <<>>
    BY DEF Init
  <2>2. Len(<<>>) = 0 /\ 1 .. 0 = {}
    BY SMT
  <2>3. \A c \in Chains : Logged(c) = {}
    BY <2>1, <2>2 DEF Logged
  <2> QED BY <2>3 DEF AllLogged, Chains
<1>3. FiniteLogs
  BY <1>2, FS_EmptySet DEF FiniteLogs
<1>4. \A tokens : OnTheWay(tokens) = 0
  <2> TAKE tokens
  <2>1. Way(tokens) = {}
    BY <1>2 DEF Way
  <2> QED BY <2>1, WayIs, SumEmpty DEF Total
<1>5. /\ \A u \in Tokens.azero : locked[u] = (IF u = WrappedAzero THEN Deposit ELSE 0) /\ recovered[u] = 0
      /\ \A u \in Tokens.l2 : supply[u] = IF u = PoolCoin THEN PoolBAzero ELSE 0
  BY DEF Init
<1>6. SumFunctionOnSet(supply, BAzeros) = PoolBAzero
  <2> DEFINE none == [u \in BAzeros |-> 0]
  <2>1. IsFiniteSet(BAzeros) /\ PoolCoin \in BAzeros
    BY L2BridgeAssumption
  <2>2. /\ \A u \in BAzeros : none[u] \in Nat /\ none[u] = 0
        /\ \A u \in BAzeros \ {PoolCoin} : supply[u] = none[u]
        /\ supply[PoolCoin] = none[PoolCoin] + PoolBAzero
    BY <1>5, <2>1, Numbers, TokensAre
  <2> HIDE DEF none
  <2>3. SumFunctionOnSet(none, BAzeros) = 0
    BY <2>1, <2>2, SumZero
  <2>4. SumFunctionOnSet(supply, BAzeros) = SumFunctionOnSet(none, BAzeros) + PoolBAzero
    BY <2>1, <2>2, Numbers, SumIncrement
  <2> QED BY <2>3, <2>4, Numbers, SMT
<1>7. AzeroSheet
  <2>1. locked[WrappedAzero] = Deposit /\ recovered[WrappedAzero] = 0 /\ OnTheWay(Azeros) = 0
    BY <1>4, <1>5, TokensAre
  <2>2. Balanced(Deposit, 0, Given, PoolBAzero, 0)
    BY Numbers, SMT DEF Balanced, Given
  <2> QED BY <1>6, <2>1, <2>2 DEF AzeroSheet
<1>8. ASSUME NEW u \in Locals PROVE LocalSheet(u)
  <2>1. locked[u] = 0 /\ recovered[u] = 0 /\ OnTheWay({u, Partner[u]}) = 0 /\ supply[Partner[u]] = 0
    BY <1>4, <1>5, Pairs, TokensAre, TokensDiffer
  <2>2. Balanced(0, 0, 0, 0, 0)
    BY SMT DEF Balanced
  <2> QED BY <2>1, <2>2 DEF LocalSheet
<1> QED BY <1>3, <1>7, <1>8 DEF SheetsInv

LEMMA SheetsStep ==
    ASSUME StateInv, SheetsInv, [Next]_vars
    PROVE  SheetsInv'
<1>1. CASE Send
  <2>1. ConfInv /\ MoneyInv /\ WrappedAzero \in Tokens.azero
    BY TokensAre DEF StateInv
  <2>2. ASSUME NEW frame, Begins(frame) PROVE SheetsInv'
    <3>1. UNCHANGED <<log, processed, locked, supply, recovered>>
      BY <2>2 DEF Begins, voting
    <3> QED BY <3>1, SheetsKept
  <2> QED BY <1>1, <2>1, <2>2, SendKinds, LocksSheets, SwapsSheets, BurnsSheets
<1>2. CASE Receive
  BY <1>2, ReceiveSheets
<1>3. ASSUME UNCHANGED <<voting, log, books>> PROVE SheetsInv'
  <2>1. UNCHANGED <<log, processed, locked, supply, recovered>>
    BY <1>3 DEF voting, books
  <2> QED BY <2>1, SheetsKept
<1>4. UNCHANGED vars => UNCHANGED <<voting, log, books>>
  BY DEF vars, books, azero, l2
<1>5. Amounts \subseteq Nat
  BY Numbers
<1> QED BY <1>1, <1>2, <1>3, <1>4, <1>5, Steps, GovernSettings, RecoverSheets, RecoverCoinSheets

\* The sheets of AZERO and of every token stay balanced through each lock, mint, swap, burn
\* and payout on either side (MostL2.sol, most-l2/lib.rs).
THEOREM BackingInvariant == Spec => [](StateInv /\ SheetsInv)
<1>1. Init => StateInv /\ SheetsInv
  BY StateInit, SheetsInit
<1>2. StateInv /\ SheetsInv /\ [Next]_vars => (StateInv /\ SheetsInv)'
  BY StateStep, SheetsStep
<1> QED BY <1>1, <1>2, PTL DEF Spec

\* Every bAZERO is backed by a wrapped AZERO, whichever contract governance calls bAZERO and
\* whatever the pool returns (MostL2.sol sendRequestNative, native_transfer).
THEOREM AzeroBackedTheorem == Spec => []AzeroIsBacked
<1>1. StateInv /\ SheetsInv => AzeroIsBacked
  <2> SUFFICES ASSUME StateInv, SheetsInv PROVE AzeroIsBacked
    OBVIOUS
  <2> DEFINE lock == locked[WrappedAzero]
             taken == recovered[WrappedAzero]
             minted == SumFunctionOnSet(supply, BAzeros)
             way == OnTheWay(Azeros)
  <2>1. /\ lock \in Nat /\ taken \in Nat /\ minted \in Nat /\ way \in Nat
        /\ lock + taken + (PoolBAzero - Deposit) = minted + way
    BY SheetTypes DEF SheetsInv, AzeroSheet, Balanced, Given
  <2> HIDE DEF lock, taken, minted, way
  <2>2. lock + taken + PoolBAzero = Deposit + minted + way
    BY <2>1, Numbers, SMT
  <2> QED BY <2>2 DEF AzeroIsBacked, lock, taken, minted, way
<1> QED BY <1>1, BackingInvariant, PTL

\* Every wrapped token on the L2 is backed by its partner on Aleph Zero (send_request,
\* sendTokenRequest, receive_request, receiveRequest).
THEOREM LocalsBackedTheorem == Spec => []LocalsAreBacked
<1>1. StateInv /\ SheetsInv => LocalsAreBacked
  <2> SUFFICES ASSUME StateInv, SheetsInv, NEW t \in Locals
               PROVE  locked[t] + recovered[t] = supply[Partner[t]] + OnTheWay({t, Partner[t]})
    BY DEF LocalsAreBacked
  <2> DEFINE lock == locked[t]
             taken == recovered[t]
             other == supply[Partner[t]] + OnTheWay({t, Partner[t]})
  <2>1. lock \in Nat /\ taken \in Nat /\ lock + taken + 0 = other
    BY SheetTypes DEF SheetsInv, LocalSheet, Balanced
  <2> HIDE DEF lock, taken, other
  <2>2. lock + taken = other
    BY <2>1, SMT
  <2> QED BY <2>2 DEF lock, taken, other
<1> QED BY <1>1, BackingInvariant, PTL

-----------------------------------------------------------------------------
(* The pool.  It has a specification of its own, which shares no variable with L2Bridge. *)

(* Arithmetic *)

LEMMA Quotient ==
    ASSUME NEW a \in Nat, NEW b \in Nat \ {0}
    PROVE  a \div b \in Nat /\ b * (a \div b) <= a /\ a < b * (a \div b) + b
  BY SMT

LEMMA Product ==
    ASSUME NEW a \in Nat, NEW b \in Nat
    PROVE  a * b \in Nat
  BY SMT

LEMMA ProductMonotone ==
    ASSUME NEW a \in Nat, NEW b \in Nat, NEW c \in Nat, a <= b
    PROVE  a * c <= b * c /\ c * a <= c * b
  BY SMT

\* A part of an amount: rounded down it is at most the amount.
LEMMA Part ==
    ASSUME NEW a \in Nat, NEW p \in Nat, NEW q \in Nat \ {0}, p <= q
    PROVE  (a * p) \div q \in Nat /\ (a * p) \div q <= a
<1> DEFINE ap == a * p
           r == ap \div q
<1>1. ap \in Nat
  BY Product
<1>2. r \in Nat /\ q * r <= ap
  BY <1>1, Quotient
<1>3. ap <= a * q
  BY ProductMonotone
<1> HIDE DEF ap, r
<1>4. ASSUME r > a PROVE FALSE
  <2>1. r >= a + 1
    BY <1>2, <1>4
  <2>2. q * (a + 1) <= q * r
    BY <1>2, <2>1, ProductMonotone
  <2>3. q * (a + 1) = a * q + q
    BY SMT
  <2>4. a * q \in Nat /\ q * r \in Nat
    BY <1>2, Product
  <2> DEFINE aq == a * q
             qr == q * r
  <2>5. aq \in Nat /\ qr \in Nat /\ qr <= ap /\ ap <= aq /\ aq + q <= qr
    BY <1>2, <1>3, <2>2, <2>3, <2>4
  <2> HIDE DEF aq, qr
  <2> QED BY <1>1, <2>5, SMT
<1>5. r <= a
  BY <1>2, <1>4, SMT
<1> QED BY <1>2, <1>5 DEF r, ap

\* Two amounts rounded down one by one are at most their sum rounded down.
LEMMA TwoParts ==
    ASSUME NEW a \in Nat, NEW b \in Nat, NEW n \in Nat, NEW q \in Nat \ {0}, a + b <= q * n
    PROVE  a \div q + b \div q <= n
<1> DEFINE x == a \div q
           y == b \div q
<1>1. x \in Nat /\ y \in Nat /\ q * x <= a /\ q * y <= b
  BY Quotient
<1> HIDE DEF x, y
<1>2. q * (x + y) = q * x + q * y /\ q * (n + 1) = q * n + q
  BY <1>1, SMT
<1>3. q * (x + y) <= q * n
  <2> DEFINE qx == q * x
             qy == q * y
             qn == q * n
  <2>1. qx \in Nat /\ qy \in Nat /\ qn \in Nat /\ qx <= a /\ qy <= b /\ a + b <= qn
    BY <1>1, Product
  <2> HIDE DEF qx, qy, qn
  <2>2. qx + qy <= qn
    BY <2>1, SMT
  <2> QED BY <1>2, <2>2 DEF qx, qy, qn
<1>4. ASSUME x + y > n PROVE FALSE
  <2>1. n + 1 <= x + y
    BY <1>1, <1>4, SMT
  <2>2. q * (n + 1) <= q * (x + y)
    BY <1>1, <2>1, ProductMonotone
  <2> DEFINE qn == q * n
             qxy == q * (x + y)
  <2>3. qn \in Nat /\ qxy \in Nat /\ qn + q <= qxy /\ qxy <= qn
    BY <1>1, <1>2, <1>3, <2>2, Product
  <2> HIDE DEF qn, qxy
  <2> QED BY <2>3, SMT
<1> QED BY <1>1, <1>4, SMT DEF x, y

-----------------------------------------------------------------------------
(* Newton's method *)

\* The result after at most n steps, as a function of the start.
Iterate(step, f, n) ==
    [v \in Nat |-> IF n = 0 THEN v
                   ELSE LET w == step[v]
                        IN  IF w = Revert \/ w - v \in -1 .. 1 THEN w ELSE f[n - 1][w]]

\* f is this function for each number of steps up to m.
Iterates(step, f, m) == f = [n \in 0 .. m |-> Iterate(step, f, n)]

Outcome == Nat \cup {Revert}

LEMMA NewtonIs ==
    ASSUME NEW step, NEW start
    PROVE  Newton(step, start) = (CHOOSE f : Iterates(step, f, 255))[255][start]
  BY DEF Newton, Iterates, Iterate

\* A function up to m is one up to m + 1 when its last value is added.
LEMMA IterateExists ==
    ASSUME NEW step
    PROVE  \A m \in Nat : \E f : Iterates(step, f, m)
<1> DEFINE Bad == {m \in Nat : ~\E f : Iterates(step, f, m)}
<1> SUFFICES ASSUME Bad # {} PROVE FALSE
  OBVIOUS
<1>1. PICK m \in Bad : \A k \in Bad : m <= k
  <2>1. Bad \in SUBSET Nat
    OBVIOUS
  <2> HIDE DEF Bad
  <2> QED BY <2>1, LeastNatural
<1>2. m \in Nat
  OBVIOUS
<1>3. CASE m = 0
  <2> DEFINE f == [n \in 0 .. 0 |-> [v \in Nat |-> v]]
  <2>1. \A n \in 0 .. 0 : n = 0
    BY SMT
  <2>2. \A n \in 0 .. 0 : Iterate(step, f, n) = [v \in Nat |-> v]
    BY <2>1 DEF Iterate
  <2>3. f = [n \in 0 .. 0 |-> Iterate(step, f, n)]
    BY <2>2, Zenon
  <2> QED BY <1>3, <2>3 DEF Iterates
<1>4. CASE m # 0
  <2>1. m - 1 \in Nat /\ ~(m <= m - 1)
    BY <1>2, <1>4, SMT
  <2>2. PICK g : Iterates(step, g, m - 1)
    BY <1>1, <2>1
  <2> DEFINE f == [n \in 0 .. m |-> IF n = m THEN Iterate(step, g, m) ELSE g[n]]
  <2>3. \A n \in 0 .. m : n = m \/ n \in 0 .. m - 1
    BY <1>2, SMT
  <2>4. \A n \in 0 .. m : n # 0 => n - 1 \in 0 .. m - 1 /\ n - 1 \in 0 .. m /\ n - 1 # m
    BY <1>2, SMT
  <2>5. \A n \in 0 .. m : n # 0 => f[n - 1] = g[n - 1]
    BY <2>4, Zenon
  <2>6. \A n \in 0 .. m : Iterate(step, f, n) = Iterate(step, g, n)
    <3> SUFFICES ASSUME NEW n \in 0 .. m PROVE Iterate(step, f, n) = Iterate(step, g, n)
      OBVIOUS
    <3>1. CASE n = 0
      BY <3>1, Zenon DEF Iterate
    <3>2. CASE n # 0
      <4>1. f[n - 1] = g[n - 1]
        BY <2>5, <3>2
      <4> HIDE DEF f
      <4> QED BY <3>2, <4>1 DEF Iterate
    <3> QED BY <3>1, <3>2
  <2>7. \A n \in 0 .. m - 1 : g[n] = Iterate(step, g, n)
    BY <2>2, Zenon DEF Iterates
  <2>8. \A n \in 0 .. m : f[n] = Iterate(step, f, n)
    <3> SUFFICES ASSUME NEW n \in 0 .. m PROVE f[n] = Iterate(step, f, n)
      OBVIOUS
    <3>1. CASE n = m
      BY <2>6, <3>1, Zenon
    <3>2. CASE n # m
      <4>1. n \in 0 .. m - 1 /\ f[n] = g[n]
        BY <2>3, <3>2, Zenon
      <4> QED BY <2>6, <2>7, <4>1, Zenon
    <3> QED BY <3>1, <3>2
  <2>9. f = [n \in 0 .. m |-> Iterate(step, f, n)]
    <3>1. f = [n \in 0 .. m |-> f[n]]
      BY Zenon
    <3> QED BY <2>8, <3>1, Zenon
  <2> QED BY <1>2, <2>9 DEF Iterates
<1> QED BY <1>3, <1>4

\* Newton's method ends with a number that some step has returned, or is reverted.
LEMMA NewtonType ==
    ASSUME NEW step \in [Nat -> Outcome], NEW start \in Nat
    PROVE  Newton(step, start) \in Outcome
<1> DEFINE f == CHOOSE g : Iterates(step, g, 255)
<1>1. Iterates(step, f, 255)
  BY IterateExists, SMT
<1> HIDE DEF f
<1> DEFINE Bad == {n \in 0 .. 255 : ~(f[n] \in [Nat -> Outcome])}
<1>2. \A n \in 0 .. 255 : f[n] = Iterate(step, f, n)
  BY <1>1, Zenon DEF Iterates
<1>3. Bad = {}
  <2> SUFFICES ASSUME Bad # {} PROVE FALSE
    OBVIOUS
  <2>1. PICK n \in Bad : \A k \in Bad : n <= k
    <3>1. Bad \in SUBSET Nat
      OBVIOUS
    <3> HIDE DEF Bad
    <3> QED BY <3>1, LeastNatural
  <2>2. f[n] = Iterate(step, f, n) /\ n \in 0 .. 255
    BY <1>2
  <2>3. CASE n = 0
    <3>1. f[n] = [v \in Nat |-> v]
      BY <2>2, <2>3, Zenon DEF Iterate
    <3> QED BY <3>1 DEF Outcome
  <2>4. CASE n # 0
    <3>1. n - 1 \in 0 .. 255 /\ ~(n <= n - 1)
      BY <2>2, <2>4, SMT
    <3>2. f[n - 1] \in [Nat -> Outcome]
      BY <2>1, <3>1
    <3>3. PICK g : g = f[n - 1]
      OBVIOUS
    <3>4. f[n] = [v \in Nat |-> IF step[v] = Revert \/ step[v] - v \in -1 .. 1
                                THEN step[v] ELSE g[step[v]]]
      BY <2>2, <2>4, <3>3, Zenon DEF Iterate
    <3>5. \A v \in Nat : step[v] \in Outcome /\ (step[v] # Revert => step[v] \in Nat)
      BY DEF Outcome
    <3>6. f[n] \in [Nat -> Outcome]
      BY <3>2, <3>3, <3>4, <3>5
    <3> QED BY <3>6
  <2> QED BY <2>3, <2>4
<1>4. f[255] \in [Nat -> Outcome]
  BY <1>3, SMT
<1>5. Newton(step, start) = f[255][start]
  BY NewtonIs DEF f
<1> QED BY <1>4, <1>5

-----------------------------------------------------------------------------
(* The invariant D *)

Rates(f) == f[1] \in 0 .. MAX_FEE /\ f[2] \in 0 .. MAX_ADMIN_FEE

RatesInv == Rates(fees) /\ Rates(future_fees)

TimeInv ==
    /\ coefficient.A0 \in Nat \ {0} /\ coefficient.A1 \in Nat \ {0}
    /\ coefficient.t0 \in Nat /\ coefficient.t1 \in Nat
    /\ now \in Nat \ {0} /\ coefficient.t0 <= now

BooksInv ==
    /\ balances \in [Coins -> Nat] /\ held \in [Coins -> Nat] /\ token_supply \in Nat
    /\ \A i \in Coins : balances[i] <= held[i]

LEMMA TwoCoins == /\ 0 \in Coins /\ 1 \in Coins
                  /\ \A i \in Coins : OtherCoin(i) \in Coins /\ OtherCoin(i) # i /\ (i = 0 \/ i = 1)
                  /\ \A i \in Coins : \A j \in Coins : j = i \/ j = OtherCoin(i)
  BY SMT DEF Coins, OtherCoin

LEMMA RateTypes ==
    ASSUME NEW f, Rates(f)
    PROVE  /\ f[1] \in Nat /\ f[2] \in Nat /\ f[1] <= FEE_DENOMINATOR /\ f[2] <= FEE_DENOMINATOR
           /\ FEE_DENOMINATOR \in Nat \ {0}
           /\ (f[1] * 2) \div 4 \in Nat /\ (f[1] * 2) \div 4 <= FEE_DENOMINATOR
<1>1. /\ f[1] \in Nat /\ f[2] \in Nat /\ f[1] <= FEE_DENOMINATOR /\ f[2] <= FEE_DENOMINATOR
      /\ FEE_DENOMINATOR \in Nat \ {0}
  BY PoolAssumption, SMT DEF Rates
<1>2. \A n \in Nat : (n * 2) \div 4 \in Nat /\ (n * 2) \div 4 <= n
  BY SMT
<1> QED BY <1>1, <1>2, SMT

\* During a ramp the coefficient is between the two it goes from and to.
LEMMA CoefficientType ==
    ASSUME TimeInv
    PROVE  GetAmplificationCoefficient \in Nat \ {0}
<1> DEFINE A0 == coefficient.A0
           A1 == coefficient.A1
           p == now - coefficient.t0
           q == coefficient.t1 - coefficient.t0
<1>1. A0 \in Nat \ {0} /\ A1 \in Nat \ {0}
  BY DEF TimeInv
<1>2. CASE now >= coefficient.t1
  BY <1>1, <1>2 DEF GetAmplificationCoefficient
<1>3. CASE ~(now >= coefficient.t1)
  <2>1. p \in Nat /\ q \in Nat \ {0} /\ p <= q
    BY <1>3, SMT DEF TimeInv
  <2>2. GetAmplificationCoefficient = IF A1 > A0 THEN A0 + ((A1 - A0) * p) \div q
                                      ELSE A0 - ((A0 - A1) * p) \div q
    BY <1>3 DEF GetAmplificationCoefficient
  <2> HIDE DEF A0, A1, p, q
  <2>3. CASE A1 > A0
    <3>1. A1 - A0 \in Nat
      BY <1>1, <2>3, SMT
    <3>2. ((A1 - A0) * p) \div q \in Nat
      BY <2>1, <3>1, Part
    <3> DEFINE r == ((A1 - A0) * p) \div q
    <3> HIDE DEF r
    <3>3. A0 + r \in Nat \ {0}
      BY <1>1, <3>2, SMT DEF r
    <3> QED BY <2>2, <2>3, <3>3 DEF r
  <2>4. CASE ~(A1 > A0)
    <3>1. A0 - A1 \in Nat
      BY <1>1, <2>4, SMT
    <3>2. ((A0 - A1) * p) \div q \in Nat /\ ((A0 - A1) * p) \div q <= A0 - A1
      BY <2>1, <3>1, Part
    <3> DEFINE r == ((A0 - A1) * p) \div q
    <3>3. r \in Nat /\ r <= A0 - A1
      BY <3>2
    <3> HIDE DEF r
    <3>4. A0 - r \in Nat \ {0}
      BY <1>1, <3>3, SMT
    <3> QED BY <2>2, <2>4, <3>4 DEF r
  <2> QED BY <2>3, <2>4
<1> QED BY <1>2, <1>3

\* get_D ends with a number, or with a division by zero.
LEMMA GetDType ==
    ASSUME NEW xp \in [Coins -> Nat], NEW amp \in Nat \ {0}
    PROVE  GetD(xp, amp) \in Outcome
<1> DEFINE S   == xp[0] + xp[1]
           Ann == amp * 2
           D_P(v) == (((v * v) \div (xp[0] * 2)) * v) \div (xp[1] * 2)
           den(v) == (Ann - 1) * v + 3 * D_P(v)
           step == [v \in Nat |-> IF den(v) = 0 THEN Revert
                                  ELSE ((Ann * S + D_P(v) * 2) * v) \div den(v)]
<1>0. xp[0] \in Nat /\ xp[1] \in Nat /\ S \in Nat
  BY TwoCoins, SMT
<1>1. GetD(xp, amp) = IF S = 0 THEN 0 ELSE IF 0 \in {xp[0], xp[1]} THEN Revert ELSE Newton(step, S)
  BY DEF GetD
<1>2. CASE S = 0 \/ 0 \in {xp[0], xp[1]}
  BY <1>1, <1>2 DEF Outcome
<1>3. CASE ~(S = 0 \/ 0 \in {xp[0], xp[1]})
  <2>1. xp[0] * 2 \in Nat \ {0} /\ xp[1] * 2 \in Nat \ {0}
    BY <1>0, <1>3, SMT
  <2>2. ASSUME NEW v \in Nat PROVE step[v] \in Outcome
    <3> DEFINE dp == D_P(v)
               dv == den(v)
               w == (Ann * S + dp * 2) * v
    <3>1. dp \in Nat
      <4> DEFINE a == (v * v) \div (xp[0] * 2)
      <4>1. a \in Nat
        BY <2>1, Product, Quotient
      <4> HIDE DEF a
      <4>2. a * v \in Nat
        BY <4>1, Product
      <4>3. (a * v) \div (xp[1] * 2) \in Nat
        BY <2>1, <4>2, Quotient
      <4> QED BY <4>3 DEF a
    <3> HIDE DEF dp
    <3>2. dv = (Ann - 1) * v + 3 * dp
      BY DEF dp
    <3>3. (Ann - 1) * v \in Nat
      <4>1. Ann - 1 \in Nat
        BY SMT
      <4> QED BY <4>1, Product
    <3>4. dv \in Nat
      <4> DEFINE x == (Ann - 1) * v
      <4> HIDE DEF x
      <4>1. x + 3 * dp \in Nat
        BY <3>1, <3>3, SMT DEF x
      <4> QED BY <3>2, <4>1 DEF x
    <3>5. w \in Nat
      <4>1. Ann * S \in Nat
        BY <1>0, Product, SMT
      <4> DEFINE x == Ann * S
      <4> HIDE DEF x
      <4>2. x + dp * 2 \in Nat
        BY <3>1, <4>1, SMT DEF x
      <4> QED BY <4>2, Product DEF x
    <3>6. step[v] = IF dv = 0 THEN Revert ELSE w \div dv
      BY DEF dp
    <3> HIDE DEF dv, w, step
    <3>7. CASE dv = 0
      BY <3>6, <3>7 DEF Outcome
    <3>8. CASE dv # 0
      <4>1. w \div dv \in Nat
        BY <3>4, <3>5, <3>8, Quotient
      <4> QED BY <3>6, <3>8, <4>1 DEF Outcome
    <3> QED BY <3>7, <3>8
  <2>3. step \in [Nat -> Outcome]
    <3>1. step = [v \in Nat |-> step[v]]
      OBVIOUS
    <3> HIDE DEF step
    <3> QED BY <2>2, <3>1
  <2> HIDE DEF step, S
  <2>4. Newton(step, S) \in Outcome
    BY <1>0, <2>3, NewtonType
  <2> QED BY <1>1, <1>3, <2>4
<1> QED BY <1>2, <1>3

LEMMA GetYDType ==
    ASSUME NEW x \in Nat, NEW amp \in Nat \ {0}, NEW D0 \in Outcome
    PROVE  GetYD(x, amp, D0) \in Outcome
<1> DEFINE Ann == amp * 2
           c == (((D0 * D0) \div (x * 2)) * D0) \div (Ann * 2)
           b == x + D0 \div Ann
           den(y) == 2 * y + b - D0
           step == [y \in Nat |-> IF den(y) <= 0 THEN Revert ELSE (y * y + c) \div den(y)]
<1>1. GetYD(x, amp, D0) = IF x = 0 \/ D0 = Revert THEN Revert ELSE Newton(step, D0)
  BY DEF GetYD
<1>2. CASE x = 0 \/ D0 = Revert
  BY <1>1, <1>2 DEF Outcome
<1>3. CASE ~(x = 0 \/ D0 = Revert)
  <2>1. D0 \in Nat /\ x * 2 \in Nat \ {0} /\ Ann \in Nat \ {0} /\ Ann * 2 \in Nat \ {0}
    BY <1>3, SMT DEF Outcome
  <2>2. c \in Nat
    <3> DEFINE a == (D0 * D0) \div (x * 2)
    <3>1. a \in Nat
      BY <2>1, Product, Quotient
    <3> HIDE DEF a
    <3>2. a * D0 \in Nat
      BY <2>1, <3>1, Product
    <3> HIDE DEF Ann
    <3>3. (a * D0) \div (Ann * 2) \in Nat
      BY <2>1, <3>2, Quotient
    <3> QED BY <3>3 DEF a
  <2>3. b \in Nat
    <3>1. D0 \div Ann \in Nat
      BY <2>1, Quotient
    <3> DEFINE z == D0 \div Ann
    <3> HIDE DEF z
    <3>2. x + z \in Nat
      BY <3>1, SMT DEF z
    <3> QED BY <3>2 DEF z
  <2> HIDE DEF b, c
  <2>4. ASSUME NEW y \in Nat PROVE step[y] \in Outcome
    <3> DEFINE d == den(y)
               w == y * y + c
    <3>1. d \in Int
      BY <2>1, <2>3, SMT
    <3>2. w \in Nat
      <4>1. y * y \in Nat
        BY Product
      <4> DEFINE z == y * y
      <4> HIDE DEF z
      <4>2. z + c \in Nat
        BY <2>2, <4>1, SMT DEF z
      <4> QED BY <4>2 DEF z
    <3>3. step[y] = IF d <= 0 THEN Revert ELSE w \div d
      OBVIOUS
    <3> HIDE DEF d, w, step
    <3>4. CASE d <= 0
      BY <3>3, <3>4 DEF Outcome
    <3>5. CASE ~(d <= 0)
      <4>1. d \in Nat \ {0}
        BY <3>1, <3>5, SMT
      <4>2. w \div d \in Nat
        BY <3>2, <4>1, Quotient
      <4> QED BY <3>3, <3>5, <4>2 DEF Outcome
    <3> QED BY <3>4, <3>5
  <2>5. step \in [Nat -> Outcome]
    <3>1. step = [y \in Nat |-> step[y]]
      OBVIOUS
    <3> HIDE DEF step
    <3> QED BY <2>4, <3>1
  <2> HIDE DEF step
  <2>6. Newton(step, D0) \in Outcome
    BY <2>1, <2>5, NewtonType
  <2> QED BY <1>1, <1>3, <2>6
<1> QED BY <1>2, <1>3

LEMMA XPType ==
    ASSUME NEW b \in [Coins -> Nat]
    PROVE  XP(b) \in [Coins -> Nat] /\ \A i \in Coins : XP(b)[i] = PRECISION_MUL[i] * b[i]
<1>1. \A i \in Coins : PRECISION_MUL[i] * b[i] \in Nat
  BY PoolAssumption, Product
<1> QED BY <1>1 DEF XP

LEMMA DType ==
    ASSUME TimeInv, NEW b \in [Coins -> Nat]
    PROVE  D(b) \in Outcome
  BY XPType, CoefficientType, GetDType DEF D

-----------------------------------------------------------------------------
(* The books *)

\* The changes of both books that keep them in order.
LEMMA BooksChange ==
    ASSUME BooksInv, token_supply' \in Nat,
           NEW b, balances' = [i \in Coins |-> b[i]],
           NEW h, held' = [i \in Coins |-> h[i]],
           \A i \in Coins : b[i] \in Nat /\ h[i] \in Nat /\ b[i] <= h[i]
    PROVE  BooksInv'
  BY DEF BooksInv

\* What an exchange pays out, and what it books.
Exchanged(s, amount, min, out, admin) ==
    /\ out \in Nat /\ admin \in Nat /\ out >= min
    /\ out + admin <= balances[OtherCoin(s)]
    /\ balances' = [balances EXCEPT ![s] = @ + amount, ![OtherCoin(s)] = @ - out - admin]
    /\ held' = [held EXCEPT ![s] = @ + amount, ![OtherCoin(s)] = @ - out]
    /\ UNCHANGED <<token_supply, fees, coefficient, future_fees, now>>

LEMMA ExchangePays ==
    ASSUME BooksInv, RatesInv, TimeInv,
           NEW s \in Coins, NEW amount \in CoinAmounts, NEW min, Exchange(s, amount, min)
    PROVE  \E out, admin : Exchanged(s, amount, min, out, admin)
<1> DEFINE d == OtherCoin(s)
           xp == XP(balances)
           x == xp[s] + amount * PRECISION_MUL[s]
           y == GetY(x, xp)
<1>1. d \in Coins /\ amount \in Nat /\ balances \in [Coins -> Nat]
  BY PoolAssumption, TwoCoins DEF BooksInv
<1>2. xp \in [Coins -> Nat] /\ xp[d] = PRECISION_MUL[d] * balances[d] /\ xp[s] \in Nat
  BY <1>1, XPType
<1>3. PRECISION_MUL[s] \in Nat /\ PRECISION_MUL[d] \in Nat \ {0} /\ balances[d] \in Nat
  BY <1>1, PoolAssumption
<1>4. x \in Nat
  <2>1. amount * PRECISION_MUL[s] \in Nat
    BY <1>1, <1>3, Product
  <2> QED BY <1>2, <2>1
<1>5. y \in Outcome
  <2>1. GetAmplificationCoefficient \in Nat \ {0}
    BY CoefficientType
  <2>2. GetD(xp, GetAmplificationCoefficient) \in Outcome
    BY <1>2, <2>1, GetDType
  <2> HIDE DEF x, xp
  <2> QED BY <1>4, <2>1, <2>2, GetYDType DEF GetY
<1>6. PICK dy \in AmountOut(s, amount) :
          LET dy_fee == (dy * fees[1]) \div FEE_DENOMINATOR
              out    == (dy - dy_fee) \div PRECISION_MUL[d]
              admin  == ((dy_fee * fees[2]) \div FEE_DENOMINATOR) \div PRECISION_MUL[d]
          IN  /\ out >= min
              /\ balances' = [balances EXCEPT ![s] = @ + amount, ![d] = @ - out - admin]
              /\ held' = [held EXCEPT ![s] = @ + amount, ![d] = @ - out]
  BY DEF Exchange
<1>7. dy \in Nat /\ dy <= PRECISION_MUL[d] * balances[d]
  <2>1. dy \in IF y = Revert \/ y + 1 > xp[d] THEN {} ELSE {xp[d] - y - 1}
    BY <1>6, Zenon DEF AmountOut
  <2>2. y # Revert /\ ~(y + 1 > xp[d]) /\ dy = xp[d] - y - 1
    BY <2>1
  <2>3. y \in Nat /\ xp[d] \in Nat
    BY <1>1, <1>2, <1>5, <2>2 DEF Outcome
  <2> HIDE DEF y, xp, d
  <2>4. dy \in Nat /\ dy <= xp[d]
    BY <2>2, <2>3, SMT
  <2> QED BY <1>2, <2>4
<1> DEFINE dy_fee == (dy * fees[1]) \div FEE_DENOMINATOR
           part == (dy_fee * fees[2]) \div FEE_DENOMINATOR
           out == (dy - dy_fee) \div PRECISION_MUL[d]
           admin == part \div PRECISION_MUL[d]
<1>8. /\ out >= min
      /\ balances' = [balances EXCEPT ![s] = @ + amount, ![d] = @ - out - admin]
      /\ held' = [held EXCEPT ![s] = @ + amount, ![d] = @ - out]
  BY <1>6
<1>9. /\ fees[1] \in Nat /\ fees[2] \in Nat
      /\ fees[1] <= FEE_DENOMINATOR /\ fees[2] <= FEE_DENOMINATOR
      /\ FEE_DENOMINATOR \in Nat \ {0}
  BY RateTypes DEF RatesInv
<1>10. dy_fee \in Nat /\ dy_fee <= dy
  BY <1>7, <1>9, Part
<1> HIDE DEF dy_fee
<1>11. part \in Nat /\ part <= dy_fee
  BY <1>9, <1>10, Part
<1> HIDE DEF part
<1>12. dy - dy_fee \in Nat /\ dy - dy_fee + part <= PRECISION_MUL[d] * balances[d]
  <2> DEFINE z == PRECISION_MUL[d] * balances[d]
  <2>1. z \in Nat /\ dy <= z
    BY <1>3, <1>7, Product
  <2> HIDE DEF z
  <2>2. dy - dy_fee \in Nat /\ dy - dy_fee + part <= z
    BY <1>7, <1>10, <1>11, <2>1, SMT
  <2> QED BY <2>2 DEF z
<1>13. out \in Nat /\ admin \in Nat
  BY <1>3, <1>11, <1>12, Quotient
<1>14. out + admin <= balances[d]
  <2> DEFINE a == dy - dy_fee
             n == balances[d]
             q == PRECISION_MUL[d]
  <2>1. a \in Nat /\ n \in Nat /\ q \in Nat \ {0} /\ a + part <= q * n
    BY <1>3, <1>12
  <2> HIDE DEF a, n, q
  <2>2. a \div q + part \div q <= n
    BY <1>11, <2>1, TwoParts
  <2> QED BY <2>2 DEF a, n, q
<1> HIDE DEF out, admin
<1>15. UNCHANGED <<token_supply, fees, coefficient, future_fees, now>>
  BY DEF Exchange, owner
<1>16. Exchanged(s, amount, min, out, admin)
  BY <1>8, <1>13, <1>14, <1>15 DEF Exchanged
<1> QED BY <1>16

LEMMA ExchangeBooks ==
    ASSUME BooksInv, RatesInv, TimeInv,
           NEW s \in Coins, NEW amount \in CoinAmounts, NEW min, Exchange(s, amount, min)
    PROVE  BooksInv'
<1>1. PICK out, admin : Exchanged(s, amount, min, out, admin)
  BY ExchangePays
<1> DEFINE d == OtherCoin(s)
<1>2. d \in Coins /\ d # s /\ amount \in Nat /\ out \in Nat /\ admin \in Nat
  BY <1>1, PoolAssumption, TwoCoins DEF Exchanged
<1>3. out + admin <= balances[d]
  BY <1>1 DEF Exchanged
<1>4. /\ balances' = [balances EXCEPT ![s] = @ + amount, ![d] = @ - out - admin]
      /\ held' = [held EXCEPT ![s] = @ + amount, ![d] = @ - out] /\ token_supply' = token_supply
  BY <1>1 DEF Exchanged
<1> HIDE DEF d
<1>5. /\ balances[s] \in Nat /\ held[s] \in Nat /\ balances[s] <= held[s]
      /\ balances[d] \in Nat /\ held[d] \in Nat /\ balances[d] <= held[d]
  BY <1>2 DEF BooksInv
<1>6. /\ balances[s] + amount \in Nat /\ held[s] + amount \in Nat
      /\ balances[s] + amount <= held[s] + amount
      /\ balances[d] - out - admin \in Nat /\ held[d] - out \in Nat
      /\ balances[d] - out - admin <= held[d] - out
  BY <1>2, <1>3, <1>5, SMT
<1>7. \A i \in Coins : i = s \/ i = d
  BY TwoCoins DEF d
<1>8. \A i \in Coins : /\ balances'[i] = IF i = s THEN balances[s] + amount
                                         ELSE balances[d] - out - admin
                       /\ held'[i] = IF i = s THEN held[s] + amount ELSE held[d] - out
  BY <1>2, <1>4, <1>7 DEF BooksInv
<1>9. DOMAIN balances' = Coins /\ DOMAIN held' = Coins
      /\ balances' = [i \in Coins |-> balances'[i]] /\ held' = [i \in Coins |-> held'[i]]
  BY <1>4 DEF BooksInv
<1>10. \A i \in Coins : balances'[i] \in Nat /\ held'[i] \in Nat /\ balances'[i] <= held'[i]
  BY <1>2, <1>6, <1>8
<1> QED BY <1>4, <1>9, <1>10 DEF BooksInv

\* The fees on an uneven deposit or withdrawal.
LEMMA ImbalanceType ==
    ASSUME BooksInv, RatesInv, NEW new \in [Coins -> Nat],
           NEW D0 \in Nat \ {0}, NEW D1 \in Nat
    PROVE  ImbalanceFees(new, D0, D1) \in [Coins -> Nat]
<1> DEFINE even(i) == (D1 * balances[i]) \div D0
           dist(i) == Distance(even(i), new[i])
           rate == (fees[1] * 2) \div 4
<1>1. rate \in Nat /\ FEE_DENOMINATOR \in Nat \ {0}
  BY RateTypes DEF RatesInv
<1>2. ASSUME NEW i \in Coins PROVE (rate * dist(i)) \div FEE_DENOMINATOR \in Nat
  <2>1. balances[i] \in Nat /\ new[i] \in Nat
    BY DEF BooksInv
  <2>2. even(i) \in Nat
    BY <2>1, Product, Quotient
  <2>3. \A a, b \in Nat : Distance(a, b) \in Nat
    BY SMT DEF Distance
  <2>4. dist(i) \in Nat
    BY <2>1, <2>2, <2>3
  <2> HIDE DEF rate, dist
  <2>5. rate * dist(i) \in Nat
    BY <1>1, <2>4, Product
  <2> QED BY <1>1, <2>5, Quotient
<1>3. ImbalanceFees(new, D0, D1) = [i \in Coins |-> (rate * dist(i)) \div FEE_DENOMINATOR]
  BY DEF ImbalanceFees
<1> HIDE DEF rate, dist
<1> QED BY <1>2, <1>3

\* The owner's part of the fees leaves the balances not negative, if all of the fees does.
LEMMA AdminFees ==
    ASSUME RatesInv, NEW new \in [Coins -> Nat], NEW f \in [Coins -> Nat],
           NotNegative(Less(new, f))
    PROVE  \A i \in Coins : /\ LessAdminFees(new, f)[i] \in Nat
                            /\ LessAdminFees(new, f)[i] <= new[i]
<1> SUFFICES ASSUME NEW i \in Coins
             PROVE  LessAdminFees(new, f)[i] \in Nat /\ LessAdminFees(new, f)[i] <= new[i]
  OBVIOUS
<1> DEFINE part == (f[i] * fees[2]) \div FEE_DENOMINATOR
<1>1. LessAdminFees(new, f)[i] = new[i] - part
  BY DEF LessAdminFees
<1>2. f[i] \in Nat /\ new[i] \in Nat /\ new[i] - f[i] >= 0
  BY DEF NotNegative, Less
<1>3. fees[2] \in Nat /\ fees[2] <= FEE_DENOMINATOR /\ FEE_DENOMINATOR \in Nat \ {0}
  BY RateTypes DEF RatesInv
<1>4. part \in Nat /\ part <= f[i]
  BY <1>2, <1>3, Part
<1> HIDE DEF part
<1> QED BY <1>1, <1>2, <1>4, SMT

\* A deposit, or a withdrawal in amounts of the sender's choice: the books after the fees.
LEMMA AfterFees ==
    ASSUME BooksInv, RatesInv, TimeInv, token_supply' \in Nat,
           NEW new \in [Coins -> Nat], NEW h \in [Coins -> Nat],
           \A i \in Coins : new[i] <= h[i],
           NEW D0 \in Nat \ {0}, NEW D1 \in Nat,
           NotNegative(Less(new, ImbalanceFees(new, D0, D1))),
           balances' = LessAdminFees(new, ImbalanceFees(new, D0, D1)), held' = h
    PROVE  BooksInv'
<1> DEFINE f == ImbalanceFees(new, D0, D1)
           b == LessAdminFees(new, f)
<1>1. f \in [Coins -> Nat] /\ NotNegative(Less(new, f))
  BY ImbalanceType
<1> HIDE DEF f
<1>2. \A i \in Coins : b[i] \in Nat /\ b[i] <= new[i]
  BY <1>1, AdminFees
<1>3. balances' = [i \in Coins |-> b[i]] /\ held' = [i \in Coins |-> h[i]]
  BY DEF f, LessAdminFees
<1> HIDE DEF b
<1>4. \A i \in Coins : b[i] \in Nat /\ h[i] \in Nat /\ b[i] <= h[i]
  BY <1>2, SMT
<1> QED BY <1>3, <1>4, BooksChange

LEMMA AddLiquidityBooks ==
    ASSUME BooksInv, RatesInv, TimeInv,
           NEW amounts \in [Coins -> CoinAmounts], NEW min, AddLiquidity(amounts, min)
    PROVE  BooksInv'
<1> DEFINE new == [i \in Coins |-> balances[i] + amounts[i]]
           h == [i \in Coins |-> held[i] + amounts[i]]
           D0 == IF token_supply = 0 THEN 0 ELSE D(balances)
           D1 == D(new)
<1>1. \A i \in Coins : /\ amounts[i] \in Nat /\ balances[i] \in Nat /\ held[i] \in Nat
                       /\ balances[i] <= held[i]
  BY PoolAssumption DEF BooksInv
<1>2. /\ new \in [Coins -> Nat] /\ h \in [Coins -> Nat] /\ \A i \in Coins : new[i] <= h[i]
  BY <1>1, SMT
<1>3. held' = h /\ D0 # Revert /\ D1 > D0
  BY DEF AddLiquidity
<1>4. D1 \in Outcome /\ D0 \in Outcome
  BY <1>2, DType DEF BooksInv, Outcome
<1>5. CASE balances' = new /\ token_supply' = D1 /\ token_supply = 0
  <2>1. D0 = 0
    BY <1>5
  <2>2. D1 \in Nat
    BY <1>3, <1>4, <2>1, SMT DEF Outcome, Revert
  <2> QED BY <1>2, <1>3, <1>5, <2>2 DEF BooksInv
<1>6. CASE /\ token_supply > 0 /\ D0 > 0
           /\ LET f    == ImbalanceFees(new, D0, D1)
                  D2   == D(Less(new, f))
                  mint == (token_supply * (D2 - D0)) \div D0
              IN  /\ NotNegative(Less(new, f))
                  /\ D2 >= D0
                  /\ balances' = LessAdminFees(new, f)
                  /\ token_supply' = token_supply + mint
  <2> HIDE DEF D0, D1, new, h
  <2> DEFINE f == ImbalanceFees(new, D0, D1)
             D2 == D(Less(new, f))
             mint == (token_supply * (D2 - D0)) \div D0
  <2>1. D0 \in Nat \ {0} /\ D1 \in Nat
    BY <1>3, <1>4, <1>6, SMT DEF Outcome, Revert
  <2>2. f \in [Coins -> Nat]
    BY <1>2, <2>1, ImbalanceType
  <2>3. /\ NotNegative(Less(new, f)) /\ D2 >= D0
        /\ balances' = LessAdminFees(new, f) /\ token_supply' = token_supply + mint
    BY <1>6
  <2>4. Less(new, f) \in [Coins -> Nat]
    <3> HIDE DEF f
    <3>1. \A i \in Coins : new[i] \in Nat /\ f[i] \in Nat /\ new[i] - f[i] >= 0
      BY <1>2, <2>2, <2>3 DEF NotNegative, Less
    <3>2. \A i \in Coins : new[i] - f[i] \in Nat
      BY <3>1, SMT
    <3> QED BY <3>2 DEF Less
  <2>5. D2 \in Outcome
    BY <2>4, DType
  <2> HIDE DEF D2, f
  <2>6. D2 - D0 \in Nat
    BY <2>1, <2>3, <2>5, SMT DEF Outcome, Revert
  <2>7. mint \in Nat
    <3>1. token_supply \in Nat
      BY DEF BooksInv
    <3>2. token_supply * (D2 - D0) \in Nat
      BY <2>6, <3>1, Product
    <3> QED BY <2>1, <3>2, Quotient
  <2> HIDE DEF mint
  <2>8. token_supply' \in Nat
    BY <2>3, <2>7, SMT DEF BooksInv
  <2> QED BY <1>2, <1>3, <2>1, <2>3, <2>8, AfterFees DEF f
<1> QED BY <1>5, <1>6 DEF AddLiquidity

LEMMA RemoveLiquidityBooks ==
    ASSUME BooksInv, NEW amount \in Shares, NEW min, RemoveLiquidity(amount, min)
    PROVE  BooksInv'
<1> DEFINE value == [i \in Coins |-> (balances[i] * amount) \div token_supply]
<1>1. amount \in Nat /\ token_supply \in Nat \ {0} /\ amount <= token_supply
  BY PoolAssumption, SMT DEF BooksInv, RemoveLiquidity
<1>2. \A i \in Coins : value[i] \in Nat /\ value[i] <= balances[i]
  BY <1>1, Part DEF BooksInv
<1>3. /\ balances' = Less(balances, value) /\ held' = Less(held, value)
      /\ token_supply' = token_supply - amount
  BY DEF RemoveLiquidity
<1> HIDE DEF value
<1>4. \A i \in Coins : /\ balances[i] - value[i] \in Nat /\ held[i] - value[i] \in Nat
                       /\ balances[i] - value[i] <= held[i] - value[i]
  BY <1>2, SMT DEF BooksInv
<1>5. token_supply' \in Nat
  BY <1>1, <1>3, SMT
<1> QED BY <1>3, <1>4, <1>5 DEF BooksInv, Less

LEMMA RemoveLiquidityImbalanceBooks ==
    ASSUME BooksInv, RatesInv, TimeInv, NEW amounts \in [Coins -> CoinAmounts], NEW max,
           RemoveLiquidityImbalance(amounts, max)
    PROVE  BooksInv'
<1> DEFINE new == Less(balances, amounts)
           h == Less(held, amounts)
           D0 == D(balances)
           D1 == D(new)
           f == ImbalanceFees(new, D0, D1)
           D2 == D(Less(new, f))
           burnt == ((D0 - D2) * token_supply) \div D0 + 1
<1>1. /\ NotNegative(new) /\ D0 > 0 /\ D1 # Revert /\ NotNegative(Less(new, f))
      /\ D2 # Revert /\ D2 <= D0 /\ burnt <= token_supply
      /\ balances' = LessAdminFees(new, f) /\ token_supply' = token_supply - burnt /\ held' = h
  BY DEF RemoveLiquidityImbalance
<1>2. \A i \in Coins : /\ amounts[i] \in Nat /\ balances[i] \in Nat /\ held[i] \in Nat
                       /\ balances[i] <= held[i] /\ balances[i] - amounts[i] >= 0
  BY <1>1, PoolAssumption DEF BooksInv, NotNegative, Less
<1>3. /\ new \in [Coins -> Nat] /\ h \in [Coins -> Nat] /\ \A i \in Coins : new[i] <= h[i]
  BY <1>2, SMT DEF Less
<1> HIDE DEF new, h
<1>4. D0 \in Outcome /\ D1 \in Outcome
  BY <1>3, DType DEF BooksInv
<1> HIDE DEF D0, D1
<1>5. D0 \in Nat \ {0} /\ D1 \in Nat
  BY <1>1, <1>4, SMT DEF Outcome, Revert
<1>6. f \in [Coins -> Nat]
  BY <1>3, <1>5, ImbalanceType
<1>7. D2 \in Nat
  <2> HIDE DEF f
  <2>1. \A i \in Coins : new[i] \in Nat /\ f[i] \in Nat /\ new[i] - f[i] >= 0
    BY <1>1, <1>3, <1>6 DEF NotNegative, Less
  <2>2. \A i \in Coins : new[i] - f[i] \in Nat
    BY <2>1, SMT
  <2>3. Less(new, f) \in [Coins -> Nat]
    BY <2>2 DEF Less
  <2>4. D2 \in Outcome
    BY <2>3, DType
  <2> QED BY <1>1, <2>4 DEF Outcome
<1> HIDE DEF D2
<1>8. burnt \in Nat
  <2>1. D0 - D2 \in Nat /\ token_supply \in Nat
    BY <1>1, <1>5, <1>7, SMT DEF BooksInv
  <2>2. (D0 - D2) * token_supply \in Nat
    BY <2>1, Product
  <2>3. ((D0 - D2) * token_supply) \div D0 \in Nat
    BY <1>5, <2>2, Quotient
  <2> DEFINE z == ((D0 - D2) * token_supply) \div D0
  <2> HIDE DEF z
  <2>4. z + 1 \in Nat
    BY <2>3, SMT DEF z
  <2> QED BY <2>4 DEF z
<1> HIDE DEF burnt
<1>9. token_supply' \in Nat
  BY <1>1, <1>8, SMT DEF BooksInv
<1> QED BY <1>1, <1>3, <1>5, <1>9, AfterFees DEF f

\* A withdrawal of one coin pays and charges no negative amounts: none of the differences
\* _calc_withdraw_one_coin takes without checking is negative.
LEMMA CalcType ==
    ASSUME BooksInv, RatesInv, TimeInv, token_supply > 0, NEW amount \in Shares, NEW i \in Coins,
           NEW w \in CalcWithdrawOneCoin(amount, i)
    PROVE  w.dy \in Nat /\ w.fee \in Nat /\ amount <= token_supply
<1> DEFINE amp == GetAmplificationCoefficient
           k   == OtherCoin(i)
           xp  == XP(balances)
           D0  == GetD(xp, amp)
           D1  == D0 - (amount * D0) \div token_supply
           even == [c \in Coins |-> (xp[c] * D1) \div D0]
           new_y == GetYD(xp[k], amp, D1)
           rate == (fees[1] * 2) \div 4
           dx(c) == IF c = i THEN even[i] - new_y ELSE xp[k] - even[k]
           reduced == [c \in Coins |-> xp[c] - (rate * dx(c)) \div FEE_DENOMINATOR]
           y  == GetYD(reduced[k], amp, D1)
           dy == (reduced[i] - y - 1) \div PRECISION_MUL[i]
           dy_0 == (xp[i] - new_y) \div PRECISION_MUL[i]
<1>1. w \in IF \/ D0 <= 0 \/ amount > token_supply
               \/ new_y = Revert \/ new_y > even[i]
               \/ y = Revert \/ y + 1 > reduced[i] \/ dy > dy_0
            THEN {} ELSE {[dy |-> dy, fee |-> dy_0 - dy]}
  BY Zenon DEF CalcWithdrawOneCoin
<1>2. /\ ~(D0 <= 0) /\ ~(amount > token_supply) /\ new_y # Revert /\ ~(new_y > even[i])
      /\ y # Revert /\ ~(y + 1 > reduced[i]) /\ ~(dy > dy_0)
      /\ w = [dy |-> dy, fee |-> dy_0 - dy]
  BY <1>1, Zenon
<1>3. /\ amount \in Nat /\ token_supply \in Nat \ {0} /\ k \in Coins /\ k # i
      /\ PRECISION_MUL[i] \in Nat \ {0} /\ balances \in [Coins -> Nat]
  BY PoolAssumption, TwoCoins, SMT DEF BooksInv
<1>4. amp \in Nat \ {0} /\ xp \in [Coins -> Nat]
  BY <1>3, CoefficientType, XPType
<1> HIDE DEF amp, xp, k
<1>5. D0 \in Nat \ {0}
  <2>1. D0 \in Outcome
    BY <1>4, GetDType
  <2> HIDE DEF D0
  <2> QED BY <1>2, <2>1, SMT DEF Outcome, Revert
<1> HIDE DEF D0
<1>6. amount <= token_supply
  BY <1>2, <1>3, SMT
<1>7. D1 \in Nat /\ D1 <= D0
  <2>1. (D0 * amount) \div token_supply \in Nat /\ (D0 * amount) \div token_supply <= D0
    BY <1>3, <1>5, <1>6, Part
  <2>2. D0 * amount = amount * D0
    BY <1>3, <1>5, SMT
  <2> DEFINE z == (amount * D0) \div token_supply
  <2>3. z \in Nat /\ z <= D0
    BY <2>1, <2>2
  <2> HIDE DEF z
  <2>4. D0 - z \in Nat /\ D0 - z <= D0
    BY <1>5, <2>3, SMT
  <2> QED BY <2>4 DEF z
<1> HIDE DEF D1
<1>8. \A c \in Coins : xp[c] \in Nat /\ even[c] \in Nat /\ even[c] <= xp[c]
  BY <1>4, <1>5, <1>7, Part
<1> HIDE DEF even
<1>9. new_y \in Nat
  <2>1. new_y \in Outcome
    BY <1>3, <1>4, <1>7, <1>8, GetYDType DEF Outcome
  <2> QED BY <1>2, <2>1 DEF Outcome
<1> HIDE DEF new_y
<1>10. new_y <= even[i] /\ new_y <= xp[i]
  BY <1>2, <1>8, <1>9, SMT
<1>11. rate \in Nat /\ rate <= FEE_DENOMINATOR /\ FEE_DENOMINATOR \in Nat \ {0}
  BY RateTypes DEF RatesInv
<1> HIDE DEF rate
<1>12. ASSUME NEW c \in Coins PROVE reduced[c] \in Nat
  <2>1. c = i \/ c = k
    BY TwoCoins DEF k
  <2>2. dx(c) \in Nat /\ dx(c) <= xp[c]
    <3>1. CASE c = i
      <4>1. even[i] - new_y \in Nat /\ even[i] - new_y <= xp[i]
        BY <1>8, <1>9, <1>10, SMT
      <4> QED BY <3>1, <4>1
    <3>2. CASE c # i
      <4>1. c = k /\ xp[k] - even[k] \in Nat /\ xp[k] - even[k] <= xp[k]
        BY <1>3, <1>8, <2>1, <3>2, SMT
      <4> QED BY <3>2, <4>1
    <3> QED BY <3>1, <3>2
  <2>3. reduced[c] = xp[c] - (rate * dx(c)) \div FEE_DENOMINATOR
    OBVIOUS
  <2> DEFINE x == dx(c)
             z == (rate * x) \div FEE_DENOMINATOR
  <2>x. x \in Nat /\ x <= xp[c] /\ reduced[c] = xp[c] - z
    BY <2>2, <2>3
  <2> HIDE DEF x, reduced
  <2>4. (x * rate) \div FEE_DENOMINATOR \in Nat /\ (x * rate) \div FEE_DENOMINATOR <= x
    BY <1>11, <2>x, Part
  <2>5. x * rate = rate * x
    BY <1>11, <2>x, SMT
  <2>6. z \in Nat /\ z <= x
    BY <2>4, <2>5
  <2> HIDE DEF z
  <2>7. xp[c] - z \in Nat
    BY <1>8, <2>x, <2>6, SMT
  <2> QED BY <2>x, <2>7
<1>13. reduced[i] \in Nat /\ reduced[k] \in Nat
  BY <1>3, <1>12
<1> HIDE DEF reduced
<1>14. y \in Nat
  <2>1. y \in Outcome
    BY <1>4, <1>7, <1>13, GetYDType DEF Outcome
  <2> QED BY <1>2, <2>1 DEF Outcome
<1> HIDE DEF y
<1>15. reduced[i] - y - 1 \in Nat /\ xp[i] - new_y \in Nat
  BY <1>2, <1>8, <1>9, <1>10, <1>13, <1>14, SMT
<1>16. dy \in Nat /\ dy_0 \in Nat
  BY <1>3, <1>15, Quotient
<1> HIDE DEF dy, dy_0
<1>17. dy_0 - dy \in Nat
  BY <1>2, <1>16, SMT
<1> QED BY <1>2, <1>6, <1>16, <1>17

LEMMA RemoveLiquidityOneCoinBooks ==
    ASSUME BooksInv, RatesInv, TimeInv, NEW amount \in Shares, NEW i \in Coins, NEW min,
           RemoveLiquidityOneCoin(amount, i, min)
    PROVE  BooksInv'
<1>1. token_supply > 0 /\ token_supply' = token_supply - amount
  BY DEF RemoveLiquidityOneCoin
<1>2. PICK w \in CalcWithdrawOneCoin(amount, i) :
          LET booked == w.dy + (w.fee * fees[2]) \div FEE_DENOMINATOR
          IN  /\ balances[i] >= booked
              /\ balances' = [balances EXCEPT ![i] = @ - booked]
              /\ held' = [held EXCEPT ![i] = @ - w.dy]
  BY DEF RemoveLiquidityOneCoin
<1>3. w.dy \in Nat /\ w.fee \in Nat /\ amount <= token_supply
  BY <1>1, CalcType
<1> DEFINE part == (w.fee * fees[2]) \div FEE_DENOMINATOR
           booked == w.dy + part
<1>4. part \in Nat
  <2>1. fees[2] \in Nat /\ FEE_DENOMINATOR \in Nat \ {0}
    BY RateTypes DEF RatesInv
  <2>2. w.fee * fees[2] \in Nat
    BY <1>3, <2>1, Product
  <2> QED BY <2>1, <2>2, Quotient
<1>5. /\ balances[i] >= booked
      /\ balances' = [balances EXCEPT ![i] = @ - booked]
      /\ held' = [held EXCEPT ![i] = @ - w.dy]
  BY <1>2
<1> HIDE DEF part
<1>6. /\ balances[i] - booked \in Nat /\ held[i] - w.dy \in Nat
      /\ balances[i] - booked <= held[i] - w.dy
  BY <1>3, <1>4, <1>5, SMT DEF BooksInv
<1> HIDE DEF booked
<1>7. token_supply' \in Nat
  BY <1>1, <1>3, PoolAssumption, SMT DEF BooksInv
<1> QED BY <1>5, <1>6, <1>7 DEF BooksInv

LEMMA GiftBooks ==
    ASSUME BooksInv, NEW i \in Coins, NEW amount \in CoinAmounts, Gift(i, amount)
    PROVE  BooksInv'
<1>1. amount \in Nat
  BY PoolAssumption
<1>2. held' = [held EXCEPT ![i] = @ + amount] /\ UNCHANGED <<balances, token_supply>>
  BY DEF Gift
<1>3. /\ held[i] + amount \in Nat /\ balances[i] \in Nat /\ held[i] \in Nat
      /\ balances[i] <= held[i] + amount
  BY <1>1, SMT DEF BooksInv
<1> QED BY <1>1, <1>2, <1>3 DEF BooksInv

-----------------------------------------------------------------------------
(* The owner, and all steps *)

\* What is announced is what apply_new_fee would set, from the announced delay on.
NoticeInv ==
    admin_actions_deadline # 0 =>
        /\ notice.at \in Nat /\ notice.fees = future_fees
        /\ admin_actions_deadline = notice.at + ADMIN_ACTIONS_DELAY

PoolInv == BooksInv /\ RatesInv /\ TimeInv /\ NoticeInv

poolSettings == <<fees, coefficient, admin_actions_deadline, future_fees, notice, now>>

LEMMA SettingsKept ==
    ASSUME RatesInv, TimeInv, NoticeInv, UNCHANGED poolSettings
    PROVE  RatesInv' /\ TimeInv' /\ NoticeInv'
  BY DEF poolSettings, RatesInv, Rates, TimeInv, NoticeInv

LEMMA BooksKept ==
    ASSUME BooksInv, UNCHANGED money
    PROVE  BooksInv'
  BY DEF BooksInv, money

LEMMA PoolStart == PoolInit => PoolInv
<1> SUFFICES ASSUME PoolInit PROVE PoolInv
  OBVIOUS
<1>1. BooksInv
  BY SMT DEF PoolInit, BooksInv
<1>2. RatesInv
  <2>1. PICK f \in Fees : f[1] <= MAX_FEE /\ f[2] <= MAX_ADMIN_FEE /\ fees = f
    BY DEF PoolInit
  <2>2. f[1] \in Nat /\ f[2] \in Nat
    BY PoolAssumption
  <2>3. f[1] \in 0 .. MAX_FEE /\ f[2] \in 0 .. MAX_ADMIN_FEE
        /\ 0 \in 0 .. MAX_FEE /\ 0 \in 0 .. MAX_ADMIN_FEE
    BY <2>1, <2>2, PoolAssumption, SMT
  <2> QED BY <2>1, <2>3 DEF PoolInit, RatesInv, Rates
<1>3. TimeInv
  BY PoolAssumption, SMT DEF PoolInit, TimeInv
<1>4. NoticeInv
  BY DEF PoolInit, NoticeInv
<1> QED BY <1>1, <1>2, <1>3, <1>4 DEF PoolInv

LEMMA UserStep ==
    ASSUME PoolInv, User
    PROVE  PoolInv'
<1> USE DEF PoolInv
<1>1. BooksInv' /\ UNCHANGED poolSettings
  <2>1. ASSUME NEW min, NEW i \in Coins, NEW a \in CoinAmounts, Exchange(i, a, min)
        PROVE  BooksInv' /\ UNCHANGED poolSettings
    BY <2>1, ExchangeBooks DEF Exchange, poolSettings, owner
  <2>2. ASSUME NEW min, NEW amounts \in [Coins -> CoinAmounts], AddLiquidity(amounts, min)
        PROVE  BooksInv' /\ UNCHANGED poolSettings
    BY <2>2, AddLiquidityBooks DEF AddLiquidity, poolSettings, owner
  <2>3. ASSUME NEW min, NEW a \in Shares, RemoveLiquidity(a, min)
        PROVE  BooksInv' /\ UNCHANGED poolSettings
    BY <2>3, RemoveLiquidityBooks DEF RemoveLiquidity, poolSettings, owner
  <2>4. ASSUME NEW min, NEW a \in Shares, NEW i \in Coins, RemoveLiquidityOneCoin(a, i, min)
        PROVE  BooksInv' /\ UNCHANGED poolSettings
    <3>1. UNCHANGED <<fees, owner, future_fees, now>>
      BY <2>4 DEF RemoveLiquidityOneCoin
    <3> QED BY <2>4, <3>1, RemoveLiquidityOneCoinBooks DEF poolSettings, owner
  <2>5. ASSUME NEW max, NEW amounts \in [Coins -> CoinAmounts],
               RemoveLiquidityImbalance(amounts, max)
        PROVE  BooksInv' /\ UNCHANGED poolSettings
    BY <2>5, RemoveLiquidityImbalanceBooks DEF RemoveLiquidityImbalance, poolSettings, owner
  <2>6. ASSUME NEW i \in Coins, NEW a \in CoinAmounts, Gift(i, a)
        PROVE  BooksInv' /\ UNCHANGED poolSettings
    BY <2>6, GiftBooks DEF Gift, poolSettings, owner
  <2> QED BY <2>1, <2>2, <2>3, <2>4, <2>5, <2>6 DEF User
<1> QED BY <1>1, SettingsKept

LEMMA OwnerStep ==
    ASSUME PoolInv, Owner
    PROVE  PoolInv'
<1> USE DEF PoolInv
<1>1. ASSUME NEW A \in Coefficients, NEW t \in 1 .. MaxTime + 1, RampAmplificationCoefficient(A, t)
      PROVE  PoolInv'
  <2>1. /\ coefficient' = [A0 |-> GetAmplificationCoefficient, A1 |-> A, t0 |-> now, t1 |-> t]
        /\ UNCHANGED <<money, fees, admin_actions_deadline, notice, future_fees, now>>
        /\ t >= now + MIN_RAMP_TIME
    BY <1>1 DEF RampAmplificationCoefficient
  <2>2. GetAmplificationCoefficient \in Nat \ {0} /\ A \in Nat \ {0}
    BY CoefficientType, PoolAssumption
  <2>3. t \in Nat /\ now <= now
    BY PoolAssumption, SMT DEF TimeInv
  <2>4. TimeInv'
    BY <2>1, <2>2, <2>3 DEF TimeInv
  <2>5. RatesInv' /\ NoticeInv' /\ BooksInv'
    BY <2>1, BooksKept DEF RatesInv, Rates, NoticeInv
  <2> QED BY <2>4, <2>5
<1>2. CASE StopRamp
  <2>1. /\ coefficient' = [A0 |-> GetAmplificationCoefficient, A1 |-> GetAmplificationCoefficient,
                           t0 |-> now, t1 |-> now]
        /\ UNCHANGED <<money, fees, admin_actions_deadline, notice, future_fees, now>>
    BY <1>2 DEF StopRamp
  <2>2. GetAmplificationCoefficient \in Nat \ {0} /\ now <= now
    BY CoefficientType, SMT DEF TimeInv
  <2>3. TimeInv'
    BY <2>1, <2>2 DEF TimeInv
  <2>4. RatesInv' /\ NoticeInv' /\ BooksInv'
    BY <2>1, BooksKept DEF RatesInv, Rates, NoticeInv
  <2> QED BY <2>3, <2>4
<1>3. ASSUME NEW f \in Fees, CommitNewFee(f) PROVE PoolInv'
  <2>1. /\ f[1] <= MAX_FEE /\ f[2] <= MAX_ADMIN_FEE
        /\ admin_actions_deadline' = now + ADMIN_ACTIONS_DELAY
        /\ future_fees' = f /\ notice' = [fees |-> f, at |-> now]
        /\ UNCHANGED <<money, fees, coefficient, now>>
    BY <1>3 DEF CommitNewFee
  <2>2. f[1] \in Nat /\ f[2] \in Nat
    BY PoolAssumption
  <2>3. Rates(f)
    BY <2>1, <2>2, PoolAssumption, SMT DEF Rates
  <2>4. RatesInv' /\ TimeInv' /\ BooksInv'
    BY <2>1, <2>3, BooksKept DEF RatesInv, Rates, TimeInv
  <2>5. now \in Nat
    BY DEF TimeInv
  <2>6. NoticeInv'
    BY <2>1, <2>5 DEF NoticeInv
  <2> QED BY <2>4, <2>6
<1>4. CASE ApplyNewFee
  <2>1. fees' = future_fees /\ admin_actions_deadline' = 0
        /\ UNCHANGED <<money, coefficient, future_fees, now>>
    BY <1>4 DEF ApplyNewFee
  <2> QED BY <2>1, BooksKept DEF RatesInv, Rates, TimeInv, NoticeInv
<1>5. CASE RevertNewParameters
  <2>1. admin_actions_deadline' = 0 /\ UNCHANGED <<money, fees, coefficient, future_fees, now>>
    BY <1>5 DEF RevertNewParameters
  <2> QED BY <2>1, BooksKept DEF RatesInv, Rates, TimeInv, NoticeInv
<1>6. CASE WithdrawAdminFees
  <2>1. held' = balances /\ UNCHANGED <<balances, token_supply>> /\ UNCHANGED poolSettings
    BY <1>6 DEF WithdrawAdminFees, poolSettings
  <2>2. \A i \in Coins : balances[i] <= balances[i]
    BY SMT DEF BooksInv
  <2>3. BooksInv'
    BY <2>1, <2>2 DEF BooksInv
  <2> QED BY <2>1, <2>3, SettingsKept
<1>7. CASE DonateAdminFees
  <2>1. balances' = held /\ UNCHANGED <<held, token_supply>> /\ UNCHANGED poolSettings
    BY <1>7 DEF DonateAdminFees, poolSettings
  <2>2. \A i \in Coins : held[i] <= held[i]
    BY SMT DEF BooksInv
  <2>3. BooksInv'
    BY <2>1, <2>2 DEF BooksInv
  <2> QED BY <2>1, <2>3, SettingsKept
<1>8. CASE KillMe \/ UnkillMe
  <2>1. UNCHANGED <<money, poolSettings>>
    BY <1>8 DEF KillMe, UnkillMe, poolSettings
  <2> QED BY <2>1, BooksKept, SettingsKept
<1> QED BY <1>1, <1>2, <1>3, <1>4, <1>5, <1>6, <1>7, <1>8 DEF Owner

LEMMA PoolStep ==
    ASSUME PoolInv, [PoolNext]_poolVars
    PROVE  PoolInv'
<1>1. CASE Tick
  <2>1. /\ now' = now + 1
        /\ UNCHANGED <<money, fees, coefficient, admin_actions_deadline, notice, future_fees>>
    BY <1>1 DEF Tick, owner
  <2>2. now' \in Nat \ {0} /\ coefficient.t0 <= now'
    BY <2>1, SMT DEF PoolInv, TimeInv
  <2>3. TimeInv'
    BY <2>1, <2>2 DEF PoolInv, TimeInv
  <2> QED BY <2>1, <2>3, BooksKept DEF PoolInv, RatesInv, Rates, NoticeInv
<1>2. CASE UNCHANGED poolVars
  <2>1. UNCHANGED <<money, poolSettings>>
    BY <1>2 DEF poolVars, poolSettings, owner
  <2> QED BY <2>1, BooksKept, SettingsKept DEF PoolInv
<1> QED BY <1>1, <1>2, UserStep, OwnerStep DEF PoolNext

\* The books, the fees, the coefficient and the announced fees of the pool stay in order
\* through every call of its users and of its owner (StableSwapTwoPool.sol).
THEOREM PoolInvariant == PoolSpec => []PoolInv
  BY PoolStart, PoolStep, PTL DEF PoolSpec

\* What the pool accounts for it owns: no rounding of get_D, get_y or a fee, no deposit,
\* exchange or withdrawal pays out more than what it takes off the balances, so that the
\* subtraction in withdraw_admin_fees never underflows (StableSwapTwoPool.sol).
THEOREM SolventTheorem == PoolSpec => []Solvent
<1>1. PoolInv => Solvent
  BY SMT DEF PoolInv, BooksInv, Solvent, NotNegative
<1> QED BY <1>1, PoolInvariant, PTL

\* The fees change only to what commit_new_fee announced the delay before, and what
\* revert_new_parameters has not revoked (StableSwapTwoPool.sol apply_new_fee).
THEOREM FeesAnnouncedTheorem == PoolSpec => FeesAreAnnounced
<1>1. PoolInv /\ [PoolNext]_poolVars =>
          [ \/ fees' = fees
            \/ /\ notice.at # Revert
               /\ fees' = notice.fees
               /\ now >= notice.at + ADMIN_ACTIONS_DELAY ]_poolVars
  <2> SUFFICES ASSUME PoolInv, PoolNext, fees' # fees
               PROVE  /\ notice.at # Revert
                      /\ fees' = notice.fees
                      /\ now >= notice.at + ADMIN_ACTIONS_DELAY
    OBVIOUS
  <2>1. ApplyNewFee
    <3>1. ~User
      BY DEF User, Exchange, AddLiquidity, RemoveLiquidity, RemoveLiquidityOneCoin,
             RemoveLiquidityImbalance, Gift
    <3>2. ~Tick
      BY DEF Tick
    <3> QED BY <3>1, <3>2
            DEF PoolNext, Owner, RampAmplificationCoefficient, StopRamp, CommitNewFee,
                RevertNewParameters, WithdrawAdminFees, DonateAdminFees, KillMe, UnkillMe
  <2>2. /\ now >= admin_actions_deadline /\ admin_actions_deadline # 0 /\ fees' = future_fees
    BY <2>1 DEF ApplyNewFee
  <2>3. /\ notice.at \in Nat /\ notice.fees = future_fees
        /\ admin_actions_deadline = notice.at + ADMIN_ACTIONS_DELAY
    BY <2>2 DEF PoolInv, NoticeInv
  <2>4. notice.at # Revert
    BY <2>3, SMT DEF Revert
  <2> QED BY <2>2, <2>3, <2>4
<1> QED BY <1>1, PoolInvariant, PTL DEF PoolSpec, FeesAreAnnounced

\* What L2Bridge knows about the pool: the coins it has.
Liquidity == [native |-> held[Native], bAzero |-> held[OtherCoin(Native)]]

\* An exchange of native coins for bAZERO and one of bAZERO for native coins, as L2Bridge
\* has them: any amount the pool has that is not below the minimum.
SwapsToBAzero(amount, min) ==
    \E out \in min .. Liquidity.bAzero :
        Liquidity' = [native |-> Liquidity.native + amount, bAzero |-> Liquidity.bAzero - out]
SwapsToNative(amount, min) ==
    \E out \in min .. Liquidity.native :
        Liquidity' = [native |-> Liquidity.native - out, bAzero |-> Liquidity.bAzero + amount]

LEMMA ExchangeMoves ==
    ASSUME PoolInv, NEW s \in Coins, NEW amount \in CoinAmounts, NEW min \in Nat,
           Exchange(s, amount, min)
    PROVE  \E out \in min .. held[OtherCoin(s)] :
               held'[s] = held[s] + amount /\ held'[OtherCoin(s)] = held[OtherCoin(s)] - out
<1>1. PICK out, admin : Exchanged(s, amount, min, out, admin)
  BY ExchangePays DEF PoolInv
<1> DEFINE d == OtherCoin(s)
<1>2. d \in Coins /\ d # s
  BY TwoCoins
<1> HIDE DEF d
<1>3. /\ out \in Nat /\ admin \in Nat /\ out >= min /\ out + admin <= balances[d]
      /\ held' = [held EXCEPT ![s] = @ + amount, ![d] = @ - out]
  BY <1>1 DEF Exchanged, d
<1>4. held \in [Coins -> Nat] /\ balances[d] \in Nat /\ held[d] \in Nat /\ balances[d] <= held[d]
  BY <1>2 DEF PoolInv, BooksInv
<1>5. out \in min .. held[d]
  BY <1>3, <1>4, SMT
<1>6. held'[s] = held[s] + amount /\ held'[d] = held[d] - out
  BY <1>2, <1>3, <1>4
<1> QED BY <1>5, <1>6 DEF d

\* exchange_to_native and exchange_from_native do to the pool's coins what L2Bridge assumes
\* of the pool: they pay an amount that is there and not below the minimum, and take what
\* the sender gives, whatever the fees and the amplification coefficient are.
THEOREM PoolAnswersTheorem ==
    PoolSpec => [][ \A amount \in CoinAmounts, min \in Nat :
                      /\ Exchange(Native, amount, min) => SwapsToBAzero(amount, min)
                      /\ Exchange(OtherCoin(Native), amount, min) => SwapsToNative(amount, min)
                  ]_poolVars
<1>1. PoolInv /\ [PoolNext]_poolVars =>
          \A amount \in CoinAmounts, min \in Nat :
              /\ Exchange(Native, amount, min) => SwapsToBAzero(amount, min)
              /\ Exchange(OtherCoin(Native), amount, min) => SwapsToNative(amount, min)
  <2> SUFFICES ASSUME PoolInv, NEW amount \in CoinAmounts, NEW min \in Nat
               PROVE  /\ Exchange(Native, amount, min) => SwapsToBAzero(amount, min)
                      /\ Exchange(OtherCoin(Native), amount, min) => SwapsToNative(amount, min)
    OBVIOUS
  <2>1. Native \in Coins /\ OtherCoin(Native) \in Coins /\ OtherCoin(OtherCoin(Native)) = Native
    BY PoolAssumption, SMT DEF Coins, OtherCoin
  <2>2. /\ Liquidity.native = held[Native] /\ Liquidity.bAzero = held[OtherCoin(Native)]
        /\ Liquidity' = [native |-> held'[Native], bAzero |-> held'[OtherCoin(Native)]]
    BY DEF Liquidity
  <2>3. ASSUME Exchange(Native, amount, min) PROVE SwapsToBAzero(amount, min)
    BY <2>1, <2>2, <2>3, ExchangeMoves DEF SwapsToBAzero
  <2>4. ASSUME Exchange(OtherCoin(Native), amount, min) PROVE SwapsToNative(amount, min)
    BY <2>1, <2>2, <2>4, ExchangeMoves DEF SwapsToNative
  <2> QED BY <2>3, <2>4
<1> QED BY <1>1, PoolInvariant, PTL DEF PoolSpec

-----------------------------------------------------------------------------
(* The minimum the bridge asks of the pool *)

\* Percent times the share of an amount, with the division first, misses the exact share by
\* what MIN_SWAP_RATE takes of less than Percent.
LEMMA ShareIsClose ==
    ASSUME NEW amount \in Nat
    PROVE  LET share == (amount \div Percent) * MIN_SWAP_RATE
           IN  /\ share \in Nat
               /\ Percent * share <= MIN_SWAP_RATE * amount
               /\ MIN_SWAP_RATE * amount <= Percent * share + MIN_SWAP_RATE * (Percent - 1)
<1> DEFINE p == Percent
           m == MIN_SWAP_RATE
           q == amount \div p
<1>1. p \in Nat \ {0} /\ m \in Nat
  BY Numbers
<1>2. q \in Nat /\ p * q <= amount /\ amount < p * q + p
  BY <1>1, Quotient
<1> HIDE DEF p, m, q
<1> DEFINE pq == p * q
<1>3. pq \in Nat /\ q * m \in Nat
  BY <1>1, <1>2, Product
<1>4. p * (q * m) = m * pq
  BY <1>1, <1>2, SMT
<1>5. pq <= amount /\ amount <= pq + (p - 1) /\ pq + (p - 1) \in Nat
  BY <1>1, <1>2, <1>3, SMT
<1> HIDE DEF pq
<1>6. m * pq <= m * amount /\ m * amount <= m * (pq + (p - 1))
  BY <1>1, <1>3, <1>5, ProductMonotone
<1>7. m * (pq + (p - 1)) = m * pq + m * (p - 1)
  BY <1>1, <1>3, SMT
<1>8. /\ q * m \in Nat
      /\ p * (q * m) <= m * amount
      /\ m * amount <= p * (q * m) + m * (p - 1)
  BY <1>3, <1>4, <1>6, <1>7
<1> QED BY <1>8 DEF p, m, q

\* calc_min_amount_out_swap divides before it multiplies.  For native coins the minimum is never
\* above the share MIN_SWAP_RATE / Percent of what the bAZERO is worth, and below it by no
\* more than the share of Percent - 1 units of bAZERO; an amount below Percent has no minimum
\* (MostL2.sol lines 67-78).
THEOREM MinimumIsClose ==
    ASSUME NEW amount \in Nat
    PROVE  LET min == CalcMinAmountOutSwap(amount, FALSE)
           IN  /\ Percent * min <= MIN_SWAP_RATE * amount * RATIO
               /\ MIN_SWAP_RATE * amount * RATIO
                     <= Percent * min + MIN_SWAP_RATE * (Percent - 1) * RATIO
               /\ amount < Percent => min = 0
<1> DEFINE p == Percent
           m == MIN_SWAP_RATE
           share == (amount \div p) * m
           exact == m * amount
           lost == m * (p - 1)
<1>1. /\ p \in Nat \ {0} /\ m \in Nat /\ RATIO \in Nat /\ p - 1 \in Nat
  BY Numbers, SMT
<1>2. share \in Nat /\ p * share <= exact /\ exact <= p * share + lost
  BY ShareIsClose
<1>3. CalcMinAmountOutSwap(amount, FALSE) = share * RATIO
  BY DEF CalcMinAmountOutSwap
<1>4. exact \in Nat /\ lost \in Nat /\ p * share \in Nat
  BY <1>1, <1>2, Product
<1>5. amount < p => share = 0
  <2> SUFFICES ASSUME amount < p PROVE share = 0
    OBVIOUS
  <2>1. amount \div p = 0
    BY <1>1, SMT
  <2>2. 0 * m = 0
    BY <1>1, SMT
  <2> QED BY <2>1, <2>2
<1> HIDE DEF share, exact, lost, p
<1> DEFINE ps == p * share
<1>6. p * (share * RATIO) = ps * RATIO
  BY <1>1, <1>2, SMT
<1>7. ps \in Nat /\ ps <= exact /\ exact <= ps + lost /\ ps + lost \in Nat
  BY <1>2, <1>4, SMT
<1> HIDE DEF ps
<1>8. ps * RATIO <= exact * RATIO /\ exact * RATIO <= (ps + lost) * RATIO
  BY <1>1, <1>4, <1>7, ProductMonotone
<1>9. (ps + lost) * RATIO = ps * RATIO + lost * RATIO
  BY <1>1, <1>4, <1>7, SMT
<1>10. 0 * RATIO = 0
  BY <1>1, SMT
<1>11. /\ p * (share * RATIO) <= exact * RATIO
       /\ exact * RATIO <= p * (share * RATIO) + lost * RATIO
       /\ amount < p => share * RATIO = 0
  BY <1>5, <1>6, <1>8, <1>9, <1>10
<1> QED BY <1>3, <1>11 DEF p, m, exact, lost

=============================================================================
