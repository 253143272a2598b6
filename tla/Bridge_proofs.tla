--------------------------- MODULE Bridge_proofs ---------------------------
(***************************************************************************)
(* Proofs about Bridge for every committee, every minority of faulty       *)
(* guardians, and any amounts and number of requests.                      *)
(***************************************************************************)
EXTENDS Bridge, Sums, SequenceTheorems

LEMMA Constants ==
    /\ IsFiniteSet(Guardians)
    /\ Faulty \subseteq Guardians
    /\ Threshold \in Nat
    /\ Cardinality(Faulty) < Threshold
    /\ Weth # WazEth /\ WethAz # Wazero
    /\ Zero # Weth /\ Zero # WazEth /\ Zero # WethAz /\ Zero # Wazero
    /\ Amounts \subseteq Nat
    /\ RATIO \in Nat \ {0} /\ U128 \in Nat
    /\ \A amount \in Amounts : amount * RATIO \in Nat /\ amount * RATIO < U128
    /\ WethFunds \in Nat
    /\ MaxNonce \in Nat
<1>1. Threshold \in Nat
  BY BridgeAssumption, FS_CardinalityType, SMT
<1>2. \A amount \in Amounts : amount * RATIO \in Nat
  BY BridgeAssumption, SMT
<1> QED BY <1>1, <1>2, BridgeAssumption

LEMMA BothType ==
    ASSUME NEW a, NEW b, a # b, NEW x, NEW y
    PROVE  Both(a, x, b, y)[a] = x /\ Both(a, x, b, y)[b] = y
  BY DEF Both

\* The requests of either direction.
LEMMA RequestTypes ==
    /\ \A r \in ToEth : /\ r.committeeId = 0 /\ r.amount \in Nat
                        /\ r.destToken \in {Weth, Zero, WazEth}
    /\ \A r \in ToAzero : /\ r.committeeId = 0 /\ r.amount \in Nat
                          /\ r.destToken \in {WethAz, Zero}
<1>1. \A r \in ToAzero : /\ r.committeeId = 0 /\ r.amount \in Nat
                         /\ r.destToken \in {WethAz, Zero}
  BY Constants DEF ToAzero, RequestsFor
<1>2. \A r \in ToEth : /\ r.committeeId = 0 /\ r.amount \in Nat
                        /\ r.destToken \in {Weth, Zero, WazEth}
  BY Constants DEF ToEth, RequestsFor
<1> QED BY <1>1, <1>2
-----------------------------------------------------------------------------
(* Logs *)

LEMMA LoggedEmpty == Logged(<<>>) = {}
  BY SMT DEF Logged

LEMMA LoggedAppend ==
    ASSUME NEW S, NEW s \in Seq(S), NEW e
    PROVE  Logged(Append(s, e)) = Logged(s) \cup {e}
<1>1. Len(s) \in Nat /\ Len(Append(s, e)) = Len(s) + 1
  BY SMT
<1>2. \A i \in 1 .. Len(s) : Append(s, e)[i] = s[i]
  BY SMT
<1>3. Append(s, e)[Len(s) + 1] = e
  BY SMT
<1>4. 1 .. Len(s) + 1 = (1 .. Len(s)) \cup {Len(s) + 1}
  BY <1>1, SMT
<1> QED BY <1>1, <1>2, <1>3, <1>4, Zenon DEF Logged

LEMMA LoggedType ==
    ASSUME NEW S, NEW s \in Seq(S)
    PROVE  Logged(s) \subseteq S
  BY SMT DEF Logged

\* The log of a contract numbers its requests.
Numbered(log, nonce) ==
    /\ nonce = Len(log)
    /\ \A i \in 1 .. Len(log) : log[i].nonce < i

LEMMA NumberedAppend ==
    ASSUME NEW S, NEW log \in Seq(S), NEW nonce, Numbered(log, nonce), NEW r, r.nonce = nonce
    PROVE  /\ r \notin Logged(log)
           /\ Numbered(Append(log, r), nonce + 1)
<1>1. nonce = Len(log) /\ Len(log) \in Nat /\ \A i \in 1 .. Len(log) : log[i].nonce < i
  BY SMT DEF Numbered
<1>2. r \notin Logged(log)
  BY <1>1, SMT DEF Logged
<1>3. /\ Len(Append(log, r)) = Len(log) + 1
      /\ \A i \in 1 .. Len(log) : Append(log, r)[i] = log[i]
      /\ Append(log, r)[Len(log) + 1] = r
  BY SMT
<1>4. \A i \in 1 .. Len(log) + 1 : i \in 1 .. Len(log) \/ i = Len(log) + 1
  BY <1>1, SMT
<1>5. r.nonce < Len(log) + 1
  BY <1>1, SMT
<1>6. \A i \in 1 .. Len(log) + 1 : Append(log, r)[i].nonce < i
  BY <1>1, <1>3, <1>4, <1>5
<1> QED BY <1>1, <1>2, <1>3, <1>6 DEF Numbered

-----------------------------------------------------------------------------
(* Votes *)

\* Votes on one chain for the requests logged on the other: the count of a pending request
\* is the number of its voters, and voters that are not all faulty vote for what was logged.
Voting(Reqs, signatures, count, processed, log) ==
    /\ signatures \in [Reqs -> SUBSET Guardians]
    /\ count \in [Reqs -> Nat]
    /\ processed \subseteq Logged(log)
    /\ \A r \in Reqs \ processed : count[r] = Cardinality(signatures[r])
    /\ \A r \in Reqs : signatures[r] \subseteq Faulty \/ r \in Logged(log)

\* What a vote does to them.
Voted(g, r, signatures, count, processed, signatures2, count2, processed2) ==
    /\ r \notin processed
    /\ g \notin signatures[r]
    /\ signatures2 = [signatures EXCEPT ![r] = @ \cup {g}]
    /\ \/ /\ count[r] + 1 >= Threshold
          /\ processed2 = processed \cup {r}
          /\ count2 = [count EXCEPT ![r] = 0]
       \/ /\ processed2 = processed
          /\ count2 = [count EXCEPT ![r] = @ + 1]

\* A quorum is larger than the set of faulty guardians, so that an honest one is in it.
LEMMA VotedKeeps ==
    ASSUME NEW Reqs, NEW signatures, NEW count, NEW processed, NEW log,
           Voting(Reqs, signatures, count, processed, log),
           NEW signatures2, NEW count2, NEW processed2,
           NEW g \in Guardians, NEW r \in Reqs, g \in Faulty \/ r \in Logged(log),
           Voted(g, r, signatures, count, processed, signatures2, count2, processed2)
    PROVE  /\ Voting(Reqs, signatures2, count2, processed2, log)
           /\ r \in processed2 => r \in Logged(log)
<1>1. /\ signatures \in [Reqs -> SUBSET Guardians]
      /\ count \in [Reqs -> Nat]
      /\ processed \subseteq Logged(log)
      /\ \A q \in Reqs \ processed : count[q] = Cardinality(signatures[q])
      /\ \A q \in Reqs : signatures[q] \subseteq Faulty \/ q \in Logged(log)
  BY DEF Voting
<1>2. /\ r \notin processed /\ g \notin signatures[r]
      /\ signatures2 = [signatures EXCEPT ![r] = @ \cup {g}]
  BY DEF Voted
<1>3. /\ signatures2 \in [Reqs -> SUBSET Guardians]
      /\ signatures2[r] = signatures[r] \cup {g}
      /\ \A q \in Reqs \ {r} : signatures2[q] = signatures[q]
  BY <1>1, <1>2
<1>4. IsFiniteSet(signatures[r]) /\ Cardinality(signatures[r]) \in Nat
      /\ Cardinality(signatures2[r]) = count[r] + 1 /\ count[r] \in Nat
  <2>1. IsFiniteSet(signatures[r])
    BY <1>1, Constants, FS_Subset
  <2> QED BY <1>1, <1>2, <1>3, <2>1, FS_AddElement, FS_CardinalityType
<1>5. \A q \in Reqs : signatures2[q] \subseteq Faulty \/ q \in Logged(log)
  BY <1>1, <1>3
<1>6. CASE /\ count[r] + 1 >= Threshold
           /\ processed2 = processed \cup {r}
           /\ count2 = [count EXCEPT ![r] = 0]
  <2>1. r \in Logged(log)
    <3>1. SUFFICES ASSUME signatures2[r] \subseteq Faulty PROVE FALSE
      BY <1>5
    <3>2. Cardinality(signatures2[r]) <= Cardinality(Faulty) /\ Cardinality(Faulty) \in Nat
      BY <3>1, Constants, FS_Subset, FS_CardinalityType
    <3> QED BY <1>4, <1>6, <3>2, Constants, SMT
  <2>2. count2 \in [Reqs -> Nat] /\ \A q \in Reqs \ processed2 : count2[q] = count[q]
    BY <1>1, <1>6, SMT
  <2> QED BY <1>1, <1>3, <1>5, <1>6, <2>1, <2>2 DEF Voting
<1>7. CASE /\ processed2 = processed
           /\ count2 = [count EXCEPT ![r] = @ + 1]
  <2>1. count2 \in [Reqs -> Nat] /\ count2[r] = count[r] + 1
        /\ \A q \in Reqs \ {r} : count2[q] = count[q]
    BY <1>1, <1>7, SMT
  <2>2. \A q \in Reqs \ processed2 : count2[q] = Cardinality(signatures2[q])
    BY <1>1, <1>3, <1>4, <1>7, <2>1
  <2> QED BY <1>1, <1>2, <1>3, <1>5, <1>7, <2>1, <2>2 DEF Voting
<1> QED BY <1>6, <1>7 DEF Voted

\* A longer log keeps them too.
LEMMA VotingGrows ==
    ASSUME NEW Reqs, NEW signatures, NEW count, NEW processed, NEW log, NEW log2,
           Voting(Reqs, signatures, count, processed, log), Logged(log) \subseteq Logged(log2)
    PROVE  Voting(Reqs, signatures, count, processed, log2)
  BY DEF Voting

-----------------------------------------------------------------------------
(* The steps of the contracts, with what governance has set filled in *)

NewRequest(destToken, amount, receiver, nonce) ==
    [committeeId |-> 0, destToken |-> destToken, amount |-> amount, receiver |-> receiver,
     nonce |-> nonce]

EthLogs(destToken, amount, receiver) ==
    /\ e_sent' = Append(e_sent, NewRequest(destToken, amount, receiver, e_requestNonce))
    /\ e_requestNonce' = e_requestNonce + 1

EthSuspends(amount, receiver) ==
    /\ Len(e_frames) < 1
    /\ e_requestNonce + Len(e_frames) < MaxNonce
    /\ e_outside[Weth] >= amount
    /\ e_outside' = [e_outside EXCEPT ![Weth] = @ - amount]
    /\ e_balance' = [e_balance EXCEPT ![Weth] = @ + amount]
    /\ e_frames' = Append(e_frames, [token |-> Weth, destToken |-> WethAz,
                                     amount |-> amount, receiver |-> receiver])
    /\ UNCHANGED <<e_requestNonce, e_sent>>

EthLocks(amount, receiver) ==
    /\ e_requestNonce + Len(e_frames) < MaxNonce
    /\ e_balance' = [e_balance EXCEPT ![Weth] = @ + amount]
    /\ EthLogs(WethAz, amount, receiver)
    /\ UNCHANGED <<e_outside, e_frames>>

EthBurns(amount, receiver) ==
    /\ e_requestNonce + Len(e_frames) < MaxNonce
    /\ e_outside[WazEth] >= amount
    /\ e_outside' = [e_outside EXCEPT ![WazEth] = @ - amount]
    /\ EthLogs(Zero, amount, receiver)
    /\ UNCHANGED <<e_balance, e_frames>>

LEMMA EthSendKinds ==
    ASSUME Eth!Send
    PROVE  /\ UNCHANGED <<e_signatures, e_signatureCount, e_processedRequests, e_failed>>
           /\ \/ \E amount \in Amounts, receiver \in Receivers :
                    \/ EthSuspends(amount, receiver)
                    \/ EthLocks(amount, receiver)
                    \/ EthBurns(amount, receiver)
              \/ Eth!SendRequestReturns
<1>1. /\ EthConfig.supportedPairs[Weth] = WethAz
      /\ EthConfig.supportedPairs[WazEth] = Zero
      /\ EthConfig.wrappedAzeroAddress = WazEth
      /\ EthConfig.committeeId = 0
  BY Constants, BothType DEF EthConfig
<1>2. Eth!SendRequestReturns =>
        UNCHANGED <<e_signatures, e_signatureCount, e_processedRequests, e_failed>>
  BY DEF Eth!SendRequestReturns, Eth!voting
<1>3. ASSUME NEW amount \in Amounts, NEW receiver \in Receivers, NEW t \in {Weth, WazEth},
             Eth!SendRequest(t, amount, receiver)
      PROVE  /\ UNCHANGED <<e_signatures, e_signatureCount, e_processedRequests, e_failed>>
             /\ EthSuspends(amount, receiver)
  <2>1. t = Weth
    BY <1>1, <1>3 DEF Eth!SendRequest
  <2> QED BY <1>1, <1>3, <2>1 DEF Eth!SendRequest, Eth!MaySend, Eth!voting, EthSuspends
<1>4. ASSUME NEW amount \in Amounts, NEW receiver \in Receivers,
             Eth!SendRequestNative(amount, receiver)
      PROVE  /\ UNCHANGED <<e_signatures, e_signatureCount, e_processedRequests, e_failed>>
             /\ EthLocks(amount, receiver)
  BY <1>1, <1>4 DEF Eth!SendRequestNative, Eth!MaySend, Eth!voting, Eth!Emit, EthLocks, EthLogs,
     NewRequest
<1>5. ASSUME NEW amount \in Amounts, NEW receiver \in Receivers,
             Eth!SendRequestAzeroToNative(amount, receiver)
      PROVE  /\ UNCHANGED <<e_signatures, e_signatureCount, e_processedRequests, e_failed>>
             /\ EthBurns(amount, receiver)
  BY <1>1, <1>5 DEF Eth!SendRequestAzeroToNative, Eth!MaySend, Eth!voting, Eth!Emit, EthBurns,
     EthLogs, NewRequest
<1> QED BY <1>2, <1>3, <1>4, <1>5 DEF Eth!Send

EthVoted(g, r) ==
    Voted(g, r, e_signatures, e_signatureCount, e_processedRequests,
          e_signatures', e_signatureCount', e_processedRequests')

EthPays(r) ==
    \/ /\ r.destToken = Zero
       /\ e_balance[Weth] >= r.amount
       /\ e_balance' = [e_balance EXCEPT ![Weth] = @ - r.amount]
       /\ UNCHANGED e_outside
       /\ e_failed' \in {e_failed, e_failed \cup {r}}
    \/ /\ r.destToken = WazEth
       /\ e_outside' = [e_outside EXCEPT ![WazEth] = @ + r.amount]
       /\ UNCHANGED <<e_balance, e_failed>>
    \/ /\ r.destToken = Weth
       /\ e_balance[Weth] >= r.amount
       /\ e_balance' = [e_balance EXCEPT ![Weth] = @ - r.amount]
       /\ e_outside' = [e_outside EXCEPT ![Weth] = @ + r.amount]
       /\ UNCHANGED e_failed
    \/ /\ r.destToken = Weth
       /\ e_failed' = e_failed \cup {r}
       /\ UNCHANGED <<e_balance, e_outside>>

LEMMA EthReceiveKinds ==
    ASSUME NEW g, NEW r \in ToEth, Eth!ReceiveRequest(g, r)
    PROVE  /\ EthVoted(g, r)
           /\ UNCHANGED <<e_requestNonce, e_sent, e_frames>>
           /\ \/ UNCHANGED <<e_processedRequests, e_balance, e_outside, e_failed>>
              \/ e_processedRequests' = e_processedRequests \cup {r} /\ EthPays(r)
<1>1. /\ EthConfig.signatureThreshold[r.committeeId] = Threshold
      /\ EthConfig.isLocalToken[Weth] = TRUE /\ EthConfig.isLocalToken[WazEth] = FALSE
  <2>1. r.committeeId = 0
    BY RequestTypes
  <2>2. EthConfig.signatureThreshold[0] = Threshold
    BY DEF EthConfig
  <2>3. EthConfig.isLocalToken = Both(Weth, TRUE, WazEth, FALSE)
    BY DEF EthConfig
  <2>4. Both(Weth, TRUE, WazEth, FALSE)[Weth] = TRUE /\ Both(Weth, TRUE, WazEth, FALSE)[WazEth] = FALSE
    BY Constants DEF Both
  <2> QED BY <2>1, <2>2, <2>3, <2>4
<1>2. r \notin e_processedRequests /\ g \notin e_signatures[r]
      /\ e_signatures' = [e_signatures EXCEPT ![r] = @ \cup {g}]
      /\ UNCHANGED <<e_requestNonce, e_sent, e_frames>>
  BY DEF Eth!ReceiveRequest, Eth!NeedsSignature, Eth!HasSignedRequest, Eth!log
<1>3. CASE ~Eth!ThresholdMet(r)
  BY <1>2, <1>3 DEF Eth!ReceiveRequest, EthVoted, Voted
<1>4. CASE Eth!ThresholdMet(r) /\ Eth!OnReceiveRequestThresholdMet(r)
  <2>1. EthVoted(g, r) /\ e_processedRequests' = e_processedRequests \cup {r}
    BY <1>1, <1>2, <1>4 DEF Eth!OnReceiveRequestThresholdMet, Eth!ThresholdMet, EthVoted, Voted
  <2>2. Eth!PayEther(r) => EthPays(r)
    BY DEF Eth!PayEther, EthPays
  <2>3. Eth!PayMint(r) => EthPays(r)
    BY DEF Eth!PayMint, EthPays
  <2>4. Eth!PayTransfer(r) => EthPays(r)
    BY <1>1 DEF Eth!PayTransfer, EthPays
  <2> QED BY <1>2, <1>4, <2>1, <2>2, <2>3, <2>4 DEF Eth!OnReceiveRequestThresholdMet
<1> QED BY <1>3, <1>4 DEF Eth!ReceiveRequest

AzeroLogs(destToken, amount, receiver) ==
    /\ a_request_nonce < MaxNonce
    /\ a_sent' = Append(a_sent, NewRequest(destToken, amount, receiver, a_request_nonce))
    /\ a_request_nonce' = a_request_nonce + 1

AzeroBurns(destToken, amount, receiver) ==
    /\ a_outside[WethAz] >= amount
    /\ a_outside' = [a_outside EXCEPT ![WethAz] = @ - amount]
    /\ UNCHANGED a_balance
    /\ AzeroLogs(destToken, amount, receiver)

AzeroLocks(amount, receiver) ==
    /\ a_balance' = [a_balance EXCEPT ![Wazero] = @ + amount]
    /\ UNCHANGED a_outside
    /\ AzeroLogs(WazEth, amount * RATIO, receiver)

LEMMA AzeroSendKinds ==
    ASSUME Azero!Send
    PROVE  /\ UNCHANGED <<a_signatures, a_signature_count, a_processed_requests>>
           /\ \E amount \in Amounts, receiver \in Receivers :
                 \/ \E d \in {Weth, Zero} : AzeroBurns(d, amount, receiver)
                 \/ AzeroLocks(amount, receiver)
<1>1. /\ AzeroConfig.supported_pairs[WethAz] = Weth
      /\ AzeroConfig.supported_pairs[Wazero] = WazEth
      /\ AzeroConfig.wazero = Wazero /\ AzeroConfig.weth = WethAz
      /\ AzeroConfig.local_token = {Wazero}
      /\ AzeroConfig.committee_id = 0
  BY Constants, BothType DEF AzeroConfig
<1>2. ASSUME NEW d, NEW amount, NEW receiver, Azero!ChargeAndEmit(d, amount, receiver)
      PROVE  /\ AzeroLogs(d, amount, receiver)
             /\ UNCHANGED <<a_signatures, a_signature_count, a_processed_requests>>
  BY <1>1, <1>2 DEF Azero!ChargeAndEmit, Azero!voting, AzeroLogs, NewRequest
<1>3. ASSUME NEW amount, Azero!BurnOrLock(WethAz, amount)
      PROVE  /\ a_outside[WethAz] >= amount
             /\ a_outside' = [a_outside EXCEPT ![WethAz] = @ - amount]
             /\ UNCHANGED a_balance
  BY <1>1, <1>3, Constants DEF Azero!BurnOrLock
<1>4. ASSUME NEW amount \in Amounts PROVE Azero!ToRemote(amount) = amount * RATIO
  <2>1. amount * RATIO \in Nat /\ amount * RATIO < U128 /\ U128 \in Nat
    BY Constants
  <2> QED BY <2>1, SMT DEF Azero!ToRemote, Azero!Min
<1>5. ASSUME NEW amount \in Amounts, NEW receiver \in Receivers, NEW t \in {WethAz, Wazero},
             Azero!SendRequest(t, amount, receiver)
      PROVE  /\ UNCHANGED <<a_signatures, a_signature_count, a_processed_requests>>
             /\ AzeroBurns(Weth, amount, receiver)
  BY <1>1, <1>2, <1>3, <1>5 DEF Azero!SendRequest, AzeroBurns
<1>6. ASSUME NEW amount \in Amounts, NEW receiver \in Receivers,
             Azero!SendRequestNativeEther(amount, receiver)
      PROVE  /\ UNCHANGED <<a_signatures, a_signature_count, a_processed_requests>>
             /\ AzeroBurns(Zero, amount, receiver)
  BY <1>1, <1>2, <1>3, <1>6 DEF Azero!SendRequestNativeEther, AzeroBurns
<1>7. ASSUME NEW amount \in Amounts, NEW receiver \in Receivers,
             Azero!SendRequestNativeAzero(amount, receiver)
      PROVE  /\ UNCHANGED <<a_signatures, a_signature_count, a_processed_requests>>
             /\ AzeroLocks(amount, receiver)
  <2>1. /\ a_balance' = [a_balance EXCEPT ![Wazero] = @ + amount]
        /\ UNCHANGED a_outside
        /\ Azero!ChargeAndEmit(WazEth, amount * RATIO, receiver)
    BY <1>1, <1>4, <1>7 DEF Azero!SendRequestNativeAzero
  <2> QED BY <1>2, <2>1 DEF AzeroLocks
<1> QED BY <1>5, <1>6, <1>7 DEF Azero!Send

AzeroVoted(g, r) ==
    Voted(g, r, a_signatures, a_signature_count, a_processed_requests,
          a_signatures', a_signature_count', a_processed_requests')

AzeroPays(r) ==
    \/ /\ r.destToken = Zero
       /\ a_balance[Wazero] >= r.amount \div RATIO
       /\ a_balance' = [a_balance EXCEPT ![Wazero] = @ - (r.amount \div RATIO)]
       /\ UNCHANGED a_outside
    \/ /\ r.destToken = WethAz
       /\ a_outside' = [a_outside EXCEPT ![WethAz] = @ + r.amount]
       /\ UNCHANGED a_balance

LEMMA AzeroReceiveKinds ==
    ASSUME NEW g, NEW r \in ToAzero, Azero!ReceiveRequest(g, r)
    PROVE  /\ AzeroVoted(g, r)
           /\ UNCHANGED <<a_request_nonce, a_sent>>
           /\ \/ UNCHANGED <<a_processed_requests, a_balance, a_outside>>
              \/ a_processed_requests' = a_processed_requests \cup {r} /\ AzeroPays(r)
<1>1. /\ AzeroConfig.signature_thresholds[r.committeeId] = Threshold
      /\ AzeroConfig.local_token = {Wazero}
      /\ r.destToken \in {WethAz, Zero}
  <2>1. r.committeeId = 0 /\ r.destToken \in {WethAz, Zero}
    BY RequestTypes
  <2> QED BY <2>1 DEF AzeroConfig
<1>2. r \notin a_processed_requests /\ g \notin a_signatures[r]
      /\ a_signatures' = [a_signatures EXCEPT ![r] = @ \cup {g}]
      /\ UNCHANGED <<a_request_nonce, a_sent>>
  BY DEF Azero!ReceiveRequest, Azero!NeedsSignature, Azero!HasSignedRequest, Azero!log
<1>3. CASE ~Azero!ThresholdMet(r)
  BY <1>2, <1>3 DEF Azero!ReceiveRequest, AzeroVoted, Voted, Azero!psp22
<1>4. CASE Azero!ThresholdMet(r) /\ Azero!Execute(r)
  <2>1. AzeroVoted(g, r) /\ a_processed_requests' = a_processed_requests \cup {r}
    BY <1>1, <1>2, <1>4 DEF Azero!Execute, Azero!ThresholdMet, AzeroVoted, Voted
  <2>2. Azero!UnwrapAzeroTo(r) => AzeroPays(r)
    BY DEF Azero!UnwrapAzeroTo, Azero!FromRemote, AzeroPays
  <2>3. ~Azero!Transfer(r)
    BY <1>1, Constants DEF Azero!Transfer
  <2>4. Azero!MintTo(r) => AzeroPays(r)
    BY <1>1 DEF Azero!MintTo, AzeroPays
  <2> QED BY <1>2, <1>4, <2>1, <2>2, <2>3, <2>4 DEF Azero!Execute
<1> QED BY <1>3, <1>4 DEF Azero!ReceiveRequest

\* A step is one of a user or of a guardian on one of the chains; only faulty guardians
\* vote for what was not logged.
LEMMA BridgeSteps ==
    ASSUME [Next]_vars
    PROVE  \/ Eth!Send /\ UNCHANGED azeroVars
           \/ Azero!Send /\ UNCHANGED ethVars
           \/ \E g \in Guardians, r \in ToEth :
                 /\ g \in Faulty \/ r \in Logged(a_sent)
                 /\ Eth!ReceiveRequest(g, r)
                 /\ UNCHANGED azeroVars
           \/ \E g \in Guardians, r \in ToAzero :
                 /\ g \in Faulty \/ r \in Logged(e_sent)
                 /\ Azero!ReceiveRequest(g, r)
                 /\ UNCHANGED ethVars
           \/ UNCHANGED vars
<1>1. CASE EthUser \/ AzeroUser
  BY <1>1 DEF EthUser, AzeroUser
<1>2. ASSUME NEW g \in Guardians, NEW r \in ToEth, RelayToEth(g, r)
      PROVE  /\ r \in Logged(a_sent) /\ Eth!ReceiveRequest(g, r) /\ UNCHANGED azeroVars
  BY <1>2 DEF RelayToEth
<1>3. ASSUME NEW g \in Guardians, NEW r \in ToAzero, RelayToAzero(g, r)
      PROVE  /\ r \in Logged(e_sent) /\ Azero!ReceiveRequest(g, r) /\ UNCHANGED ethVars
  BY <1>3 DEF RelayToAzero
<1>4. ASSUME NEW g \in Faulty, NEW r \in Forged, Forge(g, r)
      PROVE  /\ g \in Guardians
             /\ \/ r \in ToEth /\ Eth!ReceiveRequest(g, r) /\ UNCHANGED azeroVars
                \/ r \in ToAzero /\ Azero!ReceiveRequest(g, r) /\ UNCHANGED ethVars
  BY <1>4, Constants DEF Forge
<1> QED BY <1>1, <1>2, <1>3, <1>4 DEF Next

-----------------------------------------------------------------------------
(* What is processed was logged *)

EthTokens == {Weth, WazEth}
AzeroTokens == {WethAz, Wazero}

MoneyInv ==
    /\ e_balance \in [EthTokens -> Nat]
    /\ e_outside \in [EthTokens -> Nat]
    /\ a_balance \in [AzeroTokens -> Nat]
    /\ a_outside \in [AzeroTokens -> Nat]

\* At most one sendRequest is suspended, that of some WETH.
FrameInv ==
    \/ e_frames = <<>>
    \/ \E amount \in Amounts, receiver \in Receivers :
          e_frames = <<[token |-> Weth, destToken |-> WethAz, amount |-> amount, receiver |-> receiver]>>

LogInv ==
    /\ e_sent \in Seq(ToAzero) /\ Numbered(e_sent, e_requestNonce)
    /\ a_sent \in Seq(ToEth) /\ Numbered(a_sent, a_request_nonce)
    /\ FrameInv
    /\ e_requestNonce + Len(e_frames) <= MaxNonce

VotesInv ==
    /\ Voting(ToEth, e_signatures, e_signatureCount, e_processedRequests, a_sent)
    /\ Voting(ToAzero, a_signatures, a_signature_count, a_processed_requests, e_sent)
    /\ e_failed \subseteq e_processedRequests

BridgeInv == MoneyInv /\ LogInv /\ VotesInv

\* A suspended call returns with its request logged.
LEMMA EthReturns ==
    ASSUME LogInv, Eth!SendRequestReturns
    PROVE  \E amount \in Amounts, receiver \in Receivers :
              /\ e_frames = <<[token |-> Weth, destToken |-> WethAz, amount |-> amount,
                               receiver |-> receiver]>>
              /\ EthLogs(WethAz, amount, receiver)
              /\ e_frames' = <<>>
              /\ UNCHANGED <<e_balance, e_outside>>
<1>1. PICK amount \in Amounts, receiver \in Receivers :
        e_frames = <<[token |-> Weth, destToken |-> WethAz, amount |-> amount, receiver |-> receiver]>>
  BY DEF LogInv, FrameInv, Eth!SendRequestReturns
<1> DEFINE f == [token |-> Weth, destToken |-> WethAz, amount |-> amount, receiver |-> receiver]
<1>2. Len(e_frames) = 1 /\ e_frames[1] = f /\ SubSeq(e_frames, 1, 0) = <<>> /\ Len(e_frames) - 1 = 0
  BY <1>1, SMT
<1>3. EthConfig.isLocalToken[Weth] = TRUE
  BY Constants DEF EthConfig, Both
<1>4. /\ e_balance' = IF EthConfig.isLocalToken[Weth] THEN e_balance
                      ELSE [e_balance EXCEPT ![Weth] = @ - amount]
      /\ Eth!Emit(WethAz, amount, receiver)
      /\ e_frames' = SubSeq(e_frames, 1, 0)
      /\ UNCHANGED e_outside
  BY <1>2 DEF Eth!SendRequestReturns
<1>5. EthConfig.committeeId = 0
  BY DEF EthConfig
<1>6. EthLogs(WethAz, amount, receiver)
  BY <1>4, <1>5 DEF Eth!Emit, EthLogs, NewRequest
<1> QED BY <1>1, <1>2, <1>3, <1>4, <1>6

\* A request logged on Ethereum is new and of the right kind.
LEMMA EthLogged ==
    ASSUME BridgeInv, NEW d \in {WethAz, Zero}, NEW amount \in Amounts, NEW receiver \in Receivers,
           e_requestNonce < MaxNonce, EthLogs(d, amount, receiver)
    PROVE  LET r == NewRequest(d, amount, receiver, e_requestNonce) IN
           /\ r \in ToAzero /\ r \notin Logged(e_sent)
           /\ Logged(e_sent)' = Logged(e_sent) \cup {r}
           /\ e_sent' \in Seq(ToAzero) /\ Numbered(e_sent, e_requestNonce)'
           /\ r.amount = amount /\ r.destToken = d
           /\ e_requestNonce \in Nat /\ e_requestNonce' = e_requestNonce + 1
<1> DEFINE r == NewRequest(d, amount, receiver, e_requestNonce)
<1>1. e_sent \in Seq(ToAzero) /\ Numbered(e_sent, e_requestNonce) /\ e_requestNonce \in Nat
  BY SMT DEF BridgeInv, LogInv, Numbered
<1>2. e_sent' = Append(e_sent, r) /\ e_requestNonce' = e_requestNonce + 1
  BY DEF EthLogs
<1>3. r.nonce = e_requestNonce /\ r.amount = amount /\ r.destToken = d
  BY DEF NewRequest
<1>4. e_requestNonce \in 0 .. MaxNonce - 1
  BY <1>1, Constants, SMT
<1>5. r \in ToAzero
  BY <1>4 DEF NewRequest, ToAzero, RequestsFor
<1> HIDE DEF r
<1>6. r \notin Logged(e_sent) /\ Numbered(Append(e_sent, r), e_requestNonce + 1)
  BY <1>1, <1>3, NumberedAppend
<1>7. Logged(Append(e_sent, r)) = Logged(e_sent) \cup {r}
  BY <1>1, LoggedAppend
<1>8. Append(e_sent, r) \in Seq(ToAzero)
  BY <1>1, <1>5, AppendProperties
<1> QED BY <1>1, <1>2, <1>3, <1>5, <1>6, <1>7, <1>8 DEF r

LEMMA AzeroLogged ==
    ASSUME BridgeInv, NEW d, NEW amount, NEW receiver \in Receivers,
           \/ d \in {Weth, Zero} /\ amount \in Amounts
           \/ d = WazEth /\ \E a \in Amounts : amount = a * RATIO,
           AzeroLogs(d, amount, receiver)
    PROVE  LET r == NewRequest(d, amount, receiver, a_request_nonce) IN
           /\ r \in ToEth /\ r \notin Logged(a_sent)
           /\ Logged(a_sent)' = Logged(a_sent) \cup {r}
           /\ a_sent' \in Seq(ToEth) /\ Numbered(a_sent, a_request_nonce)'
           /\ r.amount = amount /\ r.destToken = d
<1> DEFINE r == NewRequest(d, amount, receiver, a_request_nonce)
<1>1. a_sent \in Seq(ToEth) /\ Numbered(a_sent, a_request_nonce) /\ a_request_nonce \in Nat
  BY SMT DEF BridgeInv, LogInv, Numbered
<1>2. a_sent' = Append(a_sent, r) /\ a_request_nonce' = a_request_nonce + 1
  BY DEF AzeroLogs
<1>3. r.nonce = a_request_nonce /\ r.amount = amount /\ r.destToken = d
  BY DEF NewRequest
<1>4. a_request_nonce \in 0 .. MaxNonce - 1
  BY <1>1, Constants, SMT DEF AzeroLogs
<1>5. r \in ToEth
  BY <1>4 DEF NewRequest, ToEth, RequestsFor
<1> HIDE DEF r
<1>6. r \notin Logged(a_sent) /\ Numbered(Append(a_sent, r), a_request_nonce + 1)
  BY <1>1, <1>3, NumberedAppend
<1>7. Logged(Append(a_sent, r)) = Logged(a_sent) \cup {r}
  BY <1>1, LoggedAppend
<1>8. Append(a_sent, r) \in Seq(ToEth)
  BY <1>1, <1>5, AppendProperties
<1> QED BY <1>1, <1>2, <1>3, <1>5, <1>6, <1>7, <1>8 DEF r

LEMMA EthSendKeeps ==
    ASSUME BridgeInv, Eth!Send, UNCHANGED azeroVars
    PROVE  BridgeInv'
<1>0. /\ UNCHANGED <<e_signatures, e_signatureCount, e_processedRequests, e_failed>>
      /\ MoneyInv /\ LogInv /\ VotesInv
      /\ UNCHANGED <<a_balance, a_outside, a_sent, a_request_nonce, a_signatures,
                     a_signature_count, a_processed_requests>>
  BY EthSendKinds DEF BridgeInv, azeroVars
<1>1. /\ e_sent \in Seq(ToAzero) /\ Numbered(e_sent, e_requestNonce) /\ e_requestNonce \in Nat
      /\ Len(e_frames) \in Nat /\ e_requestNonce + Len(e_frames) <= MaxNonce
  BY <1>0, SMT DEF LogInv, FrameInv, Numbered
<1>v. ASSUME Logged(e_sent) \subseteq Logged(e_sent)' PROVE VotesInv'
  <2>1. Voting(ToAzero, a_signatures, a_signature_count, a_processed_requests, e_sent')
    BY <1>0, <1>v, VotingGrows DEF VotesInv
  <2> QED BY <1>0, <2>1 DEF VotesInv
<1>2. ASSUME NEW amount \in Amounts, NEW receiver \in Receivers, EthSuspends(amount, receiver)
      PROVE  BridgeInv'
  <2>1. amount \in Nat
    BY Constants
  <2>2. MoneyInv'
    BY <1>0, <1>2, <2>1, SMT DEF EthSuspends, MoneyInv, EthTokens
  <2>3. e_frames = <<>>
    BY <1>0, <1>2, SMT DEF EthSuspends, LogInv, FrameInv
  <2>4. e_frames' = <<[token |-> Weth, destToken |-> WethAz, amount |-> amount, receiver |-> receiver]>>
    BY <1>2, <2>3, SMT DEF EthSuspends
  <2>5. Len(e_frames) = 0 /\ Len(e_frames)' = 1
    BY <2>3, <2>4, SMT
  <2>6. e_requestNonce + 1 <= MaxNonce
    BY <1>1, <1>2, <2>5, Constants, SMT DEF EthSuspends
  <2>7. LogInv'
    BY <1>0, <1>2, <2>4, <2>5, <2>6 DEF EthSuspends, LogInv, FrameInv
  <2> QED BY <1>2, <1>v, <2>2, <2>7 DEF EthSuspends, BridgeInv, Logged
<1>3. ASSUME NEW amount \in Amounts, NEW receiver \in Receivers,
             EthLocks(amount, receiver) \/ EthBurns(amount, receiver)
      PROVE  BridgeInv'
  <2>1. amount \in Nat
    BY Constants
  <2>2. MoneyInv'
    <3>1. CASE EthLocks(amount, receiver)
      BY <1>0, <2>1, <3>1, SMT DEF EthLocks, MoneyInv, EthTokens
    <3>2. CASE EthBurns(amount, receiver)
      BY <1>0, <2>1, <3>2, SMT DEF EthBurns, MoneyInv, EthTokens
    <3> QED BY <1>3, <3>1, <3>2
  <2>3. /\ UNCHANGED e_frames /\ e_requestNonce + Len(e_frames) < MaxNonce
        /\ EthLogs(WethAz, amount, receiver) \/ EthLogs(Zero, amount, receiver)
    BY <1>3 DEF EthLocks, EthBurns
  <2>4. e_requestNonce < MaxNonce
    BY <1>1, <2>3, Constants, SMT
  <2>5. /\ Logged(e_sent) \subseteq Logged(e_sent)'
        /\ e_sent' \in Seq(ToAzero) /\ Numbered(e_sent, e_requestNonce)'
        /\ e_requestNonce' = e_requestNonce + 1
    BY <2>3, <2>4, EthLogged
  <2>6. e_requestNonce' + Len(e_frames) <= MaxNonce
    BY <1>1, <2>3, <2>5, Constants, SMT
  <2> QED BY <1>0, <1>v, <2>2, <2>3, <2>5, <2>6 DEF BridgeInv, LogInv, FrameInv
<1>4. CASE Eth!SendRequestReturns
  <2>1. PICK amount \in Amounts, receiver \in Receivers :
          /\ e_frames = <<[token |-> Weth, destToken |-> WethAz, amount |-> amount,
                           receiver |-> receiver]>>
          /\ EthLogs(WethAz, amount, receiver)
          /\ e_frames' = <<>>
          /\ UNCHANGED <<e_balance, e_outside>>
    BY <1>0, <1>4, EthReturns
  <2>2. Len(e_frames) = 1 /\ Len(e_frames)' = 0
    BY <2>1, SMT
  <2>3. e_requestNonce < MaxNonce
    BY <1>1, <2>2, Constants, SMT
  <2>4. /\ Logged(e_sent) \subseteq Logged(e_sent)'
        /\ e_sent' \in Seq(ToAzero) /\ Numbered(e_sent, e_requestNonce)'
        /\ e_requestNonce' = e_requestNonce + 1
    BY <2>1, <2>3, EthLogged
  <2>5. e_requestNonce' + 0 <= MaxNonce
    BY <1>1, <2>2, <2>4, Constants, SMT
  <2>6. MoneyInv'
    BY <1>0, <2>1 DEF MoneyInv
  <2> QED BY <1>0, <1>v, <2>1, <2>2, <2>4, <2>5, <2>6 DEF BridgeInv, LogInv, FrameInv
<1> QED BY <1>2, <1>3, <1>4, EthSendKinds

LEMMA AzeroSendKeeps ==
    ASSUME BridgeInv, Azero!Send, UNCHANGED ethVars
    PROVE  BridgeInv'
<1>0. /\ UNCHANGED <<a_signatures, a_signature_count, a_processed_requests>>
      /\ MoneyInv /\ LogInv /\ VotesInv
      /\ UNCHANGED <<e_balance, e_outside, e_sent, e_requestNonce, e_frames, e_signatures,
                     e_signatureCount, e_processedRequests, e_failed>>
  BY AzeroSendKinds DEF BridgeInv, ethVars
<1>v. ASSUME Logged(a_sent) \subseteq Logged(a_sent)' PROVE VotesInv'
  <2>1. Voting(ToEth, e_signatures, e_signatureCount, e_processedRequests, a_sent')
    BY <1>0, <1>v, VotingGrows DEF VotesInv
  <2> QED BY <1>0, <2>1 DEF VotesInv
<1>l. ASSUME /\ Logged(a_sent) \subseteq Logged(a_sent)'
             /\ a_sent' \in Seq(ToEth) /\ Numbered(a_sent, a_request_nonce)',
             MoneyInv'
      PROVE  BridgeInv'
  BY <1>0, <1>v, <1>l DEF BridgeInv, LogInv, FrameInv
<1>1. ASSUME NEW amount \in Amounts, NEW receiver \in Receivers, NEW d \in {Weth, Zero},
             AzeroBurns(d, amount, receiver)
      PROVE  BridgeInv'
  <2>1. amount \in Nat
    BY Constants
  <2>2. MoneyInv'
    BY <1>0, <1>1, <2>1, SMT DEF AzeroBurns, MoneyInv, AzeroTokens
  <2> QED BY <1>1, <1>l, <2>2, AzeroLogged DEF AzeroBurns
<1>2. ASSUME NEW amount \in Amounts, NEW receiver \in Receivers, AzeroLocks(amount, receiver)
      PROVE  BridgeInv'
  <2>1. amount \in Nat
    BY Constants
  <2>2. MoneyInv'
    BY <1>0, <1>2, <2>1, SMT DEF AzeroLocks, MoneyInv, AzeroTokens
  <2> QED BY <1>2, <1>l, <2>2, AzeroLogged DEF AzeroLocks
<1> QED BY <1>1, <1>2, AzeroSendKinds

LEMMA EthReceiveKeeps ==
    ASSUME BridgeInv, NEW g \in Guardians, NEW r \in ToEth, g \in Faulty \/ r \in Logged(a_sent),
           Eth!ReceiveRequest(g, r), UNCHANGED azeroVars
    PROVE  BridgeInv'
<1>0. /\ MoneyInv /\ LogInv /\ VotesInv
      /\ UNCHANGED <<a_balance, a_outside, a_sent, a_request_nonce, a_signatures,
                     a_signature_count, a_processed_requests>>
      /\ EthVoted(g, r)
      /\ UNCHANGED <<e_requestNonce, e_sent, e_frames>>
  BY EthReceiveKinds DEF BridgeInv, azeroVars
<1>1. r.amount \in Nat
  BY RequestTypes
<1>2. Voting(ToEth, e_signatures', e_signatureCount', e_processedRequests', a_sent)
  BY <1>0, VotedKeeps DEF VotesInv, EthVoted
<1>3. MoneyInv' /\ e_failed' \subseteq e_processedRequests'
  <2>1. CASE UNCHANGED <<e_processedRequests, e_balance, e_outside, e_failed>>
    BY <1>0, <2>1 DEF MoneyInv, VotesInv
  <2>2. CASE e_processedRequests' = e_processedRequests \cup {r} /\ EthPays(r)
    <3>1. MoneyInv'
      BY <1>0, <1>1, <2>2, SMT DEF EthPays, MoneyInv, EthTokens
    <3>2. e_failed' \subseteq e_failed \cup {r}
      BY <2>2 DEF EthPays
    <3> QED BY <1>0, <2>2, <3>1, <3>2 DEF VotesInv
  <2> QED BY <2>1, <2>2, EthReceiveKinds
<1> QED BY <1>0, <1>2, <1>3 DEF BridgeInv, LogInv, FrameInv, VotesInv

LEMMA AzeroReceiveKeeps ==
    ASSUME BridgeInv, NEW g \in Guardians, NEW r \in ToAzero, g \in Faulty \/ r \in Logged(e_sent),
           Azero!ReceiveRequest(g, r), UNCHANGED ethVars
    PROVE  BridgeInv'
<1>0. /\ MoneyInv /\ LogInv /\ VotesInv
      /\ UNCHANGED <<e_balance, e_outside, e_sent, e_requestNonce, e_frames, e_signatures,
                     e_signatureCount, e_processedRequests, e_failed>>
      /\ AzeroVoted(g, r)
      /\ UNCHANGED <<a_request_nonce, a_sent>>
  BY AzeroReceiveKinds DEF BridgeInv, ethVars
<1>1. r.amount \in Nat /\ r.amount \div RATIO \in Nat
  BY RequestTypes, Constants, SMT
<1>2. Voting(ToAzero, a_signatures', a_signature_count', a_processed_requests', e_sent)
  BY <1>0, VotedKeeps DEF VotesInv, AzeroVoted
<1>3. MoneyInv'
  <2>1. CASE UNCHANGED <<a_processed_requests, a_balance, a_outside>>
    BY <1>0, <2>1 DEF MoneyInv
  <2>2. CASE AzeroPays(r)
    <3> DEFINE q == r.amount \div RATIO
    <3>1. q \in Nat
      BY <1>1
    <3>2. \/ /\ a_balance[Wazero] >= q
             /\ a_balance' = [a_balance EXCEPT ![Wazero] = @ - q]
             /\ UNCHANGED a_outside
          \/ /\ a_outside' = [a_outside EXCEPT ![WethAz] = @ + r.amount]
             /\ UNCHANGED a_balance
      BY <2>2 DEF AzeroPays
    <3> HIDE DEF q
    <3> QED BY <1>0, <1>1, <3>1, <3>2, SMT DEF MoneyInv, AzeroTokens
  <2> QED BY <2>1, <2>2, AzeroReceiveKinds
<1> QED BY <1>0, <1>2, <1>3 DEF BridgeInv, LogInv, FrameInv, VotesInv

\* In every reachable state votes, logs and balances are in order on both chains.
THEOREM BridgeInvariant == Spec => []BridgeInv
<1>1. Init => BridgeInv
  <2> SUFFICES ASSUME Init PROVE BridgeInv
    OBVIOUS
  <2>1. MoneyInv
    <3>1. WethFunds \in Nat /\ 0 \in Nat
      BY Constants, SMT
    <3> QED BY <3>1 DEF Init, MoneyInv, Both, EthTokens, AzeroTokens
  <2>2. LogInv
    BY Constants, SMT DEF Init, LogInv, FrameInv, Numbered
  <2>3. Cardinality({}) = 0 /\ 0 \in Nat
    BY FS_EmptySet, SMT
  <2>4. VotesInv
    BY <2>3 DEF Init, VotesInv, Voting
  <2> QED BY <2>1, <2>2, <2>4 DEF BridgeInv
<1>2. BridgeInv /\ [Next]_vars => BridgeInv'
  <2> SUFFICES ASSUME BridgeInv, [Next]_vars PROVE BridgeInv'
    OBVIOUS
  <2>1. CASE UNCHANGED vars
    BY <2>1 DEF vars, ethVars, azeroVars, BridgeInv, MoneyInv, LogInv, FrameInv, VotesInv
  <2> QED
    BY <2>1, BridgeSteps, EthSendKeeps, AzeroSendKeeps, EthReceiveKeeps, AzeroReceiveKeeps
<1> QED BY <1>1, <1>2, PTL DEF Spec

\* A request is processed on one chain only if the contract on the other logged it, for
\* every committee whose faulty members are fewer than its threshold.
THEOREM NoForgedTheorem == Spec => []NoForgedPayout
<1>1. BridgeInv => NoForgedPayout
  BY DEF BridgeInv, VotesInv, Voting, NoForgedPayout
<1> QED BY <1>1, BridgeInvariant, PTL

-----------------------------------------------------------------------------
(* Backing *)

\* What is on its way among the logged requests L.
Way(L, processed, D) == Sum({r \in L \ processed : r.destToken \in D})

If(condition, amount) == IF condition THEN amount ELSE 0

LEMMA AmountType ==
    ASSUME NEW r \in ToEth \cup ToAzero
    PROVE  Amount[r] = r.amount /\ r.amount \in Nat
  BY RequestTypes DEF Amount

LEMMA SumAmounts ==
    ASSUME NEW S, S \subseteq ToEth \cup ToAzero, IsFiniteSet(S)
    PROVE  /\ Sum(S) \in Nat
           /\ \A r \in (ToEth \cup ToAzero) \ S : Sum(S \cup {r}) = Sum(S) + r.amount
<1>1. \A q \in S : Amount[q] \in Nat
  BY AmountType
<1>2. ASSUME NEW r \in (ToEth \cup ToAzero) \ S PROVE Sum(S \cup {r}) = Sum(S) + r.amount
  <2>1. Amount[r] = r.amount /\ Amount[r] \in Nat
    BY AmountType
  <2> QED BY <1>1, <2>1, SumAdd DEF Sum
<1> QED BY <1>1, <1>2, SumType DEF Sum

\* A new request is on its way.
LEMMA WayGrows ==
    ASSUME NEW L, L \subseteq ToEth \cup ToAzero, IsFiniteSet(L), NEW processed, processed \subseteq L,
           NEW r \in (ToEth \cup ToAzero) \ L, NEW D
    PROVE  Way(L \cup {r}, processed, D) = Way(L, processed, D) + If(r.destToken \in D, r.amount)
<1> DEFINE S == {q \in L \ processed : q.destToken \in D}
<1>1. S \subseteq ToEth \cup ToAzero /\ IsFiniteSet(S) /\ r \notin S
  BY FS_Subset
<1>2. CASE r.destToken \in D
  <2>1. {q \in (L \cup {r}) \ processed : q.destToken \in D} = S \cup {r}
    BY <1>2
  <2>2. Sum(S \cup {r}) = Sum(S) + r.amount
    BY <1>1, SumAmounts
  <2> QED BY <1>2, <2>1, <2>2 DEF Way, If
<1>3. CASE r.destToken \notin D
  <2>1. {q \in (L \cup {r}) \ processed : q.destToken \in D} = S
    BY <1>3
  <2>2. Sum(S) \in Nat
    BY <1>1, SumAmounts
  <2> HIDE DEF S
  <2>3. Sum(S) = Sum(S) + 0
    BY <2>2, SMT
  <2> QED BY <1>3, <2>1, <2>3 DEF Way, If, S
<1> QED BY <1>2, <1>3

\* A request that is processed is no longer on its way.
LEMMA WayShrinks ==
    ASSUME NEW L, L \subseteq ToEth \cup ToAzero, IsFiniteSet(L), NEW processed,
           NEW r \in L \ processed, NEW D
    PROVE  Way(L, processed, D) = Way(L, processed \cup {r}, D) + If(r.destToken \in D, r.amount)
<1> DEFINE S == {q \in L \ (processed \cup {r}) : q.destToken \in D}
<1>1. S \subseteq ToEth \cup ToAzero /\ IsFiniteSet(S) /\ r \notin S /\ r \in ToEth \cup ToAzero
  BY FS_Subset
<1>2. CASE r.destToken \in D
  <2>1. {q \in L \ processed : q.destToken \in D} = S \cup {r}
    BY <1>2
  <2>2. Sum(S \cup {r}) = Sum(S) + r.amount
    BY <1>1, SumAmounts
  <2> QED BY <1>2, <2>1, <2>2 DEF Way, If
<1>3. CASE r.destToken \notin D
  <2>1. {q \in L \ processed : q.destToken \in D} = S
    BY <1>3
  <2>2. Sum(S) \in Nat
    BY <1>1, SumAmounts
  <2> HIDE DEF S
  <2>3. Sum(S) = Sum(S) + 0
    BY <2>2, SMT
  <2> QED BY <1>3, <2>1, <2>3 DEF Way, If, S
<1> QED BY <1>2, <1>3

LEMMA WayType ==
    ASSUME NEW L, L \subseteq ToEth \cup ToAzero, IsFiniteSet(L), NEW processed, NEW D
    PROVE  Way(L, processed, D) \in Nat
<1> DEFINE S == {q \in L \ processed : q.destToken \in D}
<1>1. S \subseteq ToEth \cup ToAzero /\ IsFiniteSet(S)
  BY FS_Subset
<1> HIDE DEF S
<1>2. Sum(S) \in Nat
  BY <1>1, SumAmounts
<1> QED BY <1>2 DEF Way, S

\* The terms of the two balance sheets.
WethToAzero == Way(Logged(e_sent), a_processed_requests, {WethAz})
AzeroToAzero == Way(Logged(e_sent), a_processed_requests, {Zero})
WethToEth == Way(Logged(a_sent), e_processedRequests, {Weth, Zero})
AzeroToEth == Way(Logged(a_sent), e_processedRequests, {WazEth})
FailedWeth == {r \in e_failed : r.destToken = Weth}
Unwrapped == {r \in a_processed_requests : r.destToken = Zero}
TotalFailed == Sum(FailedWeth)
TotalCutOff == SumFunctionOnSet(CutOff, Unwrapped)

EthSheet ==
    e_balance[Weth] = a_outside[WethAz] + Suspended + WethToAzero + WethToEth + TotalFailed
AzeroSheet ==
    RATIO * a_balance[Wazero] = e_outside[WazEth] + AzeroToEth + AzeroToAzero + TotalCutOff

LEMMA Sheets == (EthSheet <=> EtherIsBacked) /\ (AzeroSheet <=> AzeroIsBacked)
  BY DEF EthSheet, AzeroSheet, EtherIsBacked, AzeroIsBacked, OnTheWay, Way, WethToAzero,
     AzeroToAzero, WethToEth, AzeroToEth, FailedWeth, Unwrapped, TotalFailed, TotalCutOff

FiniteLogs == IsFiniteSet(Logged(e_sent)) /\ IsFiniteSet(Logged(a_sent))

BackingInv == BridgeInv /\ FiniteLogs /\ EthSheet /\ AzeroSheet

LEMMA SheetTypes ==
    ASSUME BridgeInv, FiniteLogs
    PROVE  /\ e_balance[Weth] \in Nat /\ e_outside[WazEth] \in Nat
           /\ a_balance[Wazero] \in Nat /\ a_outside[WethAz] \in Nat
           /\ RATIO * a_balance[Wazero] \in Nat
           /\ Suspended \in Nat
           /\ WethToAzero \in Nat /\ AzeroToAzero \in Nat
           /\ WethToEth \in Nat /\ AzeroToEth \in Nat
           /\ TotalFailed \in Nat /\ TotalCutOff \in Nat
           /\ Logged(e_sent) \subseteq ToAzero /\ Logged(a_sent) \subseteq ToEth
           /\ a_processed_requests \subseteq Logged(e_sent)
           /\ e_processedRequests \subseteq Logged(a_sent)
           /\ FailedWeth \subseteq ToEth /\ IsFiniteSet(FailedWeth)
           /\ Unwrapped \subseteq ToAzero /\ IsFiniteSet(Unwrapped)
           /\ \A r \in ToAzero : CutOff[r] = r.amount % RATIO /\ CutOff[r] \in Nat
<1>1. /\ e_balance[Weth] \in Nat /\ e_outside[WazEth] \in Nat
      /\ a_balance[Wazero] \in Nat /\ a_outside[WethAz] \in Nat
  BY DEF BridgeInv, MoneyInv, EthTokens, AzeroTokens
<1>2. RATIO * a_balance[Wazero] \in Nat
  BY <1>1, Constants, SMT
<1>3. Suspended \in Nat
  <2>1. CASE e_frames = <<>>
    BY <2>1, SMT DEF Suspended
  <2>2. CASE e_frames # <<>>
    <3>1. PICK amount \in Amounts, receiver \in Receivers :
            e_frames = <<[token |-> Weth, destToken |-> WethAz, amount |-> amount, receiver |-> receiver]>>
      BY <2>2 DEF BridgeInv, LogInv, FrameInv
    <3>2. Suspended = amount
      BY <2>2, <3>1 DEF Suspended
    <3> QED BY <3>2, Constants
  <2> QED BY <2>1, <2>2
<1>4. /\ Logged(e_sent) \subseteq ToAzero /\ Logged(a_sent) \subseteq ToEth
      /\ a_processed_requests \subseteq Logged(e_sent)
      /\ e_processedRequests \subseteq Logged(a_sent)
      /\ e_failed \subseteq e_processedRequests
  BY LoggedType DEF BridgeInv, LogInv, VotesInv, Voting
<1>5. /\ WethToAzero \in Nat /\ AzeroToAzero \in Nat
      /\ WethToEth \in Nat /\ AzeroToEth \in Nat
  <2>1. /\ Logged(e_sent) \subseteq ToEth \cup ToAzero /\ Logged(a_sent) \subseteq ToEth \cup ToAzero
        /\ IsFiniteSet(Logged(e_sent)) /\ IsFiniteSet(Logged(a_sent))
    BY <1>4 DEF FiniteLogs
  <2> QED BY <2>1, WayType DEF WethToAzero, AzeroToAzero, WethToEth, AzeroToEth
<1>6. /\ FailedWeth \subseteq Logged(a_sent) /\ Unwrapped \subseteq Logged(e_sent)
      /\ FailedWeth \subseteq ToEth /\ Unwrapped \subseteq ToAzero
  BY <1>4 DEF FailedWeth, Unwrapped
<1>7. IsFiniteSet(FailedWeth) /\ IsFiniteSet(Unwrapped)
  BY <1>6, FS_Subset DEF FiniteLogs
<1>8. ASSUME NEW r \in ToAzero PROVE CutOff[r] = r.amount % RATIO /\ CutOff[r] \in Nat
  <2>1. r.amount \in Nat
    BY RequestTypes
  <2>2. r.amount % RATIO \in Nat
    BY <2>1, Constants, SMT
  <2> QED BY <2>2 DEF CutOff
<1>9. TotalFailed \in Nat
  BY <1>6, <1>7, SumAmounts DEF TotalFailed
<1>10. TotalCutOff \in Nat
  BY <1>6, <1>7, <1>8, SumType DEF TotalCutOff
<1> QED BY <1>1, <1>2, <1>3, <1>4, <1>5, <1>6, <1>7, <1>8, <1>9, <1>10

\* A request logged on Ethereum adds to what is on its way to Aleph Zero.
LEMMA EthLogsMore ==
    ASSUME BridgeInv, FiniteLogs, NEW d \in {WethAz, Zero}, NEW amount \in Amounts,
           NEW receiver \in Receivers, e_requestNonce < MaxNonce, EthLogs(d, amount, receiver),
           UNCHANGED <<e_processedRequests, e_failed, azeroVars>>
    PROVE  /\ WethToAzero' = WethToAzero + If(d = WethAz, amount)
           /\ AzeroToAzero' = AzeroToAzero + If(d = Zero, amount)
           /\ UNCHANGED <<WethToEth, AzeroToEth, TotalFailed, TotalCutOff>>
           /\ FiniteLogs'
<1> DEFINE r == NewRequest(d, amount, receiver, e_requestNonce)
<1>1. /\ r \in ToAzero /\ r \notin Logged(e_sent) /\ r.amount = amount /\ r.destToken = d
      /\ Logged(e_sent)' = Logged(e_sent) \cup {r}
  BY EthLogged
<1> HIDE DEF r
<1>2. /\ Logged(e_sent) \subseteq ToEth \cup ToAzero /\ IsFiniteSet(Logged(e_sent))
      /\ a_processed_requests \subseteq Logged(e_sent) /\ r \in (ToEth \cup ToAzero) \ Logged(e_sent)
  BY <1>1, SheetTypes DEF FiniteLogs
<1>3. UNCHANGED <<a_processed_requests, a_sent, e_processedRequests, e_failed>>
  BY DEF azeroVars
<1>4. \A D : Way(Logged(e_sent) \cup {r}, a_processed_requests, D)
               = Way(Logged(e_sent), a_processed_requests, D) + If(r.destToken \in D, r.amount)
  BY <1>2, WayGrows
<1>5. WethToAzero' = WethToAzero + If(d = WethAz, amount)
  BY <1>1, <1>3, <1>4 DEF WethToAzero, If
<1>6. AzeroToAzero' = AzeroToAzero + If(d = Zero, amount)
  BY <1>1, <1>3, <1>4 DEF AzeroToAzero, If
<1>7. UNCHANGED <<WethToEth, AzeroToEth, TotalFailed, TotalCutOff>>
  BY <1>3 DEF WethToEth, AzeroToEth, TotalFailed, TotalCutOff, FailedWeth, Unwrapped
<1>8. FiniteLogs'
  BY <1>1, <1>3, FS_AddElement DEF FiniteLogs
<1> QED BY <1>5, <1>6, <1>7, <1>8

\* A request logged on Aleph Zero adds to what is on its way to Ethereum.
LEMMA AzeroLogsMore ==
    ASSUME BridgeInv, FiniteLogs, NEW d, NEW amount, NEW receiver \in Receivers,
           \/ d \in {Weth, Zero} /\ amount \in Amounts
           \/ d = WazEth /\ \E a \in Amounts : amount = a * RATIO,
           AzeroLogs(d, amount, receiver),
           UNCHANGED <<a_processed_requests, ethVars>>
    PROVE  /\ WethToEth' = WethToEth + If(d \in {Weth, Zero}, amount)
           /\ AzeroToEth' = AzeroToEth + If(d = WazEth, amount)
           /\ UNCHANGED <<WethToAzero, AzeroToAzero, TotalFailed, TotalCutOff, Suspended>>
           /\ FiniteLogs'
<1> DEFINE r == NewRequest(d, amount, receiver, a_request_nonce)
<1>1. /\ r \in ToEth /\ r \notin Logged(a_sent) /\ r.amount = amount /\ r.destToken = d
      /\ Logged(a_sent)' = Logged(a_sent) \cup {r}
  BY AzeroLogged
<1> HIDE DEF r
<1>2. /\ Logged(a_sent) \subseteq ToEth \cup ToAzero /\ IsFiniteSet(Logged(a_sent))
      /\ e_processedRequests \subseteq Logged(a_sent) /\ r \in (ToEth \cup ToAzero) \ Logged(a_sent)
  BY <1>1, SheetTypes DEF FiniteLogs
<1>3. UNCHANGED <<a_processed_requests, e_sent, e_processedRequests, e_failed, e_frames>>
  BY DEF ethVars
<1>4. \A D : Way(Logged(a_sent) \cup {r}, e_processedRequests, D)
               = Way(Logged(a_sent), e_processedRequests, D) + If(r.destToken \in D, r.amount)
  BY <1>2, WayGrows
<1>5. WethToEth' = WethToEth + If(d \in {Weth, Zero}, amount)
  BY <1>1, <1>3, <1>4 DEF WethToEth
<1>6. AzeroToEth' = AzeroToEth + If(d = WazEth, amount)
  BY <1>1, <1>3, <1>4 DEF AzeroToEth, If
<1>7. UNCHANGED <<WethToAzero, AzeroToAzero, TotalFailed, TotalCutOff, Suspended>>
  BY <1>3 DEF WethToAzero, AzeroToAzero, TotalFailed, TotalCutOff, FailedWeth, Unwrapped, Suspended
<1>8. FiniteLogs'
  BY <1>1, <1>3, FS_AddElement DEF FiniteLogs
<1> QED BY <1>5, <1>6, <1>7, <1>8

LEMMA EthSendBacked ==
    ASSUME BackingInv, BridgeInv', Eth!Send, UNCHANGED azeroVars
    PROVE  BackingInv'
<1>0. /\ UNCHANGED <<e_signatures, e_signatureCount, e_processedRequests, e_failed>>
      /\ UNCHANGED <<a_balance, a_outside, a_sent, a_processed_requests>>
      /\ MoneyInv /\ LogInv /\ BridgeInv /\ FiniteLogs
      /\ e_requestNonce \in Nat /\ Len(e_frames) \in Nat
      /\ e_requestNonce + Len(e_frames) <= MaxNonce
  <2>1. e_requestNonce \in Nat /\ Len(e_frames) \in Nat
    BY SMT DEF BackingInv, BridgeInv, LogInv, FrameInv, Numbered
  <2> QED BY <2>1, EthSendKinds DEF BackingInv, BridgeInv, LogInv, azeroVars
<1>1. /\ e_balance[Weth] = a_outside[WethAz] + Suspended + WethToAzero + WethToEth + TotalFailed
      /\ RATIO * a_balance[Wazero] = e_outside[WazEth] + AzeroToEth + AzeroToAzero + TotalCutOff
  BY DEF BackingInv, EthSheet, AzeroSheet
<1>2. /\ e_balance[Weth] \in Nat /\ e_outside[WazEth] \in Nat
      /\ a_outside[WethAz] \in Nat /\ Suspended \in Nat
      /\ RATIO * a_balance[Wazero] \in Nat
      /\ WethToAzero \in Nat /\ AzeroToAzero \in Nat
      /\ WethToEth \in Nat /\ AzeroToEth \in Nat
      /\ TotalFailed \in Nat /\ TotalCutOff \in Nat
  BY <1>0, SheetTypes
<1>3. ASSUME NEW amount \in Amounts, NEW receiver \in Receivers, EthSuspends(amount, receiver)
      PROVE  BackingInv'
  <2>1. amount \in Nat
    BY Constants
  <2>2. /\ e_balance'[Weth] = e_balance[Weth] + amount
        /\ e_outside'[WazEth] = e_outside[WazEth]
    BY <1>0, <1>3, Constants DEF EthSuspends, MoneyInv, EthTokens
  <2>3. Suspended = 0 /\ Suspended' = amount
    <3>1. e_frames = <<>>
      BY <1>0, <1>3, SMT DEF EthSuspends, LogInv, FrameInv
    <3>2. e_frames' = <<[token |-> Weth, destToken |-> WethAz, amount |-> amount, receiver |-> receiver]>>
      BY <1>3, <3>1, SMT DEF EthSuspends
    <3>3. e_frames' # <<>> /\ e_frames'[1].amount = amount
      BY <3>2, SMT
    <3> QED BY <3>1, <3>3 DEF Suspended
  <2>4. UNCHANGED <<WethToAzero, AzeroToAzero, WethToEth, AzeroToEth, TotalFailed, TotalCutOff>> /\ FiniteLogs'
    BY <1>0, <1>3 DEF EthSuspends, WethToAzero, AzeroToAzero, WethToEth, AzeroToEth, TotalFailed,
       TotalCutOff, FailedWeth, Unwrapped, FiniteLogs
  <2>5. EthSheet'
    <3>1. e_balance'[Weth] = a_outside[WethAz] + Suspended' + WethToAzero + WethToEth + TotalFailed
      BY <1>1, <1>2, <2>1, <2>2, <2>3, SMT
    <3> QED BY <1>0, <2>4, <3>1 DEF EthSheet
  <2>6. AzeroSheet'
    BY <1>0, <1>1, <2>2, <2>4 DEF AzeroSheet
  <2> QED BY <2>4, <2>5, <2>6 DEF BackingInv
<1>4. ASSUME NEW amount \in Amounts, NEW receiver \in Receivers, EthLocks(amount, receiver)
      PROVE  BackingInv'
  <2>1. amount \in Nat
    BY Constants
  <2>2. /\ e_balance'[Weth] = e_balance[Weth] + amount
        /\ e_outside'[WazEth] = e_outside[WazEth] /\ Suspended' = Suspended
    BY <1>0, <1>4, Constants DEF EthLocks, MoneyInv, EthTokens, Suspended
  <2>3. e_requestNonce < MaxNonce
    BY <1>0, <1>4, Constants, SMT DEF EthLocks
  <2>4. /\ WethToAzero' = WethToAzero + If(WethAz = WethAz, amount)
        /\ AzeroToAzero' = AzeroToAzero + If(WethAz = Zero, amount)
        /\ UNCHANGED <<WethToEth, AzeroToEth, TotalFailed, TotalCutOff>>
        /\ FiniteLogs'
    BY <1>0, <1>4, <2>3, EthLogsMore DEF EthLocks
  <2>5. WethToAzero' = WethToAzero + amount /\ AzeroToAzero' = AzeroToAzero
    BY <1>2, <2>4, Constants, SMT DEF If
  <2>6. EthSheet'
    <3>1. e_balance'[Weth] = a_outside[WethAz] + Suspended + WethToAzero' + WethToEth + TotalFailed
      BY <1>1, <1>2, <2>1, <2>2, <2>5, SMT
    <3> QED BY <1>0, <2>2, <2>4, <3>1 DEF EthSheet
  <2>7. AzeroSheet'
    BY <1>0, <1>1, <2>2, <2>4, <2>5 DEF AzeroSheet
  <2> QED BY <2>4, <2>6, <2>7 DEF BackingInv
<1>5. ASSUME NEW amount \in Amounts, NEW receiver \in Receivers, EthBurns(amount, receiver)
      PROVE  BackingInv'
  <2>1. amount \in Nat
    BY Constants
  <2>2. /\ e_balance'[Weth] = e_balance[Weth]
        /\ e_outside[WazEth] >= amount
        /\ e_outside'[WazEth] = e_outside[WazEth] - amount /\ Suspended' = Suspended
    BY <1>0, <1>5, Constants DEF EthBurns, MoneyInv, EthTokens, Suspended
  <2>3. e_requestNonce < MaxNonce
    BY <1>0, <1>5, Constants, SMT DEF EthBurns
  <2>4. /\ WethToAzero' = WethToAzero + If(Zero = WethAz, amount)
        /\ AzeroToAzero' = AzeroToAzero + If(Zero = Zero, amount)
        /\ UNCHANGED <<WethToEth, AzeroToEth, TotalFailed, TotalCutOff>>
        /\ FiniteLogs'
    BY <1>0, <1>5, <2>3, EthLogsMore DEF EthBurns
  <2>5. WethToAzero' = WethToAzero /\ AzeroToAzero' = AzeroToAzero + amount
    BY <1>2, <2>4, Constants, SMT DEF If
  <2>6. EthSheet'
    BY <1>0, <1>1, <2>2, <2>4, <2>5 DEF EthSheet
  <2>7. AzeroSheet'
    <3>1. RATIO * a_balance[Wazero] = e_outside'[WazEth] + AzeroToEth + AzeroToAzero' + TotalCutOff
      <4> DEFINE b == RATIO * a_balance[Wazero]
      <4>1. b \in Nat /\ b = e_outside[WazEth] + AzeroToEth + AzeroToAzero + TotalCutOff
        BY <1>1, <1>2
      <4> HIDE DEF b
      <4>2. b = e_outside'[WazEth] + AzeroToEth + AzeroToAzero' + TotalCutOff
        BY <1>2, <2>1, <2>2, <2>5, <4>1, SMT
      <4> QED BY <4>2 DEF b
    <3> QED BY <1>0, <2>4, <3>1 DEF AzeroSheet
  <2> QED BY <2>4, <2>6, <2>7 DEF BackingInv
<1>6. CASE Eth!SendRequestReturns
  <2>1. PICK amount \in Amounts, receiver \in Receivers :
          /\ e_frames = <<[token |-> Weth, destToken |-> WethAz, amount |-> amount,
                           receiver |-> receiver]>>
          /\ EthLogs(WethAz, amount, receiver)
          /\ e_frames' = <<>>
          /\ UNCHANGED <<e_balance, e_outside>>
    BY <1>0, <1>6, EthReturns
  <2>2. amount \in Nat
    BY Constants
  <2>3. Len(e_frames) = 1 /\ e_frames # <<>> /\ e_frames[1].amount = amount
    BY <2>1, SMT
  <2>4. Suspended = amount /\ Suspended' = 0
    BY <2>1, <2>3 DEF Suspended
  <2>5. e_requestNonce < MaxNonce
    BY <1>0, <2>3, Constants, SMT
  <2>6. /\ WethToAzero' = WethToAzero + If(WethAz = WethAz, amount)
        /\ AzeroToAzero' = AzeroToAzero + If(WethAz = Zero, amount)
        /\ UNCHANGED <<WethToEth, AzeroToEth, TotalFailed, TotalCutOff>>
        /\ FiniteLogs'
    BY <1>0, <2>1, <2>5, EthLogsMore
  <2>7. WethToAzero' = WethToAzero + amount /\ AzeroToAzero' = AzeroToAzero
    BY <1>2, <2>6, Constants, SMT DEF If
  <2>8. EthSheet'
    <3>1. e_balance[Weth] = a_outside[WethAz] + Suspended' + WethToAzero' + WethToEth + TotalFailed
      BY <1>1, <1>2, <2>2, <2>4, <2>7, SMT
    <3> QED BY <1>0, <2>1, <2>6, <3>1 DEF EthSheet
  <2>9. AzeroSheet'
    BY <1>0, <1>1, <2>1, <2>6, <2>7 DEF AzeroSheet
  <2> QED BY <2>6, <2>8, <2>9 DEF BackingInv
<1> QED BY <1>3, <1>4, <1>5, <1>6, EthSendKinds

LEMMA AzeroSendBacked ==
    ASSUME BackingInv, BridgeInv', Azero!Send, UNCHANGED ethVars
    PROVE  BackingInv'
<1>0. /\ UNCHANGED <<a_signatures, a_signature_count, a_processed_requests>>
      /\ UNCHANGED <<e_balance, e_outside, e_frames, e_sent, e_processedRequests, e_failed>>
      /\ MoneyInv /\ BridgeInv /\ FiniteLogs
  BY AzeroSendKinds DEF BackingInv, BridgeInv, ethVars
<1>1. /\ e_balance[Weth] = a_outside[WethAz] + Suspended + WethToAzero + WethToEth + TotalFailed
      /\ RATIO * a_balance[Wazero] = e_outside[WazEth] + AzeroToEth + AzeroToAzero + TotalCutOff
  BY DEF BackingInv, EthSheet, AzeroSheet
<1>2. /\ e_balance[Weth] \in Nat /\ e_outside[WazEth] \in Nat
      /\ a_outside[WethAz] \in Nat /\ a_balance[Wazero] \in Nat /\ Suspended \in Nat
      /\ WethToAzero \in Nat /\ AzeroToAzero \in Nat
      /\ WethToEth \in Nat /\ AzeroToEth \in Nat
      /\ TotalFailed \in Nat /\ TotalCutOff \in Nat
  BY <1>0, SheetTypes
<1>3. ASSUME NEW amount \in Amounts, NEW receiver \in Receivers, NEW d \in {Weth, Zero},
             AzeroBurns(d, amount, receiver)
      PROVE  BackingInv'
  <2>1. amount \in Nat /\ d # WazEth
    BY Constants
  <2>2. /\ a_outside[WethAz] >= amount
        /\ a_outside'[WethAz] = a_outside[WethAz] - amount
        /\ UNCHANGED a_balance
    BY <1>0, <1>3 DEF AzeroBurns, MoneyInv, AzeroTokens
  <2>3. /\ WethToEth' = WethToEth + If(d \in {Weth, Zero}, amount)
        /\ AzeroToEth' = AzeroToEth + If(d = WazEth, amount)
        /\ UNCHANGED <<WethToAzero, AzeroToAzero, TotalFailed, TotalCutOff, Suspended>>
        /\ FiniteLogs'
    BY <1>0, <1>3, AzeroLogsMore DEF AzeroBurns
  <2>4. WethToEth' = WethToEth + amount /\ AzeroToEth' = AzeroToEth
    BY <1>2, <2>1, <2>3, SMT DEF If
  <2>5. EthSheet'
    <3>1. e_balance[Weth] = a_outside'[WethAz] + Suspended + WethToAzero + WethToEth' + TotalFailed
      BY <1>1, <1>2, <2>1, <2>2, <2>4, SMT
    <3> QED BY <1>0, <2>3, <3>1 DEF EthSheet
  <2>6. AzeroSheet'
    BY <1>0, <1>1, <2>2, <2>3, <2>4 DEF AzeroSheet
  <2> QED BY <2>3, <2>5, <2>6 DEF BackingInv
<1>4. ASSUME NEW amount \in Amounts, NEW receiver \in Receivers, AzeroLocks(amount, receiver)
      PROVE  BackingInv'
  <2>1. amount \in Nat /\ WazEth \notin {Weth, Zero} /\ amount * RATIO \in Nat
    BY Constants
  <2>2. a_balance'[Wazero] = a_balance[Wazero] + amount /\ UNCHANGED a_outside
    BY <1>0, <1>4 DEF AzeroLocks, MoneyInv, AzeroTokens
  <2>3. /\ WethToEth' = WethToEth + If(WazEth \in {Weth, Zero}, amount * RATIO)
        /\ AzeroToEth' = AzeroToEth + If(WazEth = WazEth, amount * RATIO)
        /\ UNCHANGED <<WethToAzero, AzeroToAzero, TotalFailed, TotalCutOff, Suspended>>
        /\ FiniteLogs'
    BY <1>0, <1>4, AzeroLogsMore DEF AzeroLocks
  <2>4. WethToEth' = WethToEth /\ AzeroToEth' = AzeroToEth + amount * RATIO
    BY <1>2, <2>1, <2>3, SMT DEF If
  <2>5. EthSheet'
    BY <1>0, <1>1, <2>2, <2>3, <2>4 DEF EthSheet
  <2>6. AzeroSheet'
    <3>1. RATIO * a_balance'[Wazero] = RATIO * a_balance[Wazero] + amount * RATIO
      BY <1>2, <2>1, <2>2, Constants, SMT
    <3> DEFINE b == RATIO * a_balance[Wazero]
               k == amount * RATIO
    <3>2. b = e_outside[WazEth] + AzeroToEth + AzeroToAzero + TotalCutOff /\ k \in Nat
      BY <1>1, <2>1
    <3>3. AzeroToEth' = AzeroToEth + k
      BY <2>4
    <3> HIDE DEF b, k
    <3>4. b + k = e_outside[WazEth] + AzeroToEth' + AzeroToAzero + TotalCutOff
      BY <1>2, <3>2, <3>3, SMT
    <3> QED BY <1>0, <2>3, <3>1, <3>4 DEF AzeroSheet, b, k
  <2> QED BY <2>3, <2>5, <2>6 DEF BackingInv
<1> QED BY <1>3, <1>4, AzeroSendKinds

\* A payout on Ethereum takes what was on its way out of the contract, mints it, or logs its
\* failure.
LEMMA EthReceiveBacked ==
    ASSUME BackingInv, BridgeInv', NEW g \in Guardians, NEW r \in ToEth,
           Eth!ReceiveRequest(g, r), UNCHANGED azeroVars
    PROVE  BackingInv'
<1>0. /\ UNCHANGED <<e_sent, e_frames, a_balance, a_outside, a_sent, a_processed_requests>>
      /\ MoneyInv /\ BridgeInv /\ FiniteLogs /\ FiniteLogs'
      /\ r \notin e_processedRequests
  BY EthReceiveKinds DEF BackingInv, BridgeInv, azeroVars, FiniteLogs, EthVoted, Voted
<1>1. /\ e_balance[Weth] = a_outside[WethAz] + Suspended + WethToAzero + WethToEth + TotalFailed
      /\ RATIO * a_balance[Wazero] = e_outside[WazEth] + AzeroToEth + AzeroToAzero + TotalCutOff
  BY DEF BackingInv, EthSheet, AzeroSheet
<1>2. /\ e_balance[Weth] \in Nat /\ e_outside[WazEth] \in Nat
      /\ a_outside[WethAz] \in Nat /\ a_balance[Wazero] \in Nat /\ Suspended \in Nat
      /\ WethToAzero \in Nat /\ AzeroToAzero \in Nat
      /\ WethToEth \in Nat /\ AzeroToEth \in Nat
      /\ TotalFailed \in Nat /\ TotalCutOff \in Nat
      /\ WethToEth' \in Nat /\ AzeroToEth' \in Nat
      /\ RATIO * a_balance[Wazero] \in Nat
  <2>1. WethToEth' \in Nat /\ AzeroToEth' \in Nat
    <3>1. Logged(a_sent) \subseteq ToEth \cup ToAzero /\ IsFiniteSet(Logged(a_sent))
      BY <1>0, SheetTypes DEF FiniteLogs
    <3> QED BY <1>0, <3>1, WayType DEF WethToEth, AzeroToEth
  <2> QED BY <1>0, <2>1, SheetTypes
<1>3. UNCHANGED <<WethToAzero, AzeroToAzero, TotalCutOff, Suspended>>
  BY <1>0 DEF WethToAzero, AzeroToAzero, TotalCutOff, Unwrapped, Suspended
<1>4. CASE UNCHANGED <<e_processedRequests, e_balance, e_outside, e_failed>>
  BY <1>0, <1>3, <1>4 DEF BackingInv, EthSheet, AzeroSheet, WethToEth, AzeroToEth, TotalFailed,
     FailedWeth
<1>5. CASE e_processedRequests' = e_processedRequests \cup {r} /\ EthPays(r)
  <2>1. r.amount \in Nat /\ r.destToken \in {Weth, Zero, WazEth}
    BY RequestTypes
  <2>2. r \in Logged(a_sent) \ e_processedRequests
    <3>1. e_processedRequests' \subseteq Logged(a_sent)'
      BY DEF BridgeInv, VotesInv, Voting
    <3> QED BY <1>0, <1>5, <3>1
  <2>3. \A D : Way(Logged(a_sent), e_processedRequests, D)
                 = Way(Logged(a_sent), e_processedRequests', D) + If(r.destToken \in D, r.amount)
    <3>1. Logged(a_sent) \subseteq ToEth \cup ToAzero /\ IsFiniteSet(Logged(a_sent))
      BY <1>0, SheetTypes DEF FiniteLogs
    <3> QED BY <1>5, <2>2, <3>1, WayShrinks
  <2>4. /\ WethToEth = WethToEth' + If(r.destToken \in {Weth, Zero}, r.amount)
        /\ AzeroToEth = AzeroToEth' + If(r.destToken \in {WazEth}, r.amount)
    BY <1>0, <2>3 DEF WethToEth, AzeroToEth
  <2>5. r \notin FailedWeth /\ FailedWeth \subseteq ToEth \cup ToAzero /\ IsFiniteSet(FailedWeth)
    BY <1>0, SheetTypes DEF FailedWeth, BridgeInv, VotesInv
  <2>6. Sum(FailedWeth \cup {r}) = Sum(FailedWeth) + r.amount
    BY <2>5, SumAmounts
  <2>7. CASE /\ r.destToken = Zero
             /\ e_balance[Weth] >= r.amount
             /\ e_balance' = [e_balance EXCEPT ![Weth] = @ - r.amount]
             /\ UNCHANGED e_outside
             /\ e_failed' \in {e_failed, e_failed \cup {r}}
    <3>1. WethToEth = WethToEth' + r.amount /\ AzeroToEth = AzeroToEth'
      <4>1. If(r.destToken \in {Weth, Zero}, r.amount) = r.amount
        BY <2>7, Constants DEF If
      <4>2. If(r.destToken \in {WazEth}, r.amount) = 0
        BY <2>7, Constants DEF If
      <4> QED BY <1>2, <2>1, <2>4, <4>1, <4>2, SMT
    <3>2. TotalFailed' = TotalFailed
      <4>1. FailedWeth' = FailedWeth
        BY <2>7, Constants DEF FailedWeth
      <4> QED BY <4>1 DEF TotalFailed
    <3>3. e_balance'[Weth] = e_balance[Weth] - r.amount
      BY <1>0, <2>7 DEF MoneyInv, EthTokens
    <3>4. e_balance'[Weth] = a_outside[WethAz] + Suspended + WethToAzero + WethToEth' + TotalFailed
      BY <1>1, <1>2, <2>1, <3>1, <3>3, SMT
    <3>5. EthSheet' /\ AzeroSheet'
      BY <1>0, <1>1, <1>3, <2>7, <3>1, <3>2, <3>4 DEF EthSheet, AzeroSheet
    <3> QED BY <1>0, <3>5 DEF BackingInv
  <2>8. CASE /\ r.destToken = WazEth
             /\ e_outside' = [e_outside EXCEPT ![WazEth] = @ + r.amount]
             /\ UNCHANGED <<e_balance, e_failed>>
    <3>1. WethToEth = WethToEth' /\ AzeroToEth = AzeroToEth' + r.amount
      <4>1. If(r.destToken \in {Weth, Zero}, r.amount) = 0
        BY <2>8, Constants DEF If
      <4>2. If(r.destToken \in {WazEth}, r.amount) = r.amount
        BY <2>8, Constants DEF If
      <4> QED BY <1>2, <2>1, <2>4, <4>1, <4>2, SMT
    <3>2. TotalFailed' = TotalFailed
      BY <2>8 DEF TotalFailed, FailedWeth
    <3>3. e_outside'[WazEth] = e_outside[WazEth] + r.amount
      BY <1>0, <2>8 DEF MoneyInv, EthTokens
    <3>4. e_outside'[WazEth] + AzeroToEth' + AzeroToAzero + TotalCutOff
            = e_outside[WazEth] + AzeroToEth + AzeroToAzero + TotalCutOff
      BY <1>2, <2>1, <3>1, <3>3, SMT
    <3>5. EthSheet' /\ AzeroSheet'
      BY <1>0, <1>1, <1>3, <2>8, <3>1, <3>2, <3>4 DEF EthSheet, AzeroSheet
    <3> QED BY <1>0, <3>5 DEF BackingInv
  <2>9. CASE /\ r.destToken = Weth
             /\ e_balance[Weth] >= r.amount
             /\ e_balance' = [e_balance EXCEPT ![Weth] = @ - r.amount]
             /\ e_outside' = [e_outside EXCEPT ![Weth] = @ + r.amount]
             /\ UNCHANGED e_failed
    <3>1. WethToEth = WethToEth' + r.amount /\ AzeroToEth = AzeroToEth'
      <4>1. If(r.destToken \in {Weth, Zero}, r.amount) = r.amount
        BY <2>9, Constants DEF If
      <4>2. If(r.destToken \in {WazEth}, r.amount) = 0
        BY <2>9, Constants DEF If
      <4> QED BY <1>2, <2>1, <2>4, <4>1, <4>2, SMT
    <3>2. TotalFailed' = TotalFailed
      BY <2>9 DEF TotalFailed, FailedWeth
    <3>3. e_balance'[Weth] = e_balance[Weth] - r.amount /\ e_outside'[WazEth] = e_outside[WazEth]
      BY <1>0, <2>9, Constants DEF MoneyInv, EthTokens
    <3>4. e_balance'[Weth] = a_outside[WethAz] + Suspended + WethToAzero + WethToEth' + TotalFailed
      BY <1>1, <1>2, <2>1, <3>1, <3>3, SMT
    <3>5. EthSheet' /\ AzeroSheet'
      BY <1>0, <1>1, <1>3, <3>1, <3>2, <3>3, <3>4 DEF EthSheet, AzeroSheet
    <3> QED BY <1>0, <3>5 DEF BackingInv
  <2>10. CASE /\ r.destToken = Weth
              /\ e_failed' = e_failed \cup {r}
              /\ UNCHANGED <<e_balance, e_outside>>
    <3>1. WethToEth = WethToEth' + r.amount /\ AzeroToEth = AzeroToEth'
      <4>1. If(r.destToken \in {Weth, Zero}, r.amount) = r.amount
        BY <2>10, Constants DEF If
      <4>2. If(r.destToken \in {WazEth}, r.amount) = 0
        BY <2>10, Constants DEF If
      <4> QED BY <1>2, <2>1, <2>4, <4>1, <4>2, SMT
    <3>2. TotalFailed' = TotalFailed + r.amount
      <4>1. FailedWeth' = FailedWeth \cup {r}
        BY <2>10 DEF FailedWeth
      <4> QED BY <2>6, <4>1 DEF TotalFailed
    <3>3. e_balance[Weth] = a_outside[WethAz] + Suspended + WethToAzero + WethToEth' + TotalFailed'
      BY <1>1, <1>2, <2>1, <3>1, <3>2, SMT
    <3>4. EthSheet' /\ AzeroSheet'
      BY <1>0, <1>1, <1>3, <2>10, <3>1, <3>3 DEF EthSheet, AzeroSheet
    <3> QED BY <1>0, <3>4 DEF BackingInv
  <2> QED BY <1>5, <2>7, <2>8, <2>9, <2>10 DEF EthPays
<1> QED BY <1>4, <1>5, EthReceiveKinds

\* A payout on Aleph Zero mints what was on its way, or unwraps it and keeps the remainder.
LEMMA AzeroReceiveBacked ==
    ASSUME BackingInv, BridgeInv', NEW g \in Guardians, NEW r \in ToAzero,
           Azero!ReceiveRequest(g, r), UNCHANGED ethVars
    PROVE  BackingInv'
<1>0. /\ UNCHANGED <<a_sent, e_sent, e_frames, e_balance, e_outside, e_processedRequests, e_failed>>
      /\ MoneyInv /\ BridgeInv /\ FiniteLogs /\ FiniteLogs'
      /\ r \notin a_processed_requests
  BY AzeroReceiveKinds DEF BackingInv, BridgeInv, ethVars, FiniteLogs, AzeroVoted, Voted
<1>1. /\ e_balance[Weth] = a_outside[WethAz] + Suspended + WethToAzero + WethToEth + TotalFailed
      /\ RATIO * a_balance[Wazero] = e_outside[WazEth] + AzeroToEth + AzeroToAzero + TotalCutOff
  BY DEF BackingInv, EthSheet, AzeroSheet
<1>2. /\ e_balance[Weth] \in Nat /\ e_outside[WazEth] \in Nat
      /\ a_outside[WethAz] \in Nat /\ a_balance[Wazero] \in Nat /\ Suspended \in Nat
      /\ WethToAzero \in Nat /\ AzeroToAzero \in Nat
      /\ WethToEth \in Nat /\ AzeroToEth \in Nat
      /\ TotalFailed \in Nat /\ TotalCutOff \in Nat
      /\ WethToAzero' \in Nat /\ AzeroToAzero' \in Nat
      /\ RATIO * a_balance[Wazero] \in Nat
  <2>1. WethToAzero' \in Nat /\ AzeroToAzero' \in Nat
    <3>1. Logged(e_sent) \subseteq ToEth \cup ToAzero /\ IsFiniteSet(Logged(e_sent))
      BY <1>0, SheetTypes DEF FiniteLogs
    <3> QED BY <1>0, <3>1, WayType DEF WethToAzero, AzeroToAzero
  <2> QED BY <1>0, <2>1, SheetTypes
<1>3. UNCHANGED <<WethToEth, AzeroToEth, TotalFailed, Suspended>>
  BY <1>0 DEF WethToEth, AzeroToEth, TotalFailed, FailedWeth, Suspended
<1>4. CASE UNCHANGED <<a_processed_requests, a_balance, a_outside>>
  BY <1>0, <1>3, <1>4 DEF BackingInv, EthSheet, AzeroSheet, WethToAzero, AzeroToAzero,
     TotalCutOff, Unwrapped
<1>5. CASE a_processed_requests' = a_processed_requests \cup {r} /\ AzeroPays(r)
  <2>1. r.amount \in Nat /\ r.destToken \in {WethAz, Zero}
    BY RequestTypes
  <2>2. r \in Logged(e_sent) \ a_processed_requests
    <3>1. a_processed_requests' \subseteq Logged(e_sent)'
      BY DEF BridgeInv, VotesInv, Voting
    <3> QED BY <1>0, <1>5, <3>1
  <2>3. \A D : Way(Logged(e_sent), a_processed_requests, D)
                 = Way(Logged(e_sent), a_processed_requests', D) + If(r.destToken \in D, r.amount)
    <3>1. Logged(e_sent) \subseteq ToEth \cup ToAzero /\ IsFiniteSet(Logged(e_sent))
      BY <1>0, SheetTypes DEF FiniteLogs
    <3> QED BY <1>5, <2>2, <3>1, WayShrinks
  <2>4. /\ WethToAzero = WethToAzero' + If(r.destToken \in {WethAz}, r.amount)
        /\ AzeroToAzero = AzeroToAzero' + If(r.destToken \in {Zero}, r.amount)
    BY <1>0, <2>3 DEF WethToAzero, AzeroToAzero
  <2>5. /\ r \notin Unwrapped /\ Unwrapped \subseteq ToAzero /\ IsFiniteSet(Unwrapped)
        /\ CutOff[r] = r.amount % RATIO /\ CutOff[r] \in Nat
        /\ \A q \in Unwrapped : CutOff[q] \in Nat
    BY <1>0, SheetTypes DEF Unwrapped
  <2>6. CASE /\ r.destToken = WethAz
             /\ a_outside' = [a_outside EXCEPT ![WethAz] = @ + r.amount]
             /\ UNCHANGED a_balance
    <3>1. WethToAzero = WethToAzero' + r.amount /\ AzeroToAzero = AzeroToAzero'
      <4>1. If(r.destToken \in {WethAz}, r.amount) = r.amount
        BY <2>6, Constants DEF If
      <4>2. If(r.destToken \in {Zero}, r.amount) = 0
        BY <2>6, Constants DEF If
      <4> QED BY <1>2, <2>1, <2>4, <4>1, <4>2, SMT
    <3>2. TotalCutOff' = TotalCutOff
      <4>1. Unwrapped' = Unwrapped
        BY <1>5, <2>6, Constants DEF Unwrapped
      <4> QED BY <4>1 DEF TotalCutOff
    <3>3. a_outside'[WethAz] = a_outside[WethAz] + r.amount
      BY <1>0, <2>6 DEF MoneyInv, AzeroTokens
    <3>4. e_balance[Weth] = a_outside'[WethAz] + Suspended + WethToAzero' + WethToEth + TotalFailed
      BY <1>1, <1>2, <2>1, <3>1, <3>3, SMT
    <3>5. EthSheet' /\ AzeroSheet'
      BY <1>0, <1>1, <1>3, <2>6, <3>1, <3>2, <3>4 DEF EthSheet, AzeroSheet
    <3> QED BY <1>0, <3>5 DEF BackingInv
  <2>7. CASE /\ r.destToken = Zero
             /\ a_balance[Wazero] >= r.amount \div RATIO
             /\ a_balance' = [a_balance EXCEPT ![Wazero] = @ - (r.amount \div RATIO)]
             /\ UNCHANGED a_outside
    <3> DEFINE q == r.amount \div RATIO
               m == r.amount % RATIO
    <3>1. WethToAzero = WethToAzero' /\ AzeroToAzero = AzeroToAzero' + r.amount
      <4>1. If(r.destToken \in {WethAz}, r.amount) = 0
        BY <2>7, Constants DEF If
      <4>2. If(r.destToken \in {Zero}, r.amount) = r.amount
        BY <2>7, Constants DEF If
      <4> QED BY <1>2, <2>1, <2>4, <4>1, <4>2, SMT
    <3>2. TotalCutOff' = TotalCutOff + m
      <4>1. Unwrapped' = Unwrapped \cup {r}
        BY <1>5, <2>7 DEF Unwrapped
      <4>2. SumFunctionOnSet(CutOff, Unwrapped \cup {r}) = SumFunctionOnSet(CutOff, Unwrapped) + CutOff[r]
        BY <2>5, SumAdd
      <4> QED BY <2>5, <4>1, <4>2 DEF TotalCutOff
    <3>3. q \in Nat /\ m \in Nat /\ r.amount = RATIO * q + m
      BY <2>1, Constants, SMT
    <3>4. a_balance'[Wazero] = a_balance[Wazero] - q /\ a_balance[Wazero] >= q
      BY <1>0, <2>7 DEF MoneyInv, AzeroTokens
    <3> HIDE DEF q, m
    <3>5. RATIO * (a_balance[Wazero] - q) = RATIO * a_balance[Wazero] - RATIO * q /\ RATIO * q \in Nat
      BY <1>2, <3>3, Constants, SMT
    <3>6. RATIO * a_balance'[Wazero] = e_outside[WazEth] + AzeroToEth + AzeroToAzero' + TotalCutOff'
      <4> DEFINE b == RATIO * a_balance[Wazero]
                 c == RATIO * q
      <4>1. /\ RATIO * a_balance'[Wazero] = b - c /\ c \in Nat /\ r.amount = c + m
            /\ b = e_outside[WazEth] + AzeroToEth + AzeroToAzero + TotalCutOff
        BY <1>1, <3>3, <3>4, <3>5
      <4> HIDE DEF b, c
      <4>2. b - c = e_outside[WazEth] + AzeroToEth + AzeroToAzero' + TotalCutOff'
        BY <1>2, <2>1, <3>1, <3>2, <3>3, <4>1, SMT
      <4> QED BY <4>1, <4>2
    <3>7. EthSheet' /\ AzeroSheet'
      BY <1>0, <1>1, <1>3, <2>7, <3>1, <3>6 DEF EthSheet, AzeroSheet
    <3> QED BY <1>0, <3>7 DEF BackingInv
  <2> QED BY <1>5, <2>6, <2>7 DEF AzeroPays
<1> QED BY <1>4, <1>5, AzeroReceiveKinds

\* In every reachable state both balance sheets hold.
THEOREM BackingInvariant == Spec => []BackingInv
<1>1. Init /\ BridgeInv => BackingInv
  <2> SUFFICES ASSUME Init, BridgeInv PROVE BackingInv
    OBVIOUS
  <2>1. Logged(e_sent) = {} /\ Logged(a_sent) = {} /\ e_failed = {} /\ a_processed_requests = {}
    BY LoggedEmpty DEF Init
  <2>2. FiniteLogs
    BY <2>1, FS_EmptySet DEF FiniteLogs
  <2>3. \A processed, D : Way({}, processed, D) = 0
    <3> TAKE processed, D
    <3>1. {r \in {} \ processed : r.destToken \in D} = {}
      OBVIOUS
    <3> QED BY <3>1, SumEmpty DEF Way, Sum
  <2>4. WethToAzero = 0 /\ AzeroToAzero = 0 /\ WethToEth = 0 /\ AzeroToEth = 0
    BY <2>1, <2>3 DEF WethToAzero, AzeroToAzero, WethToEth, AzeroToEth
  <2>5. TotalFailed = 0 /\ TotalCutOff = 0
    <3>1. FailedWeth = {} /\ Unwrapped = {}
      BY <2>1 DEF FailedWeth, Unwrapped
    <3> QED BY <3>1, SumEmpty DEF TotalFailed, TotalCutOff, Sum
  <2>6. e_balance[Weth] = 0 /\ e_outside[WazEth] = 0 /\ a_balance[Wazero] = 0 /\ a_outside[WethAz] = 0
    BY Constants, BothType DEF Init
  <2>7. Suspended = 0
    BY DEF Init, Suspended
  <2>8. 0 + 0 + 0 + 0 + 0 = 0 /\ 0 + 0 + 0 + 0 = 0 /\ RATIO * 0 = 0
    BY Constants, SMT
  <2> QED BY <2>2, <2>4, <2>5, <2>6, <2>7, <2>8 DEF BackingInv, EthSheet, AzeroSheet
<1>2. BackingInv /\ BridgeInv' /\ [Next]_vars => BackingInv'
  <2> SUFFICES ASSUME BackingInv, BridgeInv', [Next]_vars PROVE BackingInv'
    OBVIOUS
  <2>1. CASE UNCHANGED vars
    <3>1. UNCHANGED <<e_balance, e_outside, e_sent, e_processedRequests, e_failed, e_frames,
                      a_balance, a_outside, a_sent, a_processed_requests>>
      BY <2>1 DEF vars, ethVars, azeroVars
    <3> QED BY <3>1 DEF BackingInv, EthSheet, AzeroSheet, FiniteLogs, WethToAzero, AzeroToAzero,
         WethToEth, AzeroToEth, TotalFailed, TotalCutOff, FailedWeth, Unwrapped, Suspended
  <2> QED BY <2>1, BridgeSteps, EthSendBacked, AzeroSendBacked, EthReceiveBacked, AzeroReceiveBacked
<1> QED BY <1>1, <1>2, BridgeInvariant, PTL DEF Spec

\* The WETH locked on Ethereum is the wrapped WETH on Aleph Zero plus what is on its way and
\* what a failed transfer left behind, whatever the faulty minority votes for.
THEOREM EtherBackedTheorem == Spec => []EtherIsBacked
<1>1. BackingInv => EtherIsBacked
  BY Sheets DEF BackingInv
<1> QED BY <1>1, BackingInvariant, PTL

\* The AZERO locked on Aleph Zero is, in units of the wrapped token, the wrapped AZERO on
\* Ethereum plus what is on its way and what divisions by RATIO cut off.
THEOREM AzeroBackedTheorem == Spec => []AzeroIsBacked
<1>1. BackingInv => AzeroIsBacked
  BY Sheets DEF BackingInv
<1> QED BY <1>1, BackingInvariant, PTL
=============================================================================
