------------------------------ MODULE L2Bridge ------------------------------
(***************************************************************************)
(* The bridge between Aleph Zero and an L2 whose native coin is AZERO:     *)
(* the ink! contract most-l2 and the Solidity contract MostL2, with the    *)
(* guardians between them.  Aleph Zero locks, the L2 mints and burns.      *)
(* Bridged AZERO (bAZERO) is minted on the L2 and swapped for native coins *)
(* in a stable swap pool at once, and the other way round.  bAZERO is also *)
(* a token like any other, paired with wrapped AZERO: this is how what a   *)
(* failed swap left with its receiver goes back.  Every request costs a    *)
(* flat fee, which goes to the owner; what the sender paid too much goes   *)
(* back.                                                                   *)
(*                                                                         *)
(* The two contracts vote and are governed alike, so these operations have *)
(* the chain as a parameter.  Abstractions: as in EthMost and AzeroMost.   *)
(* The pool answers an exchange with any amount it has that is not below   *)
(* the minimum asked for, or fails; others do not trade with it.  A call   *)
(* that cannot go on reverts; its intermediate states have no successor.   *)
(* The receiver of a surplus calls back as a user, neither as a guardian   *)
(* nor as the owner.  The L2 contract owns no ERC20 between two calls, so  *)
(* that recoverERC20 has nothing to recover.                               *)
(***************************************************************************)
EXTENDS Naturals, Sequences, FiniteSets, Functions

CONSTANTS
    Guardians, Faulty,
    Committees,       \* records [members, threshold] that governance may set
    Locals,           \* PSP22 tokens bridged from Aleph Zero, without wrapped AZERO
    WrappedAzero,     \* the wrapped AZERO contract
    Wrapped,          \* their WrappedTokens on the L2
    BAzeros,          \* tokens governance may choose as bAZERO
    PoolCoin,         \* the one the pool trades
    Zero,             \* no token; as a destination the native coin
    Partner,          \* the token on the other chain that governance pairs with a token
    Deposit,          \* wrapped AZERO the contract was given for the bAZERO in the pool
    Amounts,          \* amounts a user may send
    Surpluses,        \* what a user may pay too much
    DEFAULT_FLAT_FEE, FlatFees,   \* values of flat_fee
    RATIO,            \* BAZERO_TO_NATIVE_RATIO
    Percent,          \* 100
    MIN_SWAP_RATE,    \* least share of an exchange, in Percent
    Funds,            \* what users own of each token on Aleph Zero at the start
    PoolNative, PoolBAzero,  \* liquidity of the pool at the start
    Forged,           \* requests a faulty guardian may vote for out of thin air
    Endowment,        \* AZERO somebody sent to the Aleph Zero contract
    MaxCommitteeId,   \* bound on committee changes
    MaxNonce,         \* bound on the requests sent on each chain
    MaxDepth,         \* bound on the depth of reentrant calls
    MaxGovern         \* bound on the actions of governance other than halting

Chains == {"azero", "l2"}
Other(c) == IF c = "azero" THEN "l2" ELSE "azero"
CommitteeIds == 0 .. MaxCommitteeId
Tokens == [azero |-> Locals \cup {WrappedAzero}, l2 |-> Wrapped \cup BAzeros]

Requests == [to : Chains, committeeId : CommitteeIds, token : Tokens.azero \cup Tokens.l2 \cup {Zero},
             amount : Nat, nonce : Nat]

ASSUME L2BridgeAssumption ==
    /\ IsFiniteSet(Guardians) /\ Faulty \subseteq Guardians
    /\ \A C \in Committees :
          /\ C.members \subseteq Guardians /\ C.threshold \in Nat
          /\ Cardinality(C.members \cap Faulty) < C.threshold
    /\ IsFiniteSet(BAzeros) /\ PoolCoin \in BAzeros
    \* An address is the address of one contract, and pairs are made of two tokens.
    /\ WrappedAzero \notin Locals /\ Wrapped \cap BAzeros = {}
    /\ Tokens.azero \cap Tokens.l2 = {} /\ Zero \notin Tokens.azero \cup Tokens.l2
    /\ Tokens.azero \cap Chains = {}
    /\ \A t \in Locals : Partner[t] \in Wrapped /\ Partner[Partner[t]] = t
    /\ \A t \in Wrapped : Partner[t] \in Locals /\ Partner[Partner[t]] = t
    \* Whatever is or was bAZERO stands for wrapped AZERO.
    /\ Partner[WrappedAzero] \in BAzeros /\ \A t \in BAzeros : Partner[t] = WrappedAzero
    /\ Forged \subseteq Requests
    /\ Funds \in [Tokens.azero -> Nat] /\ Endowment \in Nat
    /\ PoolNative \in Nat /\ PoolBAzero \in Nat /\ Deposit \in Nat
    /\ Amounts \subseteq Nat /\ Surpluses \subseteq Nat
    /\ FlatFees \subseteq Nat /\ DEFAULT_FLAT_FEE \in FlatFees
    /\ RATIO \in Nat \ {0} /\ Percent \in Nat \ {0} /\ MIN_SWAP_RATE \in 0 .. Percent
    /\ MaxCommitteeId \in Nat /\ MaxNonce \in [Chains -> Nat] /\ MaxDepth \in Nat /\ MaxGovern \in Nat

VARIABLES
    halted,        \* is_halted; paused
    committee_id,
    committees,
    signature_thresholds,
    request_nonce,
    supported_pairs,
    flat_fee,
    signatures,    \* the pairs of a guardian and a request it signed
    pending,       \* the signature_count of each pending request
    processed,
    sent,          \* log of CrosschainTransferRequest of each chain
    coin,          \* native coins of each contract
    wazero,        \* the wrapped AZERO contract, Zero until it is set
    locked,        \* PSP22 balance of the contract on Aleph Zero
    users,         \* tokens everybody else owns on Aleph Zero
    bAzeroAddress,
    isLocalToken,
    supply,        \* total supply of each token on the L2
    pool,          \* native coins and bAZERO in the pool
    frames,        \* calls on the L2 that are returning the surplus to the sender
    refused,       \* log: native coins receivers on the L2 did not accept
    recovered,     \* log: what the owner took out, tokens and coins
    governed       \* number of these actions

voting  == <<signatures, pending, processed>>
members == <<committee_id, committees, signature_thresholds>>
log     == <<request_nonce, sent>>
azero   == <<wazero, locked, users>>
l2      == <<bAzeroAddress, isLocalToken, supply, pool, frames, refused>>
vars    == <<halted, members, supported_pairs, flat_fee, voting, log, coin, azero, l2, recovered,
             governed>>

CheckCommittee(C) ==
    /\ C.threshold # 0
    /\ Cardinality(C.members) >= C.threshold

\* Both contracts have been deployed, their pairs and wrapped AZERO set, and resumed.  The
\* pair of bAZERO is set on the L2 only.
Init ==
    /\ halted = [c \in Chains |-> FALSE]
    /\ committee_id = [c \in Chains |-> 0]
    /\ \E C \in Committees :
          /\ CheckCommittee(C)
          /\ committees = [c \in Chains |-> [i \in CommitteeIds |-> IF i = 0 THEN C.members ELSE {}]]
          /\ signature_thresholds =
                [c \in Chains |-> [i \in CommitteeIds |-> IF i = 0 THEN C.threshold ELSE 0]]
    /\ request_nonce = [c \in Chains |-> 0]
    /\ supported_pairs = [c \in Chains |-> [t \in Tokens[c] |->
                             IF t \in Locals \cup Wrapped \cup {PoolCoin} THEN Partner[t] ELSE Zero]]
    /\ flat_fee = [c \in Chains |-> DEFAULT_FLAT_FEE]
    /\ signatures = {} /\ pending = <<>> /\ processed = {}
    /\ sent = [c \in Chains |-> <<>>]
    /\ coin = [azero |-> Endowment, l2 |-> 0]
    /\ wazero = WrappedAzero
    /\ locked = [t \in Tokens.azero |-> IF t = WrappedAzero THEN Deposit ELSE 0]
    /\ users = Funds
    /\ bAzeroAddress = PoolCoin
    /\ isLocalToken = {}
    /\ supply = [t \in Tokens.l2 |-> IF t = PoolCoin THEN PoolBAzero ELSE 0]
    /\ pool = [native |-> PoolNative, bAzero |-> PoolBAzero]
    /\ frames = <<>>
    /\ refused = 0
    /\ recovered = [t \in Tokens.azero \cup Chains |-> 0]
    /\ governed = 0

-----------------------------------------------------------------------------
(* Sending *)

\* The event and the nonce.
Emit(c, token, amount) ==
    /\ request_nonce[c] < MaxNonce[c]
    /\ sent' = [sent EXCEPT ![c] = Append(@, [to |-> Other(c), committeeId |-> committee_id[c],
                                              token |-> token, amount |-> amount,
                                              nonce |-> request_nonce[c]])]
    /\ request_nonce' = [request_nonce EXCEPT ![c] = @ + 1]

\* Mutant: what the sender paid too much stays in the contract.
Greedy_HandleFlatFee(c, amount, transferred) ==
    IF transferred < amount + flat_fee[c] THEN {} ELSE {transferred - flat_fee[c]}
\* What is left of the value transferred with a call, once the flat fee has gone to the
\* owner and the surplus back to the sender; nothing if it does not cover amount and fee.
HandleFlatFee(c, amount, transferred) ==
    LET surplus == transferred - amount - flat_fee[c]
    IN  IF transferred < amount + flat_fee[c] THEN {} ELSE {transferred - flat_fee[c] - surplus}

Values(c, amount) == {amount + flat_fee[c] + s : s \in Surpluses}

SendRequest(t, amount, transferred) ==
    /\ ~halted.azero /\ frames = <<>>
    /\ \E kept \in HandleFlatFee("azero", 0, transferred) :
          coin' = [coin EXCEPT !["azero"] = @ + kept]
    /\ supported_pairs.azero[t] # Zero
    /\ amount # 0
    /\ users[t] >= amount
    /\ users' = [users EXCEPT ![t] = @ - amount]
    /\ locked' = [locked EXCEPT ![t] = @ + amount]
    /\ Emit("azero", supported_pairs.azero[t], amount)
    /\ UNCHANGED <<halted, members, supported_pairs, flat_fee, voting, wazero, l2, recovered, governed>>

\* The AZERO is deposited with the wrapped AZERO contract.
SendRequestNativeAzero(amount, transferred) ==
    /\ ~halted.azero /\ frames = <<>>
    /\ wazero # Zero
    /\ amount # 0
    /\ \E kept \in HandleFlatFee("azero", amount, transferred) :
          coin' = [coin EXCEPT !["azero"] = @ + kept - amount]
    /\ locked' = [locked EXCEPT ![wazero] = @ + amount]
    /\ Emit("azero", Zero, amount)
    /\ UNCHANGED <<halted, members, supported_pairs, flat_fee, voting, wazero, users, l2, recovered,
                   governed>>

\* A call of a user on the L2: top level, or made by the receiver of a surplus.
MayCall ==
    /\ ~halted.l2
    /\ Len(frames) < MaxDepth /\ request_nonce.l2 + Len(frames) < MaxNonce.l2
    /\ frames # <<>> => frames[Len(frames)].surplus

\* sendRequestNative and sendTokenRequest up to the return of the surplus, in which the
\* sender may call back: the rest of the handler waits in a frame.
BeginNative(amount, transferred) ==
    /\ MayCall
    /\ amount >= RATIO
    /\ \E kept \in HandleFlatFee("l2", amount, transferred) :
          coin' = [coin EXCEPT !["l2"] = @ + kept]
    /\ frames' = Append(frames, [token |-> Zero, amount |-> amount,
                                 surplus |-> transferred > amount + flat_fee.l2])
    /\ UNCHANGED <<halted, members, supported_pairs, flat_fee, voting, log, azero, bAzeroAddress,
                   isLocalToken, supply, pool, refused, recovered, governed>>

BeginToken(t, amount, transferred) ==
    /\ MayCall
    /\ amount # 0
    /\ \E kept \in HandleFlatFee("l2", 0, transferred) :
          coin' = [coin EXCEPT !["l2"] = @ + kept]
    /\ frames' = Append(frames, [token |-> t, amount |-> amount,
                                 surplus |-> transferred > flat_fee.l2])
    /\ UNCHANGED <<halted, members, supported_pairs, flat_fee, voting, log, azero, bAzeroAddress,
                   isLocalToken, supply, pool, refused, recovered, governed>>

CalcMinAmountOutSwap(amount, toBAzero) ==
    LET share == (amount \div Percent) * MIN_SWAP_RATE
    IN  IF toBAzero THEN share \div RATIO ELSE share * RATIO

Top == frames[Len(frames)]
Pop == frames' = SubSeq(frames, 1, Len(frames) - 1)

\* Mutant: the request carries what the sender paid, not what the swap returned.
PaidIn_EndNative ==
    /\ frames # <<>> /\ Top.token = Zero
    /\ bAzeroAddress = PoolCoin
    /\ \E out \in CalcMinAmountOutSwap(Top.amount, TRUE) .. pool.bAzero :
          /\ pool' = [native |-> pool.native + Top.amount, bAzero |-> pool.bAzero - out]
          /\ supply' = [supply EXCEPT ![PoolCoin] = @ - out]
          /\ Emit("l2", Zero, Top.amount \div RATIO)
    /\ coin' = [coin EXCEPT !["l2"] = @ - Top.amount]
    /\ Pop
    /\ UNCHANGED <<halted, members, supported_pairs, flat_fee, voting, azero, bAzeroAddress,
                   isLocalToken, refused, recovered, governed>>

\* The rest of sendRequestNative: swap for bAZERO, which is burned.  If bAZERO is not the
\* pool's coin, the contract has none to burn.
EndNative ==
    /\ frames # <<>> /\ Top.token = Zero
    /\ bAzeroAddress = PoolCoin
    /\ \E out \in CalcMinAmountOutSwap(Top.amount, TRUE) .. pool.bAzero :
          /\ pool' = [native |-> pool.native + Top.amount, bAzero |-> pool.bAzero - out]
          /\ supply' = [supply EXCEPT ![PoolCoin] = @ - out]
          /\ Emit("l2", Zero, out)
    /\ coin' = [coin EXCEPT !["l2"] = @ - Top.amount]
    /\ Pop
    /\ UNCHANGED <<halted, members, supported_pairs, flat_fee, voting, azero, bAzeroAddress,
                   isLocalToken, refused, recovered, governed>>

\* What everybody but the pool owns of a token of the L2.
Circulating(t) == IF t = PoolCoin THEN supply[t] - pool.bAzero ELSE supply[t]

\* Mutant: the tokens are taken but not burned.
Unburned_EndToken ==
    /\ frames # <<>> /\ Top.token # Zero
    /\ supported_pairs.l2[Top.token] # Zero
    /\ Circulating(Top.token) >= Top.amount
    /\ Emit("l2", supported_pairs.l2[Top.token], Top.amount)
    /\ Pop
    /\ UNCHANGED <<halted, members, supported_pairs, flat_fee, voting, coin, azero, bAzeroAddress,
                   isLocalToken, supply, pool, refused, recovered, governed>>

\* The rest of sendTokenRequest: take the tokens and burn them.
EndToken ==
    /\ frames # <<>> /\ Top.token # Zero
    /\ supported_pairs.l2[Top.token] # Zero
    /\ Top.token \notin isLocalToken
    /\ Circulating(Top.token) >= Top.amount
    /\ supply' = [supply EXCEPT ![Top.token] = @ - Top.amount]
    /\ Emit("l2", supported_pairs.l2[Top.token], Top.amount)
    /\ Pop
    /\ UNCHANGED <<halted, members, supported_pairs, flat_fee, voting, coin, azero, bAzeroAddress,
                   isLocalToken, pool, refused, recovered, governed>>

-----------------------------------------------------------------------------
(* Receiving *)

IsInCommittee(r, g) == g \in committees[r.to][r.committeeId]

\* Mutant: a member may vote for the same request again.
Forgetful_NeedsSignature(r, g) == IsInCommittee(r, g) /\ r \notin processed
NeedsSignature(r, g) ==
    /\ IsInCommittee(r, g)
    /\ r \notin processed
    /\ <<g, r>> \notin signatures

\* Mutant: the contract pays what it does not hold.
Unguarded_PayAzero(r) ==
    /\ r.to = "azero"
    /\ LET t == IF r.token = Zero THEN wazero ELSE r.token IN
          /\ t \in Tokens.azero
          /\ locked' = [locked EXCEPT ![t] = @ - r.amount]
          /\ users' = IF r.token = Zero THEN users ELSE [users EXCEPT ![t] = @ + r.amount]
    /\ UNCHANGED <<coin, wazero, l2>>

\* Aleph Zero: unwrap or transfer; either reverts the vote when it fails, also because the
\* receiver cannot take the AZERO.
PayAzero(r) ==
    /\ r.to = "azero"
    /\ LET t == IF r.token = Zero THEN wazero ELSE r.token IN
          /\ t \in Tokens.azero
          /\ locked[t] >= r.amount
          /\ locked' = [locked EXCEPT ![t] = @ - r.amount]
          /\ users' = IF r.token = Zero THEN users ELSE [users EXCEPT ![t] = @ + r.amount]
    /\ UNCHANGED <<coin, wazero, l2>>

\* L2, a token: mint it.
RemoteTokenTransfer(r) ==
    /\ r.to = "l2" /\ r.token # Zero
    /\ r.token \notin isLocalToken
    /\ supply' = [supply EXCEPT ![r.token] = @ + r.amount]
    /\ UNCHANGED <<coin, azero, bAzeroAddress, isLocalToken, pool, frames, refused>>

\* L2, native: mint bAZERO and swap it.  The receiver gets the coins, or, when it refuses
\* them, the contract keeps them; when the swap fails the receiver gets the bAZERO.
NativeTransfer(r) ==
    /\ r.to = "l2" /\ r.token = Zero
    /\ supply' = [supply EXCEPT ![bAzeroAddress] = @ + r.amount]
    /\ \/ /\ bAzeroAddress = PoolCoin
          /\ \E out \in CalcMinAmountOutSwap(r.amount, FALSE) .. pool.native :
                /\ pool' = [native |-> pool.native - out, bAzero |-> pool.bAzero + r.amount]
                /\ \/ UNCHANGED <<coin, refused>>
                   \/ coin' = [coin EXCEPT !["l2"] = @ + out] /\ refused' = refused + out
       \/ UNCHANGED <<coin, pool, refused>>
    /\ UNCHANGED <<azero, bAzeroAddress, isLocalToken, frames>>

Count(r) == IF r \in DOMAIN pending THEN pending[r] ELSE 0
Counted(r) == [x \in DOMAIN pending \cup {r} |-> IF x = r THEN Count(r) + 1 ELSE pending[x]]

\* Mutant: one vote more than the threshold is needed.
Late_ThresholdMet(r) == Count(r) >= signature_thresholds[r.to][r.committeeId]
ThresholdMet(r) == Count(r) + 1 >= signature_thresholds[r.to][r.committeeId]

\* receive_request, receiveRequest
ReceiveRequest(g, r) ==
    /\ ~halted[r.to] /\ frames = <<>>
    /\ NeedsSignature(r, g)
    /\ signatures' = signatures \cup {<<g, r>>}
    /\ \/ /\ ThresholdMet(r)
          /\ PayAzero(r) \/ RemoteTokenTransfer(r) \/ NativeTransfer(r)
          /\ processed' = processed \cup {r}
          /\ pending' = Restrict(pending, DOMAIN pending \ {r})
       \/ /\ ~ThresholdMet(r)
          /\ pending' = Counted(r)
          /\ UNCHANGED <<processed, coin, azero, l2>>
    /\ UNCHANGED <<halted, members, supported_pairs, flat_fee, log, recovered, governed>>

Logged(c) == {sent[c][i] : i \in 1 .. Len(sent[c])}

\* A relayer submits what the other chain logged.
Relay(g) == \E c \in Chains : \E r \in Logged(c) : ReceiveRequest(g, r)

Forge(g, r) == g \in Faulty /\ ReceiveRequest(g, r)

-----------------------------------------------------------------------------
(* Governance *)

Govern == governed < MaxGovern /\ frames = <<>> /\ governed' = governed + 1

SetHalted(c, state) ==
    /\ frames = <<>>
    /\ halted[c] # state
    /\ halted' = [halted EXCEPT ![c] = state]
    /\ UNCHANGED <<members, supported_pairs, flat_fee, voting, log, coin, azero, l2, recovered,
                   governed>>

SetCommittee(c, C) ==
    /\ Govern
    /\ halted[c]
    /\ CheckCommittee(C)
    /\ committee_id[c] < MaxCommitteeId
    /\ committee_id' = [committee_id EXCEPT ![c] = @ + 1]
    /\ committees' = [committees EXCEPT ![c][committee_id[c] + 1] = C.members]
    /\ signature_thresholds' = [signature_thresholds EXCEPT ![c][committee_id[c] + 1] = C.threshold]
    /\ UNCHANGED <<halted, supported_pairs, flat_fee, voting, log, coin, azero, l2, recovered>>

AddPair(t) ==
    /\ Govern
    /\ \E c \in Chains :
          /\ t \in Tokens[c] /\ halted[c]
          /\ supported_pairs' = [supported_pairs EXCEPT ![c][t] = Partner[t]]
          /\ isLocalToken' = IF c = "l2" THEN isLocalToken \ {t} ELSE isLocalToken
    /\ UNCHANGED <<halted, members, flat_fee, voting, log, coin, azero, bAzeroAddress, supply, pool,
                   frames, refused, recovered>>

RemovePair(t) ==
    /\ Govern
    /\ \E c \in Chains : /\ t \in Tokens[c] /\ halted[c]
                         /\ supported_pairs' = [supported_pairs EXCEPT ![c][t] = Zero]
    /\ UNCHANGED <<halted, members, flat_fee, voting, log, coin, azero, l2, recovered>>

\* set_flat_fee: without a halt
SetFlatFee(c, fee) ==
    /\ Govern
    /\ flat_fee' = [flat_fee EXCEPT ![c] = fee]
    /\ UNCHANGED <<halted, members, supported_pairs, voting, log, coin, azero, l2, recovered>>

SetWazero(t) ==
    /\ Govern
    /\ halted.azero
    /\ wazero' = t
    /\ UNCHANGED <<halted, members, supported_pairs, flat_fee, voting, log, coin, locked, users, l2,
                   recovered>>

SetBridgedAzeroAddress(t) ==
    /\ Govern
    /\ halted.l2
    /\ bAzeroAddress' = t
    /\ UNCHANGED <<halted, members, supported_pairs, flat_fee, voting, log, coin, azero, isLocalToken,
                   supply, pool, frames, refused, recovered>>

SetLocalToken(t, isLocal) ==
    /\ Govern
    /\ halted.l2
    /\ isLocalToken' = IF isLocal THEN isLocalToken \cup {t} ELSE isLocalToken \ {t}
    /\ UNCHANGED <<halted, members, supported_pairs, flat_fee, voting, log, coin, azero, bAzeroAddress,
                   supply, pool, frames, refused, recovered>>

RecoverPsp22(t, amount) ==
    /\ Govern
    /\ locked[t] >= amount
    /\ locked' = [locked EXCEPT ![t] = @ - amount]
    /\ users' = [users EXCEPT ![t] = @ + amount]
    /\ recovered' = [recovered EXCEPT ![t] = @ + amount]
    /\ UNCHANGED <<halted, members, supported_pairs, flat_fee, voting, log, coin, wazero, l2>>

RecoverCoin(c, amount) ==
    /\ Govern
    /\ coin[c] >= amount
    /\ coin' = [coin EXCEPT ![c] = @ - amount]
    /\ recovered' = [recovered EXCEPT ![c] = @ + amount]
    /\ UNCHANGED <<halted, members, supported_pairs, flat_fee, voting, log, azero, l2>>

-----------------------------------------------------------------------------

Send ==
    \/ \E amount \in Amounts :
          \/ \E t \in Tokens.azero, value \in Values("azero", 0) : SendRequest(t, amount, value)
          \/ \E value \in Values("azero", amount) : SendRequestNativeAzero(amount, value)
          \/ \E value \in Values("l2", amount) : BeginNative(amount, value)
          \/ \E t \in Tokens.l2, value \in Values("l2", 0) : BeginToken(t, amount, value)
    \/ EndNative
    \/ EndToken

Receive ==
    \/ \E g \in Guardians : Relay(g)
    \/ \E g \in Faulty, r \in Forged : Forge(g, r)

GovernChain(c) ==
    \/ \E state \in BOOLEAN : SetHalted(c, state)
    \/ \E C \in Committees : SetCommittee(c, C)
    \/ \E fee \in FlatFees : SetFlatFee(c, fee)
    \/ \E amount \in Amounts : RecoverCoin(c, amount)

GovernTokens ==
    \/ \E t \in Tokens.azero \cup Tokens.l2 : AddPair(t) \/ RemovePair(t)
    \/ SetWazero(WrappedAzero)
    \/ \E t \in BAzeros : SetBridgedAzeroAddress(t)
    \/ \E t \in Tokens.l2, isLocal \in BOOLEAN : SetLocalToken(t, isLocal)
    \/ \E t \in Tokens.azero, amount \in Amounts : RecoverPsp22(t, amount)

Next == Send \/ Receive \/ GovernTokens \/ \E c \in Chains : GovernChain(c)

Spec == Init /\ [][Next]_vars

-----------------------------------------------------------------------------
(* Properties *)

\* The type of the variables: no balance, supply or liquidity is overdrawn.
TypeOK ==
    /\ halted \in [Chains -> BOOLEAN]
    /\ committee_id \in [Chains -> CommitteeIds]
    /\ committees \in [Chains -> [CommitteeIds -> SUBSET Guardians]]
    /\ signature_thresholds \in [Chains -> [CommitteeIds -> Nat]]
    /\ \A c \in Chains : supported_pairs[c] \in [Tokens[c] -> Tokens[Other(c)] \cup {Zero}]
    /\ flat_fee \in [Chains -> FlatFees]
    /\ signatures \subseteq Guardians \X Requests
    /\ pending \in [DOMAIN pending -> Nat \ {0}] /\ DOMAIN pending \subseteq Requests \ processed
    /\ processed \subseteq Requests
    /\ request_nonce \in [Chains -> Nat] /\ sent \in [Chains -> Seq(Requests)]
    /\ coin \in [Chains -> Nat]
    /\ wazero \in Tokens.azero \cup {Zero} /\ bAzeroAddress \in BAzeros
    /\ locked \in [Tokens.azero -> Nat] /\ users \in [Tokens.azero -> Nat]
    /\ isLocalToken \subseteq Tokens.l2
    /\ supply \in [Tokens.l2 -> Nat]
    /\ pool \in [native : Nat, bAzero : Nat]
    /\ frames \in Seq([token : Tokens.l2 \cup {Zero}, amount : Nat, surplus : BOOLEAN])
    /\ refused \in Nat /\ recovered \in [Tokens.azero \cup Chains -> Nat]
    /\ governed \in Nat

\* As long as each committee has fewer faulty members than its threshold, no request is
\* processed that the other chain did not log, however committees are replaced on either.
NoForgedPayout == processed \subseteq Logged("azero") \cup Logged("l2")

\* A request whose whole committee has voted is processed: what fails in the deciding
\* call takes the vote with it (most-l2/lib.rs lines 437-455).
AllSignedMeansProcessed ==
    \A c \in Chains : \A r \in Logged(c) :
        r.committeeId <= committee_id[r.to] /\ (\A g \in Guardians : ~NeedsSignature(r, g))
            => r \in processed

Total(requests) == SumFunctionOnSet([r \in requests |-> r.amount], requests)
OnTheWay(tokens) ==
    Total({r \in (Logged("azero") \cup Logged("l2")) \ processed : r.token \in tokens})

\* What a request may name to move AZERO: the native coin, wrapped AZERO or a bAZERO.
Azeros == {Zero, WrappedAzero} \cup BAzeros

\* Beyond what the setup gave to either side, the wrapped AZERO locked on Aleph Zero equals
\* the bAZERO in circulation plus what is on its way, as a native coin or as a token.
\* Neither a swap that fails or returns less, nor a refused payout, nor bAZERO sent back as
\* a token, nor another bAZERO contract makes a difference (MostL2.sol lines 80-142,
\* 240-306).
AzeroIsBacked ==
    locked[WrappedAzero] + recovered[WrappedAzero] + PoolBAzero =
        Deposit + SumFunctionOnSet(supply, BAzeros) + OnTheWay(Azeros)

\* The same for every other token.
LocalsAreBacked ==
    \A t \in Locals :
        locked[t] + recovered[t] = supply[Partner[t]] + OnTheWay({t, Partner[t]})

\* Neither contract keeps any part of fee and surplus, and neither pays them from other
\* people's coins: the L2 contract owns what receivers refused and what the calls under
\* way have paid in, also when the receiver of a surplus calls again (MostL2.sol lines
\* 190-212, most-l2/lib.rs lines 296-316).
CoinsAreAccounted ==
    /\ coin.azero + recovered.azero = Endowment
    /\ coin.l2 + recovered.l2 =
          refused + SumFunctionOnSet([i \in 1 .. Len(frames) |-> frames[i].amount],
                                     {i \in 1 .. Len(frames) : frames[i].token = Zero})

=============================================================================
