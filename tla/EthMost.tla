------------------------------ MODULE EthMost ------------------------------
(***************************************************************************)
(* The Ethereum side of the bridge: AbstractMost.sol as specialised by     *)
(* Most.sol.  Users lock or burn tokens in sendRequest*, which logs a      *)
(* CrosschainTransferRequest; members of a request's committee vote for it *)
(* in receiveRequest, and the vote that reaches the threshold pays it out. *)
(*                                                                         *)
(* Abstractions.  A request hash is the record of the hashed fields (the   *)
(* hash is collision free), so a mapping keyed by hash is a function on    *)
(* requests.  A call that reverts leaves no trace and is no step; so is a  *)
(* call that only logs (a vote for a processed or already signed request,  *)
(* whatever hash it claims).  onlyOwner calls are made by the owner.       *)
(***************************************************************************)
EXTENDS Naturals, Sequences, FiniteSets, FiniteSetsExt

CONSTANTS
    Guardians,       \* accounts that may be put in a committee
    Tokens,          \* ERC20 contracts on this chain
    Weth,            \* the one that wraps ether
    Mintable,        \* WrappedToken contracts whose minterBurner is this contract
    RemoteTokens,    \* token contracts on the other chain
    Receivers,       \* non-zero receivers
    Zero,            \* address(0) / bytes32(0): no token, or the native coin
    Amounts,         \* amounts a user may send
    Incoming,        \* the requests guardians may vote for
    Limits,          \* the minima a transfer limit contract may impose
    Funds,           \* what users own of each token at the start
    MaxCommitteeId,  \* bound on committee changes
    MaxNonce,        \* bound on requests sent
    MaxDepth         \* bound on the depth of reentrant calls

CommitteeIds == 0 .. MaxCommitteeId

\* The fields hashed by receiveRequest, which are those the event carries.
Request == [committeeId : CommitteeIds, destToken : Tokens \cup RemoteTokens \cup {Zero},
            amount : Nat, receiver : Receivers, nonce : Nat]

ASSUME EthMostAssumption ==
    /\ IsFiniteSet(Guardians)
    /\ Weth \in Tokens
    /\ Mintable \subseteq Tokens \ {Weth}
    /\ Zero \notin Tokens \cup RemoteTokens
    /\ Amounts \subseteq Nat
    /\ Incoming \subseteq {r \in Request : r.destToken \in Tokens \cup {Zero}}
    /\ Limits \subseteq [Tokens -> Nat]
    /\ Funds \in [Tokens -> Nat]
    /\ MaxCommitteeId \in Nat
    /\ MaxNonce \in Nat
    /\ MaxDepth \in Nat

VARIABLES
    paused,
    committeeId,
    committee,            \* members of each committee id
    signatureThreshold,
    requestNonce,
    supportedPairs,
    isLocalToken,
    wrappedAzeroAddress,
    transferLimit,        \* the minimum in force for each token, 0 for none
    signatures,           \* pendingRequests[h].signatures
    signatureCount,       \* pendingRequests[h].signatureCount
    processedRequests,
    balance,              \* ERC20 balance of this contract
    ether,                \* native balance of this contract
    outside,              \* ERC20 tokens owned by everybody else
    frames,               \* sendRequest calls inside the token's transferFrom
    sent,                 \* log of CrosschainTransferRequest
    payouts,              \* log: how often each request was paid out
    failed,               \* log of EthTransferFailed and TokenTransferFailed
    recovered             \* log: ether taken out by recoverNative

voting == <<signatures, signatureCount, processedRequests, payouts, failed>>
config == <<committeeId, committee, signatureThreshold, supportedPairs, isLocalToken,
            wrappedAzeroAddress>>
money  == <<balance, ether, outside, recovered>>
log    == <<requestNonce, sent, frames>>
vars   == <<paused, transferLimit, voting, config, money, log>>

NoMembers == [c \in CommitteeIds |-> {}]

Thresholds == 0 .. Cardinality(Guardians)

\* Mutant: the committee may be smaller than its threshold.
NoSizeCheck_ValidCommittee(C, threshold) == threshold > 0
\* _setCommittee: distinct non-zero members, a threshold between 1 and their number.
ValidCommittee(C, threshold) ==
    /\ threshold > 0
    /\ Cardinality(C) >= threshold

\* initialize: the first committee gets id 0, no pair is supported, and the bridge is paused.
Init ==
    /\ paused = TRUE
    /\ committeeId = 0
    /\ \E C \in SUBSET Guardians, threshold \in Thresholds :
          /\ ValidCommittee(C, threshold)
          /\ committee = [NoMembers EXCEPT ![0] = C]
          /\ signatureThreshold = [[c \in CommitteeIds |-> 0] EXCEPT ![0] = threshold]
    /\ requestNonce = 0
    /\ supportedPairs = [t \in Tokens |-> Zero]
    /\ isLocalToken = [t \in Tokens |-> FALSE]
    /\ wrappedAzeroAddress = Zero
    /\ transferLimit = [t \in Tokens |-> 0]
    /\ signatures = [r \in Incoming |-> {}]
    /\ signatureCount = [r \in Incoming |-> 0]
    /\ processedRequests = {}
    /\ balance = [t \in Tokens |-> 0]
    /\ ether = 0
    /\ outside = Funds
    /\ frames = <<>>
    /\ sent = <<>>
    /\ payouts = [r \in Incoming |-> 0]
    /\ failed = {}
    /\ recovered = 0

-----------------------------------------------------------------------------
(* Sending *)

\* checkTransferAllowed: a limit contract that is unset or fails imposes no minimum.
CheckTransferAllowed(t, amount) == amount >= transferLimit[t]

\* Mutant: the nonce is read before the token's transferFrom and written back after it.
CachedNonce_Emit(destToken, amount, receiver) ==
    /\ sent' = Append(sent, [committeeId |-> committeeId, destToken |-> destToken,
                             amount |-> amount, receiver |-> receiver,
                             nonce |-> requestNonce])
    /\ requestNonce' = IF Len(frames) > 1 THEN requestNonce ELSE requestNonce + 1

\* The CrosschainTransferRequest event and the increment of requestNonce.
Emit(destToken, amount, receiver) ==
    /\ sent' = Append(sent, [committeeId |-> committeeId, destToken |-> destToken,
                             amount |-> amount, receiver |-> receiver,
                             nonce |-> requestNonce])
    /\ requestNonce' = requestNonce + 1

\* A send is a top level call, or is made from the transferFrom of a token that is neither
\* WETH9 nor a WrappedToken (these call nobody).  MaxNonce bounds the exploration.
MaySend ==
    /\ ~paused
    /\ requestNonce + Len(frames) < MaxNonce
    /\ frames # <<>> => frames[Len(frames)].token \notin Mintable \cup {Weth}

\* sendRequest up to the safeTransferFrom, in which the token may call back: the rest of
\* the handler waits in a frame.  The burn of a token that is not local must succeed.
SendRequest(t, amount, receiver) ==
    /\ MaySend /\ Len(frames) < MaxDepth
    /\ amount # 0
    /\ supportedPairs[t] # Zero
    /\ CheckTransferAllowed(t, amount)
    /\ outside[t] >= amount
    /\ isLocalToken[t] \/ t \in Mintable
    /\ outside' = [outside EXCEPT ![t] = @ - amount]
    /\ balance' = [balance EXCEPT ![t] = @ + amount]
    /\ frames' = Append(frames, [token |-> t, destToken |-> supportedPairs[t],
                                 amount |-> amount, receiver |-> receiver])
    /\ UNCHANGED <<paused, transferLimit, voting, config, ether, recovered, requestNonce, sent>>

\* The rest of sendRequest: burn a token that is not local, log the request.
SendRequestReturns ==
    /\ frames # <<>>
    /\ LET f == frames[Len(frames)] IN
          /\ balance' = IF isLocalToken[f.token] THEN balance
                        ELSE [balance EXCEPT ![f.token] = @ - f.amount]
          /\ Emit(f.destToken, f.amount, f.receiver)
    /\ frames' = SubSeq(frames, 1, Len(frames) - 1)
    /\ UNCHANGED <<paused, transferLimit, voting, config, ether, outside, recovered>>

\* Mutant: the ether that comes with the call is not deposited with WETH9.
NoDeposit_SendRequestNative(amount, receiver) ==
    /\ MaySend
    /\ amount # 0
    /\ supportedPairs[Weth] # Zero
    /\ CheckTransferAllowed(Weth, amount)
    /\ ether' = ether + amount
    /\ Emit(supportedPairs[Weth], amount, receiver)
    /\ UNCHANGED <<paused, transferLimit, voting, config, balance, outside, recovered, frames>>

\* sendRequestNative: wrap the ether that comes with the call and lock it.
SendRequestNative(amount, receiver) ==
    /\ MaySend
    /\ amount # 0
    /\ supportedPairs[Weth] # Zero
    /\ CheckTransferAllowed(Weth, amount)
    /\ balance' = [balance EXCEPT ![Weth] = @ + amount]
    /\ Emit(supportedPairs[Weth], amount, receiver)
    /\ UNCHANGED <<paused, transferLimit, voting, config, ether, outside, recovered, frames>>

\* sendRequestAzeroToNative: burn wrapped AZERO for the other chain's native coin.
SendRequestAzeroToNative(amount, receiver) ==
    /\ MaySend
    /\ amount # 0
    /\ wrappedAzeroAddress \in Mintable
    /\ CheckTransferAllowed(wrappedAzeroAddress, amount)
    /\ outside[wrappedAzeroAddress] >= amount
    /\ outside' = [outside EXCEPT ![wrappedAzeroAddress] = @ - amount]
    /\ Emit(Zero, amount, receiver)
    /\ UNCHANGED <<paused, transferLimit, voting, config, balance, ether, recovered, frames>>

-----------------------------------------------------------------------------
(* Receiving *)

IsInCommittee(c, g) == g \in committee[c]

\* Mutant: a member may vote for the same request again.
Forgetful_HasSignedRequest(g, r) == FALSE
HasSignedRequest(g, r) == g \in signatures[r]

\* Mutant: a processed request takes further votes.
Reopened_NeedsSignature(r, g) ==
    IsInCommittee(r.committeeId, g) /\ ~HasSignedRequest(g, r)

NeedsSignature(r, g) ==
    /\ IsInCommittee(r.committeeId, g)
    /\ r \notin processedRequests
    /\ ~HasSignedRequest(g, r)

\* Mutant: a failed unwrapping goes unnoticed.
Unguarded_PayEther(r) ==
    /\ r.destToken = Zero
    /\ balance' = [balance EXCEPT ![Weth] = @ - r.amount]
    /\ UNCHANGED <<ether, failed, outside>>

\* The payout of onReceiveRequestThresholdMet.  Unwrapping and minting revert the vote
\* when they fail; a failed transfer is logged and the request counts as processed.
PayEther(r) ==
    /\ r.destToken = Zero
    /\ balance[Weth] >= r.amount
    /\ balance' = [balance EXCEPT ![Weth] = @ - r.amount]
    /\ \/ UNCHANGED <<ether, failed>>
       \/ /\ ether' = ether + r.amount
          /\ failed' = failed \cup {r}
    /\ UNCHANGED outside

PayMint(r) ==
    /\ r.destToken \in Mintable
    /\ ~isLocalToken[r.destToken]
    /\ outside' = [outside EXCEPT ![r.destToken] = @ + r.amount]
    /\ UNCHANGED <<balance, ether, failed>>

PayTransfer(r) ==
    /\ r.destToken \in Tokens
    /\ isLocalToken[r.destToken]
    /\ \/ /\ balance[r.destToken] >= r.amount
          /\ balance' = [balance EXCEPT ![r.destToken] = @ - r.amount]
          /\ outside' = [outside EXCEPT ![r.destToken] = @ + r.amount]
          /\ UNCHANGED failed
       \/ /\ failed' = failed \cup {r}
          /\ UNCHANGED <<balance, outside>>
    /\ UNCHANGED ether

\* delete pendingRequests[h] resets the count; the nested signatures mapping survives it.
OnReceiveRequestThresholdMet(r) ==
    /\ processedRequests' = processedRequests \cup {r}
    /\ signatureCount' = [signatureCount EXCEPT ![r] = 0]
    /\ payouts' = [payouts EXCEPT ![r] = @ + 1]
    /\ PayEther(r) \/ PayMint(r) \/ PayTransfer(r)

\* Mutant: the votes are held against the threshold of the committee in office.
InOffice_ThresholdMet(r) == signatureCount[r] + 1 >= signatureThreshold[committeeId]
ThresholdMet(r) == signatureCount[r] + 1 >= signatureThreshold[r.committeeId]

\* receiveRequest by committee member g; a guardian's key signs top level calls only.
ReceiveRequest(g, r) ==
    /\ ~paused
    /\ frames = <<>>
    /\ NeedsSignature(r, g)
    /\ signatures' = [signatures EXCEPT ![r] = @ \cup {g}]
    /\ \/ /\ ThresholdMet(r)
          /\ OnReceiveRequestThresholdMet(r)
       \/ /\ ~ThresholdMet(r)
          /\ signatureCount' = [signatureCount EXCEPT ![r] = @ + 1]
          /\ UNCHANGED <<processedRequests, payouts, failed, balance, ether, outside>>
    /\ UNCHANGED <<paused, transferLimit, config, recovered, log>>

-----------------------------------------------------------------------------
(* Governance: calls of the owner, a multisig that makes top level calls *)

Pause ==
    /\ ~paused /\ frames = <<>>
    /\ paused' = TRUE
    /\ UNCHANGED <<transferLimit, voting, config, money, log>>

Unpause ==
    /\ paused /\ frames = <<>>
    /\ paused' = FALSE
    /\ UNCHANGED <<transferLimit, voting, config, money, log>>

RecoverERC20(t, amount) ==
    /\ frames = <<>>
    /\ balance[t] >= amount
    /\ balance' = [balance EXCEPT ![t] = @ - amount]
    /\ outside' = [outside EXCEPT ![t] = @ + amount]
    /\ UNCHANGED <<paused, transferLimit, voting, config, ether, recovered, log>>

RecoverNative(amount) ==
    /\ frames = <<>>
    /\ ether >= amount
    /\ ether' = ether - amount
    /\ recovered' = recovered + amount
    /\ UNCHANGED <<paused, transferLimit, voting, config, balance, outside, log>>

\* Mutant: a new committee takes over the id of the old one.
Reused_NewCommitteeId == committeeId
NewCommitteeId == committeeId + 1

\* A new committee gets a new id: the old ones keep their members and thresholds.
SetCommittee(C, threshold) ==
    /\ paused /\ frames = <<>>
    /\ ValidCommittee(C, threshold)
    /\ committeeId < MaxCommitteeId
    /\ committeeId' = NewCommitteeId
    /\ committee' = [committee EXCEPT ![NewCommitteeId] = C]
    /\ signatureThreshold' = [signatureThreshold EXCEPT ![NewCommitteeId] = threshold]
    /\ UNCHANGED <<paused, transferLimit, voting, supportedPairs, isLocalToken,
                   wrappedAzeroAddress, money, log>>

SetWrappedAzeroAddress(t) ==
    /\ paused /\ frames = <<>>
    /\ wrappedAzeroAddress' = t
    /\ UNCHANGED <<paused, transferLimit, voting, committeeId, committee, signatureThreshold,
                   supportedPairs, isLocalToken, money, log>>

AddPair(from, to, isLocal) ==
    /\ paused /\ frames = <<>>
    /\ supportedPairs' = [supportedPairs EXCEPT ![from] = to]
    /\ isLocalToken' = [isLocalToken EXCEPT ![from] = isLocal]
    /\ UNCHANGED <<paused, transferLimit, voting, committeeId, committee, signatureThreshold,
                   wrappedAzeroAddress, money, log>>

SetLocalToken(t, isLocal) ==
    /\ paused /\ frames = <<>>
    /\ isLocalToken' = [isLocalToken EXCEPT ![t] = isLocal]
    /\ UNCHANGED <<paused, transferLimit, voting, committeeId, committee, signatureThreshold,
                   supportedPairs, wrappedAzeroAddress, money, log>>

RemovePair(from) ==
    /\ paused /\ frames = <<>>
    /\ supportedPairs' = [supportedPairs EXCEPT ![from] = Zero]
    /\ UNCHANGED <<paused, transferLimit, voting, committeeId, committee, signatureThreshold,
                   isLocalToken, wrappedAzeroAddress, money, log>>

\* The owner replaces the limit contract, or the minimum it answers moves with its oracle.
SetTransferLimitContract(limit) ==
    /\ transferLimit' = limit
    /\ UNCHANGED <<paused, voting, config, money, log>>

-----------------------------------------------------------------------------

Send ==
    \/ \E amount \in Amounts, receiver \in Receivers :
          \/ \E t \in Tokens : SendRequest(t, amount, receiver)
          \/ SendRequestNative(amount, receiver)
          \/ SendRequestAzeroToNative(amount, receiver)
    \/ SendRequestReturns

Receive == \E g \in Guardians, r \in Incoming : ReceiveRequest(g, r)

Govern ==
    \/ Pause \/ Unpause
    \/ \E amount \in Amounts : RecoverNative(amount) \/ \E t \in Tokens : RecoverERC20(t, amount)
    \/ \E C \in SUBSET Guardians, threshold \in Thresholds : SetCommittee(C, threshold)
    \/ \E t \in Tokens \cup {Zero} : SetWrappedAzeroAddress(t)
    \/ \E t \in Tokens :
          \/ RemovePair(t)
          \/ \E isLocal \in BOOLEAN :
                SetLocalToken(t, isLocal) \/ \E to \in RemoteTokens : AddPair(t, to, isLocal)
    \/ \E limit \in Limits : SetTransferLimitContract(limit)

Next == Send \/ Receive \/ Govern

Spec == Init /\ [][Next]_vars

-----------------------------------------------------------------------------
(* Properties *)

Frame == [token : Tokens, destToken : RemoteTokens, amount : Nat, receiver : Receivers]

ConfigType ==
    /\ committeeId \in CommitteeIds
    /\ committee \in [CommitteeIds -> SUBSET Guardians]
    /\ signatureThreshold \in [CommitteeIds -> Nat]
    /\ supportedPairs \in [Tokens -> RemoteTokens \cup {Zero}]
    /\ isLocalToken \in [Tokens -> BOOLEAN]
    /\ wrappedAzeroAddress \in Tokens \cup {Zero}

VotingType ==
    /\ signatures \in [Incoming -> SUBSET Guardians]
    /\ signatureCount \in [Incoming -> Nat]
    /\ processedRequests \subseteq Incoming
    /\ payouts \in [Incoming -> Nat]
    /\ failed \subseteq Incoming

MoneyType ==
    /\ balance \in [Tokens -> Nat]
    /\ ether \in Nat
    /\ outside \in [Tokens -> Nat]
    /\ recovered \in Nat

LogType ==
    /\ requestNonce \in Nat
    /\ sent \in Seq(Request)
    /\ frames \in Seq(Frame)

\* Every storage slot and log holds a value of its type: no balance is overdrawn.
TypeOK ==
    /\ paused \in BOOLEAN
    /\ transferLimit \in [Tokens -> Nat]
    /\ ConfigType
    /\ VotingType
    /\ MoneyType
    /\ LogType

\* What a suspended sendRequest will burn is in the contract, and only the innermost one
\* may have something to burn (lines 167-172).
FramesCovered ==
    \A i \in 1 .. Len(frames) :
        LET f == frames[i] IN
        /\ isLocalToken[f.token] \/ f.token \in Mintable
        /\ i < Len(frames) => f.token \notin Mintable
        /\ ~isLocalToken[f.token] => balance[f.token] >= f.amount

\* receiveRequest pays a request only with the votes of a quorum of the committee named in
\* the request, also when that committee has been replaced since (lines 302-340).
QuorumBehindProcessed ==
    \A r \in processedRequests :
        /\ signatures[r] \subseteq committee[r.committeeId]
        /\ Cardinality(signatures[r]) >= signatureThreshold[r.committeeId]
        /\ signatureThreshold[r.committeeId] > 0

\* A request whose whole committee has voted is processed: no request is left that nobody
\* may push any further (needsSignature is false for every member, lines 409-424).
AllSignedMeansProcessed ==
    \A r \in Incoming :
        r.committeeId <= committeeId /\ (\A g \in Guardians : ~NeedsSignature(r, g))
            => r \in processedRequests

\* Every processed request was paid out exactly once and no other request was, although
\* `delete pendingRequests` leaves the signatures in storage (lines 254-255).
PaidExactlyOnce ==
    \A r \in Incoming : payouts[r] = IF r \in processedRequests THEN 1 ELSE 0

\* No two logged requests have the same hash, whatever calls a token makes back into the
\* contract from the transferFrom of sendRequest (lines 167-182).
RequestsAreUnique ==
    \A i, j \in 1 .. Len(sent) : i # j => sent[i] # sent[j]

\* The ether of a native transfer that its receiver refused stays in the contract until
\* the owner recovers it, and the contract holds no other ether (lines 262-273, 291-294).
RefusedEtherIsKept ==
    ether + recovered =
        SumFunctionOnSet([r \in Incoming |-> r.amount], {r \in failed : r.destToken = Zero})

\* No step changes the members or the threshold of a committee that exists: a pending
\* request cannot be pushed over its threshold by governance (lines 120-142, 367-374).
CommitteesAreImmutable ==
    [][\A c \in 0 .. committeeId : /\ committee'[c] = committee[c]
                                    /\ signatureThreshold'[c] = signatureThreshold[c]]_vars

\* needsSignature of an existing committee never turns from false to true: a relayer that
\* stopped at false has nothing left to do for that request (lines 409-424).
SettledStaysSettled ==
    [][\A r \in Incoming, g \in Guardians :
          r.committeeId <= committeeId /\ ~NeedsSignature(r, g) => ~NeedsSignature(r, g)']_vars

\* The contract implements the abstract voting scheme of both bridge contracts: the count
\* kept in storage decides as the set of voters would (lines 302-340, 367-374).
Voting == INSTANCE CommitteeVoting WITH
    Requests <- Incoming, current <- committeeId, members <- committee,
    threshold <- signatureThreshold, votes <- signatures, executed <- processedRequests

ImplementsVoting == Voting!Spec

=============================================================================
