----------------------------- MODULE AzeroMost -----------------------------
(***************************************************************************)
(* The Aleph Zero side of the bridge: the ink! contract most/lib.rs.  It   *)
(* votes on requests as EthMost does, charges a fee in AZERO for every     *)
(* request sent and splits it among the committee, and hands out pocket    *)
(* money with every request received, all from one AZERO balance.          *)
(*                                                                         *)
(* Abstractions.  As in EthMost, a request hash is the record of the       *)
(* hashed fields, and calls that fail or only log are no steps.  Every     *)
(* `?` reverts the whole call, the vote included.  A cross-contract call   *)
(* cannot reenter (pallet-contracts refuses it), so a message is one step. *)
(* The surplus over the fee returns to the sender in the same call, and    *)
(* payout_accounts only redirects a payout: neither is kept.               *)
(***************************************************************************)
EXTENDS Naturals, Sequences, FiniteSets, FiniteSetsExt

CONSTANTS
    Guardians,       \* accounts that may be put in a committee
    Tokens,          \* PSP22 contracts on this chain
    WAzero,          \* the one with deposit and withdraw for AZERO
    Mintable,        \* Token contracts, which may have this one as their minter and burner
    RemoteTokens,    \* token contracts on Ethereum
    Receivers,       \* non-zero receivers
    Zero,            \* no token; as a destination the NATIVE_MARKER_ADDRESS
    Amounts,         \* amounts a user may send, fund or recover
    Incoming,        \* the requests guardians may vote for
    Funds,           \* what users own of each token at the start
    RATIO,           \* smallest units of wrapped AZERO on Ethereum per unit of AZERO
    U128,            \* number of values of a u128
    FeeParams,       \* records [relay_gas_usage, min, max, default, buffer]
    OracleAnswers,   \* records [price, stale] the oracle may return
    NoAnswer,        \* no oracle, or a failing one
    PocketLimits,    \* values of max_pocket_money
    GasUsages,       \* values of eth_transfer_gas_usage
    MaxCommitteeId,  \* bound on committee changes
    MaxNonce,        \* bound on requests sent
    MaxFunding       \* bound on the pocket money in the contract

CommitteeIds == 0 .. MaxCommitteeId

Request == [committeeId : CommitteeIds, destToken : Tokens \cup RemoteTokens \cup {Zero},
            amount : Nat, receiver : Receivers, nonce : Nat]

ASSUME AzeroMostAssumption ==
    /\ IsFiniteSet(Guardians)
    /\ WAzero \in Tokens
    /\ Mintable \subseteq Tokens \ {WAzero}
    /\ Zero \notin Tokens \cup RemoteTokens
    /\ Amounts \subseteq Nat
    /\ Incoming \subseteq {r \in Request : r.destToken \in Tokens \cup {Zero}}
    /\ Funds \in [Tokens -> Nat]
    /\ RATIO \in Nat \ {0}
    /\ U128 \in Nat \ {0}
    /\ FeeParams \subseteq [relay_gas_usage : Nat, min : Nat, max : Nat, default : Nat, buffer : Nat]
    /\ OracleAnswers \subseteq [price : Nat, stale : BOOLEAN]
    /\ \A answer \in OracleAnswers : [answer EXCEPT !.stale = TRUE] \in OracleAnswers
    /\ NoAnswer \notin OracleAnswers
    /\ PocketLimits \subseteq Nat
    /\ GasUsages \subseteq Nat
    /\ MaxCommitteeId \in Nat
    /\ MaxNonce \in Nat
    /\ MaxFunding \in Nat

VARIABLES
    is_halted,
    committee_id,
    committees,              \* members of each committee id; committee_sizes counts them
    signature_thresholds,
    request_nonce,
    supported_pairs,
    local_token,             \* tokens that originate on this chain
    weth,
    wazero,
    minter,                  \* Token contracts whose minter_burner is this contract
    fee_params,
    oracle,                  \* what a call of the gas price oracle returns now
    max_pocket_money,
    eth_transfer_gas_usage,
    pocket_money_balance,
    collected,               \* collected_committee_rewards
    paid_out,                \* paid_out_member_rewards, by committee and member
    signatures,
    signature_count,         \* pending_requests[h].signature_count
    processed_requests,
    balance,                 \* PSP22 balance of this contract
    azero,                   \* AZERO balance of this contract
    outside,                 \* PSP22 tokens owned by everybody else
    sent,                    \* log of CrosschainTransferRequest
    executed,                \* log: how often each request was executed
    recovered                \* log: AZERO taken out by recover_azero

voting  == <<signatures, signature_count, processed_requests, executed>>
members == <<committee_id, committees, signature_thresholds>>
pairs   == <<supported_pairs, local_token, weth, wazero>>
pricing == <<fee_params, oracle, max_pocket_money, eth_transfer_gas_usage>>
rewards == <<collected, paid_out>>
psp22   == <<balance, outside>>
coin    == <<pocket_money_balance, azero, recovered>>
log     == <<request_nonce, sent>>
vars    == <<is_halted, voting, members, pairs, minter, pricing, rewards, psp22, coin, log>>

Thresholds == 0 .. Cardinality(Guardians)

\* check_committee
CheckCommittee(C, threshold) ==
    /\ threshold # 0
    /\ Cardinality(C) >= threshold

\* new: halted, with committee 0, no pairs, no money; weth and wazero are not set.
Init ==
    /\ is_halted = TRUE
    /\ committee_id = 0
    /\ \E C \in SUBSET Guardians, threshold \in Thresholds :
          /\ CheckCommittee(C, threshold)
          /\ committees = [[c \in CommitteeIds |-> {}] EXCEPT ![0] = C]
          /\ signature_thresholds = [[c \in CommitteeIds |-> 0] EXCEPT ![0] = threshold]
    /\ request_nonce = 0
    /\ supported_pairs = [t \in Tokens |-> Zero]
    /\ local_token = {}
    /\ weth = Zero
    /\ wazero = Zero
    /\ minter = Mintable
    /\ fee_params \in FeeParams
    /\ oracle \in OracleAnswers \cup {NoAnswer}
    /\ max_pocket_money \in PocketLimits
    /\ eth_transfer_gas_usage \in GasUsages
    /\ pocket_money_balance = 0
    /\ collected = [c \in CommitteeIds |-> 0]
    /\ paid_out = [c \in CommitteeIds |-> [g \in Guardians |-> 0]]
    /\ signatures = [r \in Incoming |-> {}]
    /\ signature_count = [r \in Incoming |-> 0]
    /\ processed_requests = {}
    /\ balance = [t \in Tokens |-> 0]
    /\ azero = 0
    /\ outside = Funds
    /\ sent = <<>>
    /\ executed = [r \in Incoming |-> 0]
    /\ recovered = 0

-----------------------------------------------------------------------------
(* Fees and pocket money *)

\* get_gas_price_with_limits: the oracle's price if fresh, clamped, else the default.
GasPriceWithLimits ==
    IF oracle = NoAnswer THEN fee_params.default
    ELSE IF oracle.stale THEN fee_params.default
    ELSE IF oracle.price < fee_params.min THEN fee_params.min
    ELSE IF oracle.price > fee_params.max THEN fee_params.max
    ELSE oracle.price

\* get_base_fee before the last division; the call fails when a product leaves u128.
BaseFeePercent == GasPriceWithLimits * fee_params.relay_gas_usage * (100 + fee_params.buffer)
BaseFee == BaseFeePercent \div 100

\* current_pocket_money_value: the price is neither checked for age nor clamped, and the
\* contract is built with overflow-checks = false, so the product wraps.
CurrentPocketMoneyValue ==
    IF oracle = NoAnswer THEN 0
    ELSE LET estimate == ((eth_transfer_gas_usage * oracle.price * 3) % U128) \div 4
         IN  Min({max_pocket_money, estimate, pocket_money_balance})

\* Mutant: the pocket money leaves the contract but not its account of pocket money.
Unbooked_SendPocketMoney ==
    LET value == CurrentPocketMoneyValue IN
    /\ azero' = IF azero >= value THEN azero - value ELSE azero
    /\ UNCHANGED <<pocket_money_balance, recovered>>

\* send_pocket_money: a transfer that fails is ignored.
SendPocketMoney ==
    LET value == CurrentPocketMoneyValue IN
    \/ /\ azero >= value
       /\ azero' = azero - value
       /\ pocket_money_balance' = pocket_money_balance - value
       /\ UNCHANGED recovered
    \/ /\ value > 0
       /\ UNCHANGED coin

-----------------------------------------------------------------------------
(* Sending *)

\* The part of _send_request after the tokens moved: fee, nonce and event.  The whole fee
\* goes to the committee in office, whoever relays the request.
ChargeAndEmit(destToken, amount, receiver) ==
    /\ request_nonce < MaxNonce
    /\ BaseFeePercent < U128
    /\ collected' = [collected EXCEPT ![committee_id] = @ + BaseFee]
    /\ azero' = azero + BaseFee
    /\ request_nonce' = request_nonce + 1
    /\ sent' = Append(sent, [committeeId |-> committee_id, destToken |-> destToken,
                             amount |-> amount, receiver |-> receiver,
                             nonce |-> request_nonce])
    /\ UNCHANGED <<is_halted, voting, members, pairs, minter, pricing, paid_out,
                   pocket_money_balance, recovered>>

\* What a Token lets this contract do.
EnsureMinter(t) == t \in minter
EnsureBurner(t) == t \in minter

\* A token that is not local is burned, a local one is locked.
BurnOrLock(t, amount) ==
    /\ outside[t] >= amount
    /\ outside' = [outside EXCEPT ![t] = @ - amount]
    /\ \/ /\ t \notin local_token /\ EnsureBurner(t)
          /\ UNCHANGED balance
       \/ /\ t \in local_token
          /\ balance' = [balance EXCEPT ![t] = @ + amount]

SendRequest(t, amount, receiver) ==
    /\ ~is_halted
    /\ wazero # Zero /\ t # wazero
    /\ supported_pairs[t] # Zero
    /\ amount # 0
    /\ BurnOrLock(t, amount)
    /\ ChargeAndEmit(supported_pairs[t], amount, receiver)

SendRequestNativeEther(amount, receiver) ==
    /\ ~is_halted
    /\ weth # Zero
    /\ amount # 0
    /\ BurnOrLock(weth, amount)
    /\ ChargeAndEmit(Zero, amount, receiver)

\* amount_to_bridge.saturating_mul(RATIO)
ToRemote(amount) == Min({amount * RATIO, U128 - 1})

\* The AZERO that comes with the call is deposited with the WAzero contract, which must
\* be registered as local: this contract has no right to burn it.
SendRequestNativeAzero(amount, receiver) ==
    /\ ~is_halted
    /\ wazero = WAzero
    /\ supported_pairs[WAzero] # Zero
    /\ amount # 0
    /\ WAzero \in local_token
    /\ balance' = [balance EXCEPT ![WAzero] = @ + amount]
    /\ UNCHANGED outside
    /\ ChargeAndEmit(supported_pairs[WAzero], ToRemote(amount), receiver)

-----------------------------------------------------------------------------
(* Receiving *)

IsInCommittee(c, g) == g \in committees[c]

HasSignedRequest(g, r) == g \in signatures[r]

\* Mutant: a processed request takes further votes.
Reopened_NeedsSignature(r, g) ==
    IsInCommittee(r.committeeId, g) /\ ~HasSignedRequest(g, r)

NeedsSignature(r, g) ==
    /\ IsInCommittee(r.committeeId, g)
    /\ r \notin processed_requests
    /\ ~HasSignedRequest(g, r)

\* Mutant: the amount of wrapped AZERO is paid in AZERO as it is.
Unscaled_FromRemote(amount) == amount
FromRemote(amount) == amount \div RATIO

\* Mutant: the contract unwraps what it does not hold.
Unguarded_UnwrapAzeroTo(r) ==
    /\ r.destToken = Zero
    /\ balance' = [balance EXCEPT ![WAzero] = @ - FromRemote(r.amount)]
    /\ UNCHANGED outside

\* The three payouts; each one that fails reverts the vote.  A receiver who cannot take the
\* AZERO that was unwrapped has the same effect: no vote decides the request, and nothing
\* else changes.
UnwrapAzeroTo(r) ==
    /\ r.destToken = Zero
    /\ wazero = WAzero
    /\ balance[WAzero] >= FromRemote(r.amount)
    /\ balance' = [balance EXCEPT ![WAzero] = @ - FromRemote(r.amount)]
    /\ UNCHANGED outside

Transfer(r) ==
    /\ r.destToken \in local_token
    /\ balance[r.destToken] >= r.amount
    /\ balance' = [balance EXCEPT ![r.destToken] = @ - r.amount]
    /\ outside' = [outside EXCEPT ![r.destToken] = @ + r.amount]

MintTo(r) ==
    /\ r.destToken # Zero /\ r.destToken \notin local_token
    /\ EnsureMinter(r.destToken)
    /\ outside' = [outside EXCEPT ![r.destToken] = @ + r.amount]
    /\ UNCHANGED balance

Execute(r) ==
    /\ UnwrapAzeroTo(r) \/ Transfer(r) \/ MintTo(r)
    /\ SendPocketMoney
    /\ processed_requests' = processed_requests \cup {r}
    /\ signature_count' = [signature_count EXCEPT ![r] = 0]
    /\ executed' = [executed EXCEPT ![r] = @ + 1]

\* Mutant: one vote more than the threshold is needed.
Late_ThresholdMet(r) == signature_count[r] >= signature_thresholds[r.committeeId]
ThresholdMet(r) == signature_count[r] + 1 >= signature_thresholds[r.committeeId]

ReceiveRequest(g, r) ==
    /\ ~is_halted
    /\ NeedsSignature(r, g)
    /\ signatures' = [signatures EXCEPT ![r] = @ \cup {g}]
    /\ \/ /\ ThresholdMet(r)
          /\ Execute(r)
       \/ /\ ~ThresholdMet(r)
          /\ signature_count' = [signature_count EXCEPT ![r] = @ + 1]
          /\ UNCHANGED <<processed_requests, executed, psp22, coin>>
    /\ UNCHANGED <<is_halted, members, pairs, minter, pricing, rewards, log>>

-----------------------------------------------------------------------------
(* Rewards and pocket money *)

MemberShare(c) == collected[c] \div Cardinality(committees[c])

\* get_outstanding_member_rewards, with its saturating subtraction
OutstandingMemberRewards(c, g) ==
    IF g \in committees[c] /\ MemberShare(c) > paid_out[c][g]
    THEN MemberShare(c) - paid_out[c][g] ELSE 0

\* Mutant: the book of payouts is keyed by the committee in office.
InOffice_PayoutRewards(c, g) ==
    /\ ~is_halted
    /\ OutstandingMemberRewards(c, g) > 0
    /\ azero >= OutstandingMemberRewards(c, g)
    /\ azero' = azero - OutstandingMemberRewards(c, g)
    /\ paid_out' = [paid_out EXCEPT ![committee_id][g] = @ + OutstandingMemberRewards(c, g)]
    /\ UNCHANGED <<is_halted, voting, members, pairs, minter, pricing, collected, psp22,
                   pocket_money_balance, recovered, log>>

\* payout_rewards; anybody may call it for a member
PayoutRewards(c, g) ==
    /\ ~is_halted
    /\ OutstandingMemberRewards(c, g) > 0
    /\ azero >= OutstandingMemberRewards(c, g)
    /\ azero' = azero - OutstandingMemberRewards(c, g)
    /\ paid_out' = [paid_out EXCEPT ![c][g] = @ + OutstandingMemberRewards(c, g)]
    /\ UNCHANGED <<is_halted, voting, members, pairs, minter, pricing, collected, psp22,
                   pocket_money_balance, recovered, log>>

FundPocketMoney(amount) ==
    /\ pocket_money_balance + amount <= MaxFunding
    /\ pocket_money_balance' = pocket_money_balance + amount
    /\ azero' = azero + amount
    /\ UNCHANGED <<is_halted, voting, members, pairs, minter, pricing, rewards, psp22,
                   recovered, log>>

-----------------------------------------------------------------------------
(* Governance: messages that ensure_owner lets through *)

SetHalted(new_state) ==
    /\ is_halted' = new_state
    /\ UNCHANGED <<voting, members, pairs, minter, pricing, rewards, psp22, coin, log>>

\* Mutant: a new committee takes over the id of the old one.
Reused_NewCommitteeId == committee_id
NewCommitteeId == committee_id + 1

\* set_committee: the entries of the new committee join those of the old ones.
SetCommittee(C, threshold) ==
    /\ is_halted
    /\ CheckCommittee(C, threshold)
    /\ committee_id < MaxCommitteeId
    /\ committee_id' = NewCommitteeId
    /\ committees' = [committees EXCEPT ![NewCommitteeId] = C]
    /\ signature_thresholds' = [signature_thresholds EXCEPT ![NewCommitteeId] = threshold]
    /\ UNCHANGED <<is_halted, voting, pairs, minter, pricing, rewards, psp22, coin, log>>

\* add_pair: the flag of a local token is set here and never cleared.
AddPair(from, to, is_local) ==
    /\ is_halted
    /\ is_local \/ EnsureMinter(from)
    /\ local_token' = IF is_local THEN local_token \cup {from} ELSE local_token
    /\ supported_pairs' = [supported_pairs EXCEPT ![from] = to]
    /\ UNCHANGED <<is_halted, voting, members, weth, wazero, minter, pricing, rewards, psp22,
                   coin, log>>

RemovePair(from) ==
    /\ is_halted
    /\ supported_pairs' = [supported_pairs EXCEPT ![from] = Zero]
    /\ UNCHANGED <<is_halted, voting, members, local_token, weth, wazero, minter, pricing, rewards,
                   psp22, coin, log>>

SetWeth(t) ==
    /\ is_halted
    /\ weth' = t
    /\ UNCHANGED <<is_halted, voting, members, supported_pairs, local_token, wazero, minter,
                   pricing, rewards, psp22, coin, log>>

SetWazero(t) ==
    /\ is_halted
    /\ wazero' = t
    /\ UNCHANGED <<is_halted, voting, members, supported_pairs, local_token, weth, minter, pricing,
                   rewards, psp22, coin, log>>

SetBaseFeeConstraints(params) ==
    /\ fee_params' = params
    /\ UNCHANGED <<is_halted, voting, members, pairs, minter, oracle, max_pocket_money,
                   eth_transfer_gas_usage, rewards, psp22, coin, log>>

SetMaxPocketMoney(limit) ==
    /\ max_pocket_money' = limit
    /\ UNCHANGED <<is_halted, voting, members, pairs, minter, fee_params, oracle,
                   eth_transfer_gas_usage, rewards, psp22, coin, log>>

SetEthTransferGasUsage(usage) ==
    /\ eth_transfer_gas_usage' = usage
    /\ UNCHANGED <<is_halted, voting, members, pairs, minter, fee_params, oracle, max_pocket_money,
                   rewards, psp22, coin, log>>

\* Another oracle, which may fail when it is called.
SetGasPriceOracle(answer) ==
    /\ oracle' = answer
    /\ UNCHANGED <<is_halted, voting, members, pairs, minter, fee_params, max_pocket_money,
                   eth_transfer_gas_usage, rewards, psp22, coin, log>>

\* update_price of the oracle, called by its owner
UpdatePrice(answer) ==
    /\ oracle # NoAnswer
    /\ ~answer.stale
    /\ oracle' = answer
    /\ UNCHANGED <<is_halted, voting, members, pairs, minter, fee_params, max_pocket_money,
                   eth_transfer_gas_usage, rewards, psp22, coin, log>>

\* gas_oracle_max_age passes without an update.
PriceAges ==
    /\ oracle # NoAnswer
    /\ ~oracle.stale
    /\ oracle' = [oracle EXCEPT !.stale = TRUE]
    /\ UNCHANGED <<is_halted, voting, members, pairs, minter, fee_params, max_pocket_money,
                   eth_transfer_gas_usage, rewards, psp22, coin, log>>

\* set_minter_burner of a Token, called by its owner: nothing here is told of it.
SetMinterBurner(t, is_most) ==
    /\ minter' = IF is_most THEN minter \cup {t} ELSE minter \ {t}
    /\ UNCHANGED <<is_halted, voting, members, pairs, pricing, rewards, psp22, coin, log>>

RecoverPsp22(t, amount) ==
    /\ balance[t] >= amount
    /\ balance' = [balance EXCEPT ![t] = @ - amount]
    /\ outside' = [outside EXCEPT ![t] = @ + amount]
    /\ UNCHANGED <<is_halted, voting, members, pairs, minter, pricing, rewards, coin, log>>

RecoverAzero(amount) ==
    /\ azero >= amount
    /\ azero' = azero - amount
    /\ recovered' = recovered + amount
    /\ UNCHANGED <<is_halted, voting, members, pairs, minter, pricing, rewards, psp22,
                   pocket_money_balance, log>>

-----------------------------------------------------------------------------

Send ==
    \E amount \in Amounts, receiver \in Receivers :
        \/ \E t \in Tokens : SendRequest(t, amount, receiver)
        \/ SendRequestNativeEther(amount, receiver)
        \/ SendRequestNativeAzero(amount, receiver)

Receive == \E g \in Guardians, r \in Incoming : ReceiveRequest(g, r)

Pay ==
    \/ \E c \in CommitteeIds, g \in Guardians : PayoutRewards(c, g)
    \/ \E amount \in Amounts : FundPocketMoney(amount)

Govern ==
    \/ \E new_state \in BOOLEAN : SetHalted(new_state)
    \/ \E C \in SUBSET Guardians, threshold \in Thresholds : SetCommittee(C, threshold)
    \/ \E t \in Tokens : SetWeth(t) \/ SetWazero(t) \/ RemovePair(t)
    \/ \E from \in Tokens, to \in RemoteTokens, is_local \in BOOLEAN : AddPair(from, to, is_local)
    \/ \E t \in Mintable, is_most \in BOOLEAN : SetMinterBurner(t, is_most)
    \/ \E amount \in Amounts : RecoverAzero(amount) \/ \E t \in Tokens : RecoverPsp22(t, amount)

Price ==
    \/ \E params \in FeeParams : SetBaseFeeConstraints(params)
    \/ \E limit \in PocketLimits : SetMaxPocketMoney(limit)
    \/ \E usage \in GasUsages : SetEthTransferGasUsage(usage)
    \/ \E answer \in OracleAnswers \cup {NoAnswer} : SetGasPriceOracle(answer)
    \/ \E answer \in OracleAnswers : UpdatePrice(answer)
    \/ PriceAges

Next == Send \/ Receive \/ Pay \/ Govern \/ Price

Spec == Init /\ [][Next]_vars

-----------------------------------------------------------------------------
(* Properties *)

MembersType ==
    /\ committee_id \in CommitteeIds
    /\ committees \in [CommitteeIds -> SUBSET Guardians]
    /\ signature_thresholds \in [CommitteeIds -> Nat]

ConfigType ==
    /\ is_halted \in BOOLEAN
    /\ supported_pairs \in [Tokens -> RemoteTokens \cup {Zero}]
    /\ local_token \subseteq Tokens
    /\ weth \in Tokens \cup {Zero}
    /\ wazero \in Tokens \cup {Zero}
    /\ minter \subseteq Mintable
    /\ fee_params \in FeeParams
    /\ oracle \in OracleAnswers \cup {NoAnswer}
    /\ max_pocket_money \in Nat
    /\ eth_transfer_gas_usage \in Nat

VotingType ==
    /\ signatures \in [Incoming -> SUBSET Guardians]
    /\ signature_count \in [Incoming -> Nat]
    /\ processed_requests \subseteq Incoming
    /\ executed \in [Incoming -> Nat]

MoneyType ==
    /\ balance \in [Tokens -> Nat]
    /\ outside \in [Tokens -> Nat]
    /\ azero \in Nat
    /\ pocket_money_balance \in Nat
    /\ recovered \in Nat
    /\ collected \in [CommitteeIds -> Nat]
    /\ paid_out \in [CommitteeIds -> [Guardians -> Nat]]

LogType ==
    /\ request_nonce \in Nat
    /\ sent \in Seq(Request)

\* Every storage item holds a value of its type: no balance is overdrawn.
TypeOK == MembersType /\ ConfigType /\ VotingType /\ MoneyType /\ LogType

\* receive_request executes a request exactly once, and only when it marks it processed,
\* although that mark is set after the payout and the pocket money (lines 557-583).
ExecutedExactlyOnce ==
    \A r \in Incoming : executed[r] = IF r \in processed_requests THEN 1 ELSE 0

\* A request whose whole committee has voted is processed: a payout that fails, for want of
\* funds or of the right to mint, which is checked when the pair is added and may be lost
\* since, takes the deciding vote with it, so that somebody can always vote again
\* (lines 557-579, 1062-1070).
AllSignedMeansProcessed ==
    \A r \in Incoming :
        r.committeeId <= committee_id /\ (\A g \in Guardians : ~NeedsSignature(r, g))
            => r \in processed_requests

\* What the members of each committee may still ask for.
OutstandingRewards ==
    [c \in CommitteeIds |->
        SumFunctionOnSet([g \in Guardians |-> OutstandingMemberRewards(c, g)], Guardians)]

\* Fees not paid out and pocket money are covered by the AZERO in the contract, as long as
\* the owner recovers none: any member can be paid at any time, whatever pocket money was
\* handed out and however the fee was rounded (lines 350-365, 596-624, 656-683, 862-883).
RewardsArePayable ==
    azero + recovered >= pocket_money_balance + SumFunctionOnSet(OutstandingRewards, CommitteeIds)

\* What the members of a committee were paid never exceeds what the committee collected,
\* and no member got more than an equal share (lines 656-683, 862-883).
SharesAreFair ==
    \A c \in CommitteeIds, g \in Guardians :
        paid_out[c][g] > 0 => g \in committees[c] /\ paid_out[c][g] <= MemberShare(c)

\* The contract implements the abstract voting scheme of both bridge contracts
\* (lines 503-590, 1150-1183).
Voting == INSTANCE CommitteeVoting WITH
    Requests <- Incoming, current <- committee_id, members <- committees,
    threshold <- signature_thresholds, votes <- signatures, executed <- processed_requests

ImplementsVoting == Voting!Spec

=============================================================================
