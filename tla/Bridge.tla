------------------------------- MODULE Bridge -------------------------------
(***************************************************************************)
(* The two bridge contracts and the guardians between them, in normal      *)
(* operation: both are configured and running, governance is quiet, and    *)
(* one committee is in office on both chains.  ether and WETH are backed   *)
(* on Ethereum and minted as WethAz on Aleph Zero; AZERO is backed on      *)
(* Aleph Zero and minted as WazEth on Ethereum, RATIO units for one.       *)
(*                                                                         *)
(* An honest guardian votes only for what the other chain logged, which is *)
(* what its relayer does; a faulty one votes for whatever it likes.        *)
(* Whatever governance sets is a constant here, whatever the contracts     *)
(* change is a variable: e_x is EthMost's x, a_x is AzeroMost's x.         *)
(***************************************************************************)
EXTENDS Naturals, Sequences, FiniteSets, FiniteSetsExt

CONSTANTS
    Guardians, Faulty, Threshold,
    Weth, WazEth,        \* on Ethereum: WETH9 (local), the WrappedToken for AZERO
    WethAz, Wazero,      \* on Aleph Zero: the Token for WETH, wrapped AZERO (local)
    Zero, NoAnswer, Receivers, Amounts, RATIO, U128,
    WethFunds,           \* WETH in users' hands at the start
    Forged,              \* requests a faulty guardian may vote for out of thin air
    MaxNonce             \* bound on requests sent on each chain

ASSUME BridgeAssumption ==
    /\ IsFiniteSet(Guardians)
    /\ Faulty \subseteq Guardians
    /\ Threshold \in 1 .. Cardinality(Guardians)
    /\ Cardinality(Faulty) < Threshold
    /\ Threshold <= Cardinality(Guardians \ Faulty)
    /\ Weth # WazEth /\ WethAz # Wazero
    /\ Zero \notin {Weth, WazEth, WethAz, Wazero}
    /\ Amounts \subseteq Nat
    /\ RATIO \in Nat \ {0} /\ U128 \in Nat
    /\ \A amount \in Amounts : amount * RATIO < U128   \* no supply of AZERO comes near it
    /\ WethFunds \in Nat
    /\ MaxNonce \in Nat

VARIABLES
    e_requestNonce, e_signatures, e_signatureCount, e_processedRequests, e_balance, e_ether,
    e_outside, e_frames, e_sent, e_payouts, e_failed,
    a_request_nonce, a_signatures, a_signature_count, a_processed_requests, a_balance,
    a_outside, a_sent, a_executed

ethVars == <<e_requestNonce, e_signatures, e_signatureCount, e_processedRequests, e_balance,
             e_ether, e_outside, e_frames, e_sent, e_payouts, e_failed>>
azeroVars == <<a_request_nonce, a_signatures, a_signature_count, a_processed_requests,
               a_balance, a_outside, a_sent, a_executed>>
vars == <<ethVars, azeroVars>>

\* The requests each chain can log for the other.
RequestsFor(destTokens, amounts) ==
    [committeeId : {0}, destToken : destTokens, amount : amounts, receiver : Receivers,
     nonce : 0 .. MaxNonce - 1]
ToEth == RequestsFor({Weth, Zero}, Amounts)
         \cup RequestsFor({WazEth}, {amount * RATIO : amount \in Amounts})
ToAzero == RequestsFor({WethAz, Zero}, Amounts)

\* A mapping with two keys.
Both(a, x, b, y) == [t \in {a, b} |-> IF t = a THEN x ELSE y]

\* What governance has set on each chain.
EthConfig ==
    [paused |-> FALSE, committeeId |-> 0, committee |-> [c \in {0} |-> Guardians],
     signatureThreshold |-> [c \in {0} |-> Threshold],
     supportedPairs |-> Both(Weth, WethAz, WazEth, Zero),
     isLocalToken |-> Both(Weth, TRUE, WazEth, FALSE), wrappedAzeroAddress |-> WazEth,
     transferLimit |-> Both(Weth, 0, WazEth, 0), recovered |-> 0]
AzeroConfig ==
    [is_halted |-> FALSE, committee_id |-> 0, committees |-> [c \in {0} |-> Guardians],
     signature_thresholds |-> [c \in {0} |-> Threshold],
     supported_pairs |-> Both(WethAz, Weth, Wazero, WazEth), local_token |-> {Wazero},
     weth |-> WethAz, wazero |-> Wazero, minter |-> {WethAz},
     fee_params |-> [relay_gas_usage |-> 0, min |-> 0, max |-> 0, default |-> 0, buffer |-> 0],
     oracle |-> NoAnswer, max_pocket_money |-> 0, eth_transfer_gas_usage |-> 0,
     pocket_money_balance |-> 0, collected |-> [c \in {0} |-> 0],
     paid_out |-> [c \in {0} |-> [g \in Guardians |-> 0]], azero |-> 0, recovered |-> 0]

Eth == INSTANCE EthMost WITH
    Tokens <- {Weth, WazEth}, Mintable <- {WazEth}, RemoteTokens <- {WethAz, Wazero},
    Incoming <- ToEth, Limits <- {}, Funds <- Both(Weth, WethFunds, WazEth, 0),
    MaxCommitteeId <- 0, MaxDepth <- 1,
    paused <- EthConfig.paused, committeeId <- EthConfig.committeeId,
    committee <- EthConfig.committee, signatureThreshold <- EthConfig.signatureThreshold,
    supportedPairs <- EthConfig.supportedPairs, isLocalToken <- EthConfig.isLocalToken,
    wrappedAzeroAddress <- EthConfig.wrappedAzeroAddress,
    transferLimit <- EthConfig.transferLimit, recovered <- EthConfig.recovered,
    requestNonce <- e_requestNonce, signatures <- e_signatures,
    signatureCount <- e_signatureCount, processedRequests <- e_processedRequests,
    balance <- e_balance, ether <- e_ether, outside <- e_outside, frames <- e_frames,
    sent <- e_sent, payouts <- e_payouts, failed <- e_failed

Azero == INSTANCE AzeroMost WITH
    Tokens <- {WethAz, Wazero}, WAzero <- Wazero, Mintable <- {WethAz},
    RemoteTokens <- {Weth, WazEth}, Incoming <- ToAzero, Funds <- Both(WethAz, 0, Wazero, 0),
    FeeParams <- {}, OracleAnswers <- {}, PocketLimits <- {0}, GasUsages <- {0},
    MaxCommitteeId <- 0, MaxFunding <- 0,
    is_halted <- AzeroConfig.is_halted, committee_id <- AzeroConfig.committee_id,
    committees <- AzeroConfig.committees,
    signature_thresholds <- AzeroConfig.signature_thresholds,
    supported_pairs <- AzeroConfig.supported_pairs, local_token <- AzeroConfig.local_token,
    weth <- AzeroConfig.weth, wazero <- AzeroConfig.wazero, minter <- AzeroConfig.minter,
    fee_params <- AzeroConfig.fee_params, oracle <- AzeroConfig.oracle,
    max_pocket_money <- AzeroConfig.max_pocket_money,
    eth_transfer_gas_usage <- AzeroConfig.eth_transfer_gas_usage,
    pocket_money_balance <- AzeroConfig.pocket_money_balance,
    collected <- AzeroConfig.collected, paid_out <- AzeroConfig.paid_out,
    azero <- AzeroConfig.azero, recovered <- AzeroConfig.recovered,
    request_nonce <- a_request_nonce, signatures <- a_signatures,
    signature_count <- a_signature_count, processed_requests <- a_processed_requests,
    balance <- a_balance, outside <- a_outside, sent <- a_sent, executed <- a_executed

Init ==
    /\ e_requestNonce = 0 /\ a_request_nonce = 0
    /\ e_signatures = [r \in ToEth |-> {}] /\ a_signatures = [r \in ToAzero |-> {}]
    /\ e_signatureCount = [r \in ToEth |-> 0] /\ a_signature_count = [r \in ToAzero |-> 0]
    /\ e_processedRequests = {} /\ a_processed_requests = {}
    /\ e_balance = Both(Weth, 0, WazEth, 0) /\ a_balance = Both(WethAz, 0, Wazero, 0)
    /\ e_outside = Both(Weth, WethFunds, WazEth, 0) /\ a_outside = Both(WethAz, 0, Wazero, 0)
    /\ e_ether = 0 /\ e_failed = {} /\ e_frames = <<>>
    /\ e_sent = <<>> /\ a_sent = <<>>
    /\ e_payouts = [r \in ToEth |-> 0] /\ a_executed = [r \in ToAzero |-> 0]

Logged(log) == {log[i] : i \in 1 .. Len(log)}

EthUser == Eth!Send /\ UNCHANGED azeroVars
AzeroUser == Azero!Send /\ UNCHANGED ethVars

\* A guardian submits receiveRequest on Ethereum for an event of the Aleph Zero contract.
RelayToEth(g, r) ==
    /\ r \in Logged(a_sent)
    /\ Eth!ReceiveRequest(g, r)
    /\ UNCHANGED azeroVars

RelayToAzero(g, r) ==
    /\ r \in Logged(e_sent)
    /\ Azero!ReceiveRequest(g, r)
    /\ UNCHANGED ethVars

Forge(g, r) ==
    \/ r \in ToEth /\ Eth!ReceiveRequest(g, r) /\ UNCHANGED azeroVars
    \/ r \in ToAzero /\ Azero!ReceiveRequest(g, r) /\ UNCHANGED ethVars

Next ==
    \/ EthUser
    \/ AzeroUser
    \/ \E g \in Guardians : \/ \E r \in ToEth : RelayToEth(g, r)
                            \/ \E r \in ToAzero : RelayToAzero(g, r)
    \/ \E g \in Faulty, r \in Forged : Forge(g, r)

\* A call that has begun ends, and an honest guardian whose relayer has an event the
\* contract wants a vote for submits one such vote, in each direction.
Fairness ==
    /\ WF_vars(Eth!SendRequestReturns /\ UNCHANGED azeroVars)
    /\ \A g \in Guardians \ Faulty :
          /\ WF_vars(\E r \in ToEth : RelayToEth(g, r))
          /\ WF_vars(\E r \in ToAzero : RelayToAzero(g, r))

Spec == Init /\ [][Next]_vars /\ Fairness

-----------------------------------------------------------------------------
(* Properties *)

\* As long as less than a quorum is faulty, a request is processed on one chain only if
\* the contract on the other chain logged it.
NoForgedPayout ==
    /\ e_processedRequests \subseteq Logged(a_sent)
    /\ a_processed_requests \subseteq Logged(e_sent)

Amount == [r \in ToEth \cup ToAzero |-> r.amount]
CutOff == [r \in ToAzero |-> r.amount % RATIO]
Sum(S) == SumFunctionOnSet(Amount, S)
OnTheWay(log, processed, destTokens) ==
    Sum({r \in Logged(log) \ processed : r.destToken \in destTokens})
Suspended == IF e_frames = <<>> THEN 0 ELSE e_frames[1].amount

\* The WETH in the Ethereum contract equals the wrapped WETH on Aleph Zero plus what is on
\* its way in either direction plus payouts whose token transfer failed.
EtherIsBacked ==
    e_balance[Weth] =
        a_outside[WethAz] + Suspended
        + OnTheWay(e_sent, a_processed_requests, {WethAz})
        + OnTheWay(a_sent, e_processedRequests, {Weth, Zero})
        + Sum({r \in e_failed : r.destToken = Weth})

\* The AZERO in the Aleph Zero contract equals, in units of the wrapped token, the wrapped
\* AZERO on Ethereum plus what is on its way plus what the division by RATIO cut off.
AzeroIsBacked ==
    RATIO * a_balance[Wazero] =
        e_outside[WazEth]
        + OnTheWay(a_sent, e_processedRequests, {WazEth})
        + OnTheWay(e_sent, a_processed_requests, {Zero})
        + SumFunctionOnSet(CutOff, {r \in a_processed_requests : r.destToken = Zero})

\* Again and again all requests logged on one chain have been paid out on the other: with
\* honest relayers in a quorum, neither faulty votes nor a lack of locked funds stops one.
EveryRequestArrives ==
    []<>(/\ Logged(a_sent) \subseteq e_processedRequests
         /\ Logged(e_sent) \subseteq a_processed_requests)

=============================================================================
