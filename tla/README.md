# TLA+ models of the membrane bridge

The membrane bridge (MOST) moves tokens between Ethereum and Aleph Zero. This directory
holds TLA+ models of its contracts and of its relayer, the TLC instances that check them,
and TLAPS proofs about the two contracts, the bridge they form, the bridge to an L2 and its
pool, both pipelines of the relayer and its transactions on Ethereum. `PROJECT.json` maps
every definition to the lines it models, and lists the hazards the properties are aimed at.

## 1. Inventory

| component | state | operations | hard about it |
|---|---|---|---|
| `Most` on Ethereum (`AbstractMost.sol`, `Most.sol`) | committees, thresholds, pending and processed requests, supported pairs, local tokens, pause flag, token and ether balances | `sendRequest*`, `receiveRequest`, owner calls | reentrancy from tokens, a committee that changes while requests are pending, payouts that fail |
| `most` on Aleph Zero (`most/lib.rs`) | the same, plus fees, rewards, pocket money and prices | `send_request*`, `receive_request`, `payout_rewards`, `fund_pocket_money`, owner messages | one AZERO balance for fees and pocket money, rounding, two units of AZERO |
| relayer, Aleph Zero to Ethereum | blocks in progress, acknowledgements, the cached block | listener, events handler with a task per event, `RedisManager` | batches that overtake each other, reorganisations, failures of single events, restarts |
| relayer, Ethereum to Aleph Zero | the same, one batch at a time | listener, events handler, `RedisManager` | channels of capacity one, errors that `select!` swallows |
| relayer, circuit breaker and main loop | tasks, one broadcast channel | trip, observe, reboot, `process::exit(1)` | tasks that leave one after the other, lost messages |
| halted, paused and advisory listeners | none | poll a contract, trip the circuit breaker | several noticing the same outage |
| bridge to an L2 (`MostL2.sol`, `most-l2/lib.rs`) | as above, plus the flat fee and the bAZERO contract; no pocket money or rewards | `sendRequestNative`, `sendTokenRequest`, `send_request*`, `receiveRequest`, owner calls | the surplus is returned in the middle of a call, swaps that fail after the mint, refused coins |
| `StableSwapTwoPool` | recorded balances and coins held, pool tokens, fees, amplification coefficient | exchanges, deposits, withdrawals, owner calls | integer rounding in Newton's method and in every fee |
| signer and its client (`signer`, `signer_client`) | a stream of commands and one of responses | sign a transaction | callers that are cancelled between a command and its response |
| signed connections (`connections/*.rs`, `contracts_azero_client`) | the next nonce, the mempool or pool, the transactions under way | number, sign, send, watch | nonces lost with a failed task, transactions that outlive the run that sent them |
| token contracts, gas price oracle, advisory contract | balances, minter, price | `mint`, `burn`, `set_minter_burner`, `update_price` | rights and prices that change between check and use |
| `TransferLimit`, `Ownable2Step`, scripts, tests | limits, owners | | see *Not modelled* |

How they interact. A user calls `sendRequest*` on one chain; the contract locks or burns
the tokens and logs a `CrosschainTransferRequest` with a nonce and the id of the committee
in office. The relayer of every guardian reads the log of finalized blocks and votes for
the request with `receiveRequest` on the other chain. The vote that reaches the threshold
of the committee named in the request unlocks or mints the tokens. A relayer goes on until
`needsSignature` is false in a *finalized* block, and only then moves the block number in
redis, where it resumes after a restart.

What makes each part correct:

- contracts: a request is executed exactly once, by a quorum of the committee it names;
  no request ends in a state in which nobody may vote and nothing was paid; two requests
  never have the same hash; nothing is overdrawn, and what could not be paid stays
  accounted for; rewards can always be paid and are shared evenly;
- the bridge: no payout without a request on the other chain; every wrapped token is
  backed; every request arrives;
- relayer: the cached block number never passes an event that still needs a vote; every
  event is handled eventually; a tripped circuit breaker leads to a reboot; a signature is
  used for the transaction it was made for, no nonce is lost without notice, and every vote
  gets into a block.

## 2. Modules

| module | models | composed from |
|---|---|---|
| `CommitteeVoting` | what both contracts promise about votes (abstract specification) | |
| `EthMost` | `AbstractMost.sol`, `Most.sol` | refines `CommitteeVoting` |
| `AzeroMost` | `most/lib.rs` | refines `CommitteeVoting` |
| `Bridge` | both contracts with honest and faulty guardians | instances of `EthMost` and `AzeroMost` |
| `L2Bridge` | `MostL2.sol`, `most-l2/lib.rs`, guardians | |
| `StableSwapTwoPool` | `StableSwapTwoPool.sol` | |
| `Signer` | `signer/src/main.rs`, `signer_client/src/lib.rs` | |
| `EthSubmission` | the transactions of `handlers/azero.rs`, `connections/eth.rs` | `Signer` |
| `Supervisor` | `main.rs`, circuit breaker, watching listeners | |
| `AzeroToEthRelayer` | `listeners/azero.rs`, `handlers/azero.rs`, half of `redis/mod.rs` | `Supervisor` |
| `EthToAzeroRelayer` | `listeners/eth.rs`, `handlers/eth.rs`, half of `redis/mod.rs`, the transactions of `contracts_azero_client/src/client.rs` | `Supervisor` |
| `Sums` | lemmas about sums over finite sets, for the proofs | |
| `EthMost_proofs`, `AzeroMost_proofs`, `Bridge_proofs`, `L2Bridge_proofs`, `AzeroToEthRelayer_proofs`, `EthToAzeroRelayer_proofs`, `EthSubmission_proofs` | the theorems about each module; those about the pool are in `L2Bridge_proofs` | the module, `Sums`, TLAPS |
| `MC*` | the instances for TLC | |

**Contracts.** Variables keep the names of the storage items, actions those of the
functions. A request hash is the record of the hashed fields, so a mapping keyed by hash is
a function on requests. A call that reverts is no step. Everything a call does is one step,
with one exception: `sendRequest` on Ethereum hands control to the token in
`safeTransferFrom`, so it is two steps with a stack of suspended calls (`frames`) between
them, and other sends may run inside. Pallet-contracts refuses reentrant calls, so messages
on Aleph Zero are single steps. Transfers that the code allows to fail may fail at any
time; those that revert are guards. The balances `balance` and `outside` of each token
stand for the ERC20 and PSP22 contracts; `minter` holds the tokens that let the Aleph Zero
contract mint and burn, which their owner may change at any time, as the owner of the
oracle may the price. `payouts`, `executed`, `sent`, `failed` and
`recovered` record events and are read by properties only.

**Bridge.** Both contracts in normal operation, with everything governance sets held
constant. A guardian votes only for what the other contract has logged; a faulty one votes
for the requests in `Forged`. The assumption is that fewer guardians than the threshold are
faulty and that the honest ones reach it.

**L2 bridge.** One module for both contracts, since they vote alike and were written as a
pair: what they share has the chain as a parameter. Aleph Zero locks, the L2 mints and
burns, and the L2's native coin is AZERO itself, which a stable swap pool exchanges for
bAZERO on the way in and out. bAZERO is a token of the bridge as well: the deployment pairs
it with wrapped AZERO (`scripts/L2/1_setup_bridge_contracts.js`), and `sendTokenRequest` is
how the bAZERO that a failed swap left with its receiver goes back. The pair is in `Init`;
every bAZERO contract governance may choose has wrapped AZERO as its `Partner`. The setup
gives the Aleph Zero contract wrapped AZERO for the bAZERO it mints for the pool
(`Deposit`, `2_l2_setup.ts`); the model does not assume that the two amounts agree. The
pool is any exchange within its liquidity and the minimum asked for, or a failure, and only
the bridge trades with it: what others exchange moves bAZERO and coins between them and the
pool and touches neither contract nor the supply. The L2's send functions return the
surplus with all gas before they do anything else, so each is two steps, and what its
receiver may do in between is to send again.

**Pool.** All arithmetic is that of the contract, in its order and with its divisions, on
small numbers; what underflows or divides by zero reverts. The constant `PRECISION` cancels
out exactly. `held` is what the pool owns and `balances` what it accounts for; the
difference belongs to the owner. Newton's method is a recursive function of the steps that
are left, cut off after 255 as in the code; `Root` is the definition it is compared with.
`L2Bridge` sees the pool as an exchange with any result within the limits. The names of
this module differ from those of `L2Bridge` (`PoolSpec`, `token_supply`), so that
`L2Bridge_proofs` can extend both and show that the pool is what `L2Bridge` takes it for.

**Relayer.** A task is a program counter (`lst`) or a work list, with one action per stretch
of code between two awaits. A `select!` is the disjunction of its ready branches; what is
*not* in a `select!` (the wait for a finalized block on Aleph Zero, the send of a seal, the
send of events to the Ethereum handler) does not see the circuit breaker in the model
either. Channels keep their capacities. A broadcast channel of capacity one loses a message
when a second one is sent: for the circuit breaker that is an error that ends the process,
for the manager's block numbers it disables a branch of its `select!`. Returning drops the
senders and receivers a task owns, with the effects the code sees: a lost acknowledgement
or a closed channel. On the chain, `votes[e]` says whether what makes a vote of this
guardian superfluous has not happened, is in the latest block, or in a finalized one; the
vote of this guardian and the processing by others look the same. The two pipelines share
only the circuit breaker, so each is checked with the tasks of the other as `Watchers`.

*A change of the committee.* The source chain may log requests of a new committee
(`NewCommittee`) before the other contract knows it. `not_in_committee` asks the latest
block and takes an unknown committee for a misconfiguration, which ends the run
(`EventMismatch`); `needsSignature` asks a finalized block, where it is false for an
unknown committee. Between the two, when the committee is in the latest block only, an
event is taken for settled: the history variable `overlooked` keeps these events apart, and
the properties say that these are the only ones.

*Transactions on Aleph Zero* (`EthToAzeroRelayer`). The handler waits for each transaction
to be final, so that a run has at most one under way; a second one may be left by an
earlier run, in the pool or in a block. A client reads its nonce once, from a finalized
block. `nonce` is the difference between the two: a transaction whose nonce is in use is
refused and ends the run (`Refused`), one that is behind an unused nonce waits. Reads that
do not ask for a finalized block go to `at_latest`, and whether that is the best or the
last finalized block is up to the client library: the model allows both.

*Transactions on Ethereum* (`EthSubmission`). One task per request, all with one nonce
manager and one connection to the signer behind a mutex. The module looks at one run after
the other through the eyes of the account: what is mined, what is in the mempool, which
task holds which nonce. A task may be cancelled wherever it waits, also between the command
to the signer and the response, which then waits for the next task that takes the lock. A
vote may revert in its block (`MineReverted`): its nonce is used up, its task fails and ends
the run, and the next one votes again.
Finality and the cache are left to `AzeroToEthRelayer`, in which a vote is one step.

*Signer.* Two streams and a server that answers one command after the other. serde drops
the chain id of a transaction on the way out and on the way back, and the client puts it
back before it compares: `Serialize` and `IsResponseTo` do the same.

## 3. Runs

| run | question | result |
|---|---|---|
| `eth_most` | votes, payouts, committee changes, every governance call and reentrant sends two deep, in any order, two guardians, two committees of every size and threshold, one token of each kind | `TypeOK`, `QuorumBehindProcessed`, `AllSignedMeansProcessed`, `PaidExactlyOnce`, `RequestsAreUnique`, `RefusedEtherIsKept`, `CommitteesAreImmutable`, `SettledStaysSettled`, and `CommitteeVoting` is implemented |
| `eth_submission` | two votes under way, any three of an RPC error, a lost answer to a send, a vote that reverts, an evicted transaction, a dead signer, a tripped circuit breaker and a crash | `SignedAsAsked`, `NoSilentGap`, `EveryVoteLands` |
| `azero_voting` | the voting questions on Aleph Zero | `TypeOK`, `ExecutedExactlyOnce`, `AllSignedMeansProcessed`, `CommitteeVoting` is implemented |
| `azero_rewards` | fees that do not divide by the committee's size, pocket money, oracle prices fresh, stale and missing, a new committee with old members | `RewardsArePayable`, `SharesAreFair` |
| `bridge` | both chains, one faulty guardian of three, an amount RATIO does not divide, fair honest guardians | `NoForgedPayout`, `EtherIsBacked`, `AzeroIsBacked`, `EveryRequestArrives` |
| `l2_bridge` | both contracts of the L2 bridge, one faulty guardian of three, swaps with any outcome, bAZERO sent back as a token, reentrant sends, one act of governance | `TypeOK`, `NoForgedPayout`, `AllSignedMeansProcessed`, `AzeroIsBacked`, `LocalsAreBacked`, `CoinsAreAccounted` |
| `stable_swap` | the pool under all calls, with fees of none and a half, and a coefficient that ramps | `Solvent`, `DIsAccurate`, `SharesKeepTheirValue`, `FeesAreAnnounced` |
| `azero_relayer_faults` | any two faults of six kinds while two batches are under way and the committee changes: is an event in work ever sealed, and does shutdown or restart leave tasks waiting for each other | `TypeOK`, `SealedSettledUnlessFailed`, `EveryEventSettles`, `BreakerReboots` |
| `azero_relayer_sealing` | is a block sealed only when all its events are settled | **violated**, finding 1 |
| `azero_relayer_breaker` | does a tripped circuit breaker always lead to a reboot | **violated**, finding 2 |
| `eth_relayer_faults` | any two faults of seven kinds in the other pipeline, failed queries and dropped transactions among them, while the committee changes: is a block cached too early, and do listener and cache go on | `TypeOK`, `SealedSettledUnlessOverlooked`, `SettlesUnlessStalled`, `CachedUnlessStalled` |
| `eth_relayer_query` | does a failed query for events stop the listener | **violated**, finding 3 |

### Findings

1. *A failed event is sealed* (`handlers/azero.rs:297-302`). When `handle_event` fails, the
   batch's task trips the circuit breaker but goes on, and acknowledges the batch. If the
   listener's `select!` picks the acknowledgement before the circuit breaker, and the
   manager the seal, redis moves past the batch and the next run starts behind the event.
   The guardian never signs it. `docs/relayer_hldd.md:54` promises a restart "from the last
   successfully processed block". The other pipeline returns without acknowledging, and
   there the property holds.
2. *The circuit breaker can end the process* (`listeners/azero.rs:164`). The handler sees the
   message first and drops its acknowledgement senders; the listener finds the closed
   oneshot before the message and returns an error, upon which `main` exits. Two messages
   in the channel of capacity one, or a seal sent after the manager has left, do the same.
   `docs/relayer_hldd.md:54` describes a reboot loop. Nothing is lost if the process is
   restarted (`azero_relayer_faults` assumes that it is).
3. *A failed query stops the Ethereum listener* (`listeners/eth.rs:120`). The pattern
   `Ok(events)` disables the branch on an error, and the `select!` waits for the circuit
   breaker, which the listener itself never trips. Only another task's trouble frees it.

Met on the way, without a run of its own: errors of the Aleph Zero client never reach the
arm of `listeners/azero.rs:115` that opens the circuit breaker, since the client's methods
return another error type; they end the process. The model has it as `ClientError`. The
minimum of a swap (`MostL2.sol:74-76`) divides by 100 before it multiplies, so that an
amount below 100 has no minimum at all, where the comment speaks of at least 99%: dust, as
`MinimumIsClose` shows. A
relayer may overlook a request of a committee that is in the latest block of the other
chain and in no finalized one (see above); the other guardians' votes, or a restart from an
earlier block, make up for it. And `EveryVoteLands` has an exception: when a crash leaves a
transaction in the mempool behind a nonce that was lost, the next run gives out that nonce
first and the occupied one next, and if the task with the occupied one always gets to the
node first, its refusal ends run after run. Nothing in the code orders the two.

### Bounds

Every bound is a constant. `azero_voting` has two committees and three guardians, which
give disjoint, overlapping and identical committees, and thresholds below, at and above a
majority. `eth_most` makes do with two guardians, so that votes, money and reentrancy fit
into one instance; the proofs cover every number of guardians, committees and requests.
Its request is one for ether, the only payout that may be refused and leave something
behind; tokens are paid out in `bridge`. Requests do not interact except through balances,
which `bridge` covers with several. Its transfer limit is zero: a limit only removes
sends. `MaxDepth = 2` is the first depth at
which calls interleave; the proofs cover every depth. `azero_rewards` uses fees of 1 and 3
for committees of one and two members, so that shares leave a remainder. `RATIO = 2` with
the amount 3 leaves a remainder too: `bridge` locks 3, pays out 1 for 3 on the way back and
keeps what the division cuts off. `l2_bridge` has one token of Aleph Zero besides wrapped
AZERO, and two contracts that may be bAZERO, of which the pool trades one. It has
one request from Aleph Zero and two from the L2 (the least that can be nested), one act of
governance besides halting and resuming, a pool that one swap may exhaust, and percentages
in a scale of two (`Percent = 2`, `MIN_SWAP_RATE = 1` for 100 and 99). Its honest
guardians sit in the same committees, so that they are symmetric. `stable_swap` keeps the
coins of each kind at six or below, where one unit is a large share of everything and each
rounding decides; two acts of the owner are a change of the fees, or a ramp and a second
act during it. `Rounding = 1` says that a call may cost the providers one unit of D. It is
the bound at these amounts; at others it need not be the same. Two batches with one event each are the least that can
overtake each other, and two faults the least with which a channel of capacity one loses a
message or a crash hits a restart. In `eth_submission` two requests are the least that
compete for a nonce and for the signer; with three faults a run may be hit twice while it
recovers from the one before. One event of the new committee, in the later batch, is
the one that may be overlooked. `MaxBlock` ends the chain; blocks after it would be
empty. `CHECK_DEADLOCK FALSE` is set where the users of the bridge or the chain may stop:
the bridges, the relayer and its transactions.

### Fairness

`Bridge`: a call that has begun ends, and an honest guardian submits a vote the contract
wants, in each direction, which is what its relayer does as long as it runs. Faulty guardians, users and
governance owe nothing. Relayer: weak fairness for each step of a task (tokio polls what is
ready, and `select!` picks at random), for blocks and finality, and for the start of the
next run, by `main` or by the `restart: on-failure` of the compose files. Faults need not
happen; their number is bounded, which says that they stop. Nobody has to install the new
committee on the other chain: the liveness properties of the pipelines assume that it
happens, since the relayer reboots until it does. `EthSubmission`: the same for the tasks
and the run, the signer answers, and a block takes the transaction whose turn it is; the
votes of other guardians owe nothing.

## 4. Proofs

Each proof module EXTENDS the module it is about and uses only the assumptions named there.
The theorems hold for every set of guardians, tokens, requests and events and every bound
on counters and faults, where the runs have a few of each. Every preservation proof has one
step, or one lemma, per action.

| module | theorem | statement: `Spec => []...` |
|---|---|---|
| `EthMost_proofs` | `TypeCorrect` | `TypeOK` |
| | `QuorumTheorem` | `QuorumBehindProcessed` |
| | `AllSignedTheorem` | `AllSignedMeansProcessed` |
| | `PaidOnceTheorem` | `PaidExactlyOnce` |
| | `UniqueTheorem` | `RequestsAreUnique` |
| | `RefusedTheorem` | `RefusedEtherIsKept` |
| | `ImmutableTheorem`, `SettledTheorem` | the action properties `CommitteesAreImmutable`, `SettledStaysSettled` |
| | `RefinementTheorem` | `Spec => ImplementsVoting` |
| `AzeroMost_proofs` | `TypeCorrect` | `TypeOK` |
| | `VotingInvariant` | `VotingInv` |
| | `ExecutedOnceTheorem` | `ExecutedExactlyOnce` |
| | `AllSignedTheorem` | `AllSignedMeansProcessed` |
| | `RewardInvariant` | `RewardInv` |
| | `SharesTheorem` | `SharesAreFair` |
| | `PayableTheorem` | `RewardsArePayable` |
| | `RefinementTheorem` | `Spec => ImplementsVoting` |
| `Bridge_proofs` | `BridgeInvariant`, `NoForgedTheorem` | `BridgeInv`, `NoForgedPayout` |
| | `BackingInvariant`, `EtherBackedTheorem`, `AzeroBackedTheorem` | `BackingInv`, `EtherIsBacked`, `AzeroIsBacked` |
| `L2Bridge_proofs` | `StateInvariant`, `TypeCorrect` | `StateInv`, `TypeOK` |
| | `CoinsTheorem` | `CoinsAreAccounted` |
| | `NoForgedTheorem` | `NoForgedPayout` |
| | `AllSignedTheorem` | `AllSignedMeansProcessed` |
| | `SettledTheorem` | the action property `SettledStaysSettled` |
| | `BackingInvariant`, `AzeroBackedTheorem`, `LocalsBackedTheorem` | `SheetsInv`, `AzeroIsBacked`, `LocalsAreBacked` |
| | `PoolInvariant`, `SolventTheorem` | of the pool (`PoolSpec`): `PoolInv`, `Solvent` |
| | `FeesAnnouncedTheorem` | of the pool: the action property `FeesAreAnnounced` |
| | `PoolAnswersTheorem` | of the pool: its exchanges are those `L2Bridge` assumes |
| | `MinimumIsClose` | what rounding takes from the minimum of a swap |
| `AzeroToEthRelayer_proofs` | `TypeInvariant`, `TypeCorrect` | `TypeOK` with `SendingInv` |
| | `SealingInvariant`, `SealedTheorem` | `SealingInv`, `SealedSettledUnlessFailed` |
| | `OrderInvariant`, `CacheAdvancesTheorem` | `OrderInv`, the action property `CacheOnlyAdvances` |
| `EthToAzeroRelayer_proofs` | `TypeCorrect` | `TypeOK` |
| | `CacheInvariant`, `SealedTheorem` | `CacheInv`, `SealedSettledUnlessOverlooked` |
| | `OrderInvariant`, `CacheAdvancesTheorem` | `OrderInv`, the action property `CacheOnlyAdvances` |
| `EthSubmission_proofs` | `TypesInvariant` | `Types`, the shape of the streams and of the tasks |
| | `SignedTheorem` | `SignedAsAsked` |
| | `GapTheorem` | `NoSilentGap` |

**`EthMost`** (from `EthMostAssumption`). `TypeOK` is not inductive: the burn that ends a
suspended `sendRequest` could overdraw the balance. `FramesCovered` repairs that: what a
suspended call will burn is in the contract, and only the innermost call may have something
to burn, since a WrappedToken calls nobody. The voting theorems rest on an invariant that
says how the stored count relates to the set of voters: they agree for a request that is
pending and below its threshold; a processed request has a quorum behind it, and its count
is zero although its voters remain; a committee that does not exist yet has no members, and
an existing one has a threshold between one and its size. `RequestsAreUnique` follows from
the fact that the nonces in the log are its positions. For `RefusedEtherIsKept` the sum of
the refused payouts changes with the ether of the contract, payout by payout.

**`AzeroMost`** (from `AzeroMostAssumption`). `VotingInv` is the counterpart of the above.
`SharesAreFair` alone does not give `RewardsArePayable`, since fees, pocket money and
rewards are one balance: `Ledger` says that what is in the contract, was paid out as a
reward or was recovered is the pocket money and the fees collected. A member's share is a
quotient, so that the shares of a committee sum up to at most its fees, and what each
member was paid is at most that share; hence what is still owed is in the contract.

**`Bridge`** (from `BridgeAssumption`). `VotesInv` says that a processed request was logged
on the other chain: a request that was not logged has votes of faulty guardians only, and
they are fewer than the threshold. `LogInv` numbers the logs, so that a request is logged
once, and allows for one suspended `sendRequest`. The two backing properties are balance
sheets, on which a request that is logged and not processed is "on the way": a send moves
an amount from the chain onto the way, the last vote from the way onto the other chain, a
payout that fails into `e_failed`. The sheets are linear in sums over the logs, so that
each step changes one summand on each of two sides. What `RATIO` cuts off on the way to
Aleph Zero has its own column. The assumptions are that the two tokens of a chain differ,
that amounts are natural numbers, and that no amount multiplied by `RATIO` reaches 2^128:
amounts on Aleph Zero are 128 bit numbers of picoazero, and the supply of AZERO times
`RATIO` (10^6) is far below.

**`L2Bridge`** (from `L2BridgeAssumption`). Here governance acts: committees, pairs, fees
and the bAZERO contract change between the steps of a transfer. `StateInv` has a part for
each group of variables. `ConfInv` says that a committee that was set can reach its
threshold and its faulty members alone cannot, that one that was not set has no members,
and that a supported pair is a token and its partner. `MoneyInv` adds to the types that the
pool holds no more of its coin than there is, or the burn after a swap could overdraw the
supply; a sender of bAZERO can only burn what the pool does not own (`Circulating`). `CoinInv` adds to `CoinsAreAccounted` that the owner took out no more than was
refused: together they say that the coins of suspended calls are there when the calls
resume, since the owner cannot act inside a call. `VotingInv` counts the voters of each
pending request, and lets only faulty guardians vote for what was not logged. Then
`SheetsInv` balances one sheet per token, as in `Bridge`. The one for AZERO sums over all
contracts that are or were bAZERO, which is why replacing that contract changes nothing, and
over the requests on the way for the native coin, for wrapped AZERO and for bAZERO alike
(`Azeros`): what came as one may leave as the other. Both sides differ by what was there at
setup, the deposit and the pool's bAZERO.
`SettledStaysSettled`, which the run of `EthMost` checks of the other bridge, holds here
because committees that exist are never written again.
The assumptions say that each committee has fewer faulty members than its threshold, that
an address is the address of one contract, that tokens are paired one to one except that
every bAZERO stands for wrapped AZERO, and that
amounts, fees and rates are natural numbers with divisors other than zero.

**Pool** (from `PoolAssumption`). `Solvent` needs the fees to be at most their denominator
(`RatesInv`), the coefficient to be positive all through a ramp, which holds because a ramp
begins in the past (`TimeInv`), and the books to be natural numbers (`BooksInv`). The
amounts come from Newton's method. What it converges to is out of reach, but solvency does
not depend on that: whatever its step returns, it ends with a natural number or a
reversion (`NewtonType`). The recursive function is shown to exist by the smallest number
of steps for which it would not, and so is its type. From there on each action is
arithmetic with quotients: an amount times a rate of at most one is at most the amount
(`Part`), and two quotients with one divisor are at most the quotient of the sum
(`TwoParts`), which is why an exchange pays and keeps for the owner no more than the other
coin's balance. `CalcType` goes through the unchecked differences of a withdrawal of one
coin. `FeesAreAnnounced` follows from the deadline being zero or the announced time plus
the delay (`NoticeInv`). `PoolAnswersTheorem` is the justification of the abstract pool in
`L2Bridge`: an exchange takes what it is given and pays an amount the pool has, not below
the minimum. The assumptions are the types of the constants, fees below their denominator
and coefficients other than zero.

**Relayer** (from `RelayerAssumption` and `SupervisorAssumption`). What is sealed is
settled because of where the unsettled events are. From Ethereum (`CacheInv`), the listener
has one range at a time: every block number on its way to the cache is past settled events
only (`NumbersInv`), and the events of the range that still need a vote are all in the
channel or on the handler's list, and none are left when there is an acknowledgement
(`BatchInv`). A crash or the circuit breaker may interrupt this anywhere, and then only the
cached number counts. `TypeOK` needs that the nonce of a client between two transactions is
not ahead of the account's (`NonceInv`), or it would leave its range. From Aleph Zero
(`SealingInv`), batches overtake each other, so the invariant is about the whole queue: up to
the end of each batch, an event that is not settled is still to do in that batch or in an
*older* one, and an acknowledged batch has nothing to do (`BatchesInv`). Only the oldest
batch is sealed, which makes what is behind it settled (`SealsInv`). The exceptions in the
properties, `failed` (finding 1) and `overlooked`, are part of the invariant.
`CacheOnlyAdvances` needs the order of everything between the listener and the cache
(`OrderInv`): from Aleph Zero the listener is beyond all batches, these are in order and
past the seals, and the seals past the cache; from Ethereum what the listener works on is
not behind what it announced, nor this behind what the manager has received. A new run
begins with the cached number, and so restores the order from nothing. The property is for
a cache that is read without an error and is not overridden: either makes a run begin with
an older block, and write older numbers over newer ones.

**`EthSubmission`** (from `SubmissionAssumption`). `SignedAsAsked` follows from the type of
the streams: a response carries the transaction of its command with its signature, and the
client compares the transaction after it has put the chain id back, whichever command the
response was for. `NoSilentGap` is inductive with the types: a task that is given a nonce
is unfinished until its transaction is mined, replaced or the breaker is tripped.

**Sums.** The sums in the properties are folds, whose definition is recursive. No induction
principle with an operator parameter can be used with the installed provers, but strict
inclusion of finite sets is well-founded, and that is a statement about a relation: a set
for which a fold is not what it should be would have a minimal one among its subsets
(`MinimalSubset`), and one step of the fold refutes that. In this way `Sums` shows that the
fold exists, that any element may be taken out first, and that sums are monotonic and add
up. `LeastNatural` comes from the same argument.

Only proved, and part of no run: `CacheOnlyAdvances` of both pipelines,
`SettledStaysSettled` of `L2Bridge`, `PoolAnswersTheorem` and `MinimumIsClose`. The two
named properties are defined next to their theorems.

Only model-checked:

- everything temporal under fairness, for which the prover has no rules: `EveryVoteLands`,
  `EveryRequestArrives`, `EveryEventSettles`, `BreakerReboots`, `SettlesUnlessStalled`,
  `CachedUnlessStalled`;
- of the pool, `DIsAccurate` and `SharesKeepTheirValue`: what Newton's method converges to
  is an induction over its steps and nonlinear arithmetic, and the bound `Rounding` is that
  of the instance.

## 5. Not modelled

- On the L2: `recoverERC20` (the contract owns no ERC20 between two calls),
  `setWrappedAzeroAddress` (not read there). In the pool: `set_native_gas`.
- Token contracts: their balances are in the models, and so is the right to mint of the
  Aleph Zero token; allowances are not. `USDT` and `WETH9` are third-party code.
- `TransferLimit`: a computation without state of its own, of which `EthMost` takes every
  answer. The advisory contract is one of the watchers.
- Ownership handover and code upgrades: the owner is one actor. `set_payout_account` and
  the relayer's option to call it at its start, which only redirect a payout.
- A native transfer of AZERO that fails because the receiver cannot take it
  (`most/lib.rs:1297` and the same in `most-l2`): it reverts the deciding vote, which is no
  step. `EveryRequestArrives` is about receivers who can.
- The relayer's cargo feature `l2`: it selects the bindings of `MostL2` instead of `Most`
  (`contracts/mod.rs:2-10`) and takes the latest block of the L2 for a finalized one
  (`connections/eth.rs:259-266`). The pipelines are those of the L1 build.
- What others exchange with the pool while the bridge is at work: `StableSwapTwoPool` has
  it, `L2Bridge` does not.
- Gas escalation and replacement by price (a replacement may succeed or be refused at any
  time), the backoff of the RPC clients.
- The signer's other commands: they travel on the same streams and are compared in the same
  way, and only votes on Ethereum are signed by tasks that run concurrently.
- Backoff times, hashing, encoding and the decoding of values
  (`convertible_value.rs`). Deployment scripts and tests.

## 6. Plan

1. *Done*: `CommitteeVoting`, `EthMost`, `AzeroMost`, `Bridge`, `L2Bridge`,
   `StableSwapTwoPool`, `Supervisor`, both pipelines of the relayer with a change of the
   committee, the signer, and the transactions of a guardian on both chains.
2. *Done*: the proofs of every invariant of both contracts, of `Bridge`, of `L2Bridge`, of
   both pipelines and of `EthSubmission`, and of the solvency of the pool; of the action
   properties of the contracts, of the pipelines and of the pool's fees; both refinements of
   `CommitteeVoting`.
3. *Left*: a bound on what rounding costs the providers of the pool for every amount, by
   hand or with a prover for nonlinear arithmetic; the liveness properties, with a prover
   that has rules for fairness.
