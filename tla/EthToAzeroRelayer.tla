------------------------- MODULE EthToAzeroRelayer -------------------------
(***************************************************************************)
(* The half of the relayer that carries requests from Ethereum to Aleph    *)
(* Zero: EthereumListener, EthereumEventsHandler and the RedisManager.     *)
(* The listener reads one range of finalized blocks, hands its events to   *)
(* the handler and waits until all have been handled, one after the other; *)
(* it then announces the next block to itself and to the manager, which    *)
(* caches it in redis.                                                     *)
(*                                                                         *)
(* Abstractions.  An event is its place in the log.  votes[e] says whether *)
(* the Aleph Zero contract has seen what makes a vote of this guardian     *)
(* superfluous: "none", in the "latest" block only, or in a "final" one;   *)
(* committee says the same of the newest committee, which may be in office *)
(* on Ethereum already.  The guardian's account has at most one            *)
(* transaction that is not final, because the handler waits for each; but  *)
(* one may outlive the run that sent it.  Only this relayer uses the       *)
(* account, so that the nonce of its client matters as far as it differs   *)
(* from the account's nonce in the finalized block, which is where         *)
(* account_nonce reads it.  at_latest, the block of every read that does   *)
(* not ask for a finalized one, may be the best block or the last          *)
(* finalized one, as the client library has it: such a read may miss what  *)
(* is in the "latest" block only.                                          *)
(***************************************************************************)
EXTENDS Supervisor, Integers, FiniteSetsExt

CONSTANTS
    Events,          \* requests logged on Ethereum
    BlockOf,         \* the block of each event
    Skipped,         \* events that need no vote: blacklisted, of a past committee, other
    NewCommittee,    \* events of the committee that Aleph Zero gets to know last
    MaxBlock,        \* bound on the blocks of Ethereum; later ones have no events
    DefaultBlock,    \* default_sync_from_block_eth
    SyncStep,        \* sync_step: bound on the blocks of a batch
    Override,        \* override_eth_cache
    None

ASSUME RelayerAssumption ==
    /\ Events \subseteq Nat
    /\ Skipped \subseteq Events
    /\ NewCommittee \subseteq Events \ Skipped
    /\ MaxBlock \in Nat
    /\ DefaultBlock \in 1 .. MaxBlock
    /\ BlockOf \in [Events -> DefaultBlock .. MaxBlock]
    /\ \A e, f \in Events : e < f => BlockOf[e] <= BlockOf[f]
    /\ SyncStep \in Nat \ {0}
    /\ Override \in BOOLEAN
    /\ None \notin Nat /\ \A S \in SUBSET Events : S # None

VARIABLES
    head,      \* last finalized block of Ethereum
    votes,     \* state of each event on Aleph Zero
    committee, \* state of the newest committee there
    overlooked,\* history: events of a committee that was not final when they were handled
    pool,      \* the event of this guardian's transaction in the pool
    block,     \* the event of this guardian's transaction in a block that is not final
    nonce,     \* the client's nonce less that of the account in the finalized block
    tx,        \* the handler's transaction: "none", "watched", "final" or "lost"
    redis,     \* the cached block number
    lst,       \* where the listener is
    next,      \* unprocessed_block_number
    to,        \* to_block
    number,    \* the block number the listener has not received yet
    news,      \* the block number the manager has not received yet
    lagged,    \* the manager missed one: the channel has room for one
    deaf,      \* the manager's select! has disabled the branch of the block numbers
    channel,   \* the batch in the events channel
    todo,      \* what is left of the batch of the handler, None when it has none
    ack        \* "none", "acked" or "dropped": the acknowledgement of the batch

submission == <<pool, block, nonce, tx>>
chains == <<head, votes, committee, submission>>
listener == <<lst, next, to>>
numbers == <<number, news, lagged, deaf>>
work == <<channel, todo, ack>>
vars == <<chains, overlooked, redis, listener, numbers, work, supervision>>

EventsIn(from, upto) == {e \in Events : BlockOf[e] \in from .. upto}

Settled(e) == e \in Skipped \/ votes[e] = "final"

\* is_in_committee, if the read sees the latest block.
InCommittee(e) == e \in NewCommittee => committee # "none"

\* needs_signature in a finalized block: it is also false for a committee not known there.
NeedsSignature(e) == ~Settled(e) /\ (e \in NewCommittee => committee = "final")

Init ==
    /\ head = DefaultBlock
    /\ votes = [e \in Events |-> "none"]
    /\ committee = "none" /\ overlooked = {}
    /\ pool = None /\ block = None /\ nonce = 0 /\ tx = "none"
    /\ redis = None
    /\ lst = "next" /\ next = DefaultBlock /\ to = DefaultBlock
    /\ number = None /\ news = None /\ lagged = FALSE /\ deaf = FALSE
    /\ channel = None /\ todo = None /\ ack = "none"
    /\ SupervisorInit

\* What the tasks of a run have in memory and in their channels goes with them.
Forget ==
    /\ lst' = "next" /\ next' = DefaultBlock /\ to' = DefaultBlock
    /\ lagged' = FALSE /\ deaf' = FALSE
    /\ channel' = None /\ todo' = None /\ ack' = "none"
    /\ tx' = "none"

-----------------------------------------------------------------------------
(* The two chains *)

NewBlock ==
    /\ head < MaxBlock
    /\ head' = head + 1
    /\ UNCHANGED <<votes, committee, submission, overlooked, redis, listener, numbers, work, supervision>>

\* It makes no difference to a skipped event.
OthersProcess(e) ==
    /\ e \notin Skipped
    /\ head >= BlockOf[e] /\ votes[e] = "none"
    /\ InCommittee(e)
    /\ votes' = [votes EXCEPT ![e] = "latest"]
    /\ UNCHANGED <<head, committee, submission, overlooked, redis, listener, numbers, work, supervision>>

\* The blocks without a transaction of this guardian's are finalized.
Finalize(e) ==
    /\ votes[e] = "latest" /\ block # e
    /\ e \in NewCommittee => committee = "final"
    /\ votes' = [votes EXCEPT ![e] = "final"]
    /\ UNCHANGED <<head, committee, submission, overlooked, redis, listener, numbers, work, supervision>>

\* The owner of the contract installs the newest committee, in a block that gets finalized.
InstallCommittee ==
    /\ NewCommittee # {}
    /\ committee = "none"
    /\ committee' = "latest"
    /\ UNCHANGED <<head, votes, submission, overlooked, redis, listener, numbers, work, supervision>>

FinalizeCommittee ==
    /\ committee = "latest"
    /\ committee' = "final"
    /\ UNCHANGED <<head, votes, submission, overlooked, redis, listener, numbers, work, supervision>>

\* The transaction in the pool gets into a block; the contract ignores a vote it does not
\* need, and the transaction succeeds all the same.
Include ==
    /\ pool # None /\ block = None
    /\ block' = pool
    /\ pool' = None
    /\ votes' = [votes EXCEPT ![pool] = IF @ = "none" THEN "latest" ELSE @]
    /\ UNCHANGED <<head, committee, nonce, tx, overlooked, redis, listener, numbers, work, supervision>>

\* A client that read its nonce while the transaction was under way is behind from now on.
FinalizeBlock ==
    /\ block # None
    /\ block' = None
    /\ votes' = [votes EXCEPT ![block] = "final"]
    /\ nonce' = Max({nonce - 1, -1})
    /\ tx' = IF tx = "watched" THEN "final" ELSE tx
    /\ UNCHANGED <<head, committee, pool, overlooked, redis, listener, numbers, work, supervision>>

\* The block with the vote is abandoned; a transaction goes back to the pool.
Reorg(e) ==
    /\ votes[e] = "latest"
    /\ Fault("reorg")
    /\ votes' = [votes EXCEPT ![e] = "none"]
    /\ pool' = IF block = e THEN e ELSE pool
    /\ block' = IF block = e THEN None ELSE block
    /\ UNCHANGED <<head, committee, nonce, tx, overlooked, redis, listener, numbers, work, up, alive, cb>>

\* The pool drops the transaction, of which the watcher is told.
DropTx ==
    /\ pool # None
    /\ Fault("drop")
    /\ pool' = None
    /\ tx' = IF tx = "watched" THEN "lost" ELSE tx
    /\ UNCHANGED <<head, votes, committee, block, nonce, overlooked, redis, listener, numbers, work, up, alive, cb>>

-----------------------------------------------------------------------------
(* EthereumListener *)

At(pc) == "listener" \in alive /\ lst = pc

\* Mutant: the block after the announced one is announced.
Skipping_Announce(n) ==
    /\ number' = n + 1
    /\ news' = n + 1
    /\ lagged' = (lagged \/ news # None)
    /\ UNCHANGED deaf

\* last_processed_block_number.send: received by the listener itself and by the manager.
Announce(n) ==
    /\ number' = n
    /\ news' = n
    /\ lagged' = (lagged \/ news # None)
    /\ UNCHANGED deaf

\* Bound: a number past MaxBlock is left in the channel, its blocks have no events.
TakeNumber ==
    /\ At("next")
    /\ number # None /\ number <= MaxBlock
    /\ next' = number
    /\ number' = None
    /\ lst' = "finalized"
    /\ UNCHANGED <<chains, overlooked, redis, to, news, lagged, deaf, work, supervision>>

\* Mutant: one block too many.
Wide_ToBlock == Min({head, next + SyncStep})
ToBlock == Min({head, next + SyncStep - 1})

WaitForFinalized ==
    /\ At("finalized")
    /\ head >= next
    /\ to' = ToBlock
    /\ lst' = "query"
    /\ UNCHANGED <<chains, overlooked, redis, next, numbers, work, supervision>>

QueryEvents ==
    /\ At("query")
    /\ \/ /\ EventsIn(next, to) = {}
          /\ Announce(to + 1)
          /\ lst' = "next"
       \/ /\ EventsIn(next, to) # {}
          /\ lst' = "send"
          /\ UNCHANGED numbers
    /\ UNCHANGED <<chains, overlooked, redis, next, to, work, supervision>>

\* `Ok(events) = query.query()` does not match an error, and select! is left with the
\* circuit breaker: the query is not repeated.
QueryFails ==
    /\ At("query")
    /\ Fault("query")
    /\ lst' = "stalled"
    /\ UNCHANGED <<chains, overlooked, redis, next, to, numbers, work, up, alive, cb>>

\* The send is not part of a select!; it fails, and ends the process, without a handler.
SendEvents ==
    /\ At("send")
    /\ \/ /\ "handler" \in alive /\ channel = None
          /\ channel' = EventsIn(next, to)
          /\ ack' = "none"
          /\ lst' = "ack"
          /\ UNCHANGED <<up, alive>>
       \/ /\ "handler" \notin alive
          /\ Die
          /\ UNCHANGED <<channel, ack, lst>>
    /\ UNCHANGED <<chains, overlooked, redis, next, to, numbers, todo, cb, faults>>

\* Without the acknowledgement the listener waits for a block number nobody sends.
TakeAck ==
    /\ At("ack")
    /\ \/ ack = "acked" /\ Announce(to + 1)
       \/ ack = "dropped" /\ UNCHANGED numbers
    /\ lst' = "next"
    /\ UNCHANGED <<chains, overlooked, redis, next, to, work, supervision>>

ListenerObserves ==
    /\ lst # "send"
    /\ Observe("listener")
    /\ UNCHANGED <<chains, overlooked, redis, listener, numbers, work>>

-----------------------------------------------------------------------------
(* EthereumEventsHandler *)

ReceiveEvents ==
    /\ "handler" \in alive
    /\ todo = None /\ channel # None
    /\ todo' = channel
    /\ channel' = None
    /\ UNCHANGED <<chains, overlooked, redis, listener, numbers, ack, supervision>>

Busy == "handler" \in alive /\ todo # None /\ todo # {}

\* The event handle_event is called for: first in, first out.
Current == Min(todo)

\* The loop of handle_event between two transactions.
Free == Busy /\ tx = "none"

\* needs_signature at_latest: true too for what the read misses.
NeedsVote == Free /\ NeedsSignature(Current)

\* An account with a transaction under way has used up one nonce more than is final.
InUse == IF pool = None /\ block = None THEN 0 ELSE 1

\* receive_request: the dry run passes, and the signed transaction goes to the pool, where a
\* nonce ahead of the account's waits for the ones before it.  inc_nonce comes first.
Submit ==
    /\ NeedsVote
    /\ nonce >= InUse
    /\ nonce' = nonce + 1
    /\ pool' = IF nonce = InUse THEN Current ELSE pool
    /\ tx' = "watched"
    /\ UNCHANGED <<head, votes, committee, block, overlooked, redis, listener, numbers, work, supervision>>

\* handle_event returns an error: the handler trips the circuit breaker and returns.
HandleFails ==
    /\ Busy
    /\ Trip
    /\ Exit("handler")
    /\ ack' = "dropped"
    /\ tx' = "none"
    /\ UNCHANGED <<head, votes, committee, pool, block, overlooked, redis, listener, numbers, channel, todo>>

\* The nonce is that of a transaction in the pool or in a block.
Refused ==
    /\ NeedsVote
    /\ nonce < InUse
    /\ nonce' = nonce + 1
    /\ HandleFails
    /\ UNCHANGED faults

\* wait_for_finalized_success
Finalized ==
    /\ Busy /\ tx = "final"
    /\ tx' = "none"
    /\ UNCHANGED <<head, votes, committee, pool, block, nonce, overlooked, redis, listener, numbers, work, supervision>>

Lost ==
    /\ tx = "lost"
    /\ HandleFails
    /\ UNCHANGED <<nonce, faults>>

\* handle_event returns Ok for an event that needs no vote in a finalized block, and so for
\* an event of a committee that is known in the latest block and in no finalized one.
EventDone ==
    /\ Free
    /\ InCommittee(Current)
    /\ ~NeedsSignature(Current)
    /\ todo' = todo \ {Current}
    /\ overlooked' = IF Current \in NewCommittee /\ committee = "latest"
                     THEN overlooked \cup {Current} ELSE overlooked
    /\ UNCHANGED <<chains, redis, listener, numbers, channel, ack, supervision>>

\* CommitteeIdMismatch: the request comes from a committee Aleph Zero does not know yet.
EventMismatch ==
    /\ Free
    /\ Current \in NewCommittee /\ committee # "final"
    /\ HandleFails
    /\ UNCHANGED <<nonce, faults>>

\* Any other error: of a query, of the dry run, of the signer, of the watched transaction.
EventFails ==
    /\ HandleFails
    /\ Fault("event")
    /\ UNCHANGED nonce

\* Mutant: a batch is acknowledged as soon as it is received.
Early_AckEvents ==
    /\ "handler" \in alive /\ todo # None
    /\ "listener" \in alive
    /\ ack' = "acked"
    /\ todo' = None
    /\ UNCHANGED <<chains, overlooked, redis, listener, numbers, channel, supervision>>

\* The acknowledgement ends the process when the listener does not wait for it any more.
AckEvents ==
    /\ "handler" \in alive /\ todo = {}
    /\ \/ /\ "listener" \in alive
          /\ ack' = "acked"
          /\ todo' = None
          /\ UNCHANGED <<up, alive>>
       \/ /\ "listener" \notin alive
          /\ Die
          /\ UNCHANGED <<ack, todo>>
    /\ UNCHANGED <<chains, overlooked, redis, listener, numbers, channel, cb, faults>>

\* Between events and during one, whose handling is dropped; an acknowledgement that was
\* sent is still there for the listener.
HandlerObserves ==
    /\ todo # {}
    /\ Observe("handler")
    /\ ack' = IF ack = "acked" THEN ack ELSE "dropped"
    /\ tx' = "none"
    /\ UNCHANGED <<head, votes, committee, pool, block, nonce, overlooked, redis, listener, numbers, channel, todo>>

-----------------------------------------------------------------------------
(* RedisManager *)

WriteNumber ==
    /\ "manager" \in alive
    /\ ~deaf /\ ~lagged
    /\ news # None
    /\ redis' = news
    /\ news' = None
    /\ UNCHANGED <<chains, overlooked, listener, number, lagged, deaf, work, supervision>>

\* Mutant: the number that is still in the channel is lost as well.
Losing_ManagerLags ==
    /\ "manager" \in alive
    /\ ~deaf /\ lagged
    /\ lagged' = FALSE
    /\ deaf' = TRUE
    /\ news' = None
    /\ UNCHANGED <<chains, overlooked, redis, listener, number, work, supervision>>

\* recv returns Lagged, which `Ok(..)` does not match: the branch is off until another
\* branch of this select! has been taken, and then recv returns the newest number.
ManagerLags ==
    /\ "manager" \in alive
    /\ ~deaf /\ lagged
    /\ lagged' = FALSE
    /\ deaf' = TRUE
    /\ UNCHANGED <<chains, overlooked, redis, listener, number, news, work, supervision>>

\* A sealed block of the other pipeline arrives.
ManagerWakes ==
    /\ "manager" \in alive
    /\ deaf
    /\ deaf' = FALSE
    /\ UNCHANGED <<chains, overlooked, redis, listener, number, news, lagged, work, supervision>>

ManagerObserves ==
    /\ Observe("manager")
    /\ UNCHANGED <<chains, overlooked, redis, listener, numbers, work>>

\* read_block_number: any error, a missing key among them, means the default.
ReadBlockNumber(cache) == IF cache = None THEN DefaultBlock ELSE cache

\* Mutant: the connection, and with it the nonce, is kept for all runs.
Kept_ClientNonce == nonce
\* ClientWithSigner::new reads the nonce of the finalized block.
ClientNonce == 0

\* A run starts with new channels; the manager reads the cache, and sends the number to
\* the listener and to itself.
Run ==
    /\ Start
    /\ redis' = IF Override /\ ~up THEN DefaultBlock ELSE redis
    /\ \/ number' = ReadBlockNumber(redis') /\ UNCHANGED faults
       \/ number' = DefaultBlock /\ Fault("read")
    /\ news' = number'
    /\ Forget
    /\ nonce' = ClientNonce
    /\ UNCHANGED <<head, votes, committee, pool, block, overlooked>>

Watch(t) ==
    /\ WatcherTrips(t) \/ (t \in Watchers /\ Observe(t))
    /\ UNCHANGED <<chains, overlooked, redis, listener, numbers, work>>

ProcessCrashes ==
    /\ Crash
    /\ Forget /\ number' = None /\ news' = None
    /\ UNCHANGED <<head, votes, committee, pool, block, nonce, overlooked, redis>>

-----------------------------------------------------------------------------

Listener ==
    \/ TakeNumber \/ WaitForFinalized \/ QueryEvents \/ SendEvents \/ TakeAck
    \/ ListenerObserves

Handler ==
    \/ ReceiveEvents \/ Submit \/ Refused \/ Finalized \/ Lost \/ EventDone
    \/ EventMismatch \/ AckEvents \/ HandlerObserves

Manager == WriteNumber \/ ManagerLags \/ ManagerWakes \/ ManagerObserves

Environment ==
    \/ NewBlock \/ InstallCommittee \/ FinalizeCommittee \/ Include \/ FinalizeBlock
    \/ QueryFails \/ EventFails \/ DropTx \/ ProcessCrashes
    \/ \E e \in Events : OthersProcess(e) \/ Finalize(e) \/ Reorg(e)

Next == Listener \/ Handler \/ Manager \/ Environment \/ Run \/ \E t \in Watchers : Watch(t)

\* Tokio polls every task that is ready, blocks are produced and finalized, the other
\* pipeline seals a block from time to time, and main, or whoever restarts the process,
\* starts the next run.  No fault has to happen.
Fairness ==
    /\ WF_vars(Listener) /\ WF_vars(ListenerObserves)
    /\ WF_vars(Handler) /\ WF_vars(HandlerObserves)
    /\ WF_vars(WriteNumber) /\ WF_vars(ManagerLags) /\ WF_vars(ManagerWakes)
    /\ WF_vars(ManagerObserves)
    /\ \A t \in Watchers :
          WF_vars(Observe(t) /\ UNCHANGED <<chains, overlooked, redis, listener, numbers, work>>)
    /\ \A e \in Events : WF_vars(Finalize(e))
    /\ WF_vars(NewBlock) /\ WF_vars(Include) /\ WF_vars(FinalizeBlock)
    /\ WF_vars(FinalizeCommittee) /\ WF_vars(Run)

Spec == Init /\ [][Next]_vars /\ Fairness

-----------------------------------------------------------------------------
(* Properties *)

\* The type of the variables; a batch spans at most sync_step blocks, all finalized.
TypeOK ==
    /\ SupervisorType
    /\ head \in DefaultBlock .. MaxBlock
    /\ votes \in [Events -> {"none", "latest", "final"}]
    /\ committee \in {"none", "latest", "final"} /\ overlooked \subseteq NewCommittee
    /\ pool \in Events \cup {None} /\ block \in Events \cup {None}
    /\ nonce \in -1 .. 1
    /\ tx \in {"none", "watched", "final", "lost"}
    /\ redis \in Nat \cup {None}
    /\ lst \in {"next", "finalized", "query", "stalled", "send", "ack"}
    /\ next \in Nat /\ to \in Nat
    /\ lst \in {"query", "stalled", "send", "ack"} => to <= head /\ to < next + SyncStep
    /\ number \in Nat \cup {None} /\ news \in Nat \cup {None}
    /\ lagged \in BOOLEAN /\ deaf \in BOOLEAN
    /\ channel \in {None} \cup SUBSET Events /\ todo \in {None} \cup SUBSET Events
    /\ ack \in {"none", "acked", "dropped"}

Sealed(e) == redis # None /\ BlockOf[e] < redis

\* The cache moves past a block only when each of its events needs no vote in a finalized
\* block of Aleph Zero, or its committee was so new that no finalized block knew it, whatever
\* fails, crashes or is restarted on the way: a handler that fails returns without
\* acknowledging its batch.
SealedSettledUnlessOverlooked == \A e \in Events : Sealed(e) => Settled(e) \/ e \in overlooked

\* Every event of a finalized block is eventually settled: the listener goes on from block
\* to block (relayer_hldd.md, line 45: "proceeds to retrieve events in batches coming from
\* consecutive blocks"), through failed events, crashes and reboots, as long as they stop.
\* Once the last block of the instance is finalized, all of its events are meant.
EveryEventSettles == head = MaxBlock ~> \A e \in Events : Settled(e) \/ e \in overlooked

\* A failed query leaves the listener waiting for somebody else's trouble.
StalledForGood == <>[](lst = "stalled")

\* A change of the committee that has begun on Ethereum is not carried out on Aleph Zero:
\* its requests end run after run.
HalfChanged == NewCommittee # {} /\ [](committee = "none")

\* A listener that no failed query stalls for good (listeners/eth.rs, line 120) goes on:
\* every event is settled, whatever transaction an earlier run has left in the pool.
SettlesUnlessStalled == StalledForGood \/ HalfChanged \/ EveryEventSettles

\* Likewise the cache moves past every finalized block, although the manager misses
\* numbers the listener announces in quick succession (redis/mod.rs, lines 102-112).
CachedUnlessStalled ==
    \/ StalledForGood
    \/ HalfChanged
    \/ head = MaxBlock ~> redis # None /\ redis > MaxBlock

=============================================================================
