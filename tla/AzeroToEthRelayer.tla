------------------------- MODULE AzeroToEthRelayer -------------------------
(***************************************************************************)
(* The half of the relayer that carries requests from Aleph Zero to        *)
(* Ethereum: AlephZeroListener, AlephZeroEventsHandler with the tasks it   *)
(* spawns, and the RedisManager.  The listener reads ranges of finalized   *)
(* blocks, hands the events of each to the handler, which works on all     *)
(* batches at once, collects the acknowledgements in the order of the      *)
(* blocks, and seals the blocks in redis, where the next run begins.       *)
(*                                                                         *)
(* Abstractions.  A block is its number, an event the number of its block. *)
(* votes[e] says whether the Ethereum contract has seen what makes a vote  *)
(* of this guardian superfluous: "none", in the "latest" block only, or in *)
(* a "final" one; committee says the same of the newest committee, which   *)
(* may be in office on Aleph Zero already.  A transaction that is in no    *)
(* block yet has no effect; one that gets there after its handler has died *)
(* looks like the vote of another guardian.                                *)
(***************************************************************************)
EXTENDS Supervisor, FiniteSetsExt

CONSTANTS
    Events,          \* requests logged on Aleph Zero
    BlockOf,         \* the block of each event
    Skipped,         \* events that need no vote: blacklisted, of a past committee, other
    NewCommittee,    \* events of the committee that Ethereum gets to know last
    MaxBlock,        \* bound on the blocks of Aleph Zero; later ones have no events
    DefaultBlock,    \* default_sync_from_block_azero
    SyncStep,        \* sync_step: bound on the blocks of a batch
    EventsCapacity,  \* room of the events channel
    Override,        \* override_azero_cache
    None

ASSUME RelayerAssumption ==
    /\ Skipped \subseteq Events
    /\ NewCommittee \subseteq Events \ Skipped
    /\ MaxBlock \in Nat
    /\ DefaultBlock \in 1 .. MaxBlock
    /\ BlockOf \in [Events -> DefaultBlock .. MaxBlock]
    /\ SyncStep \in Nat \ {0}
    /\ EventsCapacity \in Nat \ {0}
    /\ Override \in BOOLEAN
    /\ None \notin Nat

VARIABLES
    head,      \* last finalized block of Aleph Zero
    votes,     \* state of each event on Ethereum
    committee, \* state of the newest committee there
    redis,     \* the cached block number
    lst,       \* where the listener is: "select", "waiting", "sending" or "sealing"
    number,    \* the message in the channel of next block numbers
    next,      \* unprocessed_block_number
    seal,      \* processed_block, while the listener is "sealing"
    batches,   \* event_batch_ack_receiver: the batches not yet acknowledged to the listener
    seals,     \* the channel of sealed blocks, with room for one
    failed,    \* history: events whose handler returned an error
    overlooked \* history: events of a committee that was not final when they were handled

chains == <<head, votes, committee>>
listener == <<lst, number, next, seal>>
history == <<failed, overlooked>>
work == <<batches, seals, history>>
vars == <<chains, redis, listener, work, supervision>>

EventsIn(from, to) == {e \in Events : BlockOf[e] \in from .. to}

Settled(e) == e \in Skipped \/ votes[e] = "final"

\* isInCommittee in the latest block.
InCommittee(e) == e \in NewCommittee => committee # "none"

\* needsSignature in a finalized block: it is also false for a committee not known there.
NeedsSignature(e) == ~Settled(e) /\ (e \in NewCommittee => committee = "final")

\* The process has not started; the cache may be from an earlier installation.
Init ==
    /\ head = DefaultBlock
    /\ votes = [e \in Events |-> "none"]
    /\ committee = "none"
    /\ redis = None
    /\ lst = "select" /\ number = None /\ next = DefaultBlock /\ seal = DefaultBlock
    /\ batches = <<>> /\ seals = <<>> /\ failed = {} /\ overlooked = {}
    /\ SupervisorInit

\* What the tasks of a run have in memory and in their channels goes with them.
Forget ==
    /\ lst' = "select" /\ next' = DefaultBlock /\ seal' = DefaultBlock
    /\ batches' = <<>> /\ seals' = <<>>

-----------------------------------------------------------------------------
(* The two chains *)

NewBlock ==
    /\ head < MaxBlock
    /\ head' = head + 1
    /\ UNCHANGED <<votes, committee, redis, listener, work, supervision>>

\* Other guardians' votes process the request.  It makes no difference to a skipped one.
OthersProcess(e) ==
    /\ e \notin Skipped
    /\ head >= BlockOf[e] /\ votes[e] = "none"
    /\ InCommittee(e)
    /\ votes' = [votes EXCEPT ![e] = "latest"]
    /\ UNCHANGED <<head, committee, redis, listener, work, supervision>>

Finalize(e) ==
    /\ votes[e] = "latest"
    /\ e \in NewCommittee => committee = "final"
    /\ votes' = [votes EXCEPT ![e] = "final"]
    /\ UNCHANGED <<head, committee, redis, listener, work, supervision>>

Reorg(e) ==
    /\ votes[e] = "latest"
    /\ Fault("reorg")
    /\ votes' = [votes EXCEPT ![e] = "none"]
    /\ UNCHANGED <<head, committee, redis, listener, work, up, alive, cb>>

\* The owner of the contract installs the newest committee, in a block that gets finalized.
InstallCommittee ==
    /\ NewCommittee # {}
    /\ committee = "none"
    /\ committee' = "latest"
    /\ UNCHANGED <<head, votes, redis, listener, work, supervision>>

FinalizeCommittee ==
    /\ committee = "latest"
    /\ committee' = "final"
    /\ UNCHANGED <<head, votes, redis, listener, work, supervision>>

-----------------------------------------------------------------------------
(* AlephZeroListener *)

At(pc) == "listener" \in alive /\ lst = pc

\* Bound: a number past MaxBlock is left in the channel, its blocks have no events.
TakeNumber ==
    /\ At("select")
    /\ number # None /\ number <= MaxBlock
    /\ next' = number
    /\ number' = None
    /\ lst' = "waiting"
    /\ UNCHANGED <<chains, redis, seal, work, supervision>>

\* Wait for the block to be finalized, fetch its events and queue the receiver of their
\* acknowledgement.  The circuit breaker is not looked at meanwhile.
FetchEvents ==
    /\ At("waiting")
    /\ head >= next
    /\ LET to == Min({head, next + SyncStep - 1})
       IN  batches' = Append(batches, [to |-> to, stage |-> "unsent", todo |-> EventsIn(next, to)])
    /\ lst' = "sending"
    /\ UNCHANGED <<chains, redis, number, next, seal, seals, history, supervision>>

\* Every error of the client is AlephZeroListenerError::AzeroClient, which `?` and
\* `Err(other)` return: the arm that opens the circuit breaker is for another error.
ClientError ==
    /\ At("waiting")
    /\ Fault("client")
    /\ Die /\ Forget
    /\ UNCHANGED <<chains, redis, number, history, cb>>

Queued == {i \in DOMAIN batches : batches[i].stage = "queued"}

\* Mutant: the block after the batch is left out.
Skipping_SendBatch ==
    /\ At("sending")
    /\ "handler" \in alive
    /\ Cardinality(Queued) < EventsCapacity
    /\ batches' = [batches EXCEPT ![Len(batches)].stage = "queued"]
    /\ number' = batches[Len(batches)].to + 2
    /\ lst' = "select"
    /\ UNCHANGED <<chains, redis, next, seal, seals, history, supervision>>

\* Only as long as the handler runs; without it the listener waits for the circuit breaker.
SendBatch ==
    /\ At("sending")
    /\ "handler" \in alive
    /\ Cardinality(Queued) < EventsCapacity
    /\ batches' = [batches EXCEPT ![Len(batches)].stage = "queued"]
    /\ number' = batches[Len(batches)].to + 1
    /\ lst' = "select"
    /\ UNCHANGED <<chains, redis, next, seal, seals, history, supervision>>

\* Mutant: acknowledgements are taken in the order in which they arrive.
Unordered_TakeAck ==
    /\ At("select")
    /\ \E i \in DOMAIN batches :
          /\ batches[i].stage = "acked"
          /\ seal' = batches[i].to
          /\ batches' = SubSeq(batches, 1, i - 1) \o SubSeq(batches, i + 1, Len(batches))
    /\ lst' = "sealing"
    /\ UNCHANGED <<chains, redis, number, next, seals, history, supervision>>

\* FuturesOrdered: the oldest batch first.
TakeAck ==
    /\ At("select")
    /\ batches # <<>> /\ Head(batches).stage = "acked"
    /\ seal' = Head(batches).to
    /\ batches' = Tail(batches)
    /\ lst' = "sealing"
    /\ UNCHANGED <<chains, redis, number, next, seals, history, supervision>>

\* The handler has dropped the sender: `processed_block_res?` is fatal.
AckIsLost ==
    /\ At("select")
    /\ batches # <<>> /\ Head(batches).stage = "dropped"
    /\ Die /\ Forget
    /\ UNCHANGED <<chains, redis, number, history, cb, faults>>

\* Mutant: the send does not wait for room.
Unbounded_PushSeal ==
    /\ At("sealing")
    /\ seals' = Append(seals, seal)
    /\ lst' = "select"
    /\ UNCHANGED <<chains, redis, number, next, seal, batches, history, supervision>>

\* The send waits for room; it fails, and ends the process, when the manager has returned.
PushSeal ==
    /\ At("sealing")
    /\ \/ /\ "manager" \in alive /\ seals = <<>>
          /\ seals' = <<seal>>
          /\ lst' = "select"
          /\ UNCHANGED <<up, alive>>
       \/ /\ "manager" \notin alive
          /\ Die
          /\ UNCHANGED <<seals, lst>>
    /\ UNCHANGED <<chains, redis, number, next, seal, batches, history, cb, faults>>

\* Mutant: the listener does not look at the circuit breaker while it sends.
Deaf_ListenerObserves ==
    /\ lst = "select"
    /\ Observe("listener")
    /\ UNCHANGED <<chains, redis, listener, work>>

ListenerObserves ==
    /\ lst \in {"select", "sending"}
    /\ Observe("listener")
    /\ UNCHANGED <<chains, redis, listener, work>>

-----------------------------------------------------------------------------
(* AlephZeroEventsHandler: one task per batch, which runs one task per event *)

ReceiveBatch ==
    /\ "handler" \in alive
    /\ Queued # {}
    /\ batches' = [batches EXCEPT ![Min(Queued)].stage = "running"]
    /\ UNCHANGED <<chains, redis, listener, seals, history, supervision>>

Handling(i, e) ==
    /\ "handler" \in alive
    /\ i \in DOMAIN batches
    /\ batches[i].stage = "running"
    /\ e \in batches[i].todo

\* The transaction got its confirmations; handle_event then looks at the state again.
Vote(i, e) ==
    /\ Handling(i, e)
    /\ NeedsSignature(e) /\ votes[e] = "none"
    /\ votes' = [votes EXCEPT ![e] = "latest"]
    /\ UNCHANGED <<head, committee, redis, listener, work, supervision>>

\* handle_event returns Ok for an event that needs no vote in a finalized block, and so for
\* an event of a committee that is known in the latest block and in no finalized one.
EventDone(i, e) ==
    /\ Handling(i, e)
    /\ InCommittee(e)
    /\ ~NeedsSignature(e)
    /\ batches' = [batches EXCEPT ![i].todo = @ \ {e}]
    /\ overlooked' = IF e \in NewCommittee /\ committee = "latest"
                     THEN overlooked \cup {e} ELSE overlooked
    /\ UNCHANGED <<chains, redis, listener, seals, failed, supervision>>

\* handle_event returns an error: the circuit breaker is tripped, and the batch goes on.
HandleFails(i, e) ==
    /\ Handling(i, e)
    /\ Trip
    /\ failed' = failed \cup {e}
    /\ batches' = [batches EXCEPT ![i].todo = @ \ {e}]
    /\ UNCHANGED <<chains, redis, listener, seals, overlooked, up, alive>>

EventFails(i, e) == HandleFails(i, e) /\ Fault("event")

\* CommitteeIdMismatch: the request comes from a committee Ethereum does not know yet.
EventMismatch(i, e) == HandleFails(i, e) /\ ~InCommittee(e) /\ UNCHANGED faults

\* All tasks have been joined, whatever they returned.
AckBatch(i) ==
    /\ "handler" \in alive
    /\ batches[i].stage = "running" /\ batches[i].todo = {}
    /\ batches' = [batches EXCEPT ![i].stage = "acked"]
    /\ UNCHANGED <<chains, redis, listener, seals, history, supervision>>

\* Returning drops the JoinSet, and with it the senders of all acknowledgements.
HandlerObserves ==
    /\ Observe("handler")
    /\ batches' = [i \in DOMAIN batches |->
                      IF batches[i].stage \in {"queued", "running"}
                      THEN [batches[i] EXCEPT !.stage = "dropped"] ELSE batches[i]]
    /\ UNCHANGED <<chains, redis, listener, seals, history>>

-----------------------------------------------------------------------------
(* RedisManager *)

WriteSeal ==
    /\ "manager" \in alive
    /\ seals # <<>>
    /\ redis' = Head(seals) + 1
    /\ seals' = Tail(seals)
    /\ UNCHANGED <<chains, listener, batches, history, supervision>>

ManagerObserves ==
    /\ Observe("manager")
    /\ UNCHANGED <<chains, redis, listener, work>>

\* read_block_number: any error, a missing key among them, means the default.
ReadBlockNumber(cache) == IF cache = None THEN DefaultBlock ELSE cache

\* A run starts with new channels; the manager reads the cache and sends the number.
Run ==
    /\ Start
    /\ redis' = IF Override /\ ~up THEN DefaultBlock ELSE redis
    /\ \/ number' = ReadBlockNumber(redis') /\ UNCHANGED faults
       \/ number' = DefaultBlock /\ Fault("read")
    /\ Forget
    /\ UNCHANGED <<chains, history>>

Watch(t) ==
    /\ WatcherTrips(t) \/ (t \in Watchers /\ Observe(t))
    /\ UNCHANGED <<chains, redis, listener, work>>

ProcessCrashes ==
    /\ Crash
    /\ Forget /\ number' = None
    /\ UNCHANGED <<chains, redis, history>>

-----------------------------------------------------------------------------

Listener ==
    TakeNumber \/ FetchEvents \/ SendBatch \/ TakeAck \/ AckIsLost \/ PushSeal \/ ListenerObserves

Handler ==
    \/ ReceiveBatch \/ HandlerObserves
    \/ \E i \in DOMAIN batches :
          AckBatch(i) \/ \E e \in Events : Vote(i, e) \/ EventDone(i, e) \/ EventMismatch(i, e)

Manager == WriteSeal \/ ManagerObserves

Environment ==
    \/ NewBlock \/ ProcessCrashes \/ ClientError \/ InstallCommittee \/ FinalizeCommittee
    \/ \E e \in Events : OthersProcess(e) \/ Finalize(e) \/ Reorg(e)
    \/ \E i \in DOMAIN batches, e \in Events : EventFails(i, e)

Next == Listener \/ Handler \/ Manager \/ Environment \/ Run \/ \E t \in Watchers : Watch(t)

\* Tokio polls every task that is ready; a batch's tasks are independent of each other; a
\* started node produces blocks and Ethereum finalizes; main, or whoever restarts the
\* process, starts the next run.  No fault has to happen.
Fairness ==
    /\ WF_vars(Listener) /\ WF_vars(ListenerObserves)
    /\ WF_vars(ReceiveBatch) /\ WF_vars(HandlerObserves)
    /\ \A e \in Events :
          /\ WF_vars(\E i \in DOMAIN batches : Vote(i, e))
          /\ WF_vars(\E i \in DOMAIN batches : EventDone(i, e) \/ EventMismatch(i, e))
          /\ WF_vars(Finalize(e))
    /\ WF_vars(\E i \in DOMAIN batches : AckBatch(i))
    /\ WF_vars(WriteSeal) /\ WF_vars(ManagerObserves)
    /\ \A t \in Watchers : WF_vars(Observe(t) /\ UNCHANGED <<chains, redis, listener, work>>)
    /\ WF_vars(NewBlock) /\ WF_vars(FinalizeCommittee) /\ WF_vars(Run)

Spec == Init /\ [][Next]_vars /\ Fairness

-----------------------------------------------------------------------------
(* Properties *)

Stages == {"unsent", "queued", "running", "acked", "dropped"}

\* The type of the variables; the channel of seals holds at most one.
TypeOK ==
    /\ SupervisorType
    /\ head \in DefaultBlock .. MaxBlock
    /\ votes \in [Events -> {"none", "latest", "final"}]
    /\ committee \in {"none", "latest", "final"}
    /\ redis \in Nat \cup {None}
    /\ lst \in {"select", "waiting", "sending", "sealing"}
    /\ number \in Nat \cup {None}
    /\ next \in Nat /\ seal \in Nat
    /\ batches \in Seq([to : Nat, stage : Stages, todo : SUBSET Events])
    /\ seals \in Seq(Nat) /\ Len(seals) <= 1
    /\ failed \subseteq Events /\ overlooked \subseteq NewCommittee

Sealed(e) == redis # None /\ BlockOf[e] < redis

\* A block is sealed in redis only when each of its events needs no vote in a finalized
\* block of Ethereum, or its handler has reported an error, or the event's committee was so
\* new that no finalized block knew it: batches that overtake each other, reorganisations,
\* crashes and restarts at any point never seal an event that is still being handled.
SealedSettledUnlessFailed ==
    \A e \in Events : Sealed(e) => Settled(e) \/ e \in failed \cup overlooked

\* A block is sealed only when all its events are settled (relayer_hldd.md, line 54: the
\* relayer resumes "from the last successfully processed block").
SealedMeansSettled == \A e \in Events : Sealed(e) => Settled(e)

\* Tripping the circuit breaker leads to a reboot, not to the end of the process
\* (relayer_hldd.md, line 54: "returns control to the main thread").
BreakerNeverKills == [][up => up']_vars

\* If a change of the committee that has begun on Aleph Zero is carried out on Ethereum,
\* every event of a finalized block is eventually settled, reported as failed or overlooked
\* during that change, whatever faults happen, as long as they stop: no shutdown and no
\* restart leaves the listener, the handler and the manager waiting for each other.
EveryEventSettles ==
    <>(NewCommittee = {} \/ committee # "none") =>
        \A e \in Events : head >= BlockOf[e] ~> Settled(e) \/ e \in failed \cup overlooked

\* Whenever the circuit breaker is tripped, all tasks of the run end, also a listener
\* that waits for a block or for room in a channel, and a new run starts.
BreakerReboots == (\E t \in Tasks : cb[t] > 0) ~> (alive = Tasks /\ \A t \in Tasks : cb[t] = 0)

=============================================================================
