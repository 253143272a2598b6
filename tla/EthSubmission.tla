--------------------------- MODULE EthSubmission ---------------------------
(***************************************************************************)
(* How the votes of a guardian get into a block of Ethereum: the tasks of  *)
(* AlephZeroEventHandler::handle_event, one per request, which share the   *)
(* nonce manager and, behind a mutex, the connection to the signer.  A     *)
(* task that fails trips the circuit breaker; the handler then drops all   *)
(* tasks, wherever they are, and the next run begins with a new connection *)
(* and with the nonce the chain knows.  What the runs before it have sent  *)
(* is still in the mempool.                                                *)
(*                                                                         *)
(* Abstractions.  needsSignature is one flag per request: finality is the  *)
(* matter of AzeroToEthRelayer.  So is the cache: here every run is handed *)
(* all requests.  A transaction is the request it votes for, its nonce and *)
(* the chain id; the middleware has put the latter into every one.  The    *)
(* node accepts any nonce that is not used up, keeps one transaction per   *)
(* nonce and mines them in order.                                          *)
(***************************************************************************)
EXTENDS Signer, FiniteSets

CONSTANTS
    Requests,     \* the requests that are handed to the handler
    ChainId,      \* the chain id of the provider
    None,
    FaultKinds,   \* the kinds of faults that may happen
    MaxFaults     \* bound on their number

ASSUME SubmissionAssumption ==
    /\ ChainId # NoChain
    /\ None \notin Requests
    /\ MaxFaults \in Nat

VARIABLES
    signed,    \* requests the contract needs no vote of this guardian for
    mined,     \* the guardian's transactions in blocks, by nonce from 0: the request of each, None if it reverted
    pool,      \* the guardian's transactions in the mempool
    nonce,     \* NonceManagerMiddleware
    task,      \* where the task of each request is
    taken,     \* the nonce of the task's transaction
    signature, \* the signature the task's transaction is sent with
    holder,    \* the task that holds the mutex of the signer's client
    tripped,   \* the circuit breaker of this run
    faults     \* number of faults so far

chain == <<signed, mined, pool>>
vars == <<stream, chain, nonce, task, taken, signature, holder, tripped, faults>>

Ended == {"done", "failed", "aborted"}
Unfinished == {r \in Requests : task[r] \notin Ended}

Tx(r) == [request |-> r, nonce |-> taken[r], chain_id |-> ChainId]

\* The account's nonce in the latest block.
Account == Len(mined)

Fault(kind) ==
    /\ kind \in FaultKinds
    /\ faults < MaxFaults
    /\ faults' = faults + 1

Init ==
    /\ commands = <<>> /\ responses = <<>> /\ closed = FALSE
    /\ signed = {} /\ mined = <<>> /\ pool = {}
    /\ nonce = 0
    /\ task = [r \in Requests |-> "start"]
    /\ taken = [r \in Requests |-> 0]
    /\ signature = [r \in Requests |-> None]
    /\ holder = None
    /\ tripped = FALSE
    /\ faults = 0

-----------------------------------------------------------------------------
(* Ethereum *)

\* A block takes the transaction whose turn it is.  The contract ignores a vote it does
\* not need; the transaction succeeds all the same.
Mine ==
    \E tx \in pool :
        /\ tx.nonce = Account
        /\ mined' = Append(mined, tx.request)
        /\ pool' = pool \ {tx}
        /\ signed' = signed \cup {tx.request}
        /\ UNCHANGED <<stream, nonce, task, taken, signature, holder, tripped, faults>>

\* The transaction reverts, in spite of the dry run: the contract was paused in between, or
\* the payout fails by now.  Its nonce is used up.
MineReverted ==
    /\ Fault("revert")
    /\ \E tx \in pool :
          /\ tx.nonce = Account
          /\ mined' = Append(mined, None)
          /\ pool' = pool \ {tx}
    /\ UNCHANGED <<stream, signed, nonce, task, taken, signature, holder, tripped>>

OthersProcess(r) ==
    /\ r \notin signed
    /\ signed' = signed \cup {r}
    /\ UNCHANGED <<stream, mined, pool, nonce, task, taken, signature, holder, tripped, faults>>

\* The mempool is full, or the node restarts.
Evict ==
    /\ Fault("evict")
    /\ \E tx \in pool : pool' = pool \ {tx}
    /\ UNCHANGED <<stream, signed, mined, nonce, task, taken, signature, holder, tripped>>

-----------------------------------------------------------------------------
(* handle_event *)

Goto(r, pc) == task' = [task EXCEPT ![r] = pc]

\* Mutant: the error of a task is only logged.
Quiet_Fail(r) == Goto(r, "failed") /\ UNCHANGED tripped

\* handle_event returns an error; the task of the batch joins it and trips the breaker.
Fail(r) == Goto(r, "failed") /\ tripped' = TRUE

\* Signed { finalized: true }
NoLongerNeeded(r) ==
    /\ task[r] = "start"
    /\ r \in signed
    /\ Goto(r, "done")
    /\ UNCHANGED <<stream, chain, nonce, taken, signature, holder, tripped, faults>>

\* NeedSignature: the dry run passes, and the call is given the next nonce.
NextNonce(r) ==
    /\ task[r] = "start"
    /\ r \notin signed
    /\ taken' = [taken EXCEPT ![r] = nonce]
    /\ nonce' = nonce + 1
    /\ Goto(r, "numbered")
    /\ UNCHANGED <<stream, chain, signature, holder, tripped, faults>>

\* The dry run fails, or, with the nonce taken, filling in the transaction.
RpcFails(r) ==
    /\ task[r] \in {"start", "numbered"}
    /\ Fault("rpc")
    /\ Fail(r)
    /\ UNCHANGED <<stream, chain, nonce, taken, signature, holder>>

\* EthVsockSigner::sign_transaction: lock the client and send the command.
AskSigner(r) ==
    /\ task[r] = "numbered"
    /\ holder = None
    /\ \/ /\ SendSignEthTx(Tx(r))
          /\ holder' = r
          /\ Goto(r, "asking")
          /\ UNCHANGED tripped
       \/ /\ closed
          /\ Fail(r)
          /\ UNCHANGED <<stream, holder>>
    /\ UNCHANGED <<chain, nonce, taken, signature, faults>>

\* The next response, whoever it is for; the lock is released in any case.
HearSigner(r) ==
    /\ holder = r
    /\ holder' = None
    /\ \/ /\ TakeResponse
          /\ IF IsResponseTo(Head(responses), Tx(r))
             THEN /\ Goto(r, "signed")
                  /\ signature' = [signature EXCEPT ![r] = Head(responses).signature]
                  /\ UNCHANGED tripped
             ELSE Fail(r) /\ UNCHANGED signature
       \/ /\ responses = <<>> /\ closed
          /\ Fail(r)
          /\ UNCHANGED <<stream, signature>>
    /\ UNCHANGED <<chain, nonce, taken, faults>>

Pooled(n) == {tx \in pool : tx.nonce = n}

\* send_raw_transaction.  It may be that gas has become so much more expensive that the
\* transaction replaces another one.
Send(r) ==
    /\ task[r] = "signed"
    /\ taken[r] >= Account
    /\ pool' = (pool \ Pooled(taken[r])) \cup {Tx(r)}
    /\ Goto(r, "pending")
    /\ UNCHANGED <<stream, signed, mined, nonce, taken, signature, holder, tripped, faults>>

\* As a rule, a transaction in the place of another one, or the same one again, is refused.
Refused(r) ==
    /\ task[r] = "signed"
    /\ taken[r] < Account \/ Pooled(taken[r]) # {}
    /\ Fail(r)
    /\ UNCHANGED <<stream, chain, nonce, taken, signature, holder, faults>>

\* The answer to send_raw_transaction is lost, and perhaps the transaction with it.
SendFails(r) ==
    /\ task[r] = "signed"
    /\ Fault("send")
    /\ Fail(r)
    /\ pool' \in {pool} \cup IF taken[r] >= Account /\ Pooled(taken[r]) = {}
                             THEN {pool \cup {Tx(r)}} ELSE {}
    /\ UNCHANGED <<stream, signed, mined, nonce, taken, signature, holder>>

Confirmed(r) == taken[r] < Account /\ mined[taken[r] + 1] = r

\* The receipt, after which the task looks at the contract again; an error when the
\* transaction reverted or is, even after some retries, neither in a block nor in the mempool.
Receipt(r) ==
    /\ task[r] = "pending"
    /\ \/ Confirmed(r) /\ Goto(r, "start") /\ UNCHANGED tripped
       \/ ~Confirmed(r) /\ Tx(r) \notin pool /\ Fail(r)
    /\ UNCHANGED <<stream, chain, nonce, taken, signature, holder, faults>>

-----------------------------------------------------------------------------
(* The runs of the relayer *)

\* Another component trips the circuit breaker.
OthersTrip ==
    /\ ~tripped
    /\ Fault("trip")
    /\ tripped' = TRUE
    /\ UNCHANGED <<stream, chain, nonce, task, taken, signature, holder>>

\* The handler has returned and its JoinSets are dropped: the tasks are cancelled where
\* they wait, each at a moment of its own.  What is in the stream stays there.
Abort(r) ==
    /\ tripped
    /\ r \in Unfinished
    /\ Goto(r, "aborted")
    /\ holder' = IF holder = r THEN None ELSE holder
    /\ UNCHANGED <<stream, chain, nonce, taken, signature, tripped, faults>>

\* The process dies.
Crash ==
    /\ ~tripped
    /\ Fault("crash")
    /\ tripped' = TRUE
    /\ task' = [r \in Requests |-> "aborted"]
    /\ holder' = None
    /\ UNCHANGED <<stream, chain, nonce, taken, signature>>

\* Mutant: the nonce manager is kept for all runs, as the gas escalator is.
Shared_InitializeNonce == nonce
\* with_nonce_manager
InitializeNonce == Account

\* run_relayer: with_signer connects and asks for the address, then reads the nonce.
Run ==
    /\ tripped
    /\ Unfinished = {}
    /\ tripped' = FALSE
    /\ Connect
    /\ nonce' = InitializeNonce
    /\ task' = [r \in Requests |-> "start"]
    /\ taken' = [r \in Requests |-> 0]
    /\ signature' = [r \in Requests |-> None]
    /\ UNCHANGED <<chain, holder, faults>>

ServerFails ==
    /\ Fault("signer")
    /\ HandleClientFails
    /\ UNCHANGED <<chain, nonce, task, taken, signature, holder, tripped>>

Serve ==
    /\ HandleClient
    /\ UNCHANGED <<chain, nonce, task, taken, signature, holder, tripped, faults>>

-----------------------------------------------------------------------------

Step(r) ==
    \/ NoLongerNeeded(r) \/ NextNonce(r) \/ AskSigner(r) \/ HearSigner(r)
    \/ Send(r) \/ Refused(r) \/ Receipt(r)

Next ==
    \/ \E r \in Requests :
          Step(r) \/ Abort(r) \/ RpcFails(r) \/ SendFails(r) \/ OthersProcess(r)
    \/ Serve \/ Mine \/ Run
    \/ MineReverted \/ Evict \/ OthersTrip \/ Crash \/ ServerFails

\* Tokio polls every task that is ready and its mutex is fair; the signer answers, blocks
\* take the transactions whose turn it is, and main starts the next run.  No fault and no
\* vote of another guardian has to happen.
Fairness ==
    /\ \A r \in Requests : WF_vars(Step(r)) /\ WF_vars(Abort(r))
    /\ WF_vars(Serve) /\ WF_vars(Mine) /\ WF_vars(Run)

Spec == Init /\ [][Next]_vars /\ Fairness

-----------------------------------------------------------------------------
(* Properties *)

\* No transaction goes out with the signature of another one: the response to a task that
\* was cancelled with its command in the stream is never taken for the response to the next
\* task that locks the client (signer_client, sign_eth_tx).
SignedAsAsked ==
    \A r \in Requests : task[r] \in {"signed", "pending"} => signature[r] = Tx(r)

\* As long as the breaker holds, every nonce that has been given out and is not used up has
\* a task that still works on it, also when its transaction is in the mempool, from where it
\* may be lost: a nonce lost with a failed task blocks every later vote of this guardian, so
\* that it must end the run.
NoSilentGap ==
    ~tripped => \A n \in Account .. nonce - 1 :
                   \E r \in Unfinished : task[r] # "start" /\ taken[r] = n

\* Whatever is lost on the way, the vote on every request ends up in a block or is no longer
\* needed, with one exception: run after run may end because a transaction is refused for the
\* sake of one that an earlier run has left in the mempool behind a gap, before the task with
\* the nonce of the gap gets as far as sending.
EveryVoteLands ==
    \A r \in Requests : <>(r \in signed) \/ []<><<\E q \in Requests : Refused(q)>>_vars

=============================================================================
