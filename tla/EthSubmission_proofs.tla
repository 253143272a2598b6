------------------------ MODULE EthSubmission_proofs ------------------------
(***************************************************************************)
(* Proofs about EthSubmission, for any number of requests and of faults:   *)
(* no transaction is sent with the signature of another one, and no nonce  *)
(* is lost in silence.                                                     *)
(***************************************************************************)
EXTENDS EthSubmission, SequenceTheorems, TLAPS

Stages == {"start", "numbered", "asking", "signed", "pending"} \cup Ended

Txs == [request : Requests, nonce : Nat, chain_id : {ChainId, NoChain}]
Commands == [tx : Txs, chain_id : {ChainId}]

\* A response carries the transaction of its command, and the signature is for that one.
Responses ==
    {response \in [tx : Txs, chain_id : {ChainId}, signature : Txs] :
        [response.tx EXCEPT !.chain_id = response.chain_id] = response.signature}

\* The types of the variables that matter, flags apart.
Types ==
    /\ commands \in Seq(Commands) /\ responses \in Seq(Responses)
    /\ mined \in Seq(Requests \cup {None}) /\ pool \in SUBSET Txs
    /\ nonce \in Nat
    /\ task \in [Requests -> Stages]
    /\ taken \in [Requests -> Nat]
    /\ signature \in [Requests -> Txs \cup {None}]
    /\ holder \in Requests \cup {None}

LEMMA TxType ==
    ASSUME Types, NEW r \in Requests
    PROVE  Tx(r) \in Txs /\ Tx(r).chain_id = ChainId
  BY DEF Types, Tx, Txs

LEMMA Served ==
    ASSUME NEW command \in Commands
    PROVE  LET tx == [command.tx EXCEPT !.chain_id = command.chain_id]
           IN  [tx |-> Serialize(tx), chain_id |-> command.chain_id, signature |-> tx] \in Responses
<1> DEFINE tx == [command.tx EXCEPT !.chain_id = command.chain_id]
<1>1. command.tx \in Txs /\ command.chain_id = ChainId
  BY DEF Commands
<1>2. tx \in Txs /\ tx.chain_id = ChainId
  BY <1>1 DEF Txs
<1> HIDE DEF tx
<1>3. Serialize(tx) \in Txs /\ [Serialize(tx) EXCEPT !.chain_id = ChainId] = tx
  BY <1>2 DEF Serialize, Txs
<1> DEFINE response == [tx |-> Serialize(tx), chain_id |-> command.chain_id, signature |-> tx]
<1>4. /\ response \in [tx : Txs, chain_id : {ChainId}, signature : Txs]
      /\ response.tx = Serialize(tx) /\ response.chain_id = ChainId /\ response.signature = tx
  BY <1>1, <1>2, <1>3
<1> HIDE DEF response
<1>5. response \in Responses
  BY <1>3, <1>4 DEF Responses
<1> QED BY <1>5 DEF response, tx

LEMMA Asked ==
    ASSUME NEW tx \in Txs, tx.chain_id = ChainId
    PROVE  [tx |-> Serialize(tx), chain_id |-> tx.chain_id] \in Commands
  BY DEF Commands, Serialize, Txs

LEMMA TypesInit == Init => Types
  BY EmptySeq DEF Init, Types, Stages

LEMMA TypesStep ==
    ASSUME Types, [Next]_vars
    PROVE  Types'
<1>e. \A S : <<>> \in Seq(S)
  BY EmptySeq
<1> USE DEF Types, Stages, Ended, stream, chain, Goto, Fail
<1>1. CASE Mine
  <2>1. PICK tx \in pool : mined' = Append(mined, tx.request) /\ pool' = pool \ {tx}
    BY <1>1 DEF Mine
  <2>2. tx.request \in Requests
    BY <2>1 DEF Txs
  <2>3. mined' \in Seq(Requests \cup {None})
    BY <2>1, <2>2, AppendProperties
  <2> QED BY <1>1, <2>1, <2>3 DEF Mine
<1>r. CASE MineReverted
  <2>1. mined' \in Seq(Requests \cup {None})
    BY <1>r, AppendProperties DEF MineReverted
  <2> QED BY <1>r, <2>1 DEF MineReverted
<1>2. ASSUME NEW r \in Requests, OthersProcess(r) PROVE Types'
  BY <1>2 DEF OthersProcess
<1>3. CASE Evict
  BY <1>3 DEF Evict
<1>4. ASSUME NEW r \in Requests, NoLongerNeeded(r) PROVE Types'
  BY <1>4 DEF NoLongerNeeded
<1>5. ASSUME NEW r \in Requests, NextNonce(r) PROVE Types'
  BY <1>5 DEF NextNonce
<1>6. ASSUME NEW r \in Requests, RpcFails(r) PROVE Types'
  BY <1>6 DEF RpcFails
<1>7. ASSUME NEW r \in Requests, AskSigner(r) PROVE Types'
  <2>1. CASE SendSignEthTx(Tx(r)) /\ holder' = r /\ Goto(r, "asking")
    <3> DEFINE command == [tx |-> Serialize(Tx(r)), chain_id |-> Tx(r).chain_id]
    <3>1. command \in Commands
      BY TxType, Asked
    <3>2. commands' = Append(commands, command) /\ responses' = responses
      BY <2>1 DEF SendSignEthTx
    <3> HIDE DEF command
    <3>3. commands' \in Seq(Commands)
      BY <3>1, <3>2, AppendProperties
    <3> QED BY <1>7, <2>1, <3>2, <3>3 DEF AskSigner
  <2>2. CASE Fail(r) /\ UNCHANGED <<stream, holder>>
    BY <1>7, <2>2 DEF AskSigner
  <2> QED BY <1>7, <2>1, <2>2 DEF AskSigner
<1>8. ASSUME NEW r \in Requests, HearSigner(r) PROVE Types'
  <2>1. CASE TakeResponse
    <3>1. /\ responses' = Tail(responses) /\ commands' = commands
          /\ Head(responses) \in Responses /\ Tail(responses) \in Seq(Responses)
      BY <2>1, HeadTailProperties DEF TakeResponse
    <3>2. Head(responses).signature \in Txs
      BY <3>1 DEF Responses
    <3>3. signature' \in [Requests -> Txs \cup {None}] /\ task' \in [Requests -> Stages]
      BY <1>8, <2>1, <3>2 DEF HearSigner, TakeResponse
    <3> QED BY <1>8, <3>1, <3>3 DEF HearSigner
  <2>2. CASE Fail(r) /\ UNCHANGED <<stream, signature>>
    BY <1>8, <2>2 DEF HearSigner
  <2> QED BY <1>8, <2>1, <2>2 DEF HearSigner
<1>9. ASSUME NEW r \in Requests, Send(r) PROVE Types'
  <2>1. pool' \in SUBSET Txs
    BY <1>9, TxType DEF Send
  <2> QED BY <1>9, <2>1 DEF Send
<1>10. ASSUME NEW r \in Requests, Refused(r) PROVE Types'
  BY <1>10 DEF Refused
<1>11. ASSUME NEW r \in Requests, SendFails(r) PROVE Types'
  <2>1. pool' \in SUBSET Txs
    BY <1>11, TxType DEF SendFails
  <2> QED BY <1>11, <2>1 DEF SendFails
<1>12. ASSUME NEW r \in Requests, Receipt(r) PROVE Types'
  BY <1>12 DEF Receipt
<1>13. CASE OthersTrip
  BY <1>13 DEF OthersTrip
<1>14. ASSUME NEW r \in Requests, Abort(r) PROVE Types'
  BY <1>14 DEF Abort
<1>15. CASE Crash
  BY <1>15 DEF Crash
<1>16. CASE Run
  <2>1. nonce' \in Nat
    BY <1>16, LenProperties DEF Run, InitializeNonce, Account
  <2> QED BY <1>16, <1>e, <2>1 DEF Run, Connect
<1>17. CASE ServerFails
  BY <1>17 DEF ServerFails, HandleClientFails
<1>18. CASE Serve
  <2>1. Head(commands) \in Commands /\ Tail(commands) \in Seq(Commands)
    BY <1>18, HeadTailProperties DEF Serve, HandleClient
  <2>2. PICK response \in Responses : responses' = Append(responses, response)
    BY <1>18, <2>1, Served DEF Serve, HandleClient
  <2>3. responses' \in Seq(Responses)
    BY <2>2, AppendProperties
  <2> QED BY <1>18, <2>1, <2>3 DEF Serve, HandleClient
<1>19. CASE UNCHANGED vars
  BY <1>19 DEF vars
<1> QED
  BY <1>1, <1>r, <1>2, <1>3, <1>4, <1>5, <1>6, <1>7, <1>8, <1>9, <1>10, <1>11, <1>12, <1>13, <1>14,
     <1>15, <1>16, <1>17, <1>18, <1>19
     DEF Next, Step

\* The types of what is in the stream, in the mempool and in the tasks are invariant.
THEOREM TypesInvariant == Spec => []Types
  BY TypesInit, TypesStep, PTL DEF Spec

-----------------------------------------------------------------------------
(* Signatures *)

\* The comparison of the client: the response is to the task's own command, and so is the
\* signature.
LEMMA MatchingSignature ==
    ASSUME NEW response \in Responses, NEW tx, IsResponseTo(response, tx)
    PROVE  response.signature = tx
  BY DEF IsResponseTo, Responses

\* The steps that sign nothing, and leave the nonces of signed transactions alone.
LEMMA SameSignatures ==
    ASSUME SignedAsAsked, UNCHANGED signature,
           \A r \in Requests : task'[r] \in {"signed", "pending"} =>
               task[r] \in {"signed", "pending"} /\ taken'[r] = taken[r]
    PROVE  SignedAsAsked'
  BY DEF SignedAsAsked, Tx

LEMMA SignedStep ==
    ASSUME Types, SignedAsAsked, [Next]_vars
    PROVE  SignedAsAsked'
<1> DEFINE Kept == \A r \in Requests : task'[r] \in {"signed", "pending"} =>
                       task[r] \in {"signed", "pending"} /\ taken'[r] = taken[r]
<1> USE DEF Types, Goto, Fail
<1>1. CASE UNCHANGED <<task, taken, signature>>
  BY <1>1, SameSignatures
<1>2. ASSUME NEW r \in Requests, NEW pc \in {"start", "numbered", "asking", "pending"} \cup Ended,
             Goto(r, pc), pc = "pending" => task[r] = "signed",
             UNCHANGED <<taken, signature>>
      PROVE  SignedAsAsked'
  BY <1>2, SameSignatures DEF Ended
<1>3. ASSUME NEW r \in Requests, NextNonce(r) PROVE SignedAsAsked'
  <2>1. Kept /\ UNCHANGED signature
    BY <1>3 DEF NextNonce
  <2> QED BY <2>1, SameSignatures
<1>4. ASSUME NEW r \in Requests, HearSigner(r) PROVE SignedAsAsked'
  <2>1. CASE TakeResponse /\ IsResponseTo(Head(responses), Tx(r))
    <3>1. Head(responses) \in Responses
      BY <2>1, HeadTailProperties DEF TakeResponse
    <3>2. Head(responses).signature = Tx(r)
      BY <2>1, <3>1, MatchingSignature
    <3>3. /\ Goto(r, "signed") /\ taken' = taken
          /\ signature' = [signature EXCEPT ![r] = Tx(r)]
      BY <1>4, <2>1, <3>2 DEF HearSigner, TakeResponse
    <3> QED BY <3>3 DEF SignedAsAsked, Tx
  <2>2. CASE Fail(r) /\ UNCHANGED signature
    BY <1>2, <1>4, <2>2 DEF HearSigner, Ended
  <2> QED BY <1>4, <2>1, <2>2 DEF HearSigner
<1>5. ASSUME NEW r \in Requests, AskSigner(r) PROVE SignedAsAsked'
  BY <1>2, <1>5 DEF AskSigner, Ended
<1>6. ASSUME NEW r \in Requests,
             NoLongerNeeded(r) \/ RpcFails(r) \/ Refused(r) \/ SendFails(r) \/ Abort(r)
      PROVE  SignedAsAsked'
  BY <1>2, <1>6 DEF NoLongerNeeded, RpcFails, Refused, SendFails, Abort, Ended
<1>7. ASSUME NEW r \in Requests, Send(r) \/ Receipt(r) PROVE SignedAsAsked'
  BY <1>2, <1>7 DEF Send, Receipt, Ended
<1>8. CASE Crash \/ Run
  <2>1. \A r \in Requests : task'[r] \notin {"signed", "pending"}
    BY <1>8 DEF Crash, Run
  <2> QED BY <2>1 DEF SignedAsAsked
<1>9. CASE Serve \/ Mine \/ MineReverted \/ Evict \/ OthersTrip \/ ServerFails \/ UNCHANGED vars
           \/ \E r \in Requests : OthersProcess(r)
  BY <1>1, <1>9 DEF Serve, Mine, MineReverted, Evict, OthersTrip, ServerFails, vars, OthersProcess
<1> QED BY <1>3, <1>4, <1>5, <1>6, <1>7, <1>8, <1>9 DEF Next, Step

\* Whatever responses cancelled tasks have left in the stream, a transaction is sent with
\* the signature that was made for it.
THEOREM SignedTheorem == Spec => []SignedAsAsked
<1>1. Init => SignedAsAsked
  BY DEF Init, SignedAsAsked
<1>2. Types /\ SignedAsAsked /\ [Next]_vars => SignedAsAsked'
  BY SignedStep
<1> QED BY <1>1, <1>2, TypesInvariant, PTL DEF Spec

-----------------------------------------------------------------------------
(* Nonces *)

Working(r) == task[r] \notin Ended /\ task[r] # "start"

\* A task that works on a nonce that is not used up goes on with it.
LEMMA WorkersGoOn ==
    ASSUME Types, NoSilentGap, ~tripped' => ~tripped, nonce' = nonce,
           Account' \in Nat, Account' >= Account,
           ~tripped' => \A r \in Requests : Working(r) /\ taken[r] >= Account' =>
                           Working(r)' /\ taken'[r] = taken[r]
    PROVE  NoSilentGap'
<1> SUFFICES ASSUME ~tripped', NEW n \in Account' .. nonce - 1
             PROVE  \E r \in Unfinished' : task'[r] # "start" /\ taken'[r] = n
  BY DEF NoSilentGap
<1>1. Account \in Nat /\ nonce \in Nat
  BY LenProperties DEF Types, Account
<1>2. n \in Account .. nonce - 1 /\ n >= Account'
  BY <1>1, SMT
<1>3. PICK r \in Unfinished : task[r] # "start" /\ taken[r] = n
  BY <1>2 DEF NoSilentGap
<1>4. r \in Requests /\ Working(r) /\ taken[r] >= Account'
  BY <1>2, <1>3 DEF Unfinished, Working
<1>5. Working(r)' /\ taken'[r] = taken[r]
  BY <1>4
<1> QED BY <1>3, <1>4, <1>5 DEF Working, Unfinished

LEMMA GapStep ==
    ASSUME Types, NoSilentGap, [Next]_vars
    PROVE  NoSilentGap'
<1>a. Account \in Nat /\ nonce \in Nat
  BY LenProperties DEF Types, Account
<1>s. mined' = mined => Account' \in Nat /\ Account' >= Account /\ Account' = Account
  BY <1>a, SMT DEF Account
<1> USE DEF Goto, Fail, chain, stream
<1>1. CASE Mine
  <2>1. PICK tx \in pool : mined' = Append(mined, tx.request)
    BY <1>1 DEF Mine
  <2>2. Account' = Account + 1
    <3>1. tx.request \in Requests
      BY <2>1 DEF Types, Txs
    <3> QED BY <2>1, <3>1, AppendProperties DEF Types, Account
  <2>3. Account' \in Nat /\ Account' >= Account
    BY <1>a, <2>2, SMT
  <2>4. UNCHANGED <<nonce, task, taken, tripped>>
    BY <1>1 DEF Mine
  <2> QED BY <2>3, <2>4, WorkersGoOn DEF Working
<1>r. CASE MineReverted
  <2>1. UNCHANGED <<nonce, task, taken, tripped>> /\ mined' = Append(mined, None)
    BY <1>r DEF MineReverted
  <2>2. Account' = Account + 1
    BY <2>1, AppendProperties DEF Types, Account
  <2>3. Account' \in Nat /\ Account' >= Account
    BY <1>a, <2>2, SMT
  <2> QED BY <2>1, <2>3, WorkersGoOn DEF Working
<1>2. CASE Serve \/ Evict \/ ServerFails \/ UNCHANGED vars \/ \E r \in Requests : OthersProcess(r)
  <2>1. UNCHANGED <<nonce, task, taken, tripped, mined>>
    BY <1>2 DEF Serve, Evict, ServerFails, vars, OthersProcess
  <2> QED BY <1>s, <2>1, WorkersGoOn DEF Working
<1>3. CASE OthersTrip \/ Crash
  <2>1. tripped' = TRUE
    BY <1>3 DEF OthersTrip, Crash
  <2> QED BY <2>1 DEF NoSilentGap
<1>4. ASSUME NEW r \in Requests, Fail(r) PROVE NoSilentGap'
  BY <1>4 DEF NoSilentGap
<1>5. ASSUME NEW r \in Requests, Abort(r) PROVE NoSilentGap'
  BY <1>5 DEF Abort, NoSilentGap
<1>6. CASE Run
  <2>1. Account' = Account /\ nonce' = Account'
    BY <1>6 DEF Run, InitializeNonce, Account
  <2>2. Account' .. nonce' - 1 = {}
    BY <1>a, <2>1, SMT
  <2> QED BY <2>2 DEF NoSilentGap
<1>7. ASSUME NEW r \in Requests, NEW pc \in Stages, Goto(r, pc), UNCHANGED <<tripped, mined, nonce, taken>>,
             Working(r) /\ taken[r] >= Account => pc \notin Ended \cup {"start"}
      PROVE  NoSilentGap'
  <2>1. ASSUME NEW q \in Requests, Working(q), taken[q] >= Account' PROVE Working(q)' /\ taken'[q] = taken[q]
    BY <1>7, <1>s, <2>1 DEF Working, Types
  <2> QED BY <1>7, <1>s, <2>1, WorkersGoOn
<1>8. ASSUME NEW r \in Requests, NoLongerNeeded(r) PROVE NoSilentGap'
  <2>1. Goto(r, "done") /\ UNCHANGED <<tripped, mined, nonce, taken>> /\ ~Working(r)
    BY <1>8 DEF NoLongerNeeded, Working
  <2> QED BY <1>7, <2>1 DEF Stages, Ended
<1>9. ASSUME NEW r \in Requests, NextNonce(r) PROVE NoSilentGap'
  <2>1. /\ nonce' = nonce + 1 /\ task[r] = "start" /\ UNCHANGED <<tripped, mined>>
        /\ task' = [task EXCEPT ![r] = "numbered"] /\ taken' = [taken EXCEPT ![r] = nonce]
    BY <1>9 DEF NextNonce
  <2> SUFFICES ASSUME ~tripped', NEW n \in Account' .. nonce' - 1
               PROVE  \E q \in Unfinished' : task'[q] # "start" /\ taken'[q] = n
    BY DEF NoSilentGap
  <2>2. CASE n = nonce
    <3>1. task'[r] = "numbered" /\ taken'[r] = n /\ r \in Unfinished'
      BY <2>1, <2>2 DEF Types, Unfinished, Ended
    <3> QED BY <3>1
  <2>3. CASE n # nonce
    <3>1. n \in Account .. nonce - 1
      BY <1>a, <1>s, <2>1, <2>3, SMT
    <3>2. PICK q \in Unfinished : task[q] # "start" /\ taken[q] = n
      BY <2>1, <3>1 DEF NoSilentGap
    <3>3. q # r /\ q \in Requests
      BY <2>1, <3>2 DEF Unfinished
    <3>4. task'[q] = task[q] /\ taken'[q] = taken[q]
      BY <2>1, <3>3 DEF Types
    <3> QED BY <3>2, <3>4 DEF Unfinished
  <2> QED BY <2>2, <2>3
<1>10. ASSUME NEW r \in Requests, AskSigner(r) PROVE NoSilentGap'
  <2>1. CASE Goto(r, "asking") /\ UNCHANGED tripped
    <3>1. UNCHANGED <<mined, nonce, taken>>
      BY <1>10 DEF AskSigner
    <3> QED BY <1>7, <2>1, <3>1 DEF Stages, Ended
  <2>2. CASE Fail(r)
    BY <1>4, <2>2
  <2> QED BY <1>10, <2>1, <2>2 DEF AskSigner
<1>11. ASSUME NEW r \in Requests, HearSigner(r) PROVE NoSilentGap'
  <2>1. CASE Goto(r, "signed") /\ UNCHANGED tripped
    <3>1. UNCHANGED <<mined, nonce, taken>>
      BY <1>11 DEF HearSigner
    <3> QED BY <1>7, <2>1, <3>1 DEF Stages, Ended
  <2>2. CASE Fail(r)
    BY <1>4, <2>2
  <2> QED BY <1>11, <2>1, <2>2 DEF HearSigner
<1>12. ASSUME NEW r \in Requests, Send(r) PROVE NoSilentGap'
  <2>1. Goto(r, "pending") /\ UNCHANGED <<tripped, mined, nonce, taken>>
    BY <1>12 DEF Send
  <2> QED BY <1>7, <2>1 DEF Stages, Ended
<1>13. ASSUME NEW r \in Requests, Receipt(r) PROVE NoSilentGap'
  <2>1. CASE Confirmed(r) /\ Goto(r, "start") /\ UNCHANGED tripped
    <3>1. UNCHANGED <<mined, nonce, taken>>
      BY <1>13 DEF Receipt
    <3>2. ~(taken[r] >= Account)
      BY <1>a, <2>1, SMT DEF Confirmed, Types
    <3> QED BY <1>7, <2>1, <3>1, <3>2 DEF Stages
  <2>2. CASE Fail(r)
    BY <1>4, <2>2
  <2> QED BY <1>13, <2>1, <2>2 DEF Receipt
<1>14. ASSUME NEW r \in Requests, RpcFails(r) \/ Refused(r) \/ SendFails(r) PROVE NoSilentGap'
  BY <1>4, <1>14 DEF RpcFails, Refused, SendFails
<1> QED
  BY <1>1, <1>r, <1>2, <1>3, <1>5, <1>6, <1>8, <1>9, <1>10, <1>11, <1>12, <1>13, <1>14 DEF Next, Step

\* As long as no failure has been reported, every nonce that was given out and is not used
\* up is that of a task at work.
THEOREM GapTheorem == Spec => []NoSilentGap
<1>1. Init => NoSilentGap
  <2> SUFFICES ASSUME Init PROVE NoSilentGap
    OBVIOUS
  <2>1. Account = 0 /\ nonce = 0
    BY EmptySeq DEF Init, Account
  <2>2. Account .. nonce - 1 = {}
    BY <2>1, SMT
  <2> QED BY <2>2 DEF NoSilentGap
<1>2. Types /\ NoSilentGap /\ [Next]_vars => NoSilentGap'
  BY GapStep
<1> QED BY <1>1, <1>2, TypesInvariant, PTL DEF Spec
=============================================================================
