------------------------------- MODULE Signer -------------------------------
(***************************************************************************)
(* A connection to the signer: the process in the enclave that holds the   *)
(* keys, and the client the relayer reaches it with.  A command and its    *)
(* response travel over one stream in each direction; nothing but their    *)
(* order says which response belongs to which command, so that a caller    *)
(* who gives up between the two leaves a response behind for the next one. *)
(*                                                                         *)
(* The command that matters is SignEthTx; the others have no payload, or   *)
(* one that is compared in the same way.  A signature is the transaction   *)
(* it was made for.                                                        *)
(***************************************************************************)
EXTENDS Naturals, Sequences

CONSTANT NoChain   \* the chain id of a transaction that has none

VARIABLES
    commands,    \* sent by the client, not yet read by the server
    responses,   \* sent by the server, not yet read by the client
    closed       \* the server has dropped the connection

stream == <<commands, responses, closed>>

\* Client::new: a new stream, on which the server has a new task.
Connect ==
    /\ commands' = <<>>
    /\ responses' = <<>>
    /\ closed' = FALSE

\* serde leaves out the chain id of a transaction.
Serialize(tx) == [tx EXCEPT !.chain_id = NoChain]

\* The first half of sign_eth_tx: send the transaction and, apart from it, its chain id.
SendSignEthTx(tx) ==
    /\ ~closed
    /\ commands' = Append(commands, [tx |-> Serialize(tx), chain_id |-> tx.chain_id])
    /\ UNCHANGED <<responses, closed>>

\* do_handle_client: one command after the other.
HandleClient ==
    /\ ~closed
    /\ commands # <<>>
    /\ LET command == Head(commands)
           tx == [command.tx EXCEPT !.chain_id = command.chain_id]
       IN  responses' = Append(responses, [tx |-> Serialize(tx), chain_id |-> command.chain_id,
                                           signature |-> tx])
    /\ commands' = Tail(commands)
    /\ UNCHANGED closed

\* An error, of the wallet or of the stream, ends the server's task.
HandleClientFails ==
    /\ ~closed
    /\ closed' = TRUE
    /\ UNCHANGED <<commands, responses>>

\* Mutant: any response to a SignEthTx will do.
Trusting_IsResponseTo(response, tx) == TRUE

\* The second half of sign_eth_tx: the chain id is put back before the comparison.
IsResponseTo(response, tx) == [response.tx EXCEPT !.chain_id = response.chain_id] = tx

\* recv
TakeResponse ==
    /\ responses # <<>>
    /\ responses' = Tail(responses)
    /\ UNCHANGED <<commands, closed>>

=============================================================================
