---------------------- MODULE AzeroToEthRelayer_proofs ----------------------
(***************************************************************************)
(* Proofs about AzeroToEthRelayer, for every log of Aleph Zero, every      *)
(* bound on the faults and every instant at which they happen: the types,  *)
(* that no event is sealed while it is still being handled, and that the   *)
(* cached block number does not go back.                                   *)
(***************************************************************************)
EXTENDS AzeroToEthRelayer, Sums, SequenceTheorems

USE DEF Pipeline

Batch == [to : Nat, stage : Stages, todo : SUBSET Events]

\* The type of everything but the flag of the process.
Types ==
    /\ alive \subseteq Tasks
    /\ cb \in [Tasks -> 0 .. 2]
    /\ faults \in 0 .. MaxFaults
    /\ head \in DefaultBlock .. MaxBlock
    /\ votes \in [Events -> {"none", "latest", "final"}]
    /\ committee \in {"none", "latest", "final"}
    /\ redis \in Nat \cup {None}
    /\ lst \in {"select", "waiting", "sending", "sealing"}
    /\ number \in Nat \cup {None}
    /\ next \in Nat /\ seal \in Nat
    /\ batches \in Seq(Batch)
    /\ seals = <<>> \/ \E n \in Nat : seals = <<n>>
    /\ failed \subseteq Events /\ overlooked \subseteq NewCommittee

\* While the listener sends a batch, there is one.
SendingInv == lst = "sending" => Len(batches) > 0

LEMMA ShortSeals ==
    ASSUME NEW s
    PROVE  (s \in Seq(Nat) /\ Len(s) <= 1) <=> (s = <<>> \/ \E n \in Nat : s = <<n>>)
<1>1. ASSUME s \in Seq(Nat), Len(s) <= 1, s # <<>> PROVE \E n \in Nat : s = <<n>>
  <2>1. Len(s) = 1
    <3>1. Len(s) \in Nat \ {0}
      BY <1>1, EmptySeq
    <3>2. \A n \in Nat \ {0} : n <= 1 => n = 1
      BY SMT
    <3> QED BY <1>1, <3>1, <3>2, Zenon
  <2>2. s[1] \in Nat
    BY <1>1, <2>1, SMT
  <2>3. s = <<s[1]>>
    BY <1>1, <2>1, SMT
  <2> QED BY <2>2, <2>3
<1>2. ASSUME NEW n \in Nat, s = <<n>> PROVE s \in Seq(Nat) /\ Len(s) <= 1
  BY <1>2, SMT
<1>3. ASSUME s = <<>> PROVE s \in Seq(Nat) /\ Len(s) <= 1
  BY <1>3, EmptySeq, SMT
<1> QED BY <1>1, <1>2, <1>3

LEMMA TypeParts == TypeOK <=> up \in BOOLEAN /\ Types
  BY ShortSeals DEF TypeOK, SupervisorType, Types, Batch

-----------------------------------------------------------------------------
(* What a step does to the list of batches *)

LEMMA BatchReplaced ==
    ASSUME NEW s \in Seq(Batch), NEW i \in DOMAIN s, NEW b \in Batch, NEW t,
           t = [s EXCEPT ![i] = b]
    PROVE  /\ t \in Seq(Batch) /\ Len(t) = Len(s) /\ DOMAIN t = DOMAIN s
           /\ \A j \in DOMAIN s : t[j] = IF j = i THEN b ELSE s[j]
<1>1. i \in 1 .. Len(s) /\ DOMAIN s = 1 .. Len(s)
  BY LenProperties
<1>2. /\ t \in Seq(Batch) /\ Len(t) = Len(s)
      /\ \A j \in 1 .. Len(s) : t[j] = IF j = i THEN b ELSE s[j]
  BY <1>1, ExceptSeq
<1>3. DOMAIN t = 1 .. Len(s)
  BY <1>2, LenProperties
<1> QED BY <1>1, <1>2, <1>3

\* A batch moves on to another stage, or loses an event.
Staged(s, i, stage) == [s EXCEPT ![i].stage = stage]
Shrunk(s, i, e) == [s EXCEPT ![i].todo = @ \ {e}]

LEMMA StageChanges ==
    ASSUME NEW s \in Seq(Batch), NEW i \in DOMAIN s, NEW stage \in Stages
    PROVE  /\ Staged(s, i, stage) \in Seq(Batch)
           /\ Len(Staged(s, i, stage)) = Len(s)
           /\ DOMAIN Staged(s, i, stage) = DOMAIN s
           /\ \A j \in DOMAIN s :
                 /\ Staged(s, i, stage)[j].to = s[j].to
                 /\ Staged(s, i, stage)[j].todo = s[j].todo
                 /\ Staged(s, i, stage)[j].stage = IF j = i THEN stage ELSE s[j].stage
<1>1. s[i] \in Batch
  BY LenProperties, ElementOfSeq
<1> DEFINE b == [s[i] EXCEPT !.stage = stage]
           t == [s EXCEPT ![i] = b]
<1>2. b \in Batch /\ b.to = s[i].to /\ b.todo = s[i].todo /\ b.stage = stage
  BY <1>1 DEF Batch
<1>3. t = Staged(s, i, stage)
  BY DEF Staged
<1> HIDE DEF b
<1>4. /\ t \in Seq(Batch) /\ Len(t) = Len(s) /\ DOMAIN t = DOMAIN s
      /\ \A j \in DOMAIN s : t[j] = IF j = i THEN b ELSE s[j]
  BY <1>2, BatchReplaced
<1> HIDE DEF t
<1> QED BY <1>2, <1>3, <1>4

LEMMA TodoShrinks ==
    ASSUME NEW s \in Seq(Batch), NEW i \in DOMAIN s, NEW e
    PROVE  /\ Shrunk(s, i, e) \in Seq(Batch)
           /\ Len(Shrunk(s, i, e)) = Len(s)
           /\ DOMAIN Shrunk(s, i, e) = DOMAIN s
           /\ \A j \in DOMAIN s :
                 /\ Shrunk(s, i, e)[j].to = s[j].to
                 /\ Shrunk(s, i, e)[j].stage = s[j].stage
                 /\ Shrunk(s, i, e)[j].todo \subseteq s[j].todo
                 /\ s[j].todo \subseteq Shrunk(s, i, e)[j].todo \cup {e}
<1>1. s[i] \in Batch
  BY LenProperties, ElementOfSeq
<1> DEFINE b == [s[i] EXCEPT !.todo = @ \ {e}]
           t == [s EXCEPT ![i] = b]
<1>2. b \in Batch /\ b.to = s[i].to /\ b.todo = s[i].todo \ {e} /\ b.stage = s[i].stage
  BY <1>1 DEF Batch
<1>3. t = Shrunk(s, i, e)
  BY DEF Shrunk
<1> HIDE DEF b
<1>4. /\ t \in Seq(Batch) /\ Len(t) = Len(s) /\ DOMAIN t = DOMAIN s
      /\ \A j \in DOMAIN s : t[j] = IF j = i THEN b ELSE s[j]
  BY <1>2, BatchReplaced
<1> HIDE DEF t
<1> QED BY <1>2, <1>3, <1>4

\* The handler returns.
LEMMA BatchesDropped ==
    ASSUME NEW s \in Seq(Batch), NEW t,
           t = [i \in DOMAIN s |-> IF s[i].stage \in {"queued", "running"}
                                   THEN [s[i] EXCEPT !.stage = "dropped"] ELSE s[i]]
    PROVE  /\ t \in Seq(Batch) /\ Len(t) = Len(s) /\ DOMAIN t = DOMAIN s
           /\ \A j \in DOMAIN s : /\ t[j].to = s[j].to /\ t[j].todo = s[j].todo
                                  /\ t[j].stage = "acked" => s[j].stage = "acked"
<1>1. DOMAIN s = 1 .. Len(s) /\ Len(s) \in Nat /\ \A j \in DOMAIN s : s[j] \in Batch
  BY LenProperties, ElementOfSeq
<1>2. ASSUME NEW j \in DOMAIN s
      PROVE  /\ t[j] \in Batch /\ t[j].to = s[j].to /\ t[j].todo = s[j].todo
             /\ t[j].stage = "acked" => s[j].stage = "acked"
  BY <1>1 DEF Batch, Stages
<1>3. DOMAIN t = 1 .. Len(s) /\ t \in [1 .. Len(s) -> Batch]
  BY <1>1, <1>2
<1>4. t \in Seq(Batch)
  BY <1>1, <1>3, SeqDef
<1>5. Len(t) = Len(s)
  BY <1>1, <1>3, <1>4, LenProperties, SMT
<1> QED BY <1>1, <1>2, <1>3, <1>4, <1>5

\* A batch is added; the first one leaves.
LEMMA BatchAdded ==
    ASSUME NEW s \in Seq(Batch), NEW b \in Batch, NEW t, t = Append(s, b)
    PROVE  /\ t \in Seq(Batch) /\ t # <<>> /\ Len(t) = Len(s) + 1 /\ t[Len(s) + 1] = b
           /\ DOMAIN t = DOMAIN s \cup {Len(s) + 1} /\ Len(s) \in Nat
           /\ DOMAIN s = 1 .. Len(s)
           /\ \A j \in DOMAIN s : t[j] = s[j]
<1>1. /\ Append(s, b) \in Seq(Batch) /\ Append(s, b) # <<>>
      /\ Len(Append(s, b)) = Len(s) + 1
      /\ \A i \in 1 .. Len(s) : Append(s, b)[i] = s[i]
      /\ Append(s, b)[Len(s) + 1] = b
  BY AppendProperties
<1>2. DOMAIN s = 1 .. Len(s) /\ Len(s) \in Nat /\ DOMAIN t = 1 .. Len(t)
  BY <1>1, LenProperties
<1> QED BY <1>1, <1>2, SMT

LEMMA FirstLeaves ==
    ASSUME NEW s \in Seq(Batch), s # <<>>, NEW t, t = Tail(s)
    PROVE  /\ t \in Seq(Batch) /\ Head(s) = s[1] /\ s[1] \in Batch
           /\ DOMAIN s = 1 .. Len(s) /\ DOMAIN t = 1 .. Len(s) - 1 /\ Len(s) \in Nat \ {0}
           /\ \A j \in DOMAIN t : j + 1 \in DOMAIN s /\ t[j] = s[j + 1]
<1>1. DOMAIN s = 1 .. Len(s) /\ Len(s) \in Nat \ {0}
  BY LenProperties, EmptySeq
<1>2. /\ Tail(s) \in Seq(Batch) /\ Len(Tail(s)) = Len(s) - 1
      /\ \A i \in 1 .. Len(Tail(s)) : Tail(s)[i] = s[i + 1]
  BY HeadTailProperties
<1>3. Head(s) = s[1] /\ s[1] \in Batch
  BY <1>1, ElementOfSeq, SMT
<1>4. DOMAIN t = 1 .. Len(s) - 1
  BY <1>2, LenProperties
<1>5. \A j \in DOMAIN t : j + 1 \in DOMAIN s
  BY <1>1, <1>4, SMT
<1> QED BY <1>1, <1>2, <1>3, <1>4, <1>5

\* The handler takes the oldest batch of the channel.
LEMMA OldestQueued ==
    ASSUME Types, Queued # {}
    PROVE  Min(Queued) \in DOMAIN batches
<1>1. Queued \in SUBSET Nat
  BY LenProperties, SMT DEF Types, Queued
<1>2. \E least \in Queued : \A m \in Queued : least <= m
  BY <1>1, LeastNatural
<1> QED BY <1>2 DEF Min, Queued

LEMMA MinOfTwo ==
    ASSUME NEW m \in Int, NEW n \in Int
    PROVE  Min({m, n}) \in {m, n} /\ Min({m, n}) <= m /\ Min({m, n}) <= n
  BY SMT DEF Min

-----------------------------------------------------------------------------
(* Types *)

\* A task that looks at the circuit breaker leaves, alone or with all the others.
LEMMA Observes ==
    ASSUME NEW t, Observe(t)
    PROVE  alive' \subseteq alive /\ t \notin alive' /\ cb' = cb /\ faults' = faults
  BY DEF Observe, Exit, Die

LEMMA Dies == Die => alive' = {}
  BY DEF Die

LEMMA UpStep ==
    ASSUME up \in BOOLEAN, [Next]_vars
    PROVE  up' \in BOOLEAN
<1> USE DEF supervision
<1>1. CASE Listener
  BY <1>1, Zenon DEF Listener, TakeNumber, FetchEvents, SendBatch, TakeAck, AckIsLost, PushSeal,
     ListenerObserves, Observe, Exit, Die
<1>2. CASE Handler
  BY <1>2, Zenon DEF Handler, ReceiveBatch, HandlerObserves, AckBatch, Vote, EventDone,
     EventMismatch, HandleFails, Observe, Exit, Die
<1>3. CASE Manager
  BY <1>3, Zenon DEF Manager, WriteSeal, ManagerObserves, Observe, Exit, Die
<1>4. CASE Environment
  BY <1>4, Zenon DEF Environment, NewBlock, ProcessCrashes, ClientError, InstallCommittee,
     FinalizeCommittee, OthersProcess, Finalize, Reorg, EventFails, HandleFails, Crash, Die
<1>5. CASE Run
  BY <1>5, Zenon DEF Run, Start
<1>6. ASSUME NEW t \in Watchers, Watch(t) PROVE up' \in BOOLEAN
  BY <1>6, Zenon DEF Watch, WatcherTrips, Observe, Exit, Die
<1>7. CASE UNCHANGED vars
  BY <1>7, Zenon DEF vars
<1> QED BY <1>1, <1>2, <1>3, <1>4, <1>5, <1>6, <1>7 DEF Next

LEMMA TypesStep ==
    ASSUME Types, SendingInv, [Next]_vars
    PROVE  Types' /\ SendingInv'
<1> USE RelayerAssumption, SupervisorAssumption
<1>e. <<>> \in Seq(Batch)
  BY EmptySeq
<1> USE DEF Types, SendingInv, supervision, chains, listener, history, work, Tasks
<1>1. CASE NewBlock
  BY <1>1 DEF NewBlock
<1>2. CASE InstallCommittee
  BY <1>2 DEF InstallCommittee
<1>3. CASE FinalizeCommittee
  BY <1>3 DEF FinalizeCommittee
<1>4. ASSUME NEW e \in Events, OthersProcess(e) \/ Finalize(e) PROVE Types' /\ SendingInv'
  BY <1>4 DEF OthersProcess, Finalize
<1>5. ASSUME NEW e \in Events, Reorg(e) PROVE Types' /\ SendingInv'
  BY <1>5 DEF Reorg, Fault
<1>6. CASE TakeNumber
  BY <1>6 DEF TakeNumber, At
<1>7. CASE FetchEvents
  <2> DEFINE upto == Min({head, next + SyncStep - 1})
             b == [to |-> upto, stage |-> "unsent", todo |-> EventsIn(next, upto)]
  <2>1. upto \in Nat
    <3>1. head \in Int /\ next + SyncStep - 1 \in Int /\ head \in Nat /\ next + SyncStep - 1 \in Nat
      BY SMT
    <3>2. upto \in {head, next + SyncStep - 1}
      BY <3>1, MinOfTwo, Zenon
    <3> QED BY <3>1, <3>2
  <2> HIDE DEF upto
  <2>2. b \in Batch
    BY <2>1 DEF Batch, Stages, EventsIn
  <2> HIDE DEF b
  <2>3. batches' = Append(batches, b)
    BY <1>7, Zenon DEF FetchEvents, b, upto
  <2>4. batches' \in Seq(Batch) /\ Len(batches') = Len(batches) + 1 /\ Len(batches) \in Nat
    BY <2>2, <2>3, BatchAdded
  <2> QED BY <1>7, <2>4 DEF FetchEvents
<1>8. CASE ClientError \/ AckIsLost
  <2>1. /\ alive' = {} /\ lst' = "select" /\ next' = DefaultBlock /\ seal' = DefaultBlock
        /\ batches' = <<>> /\ seals' = <<>>
        /\ UNCHANGED <<head, votes, committee, redis, number, failed, overlooked, cb>>
    BY <1>8, Dies DEF ClientError, AckIsLost, Forget
  <2>2. faults' \in 0 .. MaxFaults
    BY <1>8 DEF ClientError, AckIsLost, Fault
  <2> QED BY <1>e, <2>1, <2>2
<1>9. CASE SendBatch
  <2>1. Len(batches) \in DOMAIN batches
    <3>1. DOMAIN batches = 1 .. Len(batches) /\ Len(batches) \in Nat
      BY LenProperties
    <3>2. Len(batches) > 0
      BY <1>9 DEF SendBatch, At
    <3> QED BY <3>1, <3>2, SMT
  <2>2. batches' \in Seq(Batch)
    <3>1. batches' = Staged(batches, Len(batches), "queued")
      BY <1>9, Zenon DEF SendBatch, Staged
    <3>2. "queued" \in Stages
      BY DEF Stages
    <3> QED BY <2>1, <3>1, <3>2, StageChanges
  <2>3. number' \in Nat
    <3>1. batches[Len(batches)] \in Batch
      BY <2>1, LenProperties, ElementOfSeq
    <3>2. batches[Len(batches)].to \in Nat
      BY <3>1 DEF Batch
    <3> QED BY <1>9, <3>2, SMT DEF SendBatch
  <2> QED BY <1>9, <2>2, <2>3 DEF SendBatch
<1>10. CASE TakeAck
  <2>1. batches' \in Seq(Batch) /\ Head(batches) \in Batch
    BY <1>10, FirstLeaves DEF TakeAck
  <2>2. seal' \in Nat
    BY <1>10, <2>1 DEF TakeAck, Batch
  <2> QED BY <1>10, <2>1, <2>2 DEF TakeAck
<1>11. CASE PushSeal
  <2>1. alive' \subseteq alive
    BY <1>11, Dies DEF PushSeal
  <2>2. seals' = <<seal>> \/ seals' = seals
    BY <1>11 DEF PushSeal
  <2>3. lst' \in {"select", "sealing"}
    BY <1>11 DEF PushSeal, At
  <2> QED BY <1>11, <2>1, <2>2, <2>3 DEF PushSeal
<1>12. CASE ListenerObserves \/ ManagerObserves \/ \E t \in Watchers : Watch(t) /\ Observe(t)
  <2>1. alive' \subseteq alive /\ cb' = cb /\ faults' = faults
    BY <1>12, Observes DEF ListenerObserves, ManagerObserves
  <2>2. UNCHANGED <<chains, redis, listener, work>>
    BY <1>12 DEF ListenerObserves, ManagerObserves, Watch
  <2> QED BY <2>1, <2>2
<1>13. CASE ReceiveBatch
  <2>1. batches' \in Seq(Batch) /\ Len(batches') = Len(batches) /\ DOMAIN batches' = DOMAIN batches
    <3>1. batches' = Staged(batches, Min(Queued), "running")
      BY <1>13, Zenon DEF ReceiveBatch, Staged
    <3>2. "running" \in Stages /\ Min(Queued) \in DOMAIN batches
      BY <1>13, OldestQueued DEF Stages, ReceiveBatch
    <3> QED BY <3>1, <3>2, StageChanges
  <2>2. SendingInv'
    BY <1>13, <2>1 DEF ReceiveBatch, Queued
  <2> QED BY <1>13, <2>1, <2>2 DEF ReceiveBatch
<1>14. ASSUME NEW i \in DOMAIN batches, AckBatch(i) PROVE Types' /\ SendingInv'
  <2>1. batches' \in Seq(Batch) /\ Len(batches') = Len(batches)
    <3>1. batches' = Staged(batches, i, "acked")
      BY <1>14, Zenon DEF AckBatch, Staged
    <3>2. "acked" \in Stages
      BY DEF Stages
    <3> QED BY <3>1, <3>2, StageChanges
  <2> QED BY <1>14, <2>1 DEF AckBatch
<1>15. ASSUME NEW i \in DOMAIN batches, NEW e \in Events, Vote(i, e) PROVE Types' /\ SendingInv'
  BY <1>15 DEF Vote
<1>16. ASSUME NEW i \in DOMAIN batches, NEW e \in Events, EventDone(i, e) PROVE Types' /\ SendingInv'
  <2>1. batches' = Shrunk(batches, i, e)
    BY <1>16, Zenon DEF EventDone, Shrunk
  <2>2. batches' \in Seq(Batch) /\ Len(batches') = Len(batches)
    BY <2>1, TodoShrinks
  <2>3. overlooked' \subseteq NewCommittee
    BY <1>16 DEF EventDone
  <2>4. UNCHANGED <<chains, redis, listener, seals, failed, supervision>>
    BY <1>16, Zenon DEF EventDone
  <2> QED BY <2>2, <2>3, <2>4
<1>17. ASSUME NEW i \in DOMAIN batches, NEW e \in Events, HandleFails(i, e),
              faults' \in 0 .. MaxFaults
       PROVE  Types' /\ SendingInv'
  <2>1. batches' = Shrunk(batches, i, e)
    BY <1>17, Zenon DEF HandleFails, Shrunk
  <2>2. batches' \in Seq(Batch) /\ Len(batches') = Len(batches)
    BY <2>1, TodoShrinks
  <2>3. failed' \subseteq Events /\ UNCHANGED <<chains, redis, listener, seals, overlooked, alive>>
    BY <1>17 DEF HandleFails
  <2>4. cb' \in [Tasks -> 0 .. 2]
    BY <1>17 DEF HandleFails, Trip
  <2> QED BY <1>17, <2>2, <2>3, <2>4
<1>18. ASSUME NEW i \in DOMAIN batches, NEW e \in Events, EventFails(i, e) \/ EventMismatch(i, e)
       PROVE  Types' /\ SendingInv'
  <2>1. HandleFails(i, e)
    BY <1>18 DEF EventFails, EventMismatch
  <2>2. faults' \in 0 .. MaxFaults
    BY <1>18 DEF EventFails, EventMismatch, Fault
  <2> QED BY <1>17, <2>1, <2>2
<1>19. CASE HandlerObserves
  <2>1. batches' \in Seq(Batch) /\ Len(batches') = Len(batches)
    BY <1>19, BatchesDropped DEF HandlerObserves
  <2>2. alive' \subseteq alive /\ cb' = cb /\ faults' = faults
    BY <1>19, Observes DEF HandlerObserves
  <2> QED BY <1>19, <2>1, <2>2 DEF HandlerObserves
<1>20. CASE WriteSeal
  <2>1. PICK n \in Nat : seals = <<n>>
    BY <1>20 DEF WriteSeal
  <2>2. Head(seals) = n /\ Tail(seals) = <<>>
    BY <2>1, SMT
  <2>3. redis' \in Nat /\ seals' = <<>>
    BY <1>20, <2>2 DEF WriteSeal
  <2> QED BY <1>20, <2>3 DEF WriteSeal
<1>21. CASE Run
  <2>1. redis' \in Nat \cup {None} /\ number' \in Nat
    BY <1>21 DEF Run, ReadBlockNumber
  <2>2. faults' \in 0 .. MaxFaults
    BY <1>21 DEF Run, Fault
  <2>3. alive' = Tasks /\ cb' = [t \in Tasks |-> 0]
    BY <1>21 DEF Run, Start
  <2> QED BY <1>21, <1>e, <2>1, <2>2, <2>3 DEF Run, Forget
<1>22. ASSUME NEW t \in Watchers, Watch(t), WatcherTrips(t) PROVE Types' /\ SendingInv'
  BY <1>22 DEF Watch, WatcherTrips, Exit, Trip, Fault
<1>23. CASE ProcessCrashes
  <2>1. alive' = {} /\ cb' = cb
    BY <1>23, Dies DEF ProcessCrashes, Crash
  <2>2. faults' \in 0 .. MaxFaults
    BY <1>23 DEF ProcessCrashes, Crash, Fault
  <2> QED BY <1>23, <1>e, <2>1, <2>2 DEF ProcessCrashes, Forget
<1>24. CASE UNCHANGED vars
  BY <1>24 DEF vars
<1>25. ASSUME NEW t \in Watchers, Watch(t) PROVE WatcherTrips(t) \/ Observe(t)
  BY <1>25 DEF Watch
<1> QED
  BY <1>1, <1>2, <1>3, <1>4, <1>5, <1>6, <1>7, <1>8, <1>9, <1>10, <1>11, <1>12, <1>13, <1>14,
     <1>15, <1>16, <1>18, <1>19, <1>20, <1>21, <1>22, <1>23, <1>24, <1>25, Zenon
     DEF Next, Listener, Handler, Manager, Environment

\* The type of the variables is an invariant: in particular the channel of the sealed blocks
\* never holds more than one.
THEOREM TypeInvariant == Spec => [](TypeOK /\ SendingInv)
<1>1. Init => up \in BOOLEAN /\ Types /\ SendingInv
  <2> SUFFICES ASSUME Init PROVE up \in BOOLEAN /\ Types /\ SendingInv
    OBVIOUS
  <2>1. up \in BOOLEAN
    BY Zenon DEF Init, SupervisorInit
  <2>2. batches \in Seq(Batch)
    BY EmptySeq DEF Init
  <2> QED BY <2>1, <2>2, RelayerAssumption, SupervisorAssumption
          DEF Init, SupervisorInit, Types, SendingInv
<1>2. up \in BOOLEAN /\ Types /\ SendingInv /\ [Next]_vars
      => (up \in BOOLEAN /\ Types /\ SendingInv)'
  BY UpStep, TypesStep
<1> QED BY <1>1, <1>2, TypeParts, PTL DEF Spec

\* The type of the variables is an invariant.
THEOREM TypeCorrect == Spec => []TypeOK
  BY TypeInvariant, PTL

-----------------------------------------------------------------------------
(* Sealing *)

\* The events that need no vote any more, or never will get one from this run.
Okay == {e \in Events : Settled(e) \/ e \in failed \cup overlooked}

\* The events that some batch, or one of its first n, still has to handle.
Pending(n) == UNION {batches[j].todo : j \in {k \in DOMAIN batches : k <= n}}

Past(n) == \A e \in Events : BlockOf[e] < n => e \in Okay
Covered(n) == \A e \in Events : BlockOf[e] < n => e \in Okay \cup Pending(Len(batches))

\* Before the end of each batch, what is not settled is pending in it or in an older one.
BatchesInv ==
    \A i \in DOMAIN batches :
        /\ batches[i].stage = "acked" => batches[i].todo = {}
        /\ \A e \in Events : BlockOf[e] <= batches[i].to => e \in Okay \cup Pending(i)

\* Seals on their way to the cache are of settled blocks; the listener is never ahead of
\* what is settled or pending.  A listener that is gone may leave a number behind.
SealsInv ==
    /\ redis # None => Past(redis)
    /\ \A n \in Nat : seals = <<n>> => Past(n + 1)
    /\ lst = "sealing" => Past(seal + 1)
    /\ lst = "waiting" => Covered(next)
    /\ "listener" \in alive /\ number # None => Covered(number)

SealingInv == BatchesInv /\ SealsInv

\* What is final stays so.
LEMMA OkayGrows ==
    ASSUME TypeOK, [Next]_vars
    PROVE  Okay \subseteq Okay'
<1> USE DEF chains, history, work
<1>1. /\ \A e \in Events : votes[e] = "final" => votes'[e] = "final"
      /\ failed \subseteq failed' /\ overlooked \subseteq overlooked'
  <2> USE DEF TypeOK
  <2>1. ASSUME NEW e \in Events, OthersProcess(e) \/ Finalize(e) \/ Reorg(e)
        PROVE  <1>1!1 /\ <1>1!2
    BY <2>1 DEF OthersProcess, Finalize, Reorg
  <2>2. ASSUME NEW i, NEW e \in Events, Vote(i, e)
        PROVE  <1>1!1 /\ <1>1!2
    BY <2>2 DEF Vote
  <2>3. ASSUME NEW i, NEW e \in Events, EventDone(i, e) \/ HandleFails(i, e)
        PROVE  <1>1!1 /\ <1>1!2
    BY <2>3 DEF EventDone, HandleFails
  <2>4. CASE Listener
    BY <2>4 DEF Listener, TakeNumber, FetchEvents, SendBatch, TakeAck, AckIsLost, PushSeal,
       ListenerObserves
  <2>5. ASSUME NEW i, AckBatch(i) PROVE <1>1!1 /\ <1>1!2
    BY <2>5 DEF AckBatch
  <2>6. CASE ReceiveBatch \/ HandlerObserves
    BY <2>6 DEF ReceiveBatch, HandlerObserves
  <2>7. CASE Handler
    BY <2>2, <2>3, <2>5, <2>6, <2>7, Zenon DEF Handler, EventMismatch
  <2>8. CASE Manager
    BY <2>8 DEF Manager, WriteSeal, ManagerObserves
  <2>9. CASE NewBlock \/ ProcessCrashes \/ ClientError \/ InstallCommittee \/ FinalizeCommittee
    BY <2>9 DEF NewBlock, InstallCommittee, FinalizeCommittee, ProcessCrashes, ClientError
  <2>10. CASE Environment
    BY <2>1, <2>3, <2>9, <2>10, Zenon DEF Environment, EventFails
  <2>11. CASE Run
    BY <2>11 DEF Run
  <2>12. ASSUME NEW t \in Watchers, Watch(t) PROVE <1>1!1 /\ <1>1!2
    BY <2>12 DEF Watch
  <2>13. CASE UNCHANGED vars
    BY <2>13 DEF vars
  <2> QED BY <2>4, <2>7, <2>8, <2>10, <2>11, <2>12, <2>13, Zenon DEF Next
<1> QED BY <1>1 DEF Okay, Settled

\* The batches stay where they are, and lose only events that are settled.
SameBatches ==
    /\ DOMAIN batches' = DOMAIN batches /\ Len(batches') = Len(batches)
    /\ \A j \in DOMAIN batches :
          /\ batches'[j].to = batches[j].to
          /\ batches[j].todo \subseteq batches'[j].todo \cup Okay'
          /\ batches'[j].stage = "acked" => batches'[j].todo = {}

LEMMA SamePending ==
    ASSUME SameBatches, NEW n
    PROVE  Pending(n) \subseteq Pending(n)' \cup Okay'
  BY DEF SameBatches, Pending

LEMMA SameBatchesStep ==
    ASSUME BatchesInv, Okay \subseteq Okay', SameBatches
    PROVE  BatchesInv'
<1> SUFFICES ASSUME NEW i \in DOMAIN batches
             PROVE  /\ batches'[i].stage = "acked" => batches'[i].todo = {}
                    /\ \A e \in Events : BlockOf[e] <= batches'[i].to => e \in Okay' \cup Pending(i)'
  BY DEF BatchesInv, SameBatches
<1>1. Pending(i) \subseteq Pending(i)' \cup Okay'
  BY SamePending
<1> QED BY <1>1 DEF BatchesInv, SameBatches

LEMMA SameSealsStep ==
    ASSUME SealsInv, Okay \subseteq Okay', SameBatches, alive' \subseteq alive,
           UNCHANGED <<redis, seals, seal, next, number>>,
           lst' = lst \/ lst' \in {"select", "sending"}
    PROVE  SealsInv'
<1>1. Pending(Len(batches)) \subseteq Pending(Len(batches))' \cup Okay'
  <2>1. Pending(Len(batches))' = UNION {batches'[j].todo : j \in {k \in DOMAIN batches' : k <= Len(batches)}}
    BY DEF Pending, SameBatches
  <2> QED BY <2>1 DEF SameBatches, Pending
<1>2. ASSUME NEW n, Covered(n) PROVE Covered(n)'
  BY <1>1, <1>2 DEF Covered
<1>3. ASSUME NEW n, Past(n) PROVE Past(n)'
  BY <1>3 DEF Past
<1> QED BY <1>2, <1>3 DEF SealsInv

LEMMA QuietStep ==
    ASSUME SealingInv, Okay \subseteq Okay', SameBatches, alive' \subseteq alive,
           UNCHANGED <<redis, seals, listener>>
    PROVE  SealingInv'
<1>1. UNCHANGED <<redis, seals, seal, next, number, lst>>
  BY DEF listener
<1>2. BatchesInv'
  BY SameBatchesStep DEF SealingInv
<1>3. SealsInv'
  BY <1>1, SameSealsStep DEF SealingInv
<1> QED BY <1>2, <1>3 DEF SealingInv

\* The run ends with everything it had in memory.
LEMMA ForgetStep ==
    ASSUME SealingInv, Okay \subseteq Okay', Forget, alive' = {}, redis' = redis
    PROVE  SealingInv'
<1>1. batches' = <<>> /\ seals' = <<>> /\ lst' = "select"
  BY DEF Forget
<1>2. DOMAIN batches' = {}
  BY <1>1, SMT
<1>3. \A n \in Nat : <<>> # <<n>>
  OBVIOUS
<1>4. BatchesInv'
  BY <1>2 DEF BatchesInv
<1>5. SealsInv'
  BY <1>1, <1>3 DEF SealingInv, SealsInv, Past
<1> QED BY <1>4, <1>5 DEF SealingInv

\* All that is covered is pending in some batch.
LEMMA LastCovers ==
    ASSUME TypeOK, BatchesInv, Len(batches) > 0
    PROVE  Covered(batches[Len(batches)].to + 1)
<1>1. batches \in Seq(Batch)
  BY DEF TypeOK, Batch
<1>2. Len(batches) \in Nat /\ DOMAIN batches = 1 .. Len(batches)
  BY <1>1, LenProperties
<1>3. Len(batches) \in DOMAIN batches
  BY <1>2, SMT
<1>4. batches[Len(batches)] \in Batch
  BY <1>1, <1>2, <1>3, ElementOfSeq
<1>5. batches[Len(batches)].to \in Nat
  BY <1>4 DEF Batch
<1> SUFFICES ASSUME NEW e \in Events, BlockOf[e] < batches[Len(batches)].to + 1
             PROVE  e \in Okay \cup Pending(Len(batches))
  BY DEF Covered
<1>6. BlockOf[e] \in Nat
  BY RelayerAssumption
<1>7. BlockOf[e] <= batches[Len(batches)].to
  BY <1>5, <1>6, SMT
<1> QED BY <1>3, <1>7 DEF BatchesInv

LEMMA AckedAreDone ==
    ASSUME BatchesInv, NEW j \in DOMAIN batches, batches[j].stage = "acked"
    PROVE  batches[j].todo = {}
  BY DEF BatchesInv

LEMMA SendBatchStep ==
    ASSUME TypeOK, SendingInv, SealingInv, SendBatch, Okay \subseteq Okay'
    PROVE  SealingInv'
<1>1. batches \in Seq(Batch) /\ Len(batches) > 0
  BY DEF TypeOK, Batch, SendBatch, At, SendingInv
<1>2. Len(batches) \in DOMAIN batches
  <2>1. DOMAIN batches = 1 .. Len(batches) /\ Len(batches) \in Nat
    BY <1>1, LenProperties
  <2> QED BY <1>1, <2>1, SMT
<1>3. batches' = Staged(batches, Len(batches), "queued") /\ "queued" \in Stages
  BY Zenon DEF SendBatch, Staged, Stages
<1>4. /\ DOMAIN batches' = DOMAIN batches /\ Len(batches') = Len(batches)
      /\ \A j \in DOMAIN batches :
            /\ batches'[j].to = batches[j].to /\ batches'[j].todo = batches[j].todo
            /\ batches'[j].stage = IF j = Len(batches) THEN "queued" ELSE batches[j].stage
  BY <1>1, <1>2, <1>3, StageChanges
<1>5. SameBatches
  BY <1>4, AckedAreDone DEF SameBatches, SealingInv
<1>6. Covered(batches[Len(batches)].to + 1)
  BY <1>1, LastCovers DEF SealingInv
<1>7. Covered(number)'
  <2>1. number' = batches[Len(batches)].to + 1
    BY DEF SendBatch
  <2>2. Pending(Len(batches)) \subseteq Pending(Len(batches))' \cup Okay'
    BY <1>4 DEF Pending
  <2> QED BY <1>6, <2>1, <2>2 DEF Covered
<1>8. BatchesInv'
  BY <1>5, SameBatchesStep DEF SealingInv
<1>9. UNCHANGED <<redis, seals, seal, next>> /\ lst' = "select"
  BY DEF SendBatch, work
<1>10. SealsInv'
  BY <1>7, <1>9 DEF SealingInv, SealsInv, Past
<1> QED BY <1>8, <1>10 DEF SealingInv

LEMMA FetchStep ==
    ASSUME TypeOK, SealingInv, FetchEvents, Okay \subseteq Okay'
    PROVE  SealingInv'
<1> DEFINE upto == Min({head, next + SyncStep - 1})
           b == [to |-> upto, stage |-> "unsent", todo |-> EventsIn(next, upto)]
<1>1. upto \in Nat
  <2>1. head \in Nat /\ next + SyncStep - 1 \in Nat /\ head \in Int /\ next + SyncStep - 1 \in Int
    BY RelayerAssumption, SMT DEF TypeOK
  <2>2. upto \in {head, next + SyncStep - 1}
    BY <2>1, MinOfTwo, Zenon
  <2> QED BY <2>1, <2>2
<1> HIDE DEF upto
<1>2. b \in Batch /\ b.to = upto /\ b.stage = "unsent" /\ b.todo = EventsIn(next, upto)
  BY <1>1 DEF Batch, Stages, EventsIn
<1>3. batches' = Append(batches, b)
  BY Zenon DEF FetchEvents, b, upto
<1> HIDE DEF b
<1>4. batches \in Seq(Batch)
  BY DEF TypeOK, Batch
<1>5. /\ Len(batches') = Len(batches) + 1 /\ batches'[Len(batches) + 1] = b
      /\ DOMAIN batches' = DOMAIN batches \cup {Len(batches) + 1} /\ Len(batches) \in Nat
      /\ DOMAIN batches = 1 .. Len(batches)
      /\ \A j \in DOMAIN batches : batches'[j] = batches[j]
  BY <1>2, <1>3, <1>4, BatchAdded
<1>6. \A n : Pending(n) \subseteq Pending(n)'
  BY <1>5 DEF Pending
<1>7. Pending(Len(batches)) \cup EventsIn(next, upto) \subseteq Pending(Len(batches) + 1)'
  <2>1. Len(batches) + 1 \in {k \in DOMAIN batches' : k <= Len(batches) + 1}
    BY <1>5, SMT
  <2>2. EventsIn(next, upto) \subseteq Pending(Len(batches) + 1)'
    BY <1>2, <1>5, <2>1 DEF Pending
  <2>3. \A k \in DOMAIN batches : k \in {l \in DOMAIN batches' : l <= Len(batches) + 1}
    BY <1>5, SMT
  <2>4. Pending(Len(batches)) \subseteq Pending(Len(batches) + 1)'
    BY <1>5, <2>3 DEF Pending
  <2> QED BY <2>2, <2>4
<1>8. Covered(next)
  BY DEF FetchEvents, At, SealingInv, SealsInv
<1>9. ASSUME NEW e \in Events, BlockOf[e] <= upto
      PROVE  e \in Okay' \cup Pending(Len(batches) + 1)'
  <2>1. BlockOf[e] \in Nat /\ next \in Nat
    BY RelayerAssumption DEF TypeOK
  <2>2. CASE BlockOf[e] < next
    BY <1>7, <1>8, <2>2 DEF Covered
  <2>3. CASE ~(BlockOf[e] < next)
    <3>1. BlockOf[e] \in next .. upto
      BY <1>1, <1>9, <2>1, <2>3, SMT
    <3> QED BY <1>7, <3>1 DEF EventsIn
  <2> QED BY <2>2, <2>3
<1>10. BatchesInv'
  <2>1. ASSUME NEW i \in DOMAIN batches
        PROVE  /\ batches'[i].stage = "acked" => batches'[i].todo = {}
               /\ \A e \in Events : BlockOf[e] <= batches'[i].to => e \in Okay' \cup Pending(i)'
    BY <1>5, <1>6 DEF SealingInv, BatchesInv
  <2>2. /\ batches'[Len(batches) + 1].stage # "acked"
        /\ batches'[Len(batches) + 1].to = upto
    BY <1>2, <1>5
  <2>3. ASSUME NEW i \in DOMAIN batches'
        PROVE  /\ batches'[i].stage = "acked" => batches'[i].todo = {}
               /\ \A e \in Events : BlockOf[e] <= batches'[i].to => e \in Okay' \cup Pending(i)'
    <3>1. CASE i \in DOMAIN batches
      BY <2>1, <3>1
    <3>2. CASE i = Len(batches) + 1
      <4>1. Pending(i)' = Pending(Len(batches) + 1)'
        BY <1>5, <3>2 DEF Pending
      <4> QED BY <1>9, <2>2, <3>2, <4>1
    <3> QED BY <1>5, <3>1, <3>2
  <2> QED BY <2>3 DEF BatchesInv
<1>11. UNCHANGED <<redis, seals, seal, next, number, alive>> /\ lst' = "sending"
  BY DEF FetchEvents, supervision
<1>12. SealsInv'
  <2>1. ASSUME NEW n, Covered(n) PROVE Covered(n)'
    <3>1. Pending(Len(batches)) \subseteq Pending(Len(batches))'
      BY <1>5, <1>7 DEF Pending
    <3> QED BY <2>1, <3>1 DEF Covered
  <2> QED BY <1>11, <2>1 DEF SealingInv, SealsInv, Past
<1> QED BY <1>10, <1>12 DEF SealingInv

LEMMA TakeAckStep ==
    ASSUME TypeOK, SealingInv, TakeAck, Okay \subseteq Okay'
    PROVE  SealingInv'
<1>1. batches \in Seq(Batch) /\ batches # <<>> /\ batches' = Tail(batches)
  BY DEF TypeOK, Batch, TakeAck
<1>2. /\ Head(batches) = batches[1] /\ batches[1] \in Batch
      /\ DOMAIN batches = 1 .. Len(batches) /\ DOMAIN batches' = 1 .. Len(batches) - 1
      /\ Len(batches) \in Nat \ {0}
      /\ \A j \in DOMAIN batches' : j + 1 \in DOMAIN batches /\ batches'[j] = batches[j + 1]
  BY <1>1, FirstLeaves
<1>3. 1 \in DOMAIN batches /\ batches[1].to \in Nat
  BY <1>2, SMT DEF Batch
<1>4. batches[1].todo = {}
  BY <1>2, <1>3, AckedAreDone DEF TakeAck, SealingInv
<1>5. ASSUME NEW n \in Nat PROVE Pending(n + 1) \subseteq Pending(n)'
  <2> SUFFICES ASSUME NEW k \in DOMAIN batches, k <= n + 1, NEW e \in batches[k].todo
               PROVE  \E j \in DOMAIN batches' : j <= n /\ e \in batches'[j].todo
    BY DEF Pending
  <2>1. k # 1
    BY <1>4
  <2>2. k - 1 \in DOMAIN batches' /\ k - 1 <= n /\ (k - 1) + 1 = k
    BY <1>2, <2>1, SMT
  <2> QED BY <1>2, <2>2
<1>6. BatchesInv'
  <2> SUFFICES ASSUME NEW i \in DOMAIN batches'
               PROVE  /\ batches'[i].stage = "acked" => batches'[i].todo = {}
                      /\ \A e \in Events : BlockOf[e] <= batches'[i].to => e \in Okay' \cup Pending(i)'
    BY DEF BatchesInv
  <2>1. i + 1 \in DOMAIN batches /\ batches'[i] = batches[i + 1] /\ i \in Nat
    BY <1>2, SMT
  <2>2. Pending(i + 1) \subseteq Pending(i)'
    BY <1>5, <2>1
  <2> QED BY <2>1, <2>2 DEF SealingInv, BatchesInv
<1>7. Past(seal + 1)'
  <2>1. Pending(1) = {}
    <3>1. \A k \in DOMAIN batches : k <= 1 => k = 1
      BY <1>2, SMT
    <3> QED BY <1>4, <3>1 DEF Pending
  <2>2. seal' = batches[1].to
    BY <1>2 DEF TakeAck
  <2>3. ASSUME NEW e \in Events, BlockOf[e] < batches[1].to + 1 PROVE e \in Okay
    <3>1. BlockOf[e] \in Nat
      BY RelayerAssumption
    <3>2. BlockOf[e] <= batches[1].to
      BY <1>3, <2>3, <3>1, SMT
    <3> QED BY <1>3, <2>1, <3>2 DEF SealingInv, BatchesInv
  <2> QED BY <2>2, <2>3 DEF Past
<1>8. UNCHANGED <<redis, seals, number, alive>> /\ lst' = "sealing"
  BY DEF TakeAck, supervision
<1>9. ASSUME NEW n, Covered(n) PROVE Covered(n)'
  <2>1. Len(batches') = Len(batches) - 1
    BY <1>1, HeadTailProperties
  <2>2. Len(batches) - 1 \in Nat /\ (Len(batches) - 1) + 1 = Len(batches)
    BY <1>2, SMT
  <2>3. Pending(Len(batches)) \subseteq Pending(Len(batches))'
    <3>1. Pending((Len(batches) - 1) + 1) \subseteq UNION {batches'[j].todo : j \in {k \in DOMAIN batches' : k <= Len(batches) - 1}}
      <4> SUFFICES ASSUME NEW k \in DOMAIN batches, NEW e \in batches[k].todo
                   PROVE  \E j \in DOMAIN batches' : j <= Len(batches) - 1 /\ e \in batches'[j].todo
        BY DEF Pending
      <4>1. k # 1
        BY <1>4
      <4>2. k - 1 \in DOMAIN batches' /\ k - 1 <= Len(batches) - 1 /\ (k - 1) + 1 = k
        BY <1>2, <4>1, SMT
      <4> QED BY <1>2, <4>2
    <3> QED BY <2>1, <2>2, <3>1 DEF Pending
  <2> QED BY <1>9, <2>3 DEF Covered
<1>10. SealsInv'
  BY <1>7, <1>8, <1>9 DEF SealingInv, SealsInv, Past
<1> QED BY <1>6, <1>10 DEF SealingInv

LEMMA SealingStep ==
    ASSUME TypeOK, SendingInv, SealingInv, [Next]_vars
    PROVE  SealingInv'
<1>b. batches \in Seq(Batch) /\ Types
  BY TypeParts DEF TypeOK, Batch
<1>h. ASSUME NEW i \in DOMAIN batches, NEW e, batches' = Shrunk(batches, i, e)
      PROVE  /\ DOMAIN batches' = DOMAIN batches /\ Len(batches') = Len(batches)
             /\ \A j \in DOMAIN batches :
                   /\ batches'[j].to = batches[j].to /\ batches'[j].stage = batches[j].stage
                   /\ batches'[j].todo \subseteq batches[j].todo
                   /\ batches[j].todo \subseteq batches'[j].todo \cup {e}
  BY <1>b, <1>h, TodoShrinks
<1> USE OkayGrows
<1>s. batches' = batches => SameBatches
  BY AckedAreDone DEF SameBatches, SealingInv
<1> USE DEF supervision, chains, listener, history, work
<1>1. CASE \/ NewBlock \/ InstallCommittee \/ FinalizeCommittee \/ UNCHANGED vars
           \/ \E e \in Events : OthersProcess(e) \/ Finalize(e) \/ Reorg(e)
           \/ \E i \in DOMAIN batches, e \in Events : Vote(i, e)
  <2>1. batches' = batches /\ alive' \subseteq alive /\ UNCHANGED <<redis, seals, listener>>
    BY <1>1 DEF NewBlock, InstallCommittee, FinalizeCommittee, vars, OthersProcess, Finalize,
       Reorg, Vote
  <2> QED BY <1>s, <2>1, QuietStep
<1>2. CASE ListenerObserves \/ ManagerObserves \/ \E t \in Watchers : Watch(t)
  <2>1. alive' \subseteq alive
    BY <1>2, Observes DEF ListenerObserves, ManagerObserves, Watch, WatcherTrips, Exit
  <2>2. batches' = batches /\ UNCHANGED <<redis, seals, listener>>
    BY <1>2 DEF ListenerObserves, ManagerObserves, Watch
  <2> QED BY <1>s, <2>1, <2>2, QuietStep
<1>3. CASE ClientError \/ AckIsLost \/ ProcessCrashes
  <2>1. Forget /\ alive' = {} /\ redis' = redis
    BY <1>3, Dies DEF ClientError, AckIsLost, ProcessCrashes, Crash
  <2> QED BY <2>1, ForgetStep
<1>4. CASE TakeNumber
  <2>1. batches' = batches /\ UNCHANGED <<redis, seals, seal, alive>>
    BY <1>4 DEF TakeNumber
  <2>2. next' = number /\ number' = None /\ lst' = "waiting" /\ Covered(number)
    BY <1>4 DEF TakeNumber, At, SealingInv, SealsInv
  <2>3. BatchesInv'
    BY <1>s, <2>1, SameBatchesStep DEF SealingInv
  <2>4. Covered(next)'
    BY <2>1, <2>2 DEF Covered, Pending
  <2>5. SealsInv'
    BY <2>1, <2>2, <2>4 DEF SealingInv, SealsInv, Past
  <2> QED BY <2>3, <2>5 DEF SealingInv
<1>5. CASE FetchEvents
  BY <1>5, FetchStep
<1>6. CASE SendBatch
  BY <1>6, SendBatchStep
<1>7. CASE TakeAck
  BY <1>7, TakeAckStep
<1>8. CASE PushSeal
  <2>1. batches' = batches /\ UNCHANGED <<redis, seal, next, number>>
    BY <1>8 DEF PushSeal
  <2>2. alive' \subseteq alive
    BY <1>8, Dies DEF PushSeal
  <2>3. lst = "sealing" /\ Past(seal + 1)
    BY <1>8 DEF PushSeal, At, SealingInv, SealsInv
  <2>4. (seals' = <<seal>> \/ seals' = seals) /\ lst' \in {"select", "sealing"}
    BY <1>8, <2>3 DEF PushSeal
  <2>5. BatchesInv'
    BY <1>s, <2>1, SameBatchesStep DEF SealingInv
  <2>6. \A n \in Nat : <<seal>> = <<n>> => seal = n
    OBVIOUS
  <2>7. ASSUME NEW n, Covered(n) PROVE Covered(n)'
    BY <2>1, <2>7 DEF Covered, Pending
  <2>8. SealsInv'
    BY <2>1, <2>2, <2>3, <2>4, <2>6, <2>7 DEF SealingInv, SealsInv, Past
  <2> QED BY <2>5, <2>8 DEF SealingInv
<1>9. CASE ReceiveBatch
  <2>1. batches' = Staged(batches, Min(Queued), "running") /\ "running" \in Stages
    BY <1>9, Zenon DEF ReceiveBatch, Staged, Stages
  <2>2. Min(Queued) \in DOMAIN batches
    BY <1>9, <1>b, OldestQueued DEF ReceiveBatch
  <2>3. /\ DOMAIN batches' = DOMAIN batches /\ Len(batches') = Len(batches)
        /\ \A j \in DOMAIN batches :
              /\ batches'[j].to = batches[j].to /\ batches'[j].todo = batches[j].todo
              /\ batches'[j].stage = IF j = Min(Queued) THEN "running" ELSE batches[j].stage
    BY <1>b, <2>1, <2>2, StageChanges
  <2>4. SameBatches
    BY <2>3, AckedAreDone DEF SameBatches, SealingInv
  <2>5. alive' \subseteq alive /\ UNCHANGED <<redis, seals, listener>>
    BY <1>9 DEF ReceiveBatch
  <2> QED BY <2>4, <2>5, QuietStep
<1>10. ASSUME NEW i \in DOMAIN batches, AckBatch(i) PROVE SealingInv'
  <2>1. batches' = Staged(batches, i, "acked") /\ "acked" \in Stages /\ batches[i].todo = {}
    BY <1>10, Zenon DEF AckBatch, Staged, Stages
  <2>2. /\ DOMAIN batches' = DOMAIN batches /\ Len(batches') = Len(batches)
        /\ \A j \in DOMAIN batches :
              /\ batches'[j].to = batches[j].to /\ batches'[j].todo = batches[j].todo
              /\ batches'[j].stage = IF j = i THEN "acked" ELSE batches[j].stage
    BY <1>b, <2>1, StageChanges
  <2>3. SameBatches
    BY <2>1, <2>2, AckedAreDone DEF SameBatches, SealingInv
  <2>4. alive' \subseteq alive /\ UNCHANGED <<redis, seals, listener>>
    BY <1>10 DEF AckBatch
  <2> QED BY <2>3, <2>4, QuietStep
<1>11. ASSUME NEW i \in DOMAIN batches, NEW e \in Events, e \in Okay',
              batches' = Shrunk(batches, i, e), alive' \subseteq alive,
              UNCHANGED <<redis, seals, listener>>
       PROVE  SealingInv'
  <2>1. /\ DOMAIN batches' = DOMAIN batches /\ Len(batches') = Len(batches)
        /\ \A j \in DOMAIN batches :
              /\ batches'[j].to = batches[j].to /\ batches'[j].stage = batches[j].stage
              /\ batches'[j].todo \subseteq batches[j].todo
              /\ batches[j].todo \subseteq batches'[j].todo \cup {e}
    BY <1>h, <1>11, Zenon
  <2>2. SameBatches
    BY <1>11, <2>1, AckedAreDone DEF SameBatches, SealingInv
  <2> QED BY <1>11, <2>2, QuietStep
<1>12. ASSUME NEW i \in DOMAIN batches, NEW e \in Events, EventDone(i, e) PROVE SealingInv'
  <2>1. batches' = Shrunk(batches, i, e)
    BY <1>12, Zenon DEF EventDone, Shrunk
  <2>2. e \in Okay'
    <3>1. CASE Settled(e)
      BY <3>1 DEF Okay
    <3>2. CASE ~Settled(e)
      <4>1. e \in NewCommittee /\ committee # "final" /\ committee # "none"
        BY <1>12, <3>2 DEF EventDone, NeedsSignature, InCommittee
      <4>2. committee = "latest"
        BY <4>1 DEF TypeOK
      <4>3. e \in overlooked'
        BY <1>12, <4>1, <4>2 DEF EventDone
      <4> QED BY <4>3 DEF Okay
    <3> QED BY <3>1, <3>2
  <2>3. alive' \subseteq alive /\ UNCHANGED <<redis, seals, listener>>
    BY <1>12 DEF EventDone
  <2> QED BY <1>11, <2>1, <2>2, <2>3
<1>13. ASSUME NEW i \in DOMAIN batches, NEW e \in Events, EventFails(i, e) \/ EventMismatch(i, e)
       PROVE  SealingInv'
  <2>1. HandleFails(i, e)
    BY <1>13 DEF EventFails, EventMismatch
  <2>2. batches' = Shrunk(batches, i, e)
    BY <2>1, Zenon DEF HandleFails, Shrunk
  <2>3. e \in Okay' /\ alive' \subseteq alive /\ UNCHANGED <<redis, seals, listener>>
    BY <2>1 DEF HandleFails, Okay
  <2> QED BY <1>11, <2>2, <2>3
<1>14. CASE HandlerObserves
  <2>1. /\ DOMAIN batches' = DOMAIN batches /\ Len(batches') = Len(batches)
        /\ \A j \in DOMAIN batches :
              /\ batches'[j].to = batches[j].to /\ batches'[j].todo = batches[j].todo
              /\ batches'[j].stage = "acked" => batches[j].stage = "acked"
    BY <1>14, <1>b, BatchesDropped DEF HandlerObserves
  <2>2. SameBatches
    BY <2>1, AckedAreDone DEF SameBatches, SealingInv
  <2>3. alive' \subseteq alive
    BY <1>14, Observes DEF HandlerObserves
  <2>4. UNCHANGED <<redis, seals, listener>>
    BY <1>14 DEF HandlerObserves
  <2> QED BY <2>2, <2>3, <2>4, QuietStep
<1>15. CASE WriteSeal
  <2>1. PICK n \in Nat : seals = <<n>>
    BY <1>15, <1>b DEF WriteSeal, Types
  <2>2. redis' = n + 1 /\ seals' = <<>>
    BY <1>15, <2>1, SMT DEF WriteSeal
  <2>3. batches' = batches /\ UNCHANGED <<seal, next, number, lst, alive>>
    BY <1>15 DEF WriteSeal
  <2>4. Past(n + 1)
    BY <2>1 DEF SealingInv, SealsInv
  <2>5. BatchesInv'
    BY <1>s, <2>3, SameBatchesStep DEF SealingInv
  <2>6. ASSUME NEW m, Covered(m) PROVE Covered(m)'
    BY <2>3, <2>6 DEF Covered, Pending
  <2>7. \A m \in Nat : <<>> # <<m>>
    OBVIOUS
  <2>8. SealsInv'
    BY <2>2, <2>3, <2>4, <2>6, <2>7 DEF SealingInv, SealsInv, Past
  <2> QED BY <2>5, <2>8 DEF SealingInv
<1>16. CASE Run
  <2>1. /\ redis' = redis \/ redis' = DefaultBlock
        /\ number' = DefaultBlock \/ (number' = redis' /\ redis' # None)
    BY <1>16 DEF Run, ReadBlockNumber
  <2>2. batches' = <<>> /\ seals' = <<>> /\ lst' = "select"
    BY <1>16 DEF Run, Forget
  <2>3. DOMAIN batches' = {} /\ \A n \in Nat : <<>> # <<n>>
    BY <2>2, SMT
  <2>4. \A e \in Events : ~(BlockOf[e] < DefaultBlock)
    BY RelayerAssumption, SMT
  <2>5. BatchesInv'
    BY <2>3 DEF BatchesInv
  <2>6. redis' # None => Past(redis)'
    BY <2>1, <2>4 DEF SealingInv, SealsInv, Past
  <2>7. Covered(number)'
    BY <2>1, <2>4, <2>6 DEF Covered, Past
  <2>8. SealsInv'
    BY <2>2, <2>3, <2>6, <2>7 DEF SealsInv
  <2> QED BY <2>5, <2>8 DEF SealingInv
<1> QED
  BY <1>1, <1>2, <1>3, <1>4, <1>5, <1>6, <1>7, <1>8, <1>9, <1>10, <1>12, <1>13, <1>14, <1>15,
     <1>16, Zenon
     DEF Next, Listener, Handler, Manager, Environment

\* Every seal on its way to the cache, and the cache, is past settled events only, and what
\* the listener has left behind and is not settled is pending in a batch.
THEOREM SealingInvariant == Spec => []SealingInv
<1>1. Init => SealingInv
  <2> SUFFICES ASSUME Init PROVE SealingInv
    OBVIOUS
  <2>1. DOMAIN batches = {} /\ \A n \in Nat : seals # <<n>>
    BY SMT DEF Init
  <2>2. BatchesInv
    BY <2>1 DEF BatchesInv
  <2>3. SealsInv
    BY <2>1 DEF Init, SupervisorInit, SealsInv
  <2> QED BY <2>2, <2>3 DEF SealingInv
<1>2. TypeOK /\ SendingInv /\ SealingInv /\ [Next]_vars => SealingInv'
  BY SealingStep
<1> QED BY <1>1, <1>2, TypeInvariant, PTL DEF Spec

\* Whatever fails, crashes or is restarted on the way, and however the batches overtake each
\* other, a block is sealed in the cache only when each of its events is settled, reported
\* as failed, or of a committee that was in no finalized block when the event was handled.
THEOREM SealedTheorem == Spec => []SealedSettledUnlessFailed
<1>1. SealingInv => SealedSettledUnlessFailed
  BY DEF SealingInv, SealsInv, Past, Okay, SealedSettledUnlessFailed, Sealed
<1> QED BY <1>1, SealingInvariant, PTL

-----------------------------------------------------------------------------
(* The cache only advances *)

\* No run reads the default in place of the cache.
Trusted == "read" \notin FaultKinds /\ ~Override

\* The number n is not behind the cache, if there is one.
NotBehind(n) == redis = None \/ n >= redis

\* The block n is past the cache and past every seal on its way there, and past the batches.
Reached(n) ==
    /\ NotBehind(n)
    /\ \A k \in Nat : seals = <<k>> => k < n
    /\ lst = "sealing" => seal < n

Beyond(n) == Reached(n) /\ \A i \in DOMAIN batches : batches[i].to < n

SealOrder ==
    /\ \A k \in Nat : seals = <<k>> => NotBehind(k + 1)
    /\ lst = "sealing" => NotBehind(seal + 1) /\ \A k \in Nat : seals = <<k>> => k <= seal

BatchOrder ==
    /\ \A i \in DOMAIN batches : Reached(batches[i].to + 1)
    /\ \A i, j \in DOMAIN batches : i <= j => batches[i].to <= batches[j].to

ListenerOrder ==
    /\ lst \in {"waiting", "sending"} => number = None
    /\ number # None => Beyond(number)
    /\ lst = "waiting" => Beyond(next)

\* The blocks on their way through the pipeline are in the order of the chain: the listener
\* is beyond all batches, these are in order and past the seals, and the seals past the cache.
OrderInv == Trusted => SealOrder /\ BatchOrder /\ ListenerOrder

\* The batches stay where they are.
SameEnds ==
    /\ DOMAIN batches' = DOMAIN batches
    /\ \A j \in DOMAIN batches : batches'[j].to = batches[j].to

LEMMA SameOrder ==
    ASSUME OrderInv, Trusted, SameEnds, UNCHANGED <<redis, seals, listener>>
    PROVE  OrderInv'
<1>1. UNCHANGED <<redis, seals, seal, next, number, lst>>
  BY DEF listener
<1>2. SealOrder'
  BY <1>1 DEF OrderInv, SealOrder, NotBehind
<1>3. ASSUME NEW n, Reached(n) PROVE Reached(n)'
  BY <1>1, <1>3 DEF Reached, NotBehind
<1>4. ASSUME NEW n, Beyond(n) PROVE Beyond(n)'
  BY <1>3, <1>4 DEF Beyond, SameEnds
<1>5. BatchOrder'
  BY <1>3 DEF OrderInv, BatchOrder, SameEnds
<1>6. ListenerOrder'
  BY <1>1, <1>4 DEF OrderInv, ListenerOrder
<1> QED BY <1>2, <1>5, <1>6 DEF OrderInv

\* A run that begins or ends: nothing but a number is left.
LEMMA EmptyOrder ==
    ASSUME OrderInv, Trusted, Forget, redis' = redis,
           number' = None \/ NotBehind(number')
    PROVE  OrderInv'
<1>1. lst' = "select" /\ batches' = <<>> /\ seals' = <<>>
  BY DEF Forget
<1>2. DOMAIN batches' = {} /\ \A n \in Nat : <<>> # <<n>>
  BY <1>1, SMT
<1>3. SealOrder'
  BY <1>1, <1>2 DEF SealOrder
<1>4. BatchOrder'
  BY <1>2 DEF BatchOrder
<1>5. ListenerOrder'
  BY <1>1, <1>2 DEF ListenerOrder, Beyond, Reached, NotBehind
<1> QED BY <1>3, <1>4, <1>5 DEF OrderInv

LEMMA FetchOrder ==
    ASSUME Types, OrderInv, Trusted, FetchEvents
    PROVE  OrderInv'
<1> DEFINE n == next + SyncStep - 1
           upto == Min({head, n})
           b == [to |-> upto, stage |-> "unsent", todo |-> EventsIn(next, upto)]
<1>1. upto \in Nat /\ next <= upto /\ next \in Nat
  <2>1. /\ head \in Nat /\ n \in Nat /\ head \in Int /\ n \in Int /\ next \in Nat
        /\ next <= head /\ next <= n
    BY RelayerAssumption, SMT DEF Types, FetchEvents
  <2> HIDE DEF n
  <2>2. upto \in {head, n}
    BY <2>1, MinOfTwo, Zenon
  <2> QED BY <2>1, <2>2
<1> HIDE DEF upto
<1>2. b \in Batch /\ b.to = upto
  BY <1>1 DEF Batch, Stages, EventsIn
<1>3. batches' = Append(batches, b)
  BY Zenon DEF FetchEvents, b, upto, n
<1> HIDE DEF b
<1>4. batches \in Seq(Batch)
  BY DEF Types
<1>5. /\ batches'[Len(batches) + 1] = b
      /\ DOMAIN batches' = DOMAIN batches \cup {Len(batches) + 1} /\ Len(batches) \in Nat
      /\ DOMAIN batches = 1 .. Len(batches)
      /\ \A j \in DOMAIN batches : batches'[j] = batches[j]
  BY <1>2, <1>3, <1>4, BatchAdded
<1>6. UNCHANGED <<redis, seals, seal, number>> /\ lst = "waiting" /\ lst' = "sending"
  BY DEF FetchEvents, At
<1>7. Beyond(next) /\ number = None
  BY <1>6 DEF OrderInv, ListenerOrder
<1>8. ASSUME NEW m, Reached(m) PROVE Reached(m)'
  BY <1>6, <1>8 DEF Reached, NotBehind
<1>9. Reached(upto + 1)
  <2>1. redis \in Nat \cup {None} /\ \A m \in Nat : next > m => upto + 1 > m
    BY <1>1, SMT DEF Types
  <2>2. redis \in Nat /\ next >= redis => upto + 1 >= redis
    BY <1>1, SMT
  <2> QED BY <1>6, <1>7, <2>1, <2>2 DEF Beyond, Reached, NotBehind
<1>10. ASSUME NEW i \in DOMAIN batches PROVE batches[i].to < upto /\ batches[i].to \in Nat
  <2>1. batches[i].to \in Nat
    <3>1. batches[i] \in Batch
      BY <1>4, <1>5, ElementOfSeq
    <3> QED BY <3>1 DEF Batch
  <2>2. batches[i].to < next
    BY <1>7 DEF Beyond
  <2> QED BY <1>1, <2>1, <2>2, SMT
<1>11. BatchOrder'
  <2>1. \A i \in DOMAIN batches' : Reached(batches[i].to + 1)'
    <3> SUFFICES ASSUME NEW i \in DOMAIN batches' PROVE Reached(batches[i].to + 1)'
      OBVIOUS
    <3>1. CASE i \in DOMAIN batches
      <4>1. Reached(batches[i].to + 1)
        BY <3>1 DEF OrderInv, BatchOrder
      <4> QED BY <1>5, <1>8, <3>1, <4>1
    <3>2. CASE i = Len(batches) + 1
      BY <1>2, <1>5, <1>8, <1>9, <3>2
    <3> QED BY <1>5, <3>1, <3>2
  <2>2. ASSUME NEW i \in DOMAIN batches', NEW j \in DOMAIN batches', i <= j
        PROVE  batches'[i].to <= batches'[j].to
    <3>1. CASE i \in DOMAIN batches /\ j \in DOMAIN batches
      BY <1>5, <2>2, <3>1 DEF OrderInv, BatchOrder
    <3>2. CASE i \in DOMAIN batches /\ j = Len(batches) + 1
      BY <1>1, <1>2, <1>5, <1>10, <3>2
    <3>3. CASE i = Len(batches) + 1
      <4>1. j = Len(batches) + 1
        BY <1>5, <2>2, <3>3, SMT
      <4> QED BY <1>1, <1>2, <1>5, <3>3, <4>1
    <3> QED BY <1>5, <3>1, <3>2, <3>3
  <2> QED BY <2>1, <2>2 DEF BatchOrder
<1>12. SealOrder'
  BY <1>6 DEF OrderInv, SealOrder, NotBehind
<1>13. ListenerOrder'
  BY <1>6, <1>7 DEF ListenerOrder
<1> QED BY <1>11, <1>12, <1>13 DEF OrderInv

LEMMA SendOrder ==
    ASSUME Types, SendingInv, OrderInv, Trusted, SendBatch
    PROVE  OrderInv'
<1> DEFINE last == Len(batches)
<1>1. batches \in Seq(Batch) /\ last > 0 /\ lst = "sending"
  BY DEF Types, SendBatch, At, SendingInv
<1>2. last \in DOMAIN batches /\ \A i \in DOMAIN batches : i <= last
  <2>1. DOMAIN batches = 1 .. last /\ last \in Nat
    BY <1>1, LenProperties
  <2> QED BY <1>1, <2>1, SMT
<1>3. batches' = Staged(batches, last, "queued") /\ "queued" \in Stages
  BY Zenon DEF SendBatch, Staged, Stages
<1>4. SameEnds
  BY <1>1, <1>2, <1>3, StageChanges DEF SameEnds
<1>5. UNCHANGED <<redis, seals, seal>> /\ lst' = "select" /\ number' = batches[last].to + 1
  BY DEF SendBatch
<1>6. \A i \in DOMAIN batches : batches[i].to \in Nat
  <2>1. \A i \in DOMAIN batches : batches[i] \in Batch
    BY <1>1, LenProperties, ElementOfSeq
  <2> QED BY <2>1 DEF Batch
<1> HIDE DEF last
<1>7. ASSUME NEW m, Reached(m) PROVE Reached(m)'
  BY <1>1, <1>5, <1>7 DEF Reached, NotBehind
<1>8. BatchOrder'
  BY <1>4, <1>7 DEF OrderInv, BatchOrder, SameEnds
<1>9. SealOrder'
  BY <1>5 DEF OrderInv, SealOrder, NotBehind
<1>10. Beyond(number)'
  <2>0. PICK m : m = batches[last].to + 1
    OBVIOUS
  <2>1. Reached(m)'
    BY <1>2, <1>7, <2>0 DEF OrderInv, BatchOrder
  <2>2. ASSUME NEW i \in DOMAIN batches PROVE batches[i].to < batches[last].to + 1
    <3>1. batches[i].to <= batches[last].to
      BY <1>2 DEF OrderInv, BatchOrder
    <3> QED BY <1>2, <1>6, <3>1, SMT
  <2>3. number' = m
    BY <1>5, <2>0
  <2>4. Reached(number)'
    BY <2>1, <2>3 DEF Reached, NotBehind
  <2>5. \A i \in DOMAIN batches' : batches'[i].to < number'
    BY <1>4, <1>5, <2>2 DEF SameEnds
  <2> QED BY <2>4, <2>5 DEF Beyond
<1>11. ListenerOrder'
  BY <1>5, <1>10 DEF ListenerOrder
<1> QED BY <1>8, <1>9, <1>11 DEF OrderInv

LEMMA TakeAckOrder ==
    ASSUME Types, OrderInv, Trusted, TakeAck
    PROVE  OrderInv'
<1>1. batches \in Seq(Batch) /\ batches # <<>> /\ batches' = Tail(batches)
  BY DEF Types, TakeAck
<1>2. /\ Head(batches) = batches[1]
      /\ DOMAIN batches = 1 .. Len(batches) /\ DOMAIN batches' = 1 .. Len(batches) - 1
      /\ Len(batches) \in Nat \ {0}
      /\ \A j \in DOMAIN batches' : j + 1 \in DOMAIN batches /\ batches'[j] = batches[j + 1]
  BY <1>1, FirstLeaves
<1>3. /\ UNCHANGED <<redis, seals, number>> /\ lst = "select" /\ lst' = "sealing"
      /\ seal' = batches[1].to
  BY <1>2 DEF TakeAck, At
<1>4. 1 \in DOMAIN batches /\ \A i \in DOMAIN batches : 1 <= i
  BY <1>2, SMT
<1>5. \A i \in DOMAIN batches : batches[i].to \in Nat
  <2>1. \A i \in DOMAIN batches : batches[i] \in Batch
    BY <1>1, LenProperties, ElementOfSeq
  <2> QED BY <2>1 DEF Batch
<1>6. \A i \in DOMAIN batches : Reached(batches[i].to + 1) /\ batches[1].to <= batches[i].to
  BY <1>4 DEF OrderInv, BatchOrder
<1>7. ASSUME NEW m, Reached(m), batches[1].to < m PROVE Reached(m)'
  BY <1>3, <1>7 DEF Reached, NotBehind
<1>8. BatchOrder'
  <2>1. ASSUME NEW i \in DOMAIN batches' PROVE Reached(batches[i].to + 1)'
    <3>1. i + 1 \in DOMAIN batches /\ batches'[i] = batches[i + 1]
      BY <1>2
    <3>2. batches[1].to <= batches[i + 1].to /\ batches[i + 1].to \in Nat /\ batches[1].to \in Nat
      BY <1>4, <1>5, <1>6, <3>1
    <3>3. PICK m : m = batches[i + 1].to + 1
      OBVIOUS
    <3>4. Reached(m) /\ batches[1].to < m
      BY <1>6, <3>1, <3>2, <3>3
    <3>5. Reached(m)'
      BY <1>7, <3>4
    <3>6. m = batches'[i].to + 1
      BY <3>1, <3>3
    <3> QED BY <3>5, <3>6 DEF Reached, NotBehind
  <2>2. ASSUME NEW i \in DOMAIN batches', NEW j \in DOMAIN batches', i <= j
        PROVE  batches'[i].to <= batches'[j].to
    <3>1. i + 1 \in DOMAIN batches /\ j + 1 \in DOMAIN batches /\ i + 1 <= j + 1
      BY <1>2, <2>2, SMT
    <3> QED BY <1>2, <3>1 DEF OrderInv, BatchOrder
  <2> QED BY <2>1, <2>2 DEF BatchOrder
<1>9. SealOrder'
  <2>1. Reached(batches[1].to + 1)
    BY <1>4, <1>6
  <2>2. \A k \in Nat : k < batches[1].to + 1 => k <= batches[1].to
    BY <1>4, <1>5, SMT
  <2> QED BY <1>3, <2>1, <2>2 DEF OrderInv, SealOrder, NotBehind, Reached
<1>10. ListenerOrder'
  <2> SUFFICES ASSUME number' # None PROVE Beyond(number)'
    BY <1>3 DEF ListenerOrder
  <2>1. Beyond(number)
    BY <1>3 DEF OrderInv, ListenerOrder
  <2>2. \A j \in DOMAIN batches' : batches'[j].to < number
    BY <1>2, <2>1 DEF Beyond
  <2> QED BY <1>3, <1>4, <2>1, <2>2 DEF Beyond, Reached, NotBehind
<1> QED BY <1>8, <1>9, <1>10 DEF OrderInv

LEMMA OrderStep ==
    ASSUME Types, SendingInv, OrderInv, Trusted, [Next]_vars
    PROVE  /\ OrderInv'
           /\ redis = None \/ (redis' # None /\ redis' >= redis)
<1> DEFINE Advances == redis = None \/ (redis' # None /\ redis' >= redis)
<1> SUFFICES OrderInv' /\ Advances
  OBVIOUS
<1>t. /\ redis \in Nat \cup {None} /\ number \in Nat \cup {None} /\ next \in Nat /\ seal \in Nat
      /\ None \notin Nat /\ DefaultBlock \in Nat /\ batches \in Seq(Batch)
  BY RelayerAssumption DEF Types
<1>r. redis' = redis => Advances
  BY <1>t
<1> HIDE DEF Advances
<1> USE DEF supervision, chains, listener, history, work
<1>q. ASSUME SameEnds, UNCHANGED <<redis, seals, listener>> PROVE OrderInv' /\ Advances
  <2>1. OrderInv'
    BY <1>q, SameOrder
  <2> QED BY <1>q, <1>r, <2>1
<1>s. batches' = batches => SameEnds
  BY DEF SameEnds
<1>1. CASE \/ NewBlock \/ InstallCommittee \/ FinalizeCommittee \/ UNCHANGED vars
           \/ \E e \in Events : OthersProcess(e) \/ Finalize(e) \/ Reorg(e)
           \/ \E i \in DOMAIN batches, e \in Events : Vote(i, e)
           \/ ListenerObserves \/ ManagerObserves \/ \E t \in Watchers : Watch(t)
  <2>1. batches' = batches /\ UNCHANGED <<redis, seals, listener>>
    BY <1>1 DEF NewBlock, InstallCommittee, FinalizeCommittee, vars, OthersProcess, Finalize,
       Reorg, Vote, ListenerObserves, ManagerObserves, Watch
  <2> QED BY <1>q, <1>s, <2>1
<1>2. CASE ClientError \/ AckIsLost
  <2>1. Forget /\ redis' = redis /\ number' = number
    BY <1>2 DEF ClientError, AckIsLost
  <2>2. number = None \/ NotBehind(number)
    BY DEF OrderInv, ListenerOrder, Beyond, Reached
  <2>3. OrderInv'
    BY <2>1, <2>2, EmptyOrder
  <2> QED BY <1>r, <2>1, <2>3
<1>3. CASE ProcessCrashes
  <2>1. Forget /\ redis' = redis /\ number' = None
    BY <1>3 DEF ProcessCrashes
  <2>2. OrderInv'
    BY <2>1, EmptyOrder
  <2> QED BY <1>r, <2>1, <2>2
<1>4. CASE Run
  <2>1. redis' = redis
    BY <1>4, Zenon DEF Run, Trusted
  <2>2. number' = ReadBlockNumber(redis) /\ Forget
    BY <1>4, <2>1 DEF Run, Fault, Trusted
  <2>3. NotBehind(number')
    BY <1>t, <2>2 DEF ReadBlockNumber, NotBehind
  <2>4. OrderInv'
    BY <2>1, <2>2, <2>3, EmptyOrder
  <2> QED BY <1>r, <2>1, <2>4
<1>5. CASE TakeNumber
  <2>1. UNCHANGED <<batches, redis, seals, seal>> /\ lst = "select" /\ lst' = "waiting"
    BY <1>5 DEF TakeNumber, At
  <2>2. next' = number /\ number' = None /\ Beyond(number)
    BY <1>5 DEF TakeNumber, OrderInv, ListenerOrder
  <2>3. ASSUME NEW n, Reached(n) PROVE Reached(n)'
    BY <2>1, <2>3 DEF Reached, NotBehind
  <2>4. Beyond(next)'
    BY <2>1, <2>2 DEF Beyond, Reached, NotBehind
  <2>5. SealOrder' /\ BatchOrder'
    BY <2>1, <2>3 DEF OrderInv, SealOrder, BatchOrder, NotBehind
  <2>6. ListenerOrder'
    BY <2>2, <2>4 DEF ListenerOrder
  <2> QED BY <1>r, <2>1, <2>5, <2>6 DEF OrderInv
<1>6. CASE FetchEvents
  BY <1>6, <1>r, FetchOrder DEF FetchEvents
<1>7. CASE SendBatch
  BY <1>7, <1>r, SendOrder DEF SendBatch
<1>8. CASE TakeAck
  BY <1>8, <1>r, TakeAckOrder DEF TakeAck
<1>9. CASE PushSeal
  <2>1. UNCHANGED <<batches, redis, seal, next, number>> /\ lst = "sealing"
    BY <1>9 DEF PushSeal, At
  <2>2. CASE seals' = <<seal>> /\ lst' = "select"
    <3>1. \A k \in Nat : <<seal>> = <<k>> => k = seal
      OBVIOUS
    <3>2. ASSUME NEW n, Reached(n) PROVE Reached(n)'
      BY <2>1, <2>2, <3>1, <3>2 DEF Reached, NotBehind
    <3>3. SealOrder'
      BY <2>1, <2>2, <3>1 DEF OrderInv, SealOrder, NotBehind
    <3>4. BatchOrder'
      BY <2>1, <3>2 DEF OrderInv, BatchOrder
    <3>5. ListenerOrder'
      BY <2>1, <2>2, <3>2 DEF OrderInv, ListenerOrder, Beyond
    <3> QED BY <1>r, <2>1, <3>3, <3>4, <3>5 DEF OrderInv
  <2>3. CASE UNCHANGED <<seals, lst>>
    BY <1>q, <1>s, <2>1, <2>3
  <2> QED BY <1>9, <2>2, <2>3 DEF PushSeal
<1>10. CASE WriteSeal
  <2>1. PICK k \in Nat : seals = <<k>>
    BY <1>10 DEF WriteSeal, Types
  <2>2. redis' = k + 1 /\ seals' = <<>>
    BY <1>10, <2>1, SMT DEF WriteSeal
  <2>3. UNCHANGED <<batches, lst, number, next, seal>>
    BY <1>10 DEF WriteSeal
  <2>4. NotBehind(k + 1)
    BY <2>1 DEF OrderInv, SealOrder
  <2>5. Advances
    BY <1>t, <2>2, <2>4 DEF NotBehind, Advances
  <2>6. \A m \in Nat : <<>> # <<m>>
    OBVIOUS
  <2>7. ASSUME NEW n \in Nat, Reached(n) PROVE Reached(n)'
    <3>1. k < n
      BY <2>1, <2>7 DEF Reached
    <3>2. n >= k + 1
      BY <2>7, <3>1, SMT
    <3> QED BY <2>2, <2>3, <2>6, <2>7, <3>2 DEF Reached, NotBehind
  <2>8. \A i \in DOMAIN batches : batches[i].to + 1 \in Nat
    <3>1. \A i \in DOMAIN batches : batches[i] \in Batch
      BY <1>t, LenProperties, ElementOfSeq
    <3> QED BY <3>1 DEF Batch
  <2>9. SealOrder'
    <3>1. lst = "sealing" => k <= seal
      BY <2>1 DEF OrderInv, SealOrder
    <3>2. k <= seal => seal + 1 >= k + 1
      BY <1>t, SMT
    <3> QED BY <2>2, <2>3, <2>6, <3>1, <3>2 DEF SealOrder, NotBehind
  <2>10. BatchOrder'
    BY <2>3, <2>7, <2>8 DEF OrderInv, BatchOrder
  <2>11. ListenerOrder'
    BY <1>t, <2>3, <2>7 DEF OrderInv, ListenerOrder, Beyond
  <2> QED BY <2>5, <2>9, <2>10, <2>11 DEF OrderInv
<1>11. CASE ReceiveBatch
  <2>1. batches' = Staged(batches, Min(Queued), "running") /\ "running" \in Stages
    BY <1>11, Zenon DEF ReceiveBatch, Staged, Stages
  <2>2. Min(Queued) \in DOMAIN batches
    BY <1>11, OldestQueued DEF ReceiveBatch
  <2>3. SameEnds
    BY <1>t, <2>1, <2>2, StageChanges DEF SameEnds
  <2> QED BY <1>q, <1>11, <2>3 DEF ReceiveBatch
<1>12. ASSUME NEW i \in DOMAIN batches, AckBatch(i) PROVE OrderInv' /\ Advances
  <2>1. batches' = Staged(batches, i, "acked") /\ "acked" \in Stages
    BY <1>12, Zenon DEF AckBatch, Staged, Stages
  <2>2. SameEnds
    BY <1>t, <2>1, StageChanges DEF SameEnds
  <2> QED BY <1>q, <1>12, <2>2 DEF AckBatch
<1>13. ASSUME NEW i \in DOMAIN batches, NEW e \in Events, EventDone(i, e) \/ HandleFails(i, e)
       PROVE  OrderInv' /\ Advances
  <2>1. batches' = Shrunk(batches, i, e)
    BY <1>13, Zenon DEF EventDone, HandleFails, Shrunk
  <2>2. SameEnds
    BY <1>t, <2>1, TodoShrinks DEF SameEnds
  <2>3. UNCHANGED <<redis, seals, listener>>
    BY <1>13 DEF EventDone, HandleFails
  <2> QED BY <1>q, <2>2, <2>3
<1>14. CASE HandlerObserves
  <2>1. SameEnds
    BY <1>t, <1>14, BatchesDropped DEF HandlerObserves, SameEnds
  <2> QED BY <1>q, <1>14, <2>1 DEF HandlerObserves
<1> QED
  BY <1>1, <1>2, <1>3, <1>4, <1>5, <1>6, <1>7, <1>8, <1>9, <1>10, <1>11, <1>12, <1>13, <1>14,
     Zenon
     DEF Next, Listener, Handler, Manager, Environment, EventFails, EventMismatch

\* The blocks on their way to the cache are in the order of the chain.
THEOREM OrderInvariant == Spec => []OrderInv
<1>1. Init => OrderInv
  <2> SUFFICES ASSUME Init PROVE OrderInv
    OBVIOUS
  <2>1. DOMAIN batches = {} /\ \A n \in Nat : seals # <<n>>
    BY SMT DEF Init
  <2> QED BY <2>1 DEF Init, OrderInv, SealOrder, BatchOrder, ListenerOrder
<1>2. TypeOK /\ SendingInv /\ OrderInv /\ [Next]_vars => OrderInv'
  BY TypeParts, OrderStep DEF OrderInv, Trusted
<1> QED BY <1>1, <1>2, TypeInvariant, PTL DEF Spec

\* A cache that is read without an error and is not overridden only moves forward: batches
\* that end out of order, acknowledgements and seals still in the channels at a crash or at a
\* reboot, and numbers of an earlier run never bring an older block back.
CacheOnlyAdvances ==
    [][ \/ "read" \in FaultKinds \/ Override
        \/ redis = None
        \/ redis' # None /\ redis' >= redis ]_vars

\* A cache that is read without an error and is not overridden never moves back to an older
\* block, however the batches overtake each other and wherever a run ends: the listener
\* collects the acknowledgements in order, and no seal outlives the run that sent it.
THEOREM CacheAdvancesTheorem == Spec => CacheOnlyAdvances
<1>1. TypeOK /\ SendingInv /\ OrderInv /\ [Next]_vars
      => [ \/ "read" \in FaultKinds \/ Override
           \/ redis = None
           \/ redis' # None /\ redis' >= redis ]_vars
  BY TypeParts, OrderStep DEF Trusted
<1> QED BY <1>1, OrderInvariant, TypeInvariant, PTL DEF Spec, CacheOnlyAdvances
=============================================================================
