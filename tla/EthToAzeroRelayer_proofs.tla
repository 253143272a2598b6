---------------------- MODULE EthToAzeroRelayer_proofs ----------------------
(***************************************************************************)
(* Proofs about EthToAzeroRelayer, for every log of Ethereum, every bound  *)
(* on the faults and every instant at which they happen: the types, and    *)
(* that the cache moves past settled events only and never back.           *)
(***************************************************************************)
EXTENDS EthToAzeroRelayer, Sums

USE DEF Pipeline

\* The types of the flags, and of everything else.
Flags == up \in BOOLEAN /\ lagged \in BOOLEAN /\ deaf \in BOOLEAN

Types ==
    /\ alive \subseteq Tasks
    /\ cb \in [Tasks -> 0 .. 2]
    /\ faults \in 0 .. MaxFaults
    /\ head \in DefaultBlock .. MaxBlock
    /\ votes \in [Events -> {"none", "latest", "final"}]
    /\ committee \in {"none", "latest", "final"} /\ overlooked \subseteq NewCommittee
    /\ pool \in Events \cup {None} /\ block \in Events \cup {None}
    /\ nonce \in -1 .. 1
    /\ tx \in {"none", "watched", "final", "lost"}
    /\ redis \in Nat \cup {None}
    /\ lst \in {"next", "finalized", "query", "stalled", "send", "ack"}
    /\ next \in Nat /\ to \in Nat
    /\ lst \in {"query", "stalled", "send", "ack"} => to <= head /\ to < next + SyncStep
    /\ number \in Nat \cup {None} /\ news \in Nat \cup {None}
    /\ channel \in {None} \cup SUBSET Events /\ todo \in {None} \cup SUBSET Events
    /\ ack \in {"none", "acked", "dropped"}

LEMMA TypeParts == TypeOK <=> Flags /\ Types
  BY DEF TypeOK, SupervisorType, Flags, Types

\* The nonce of a client whose handler is between two transactions is not ahead.
NonceInv == "handler" \in alive /\ tx \in {"none", "final"} => nonce <= 0

LEMMA LeastOfTodo ==
    ASSUME Types, Busy
    PROVE  Current \in todo /\ Current \in Events
<1>1. todo \in SUBSET Nat /\ todo # {} /\ todo \subseteq Events
  BY RelayerAssumption DEF Types, Busy
<1>2. \E least \in todo : \A m \in todo : least <= m
  BY <1>1, LeastNatural
<1> QED BY <1>1, <1>2 DEF Current, Min

LEMMA MinOfTwo ==
    ASSUME NEW m \in Int, NEW n \in Int
    PROVE  Min({m, n}) \in {m, n} /\ Min({m, n}) <= m /\ Min({m, n}) <= n
  BY SMT DEF Min

LEMMA MaxOfTwo ==
    ASSUME NEW m \in Int, NEW n \in Int
    PROVE  Max({m, n}) \in {m, n} /\ Max({m, n}) >= m /\ Max({m, n}) >= n
  BY SMT DEF Max

\* A task that looks at the circuit breaker leaves, alone or with all the others.
LEMMA Observes ==
    ASSUME NEW t, Observe(t)
    PROVE  /\ alive' \subseteq alive /\ t \notin alive'
           /\ cb' = cb /\ faults' = faults
  BY DEF Observe, Exit, Die

LEMMA Dies == Die => alive' = {}
  BY DEF Die

LEMMA TypeInit == Init => TypeOK /\ NonceInv
<1> SUFFICES ASSUME Init PROVE TypeOK /\ NonceInv
  OBVIOUS
<1>1. Flags
  BY Zenon DEF Init, SupervisorInit, Flags
<1>2. Types /\ NonceInv
  BY RelayerAssumption, SupervisorAssumption DEF Init, SupervisorInit, Types, NonceInv
<1> QED BY <1>1, <1>2, TypeParts

LEMMA FlagsStep ==
    ASSUME Flags, [Next]_vars
    PROVE  Flags'
<1> USE DEF Flags, supervision, numbers
<1>1. CASE NewBlock
  BY <1>1, Zenon DEF NewBlock
<1>2. CASE InstallCommittee
  BY <1>2, Zenon DEF InstallCommittee
<1>3. CASE FinalizeCommittee
  BY <1>3, Zenon DEF FinalizeCommittee
<1>4. CASE Include
  BY <1>4, Zenon DEF Include
<1>5. CASE FinalizeBlock
  BY <1>5, Zenon DEF FinalizeBlock
<1>6. CASE QueryFails
  BY <1>6, Zenon DEF QueryFails, At, Fault
<1>7. CASE EventFails
  BY <1>7, Zenon DEF EventFails, HandleFails, Busy, Trip, Exit, Fault
<1>8. CASE DropTx
  BY <1>8, Zenon DEF DropTx, Fault
<1>9. CASE ProcessCrashes
  BY <1>9, Zenon DEF ProcessCrashes, Crash, Die, Forget, Fault
<1>10. ASSUME NEW e \in Events, OthersProcess(e) PROVE Flags'
  BY <1>10, Zenon DEF OthersProcess
<1>11. ASSUME NEW e \in Events, Finalize(e) PROVE Flags'
  BY <1>11, Zenon DEF Finalize
<1>12. ASSUME NEW e \in Events, Reorg(e) PROVE Flags'
  BY <1>12, Zenon DEF Reorg, Fault
<1>13. CASE TakeNumber
  BY <1>13, Zenon DEF TakeNumber, At
<1>14. CASE WaitForFinalized
  BY <1>14, Zenon DEF WaitForFinalized
<1>15. CASE QueryEvents
  BY <1>15, Zenon DEF QueryEvents, At, Announce
<1>16. CASE SendEvents
  BY <1>16, Zenon DEF SendEvents, At, Die, EventsIn
<1>17. CASE TakeAck
  BY <1>17, Zenon DEF TakeAck, At, Announce
<1>18. CASE ListenerObserves
  BY <1>18, Zenon DEF ListenerObserves, Observe, Exit, Die
<1>19. CASE ReceiveEvents
  BY <1>19, Zenon DEF ReceiveEvents
<1>20. CASE Submit
  BY <1>20, Zenon DEF Submit
<1>21. CASE Refused
  BY <1>21, Zenon DEF Refused, NeedsVote, Free, InUse, HandleFails, Busy, Trip, Exit
<1>22. CASE Finalized
  BY <1>22, Zenon DEF Finalized
<1>23. CASE Lost
  BY <1>23, Zenon DEF Lost, HandleFails, Busy, Trip, Exit
<1>24. CASE EventDone
  BY <1>24, Zenon DEF EventDone, Free, Busy
<1>25. CASE EventMismatch
  BY <1>25, Zenon DEF EventMismatch, Free, HandleFails, Busy, Trip, Exit
<1>26. CASE AckEvents
  BY <1>26, Zenon DEF AckEvents, Die
<1>27. CASE HandlerObserves
  BY <1>27, Zenon DEF HandlerObserves, Observe, Exit, Die
<1>28. CASE WriteNumber
  BY <1>28, Zenon DEF WriteNumber
<1>29. CASE ManagerLags
  BY <1>29, Zenon DEF ManagerLags
<1>30. CASE ManagerWakes
  BY <1>30, Zenon DEF ManagerWakes
<1>31. CASE ManagerObserves
  BY <1>31, Zenon DEF ManagerObserves, Observe, Exit, Die
<1>32. CASE Run
  BY <1>32, Zenon DEF Run, Start, Forget, ReadBlockNumber, ClientNonce, Fault
<1>33. ASSUME NEW t \in Watchers, Watch(t) PROVE Flags'
  BY <1>33, Zenon DEF Watch, WatcherTrips, Observe, Exit, Die, Trip, Fault
<1>34. CASE UNCHANGED vars
  BY <1>34, Zenon DEF vars
<1> QED
  BY <1>1, <1>2, <1>3, <1>4, <1>5, <1>6, <1>7, <1>8, <1>9, <1>10, <1>11, <1>12, <1>13, <1>14,
     <1>15, <1>16, <1>17, <1>18, <1>19, <1>20, <1>21, <1>22, <1>23, <1>24, <1>25, <1>26,
     <1>27, <1>28, <1>29, <1>30, <1>31, <1>32, <1>33, <1>34
     DEF Next, Listener, Handler, Manager, Environment

LEMMA TypesStep ==
    ASSUME Types, NonceInv, [Next]_vars
    PROVE  Types' /\ NonceInv'
<1> USE RelayerAssumption, SupervisorAssumption
<1> USE DEF Types, NonceInv, supervision, submission, chains, listener,
            numbers, work, Tasks
<1>1. CASE NewBlock
  BY <1>1 DEF NewBlock
<1>2. CASE InstallCommittee
  BY <1>2 DEF InstallCommittee
<1>3. CASE FinalizeCommittee
  BY <1>3 DEF FinalizeCommittee
<1>4. CASE Include
  BY <1>4 DEF Include
<1>5. CASE FinalizeBlock
  <2>1. nonce' \in -1 .. 1 /\ nonce' <= nonce /\ (nonce' <= 0)
    <3>1. nonce - 1 \in Int /\ -1 \in Int
      BY SMT
    <3>2. nonce' \in {nonce - 1, -1} /\ nonce' >= -1
      BY <1>5, <3>1, MaxOfTwo DEF FinalizeBlock
    <3> QED BY <3>2, SMT
  <2> QED BY <1>5, <2>1 DEF FinalizeBlock
<1>6. CASE QueryFails
  BY <1>6 DEF QueryFails, At, Fault
<1>7. CASE EventFails
  BY <1>7 DEF EventFails, HandleFails, Busy, Trip, Exit, Fault
<1>8. CASE DropTx
  BY <1>8 DEF DropTx, Fault
<1>9. CASE ProcessCrashes
  BY <1>9 DEF ProcessCrashes, Crash, Die, Forget, Fault
<1>10. ASSUME NEW e \in Events, OthersProcess(e) PROVE Types' /\ NonceInv'
  BY <1>10 DEF OthersProcess
<1>11. ASSUME NEW e \in Events, Finalize(e) PROVE Types' /\ NonceInv'
  BY <1>11 DEF Finalize
<1>12. ASSUME NEW e \in Events, Reorg(e) PROVE Types' /\ NonceInv'
  BY <1>12 DEF Reorg, Fault
<1>13. CASE TakeNumber
  BY <1>13 DEF TakeNumber, At
<1>14. CASE WaitForFinalized
  <2>1. ToBlock \in Nat /\ ToBlock <= head /\ ToBlock < next + SyncStep
    <3>1. head \in Nat /\ next + SyncStep - 1 \in Nat
      BY SMT
    <3>2. ToBlock \in {head, next + SyncStep - 1} /\ ToBlock <= head /\ ToBlock <= next + SyncStep - 1
      <4> DEFINE n == next + SyncStep - 1
      <4>1. n \in Int /\ head \in Int
        BY <3>1, SMT
      <4> HIDE DEF n
      <4>2. Min({head, n}) \in {head, n} /\ Min({head, n}) <= head /\ Min({head, n}) <= n
        BY <4>1, MinOfTwo
      <4> QED BY <4>2 DEF ToBlock, n
    <3> QED BY <3>1, <3>2, SMT
  <2> QED BY <1>14, <2>1 DEF WaitForFinalized, At
<1>15. CASE QueryEvents
  BY <1>15 DEF QueryEvents, At, Announce
<1>16. CASE SendEvents
  <2>1. alive' \subseteq alive
    BY <1>16, Dies DEF SendEvents
  <2>2. channel' \in {None} \cup SUBSET Events /\ ack' \in {"none", "acked", "dropped"}
    BY <1>16 DEF SendEvents, EventsIn
  <2>3. lst' \in {"send", "ack"}
    BY <1>16 DEF SendEvents, At
  <2> QED BY <1>16, <2>1, <2>2, <2>3 DEF SendEvents, At
<1>17. CASE TakeAck
  BY <1>17 DEF TakeAck, At, Announce
<1>18. CASE ListenerObserves
  <2>1. alive' \subseteq alive /\ cb' = cb /\ faults' = faults
    BY <1>18, Observes DEF ListenerObserves
  <2> QED BY <1>18, <2>1 DEF ListenerObserves
<1>19. CASE ReceiveEvents
  BY <1>19 DEF ReceiveEvents
<1>20. CASE Submit
  <2>1. Current \in Events
    BY <1>20, LeastOfTodo DEF Submit, NeedsVote, Free
  <2> QED BY <1>20, <2>1 DEF Submit, NeedsVote, Free, Busy, InUse
<1>21. CASE Refused
  BY <1>21 DEF Refused, NeedsVote, Free, InUse, HandleFails, Busy, Trip, Exit
<1>22. CASE Finalized
  BY <1>22 DEF Finalized
<1>23. CASE Lost
  BY <1>23 DEF Lost, HandleFails, Busy, Trip, Exit
<1>24. CASE EventDone
  <2>1. todo' \in SUBSET Events
    BY <1>24 DEF EventDone, Free, Busy
  <2>2. overlooked' \subseteq NewCommittee
    BY <1>24 DEF EventDone
  <2> QED BY <1>24, <2>1, <2>2 DEF EventDone
<1>25. CASE EventMismatch
  BY <1>25 DEF EventMismatch, Free, HandleFails, Busy, Trip, Exit
<1>26. CASE AckEvents
  <2>1. alive' \subseteq alive
    BY <1>26, Dies DEF AckEvents
  <2>2. todo' \in {None} \cup SUBSET Events /\ ack' \in {"none", "acked", "dropped"}
    BY <1>26 DEF AckEvents
  <2> QED BY <1>26, <2>1, <2>2 DEF AckEvents
<1>27. CASE HandlerObserves
  <2>1. alive' \subseteq alive /\ "handler" \notin alive' /\ cb' = cb /\ faults' = faults
    BY <1>27, Observes DEF HandlerObserves
  <2> QED BY <1>27, <2>1 DEF HandlerObserves
<1>28. CASE WriteNumber
  BY <1>28 DEF WriteNumber
<1>29. CASE ManagerLags
  BY <1>29 DEF ManagerLags
<1>30. CASE ManagerWakes
  BY <1>30 DEF ManagerWakes
<1>31. CASE ManagerObserves
  <2>1. alive' \subseteq alive /\ cb' = cb /\ faults' = faults
    BY <1>31, Observes DEF ManagerObserves
  <2> QED BY <1>31, <2>1 DEF ManagerObserves
<1>32. CASE Run
  BY <1>32 DEF Run, Start, Forget, ReadBlockNumber, ClientNonce, Fault
<1>33. ASSUME NEW t \in Watchers, Watch(t) PROVE Types' /\ NonceInv'
  <2>1. CASE WatcherTrips(t)
    BY <1>33, <2>1 DEF Watch, WatcherTrips, Exit, Trip, Fault
  <2>2. CASE Observe(t)
    <3>1. alive' \subseteq alive /\ cb' = cb /\ faults' = faults
      BY <2>2, Observes
    <3> QED BY <1>33, <3>1 DEF Watch
  <2> QED BY <1>33, <2>1, <2>2 DEF Watch
<1>34. CASE UNCHANGED vars
  BY <1>34 DEF vars
<1> QED
  BY <1>1, <1>2, <1>3, <1>4, <1>5, <1>6, <1>7, <1>8, <1>9, <1>10, <1>11, <1>12, <1>13, <1>14,
     <1>15, <1>16, <1>17, <1>18, <1>19, <1>20, <1>21, <1>22, <1>23, <1>24, <1>25, <1>26,
     <1>27, <1>28, <1>29, <1>30, <1>31, <1>32, <1>33, <1>34
     DEF Next, Listener, Handler, Manager, Environment

\* The type of the variables is an invariant: in particular a batch never spans more than
\* sync_step blocks or one that is not finalized, and the nonce of the client is at most
\* one off the account's, whatever transaction an earlier run has left in the pool.
THEOREM TypeCorrect == Spec => []TypeOK
<1>1. Init => TypeOK /\ NonceInv
  BY TypeInit
<1>2. TypeOK /\ NonceInv /\ [Next]_vars => (TypeOK /\ NonceInv)'
  <2> SUFFICES ASSUME TypeOK, NonceInv, [Next]_vars PROVE TypeOK' /\ NonceInv'
    OBVIOUS
  <2>1. Flags' /\ Types' /\ NonceInv'
    BY TypeParts, FlagsStep, TypesStep
  <2> QED BY <2>1 DEF TypeOK, SupervisorType, Flags, Types
<1> QED BY <1>1, <1>2, PTL DEF Spec

-----------------------------------------------------------------------------
(* The cache *)

\* The events that need no vote any more, or never will get one from this guardian.
Okay == {e \in Events : Settled(e) \/ e \in overlooked}

\* The events of the range the listener works on that still need one.
Left == EventsIn(next, to) \ Okay

Past(n) == \A e \in Events : BlockOf[e] < n => e \in Okay

\* Every block number on its way is past settled events only.
NumbersInv ==
    /\ redis # None => Past(redis)
    /\ number # None => Past(number)
    /\ news # None => Past(news)
    /\ lst # "next" => Past(next)

\* The events that are left are in the channel or on the handler's list, unless the handler
\* has returned, and are none when the listener finds an acknowledgement.
BatchInv ==
    /\ lst = "ack" /\ ack = "acked" => Left = {}
    /\ "handler" \in alive =>
          /\ lst # "ack" => channel = None /\ todo = None
          /\ channel # None => todo = None /\ ack = "none" /\ Left \subseteq channel
          /\ todo # None => channel = None /\ ack = "none" /\ Left \subseteq todo

CacheInv == NumbersInv /\ BatchInv

\* What is final stays so.
LEMMA OkayGrows ==
    ASSUME TypeOK, [Next]_vars
    PROVE  Okay \subseteq Okay'
<1> USE DEF chains, submission
<1>1. /\ \A e \in Events : votes[e] = "final" => votes'[e] = "final"
      /\ overlooked \subseteq overlooked'
  <2> USE DEF TypeOK
  <2>1. CASE Include
    BY <2>1 DEF Include
  <2>2. CASE FinalizeBlock
    BY <2>2 DEF FinalizeBlock
  <2>3. ASSUME NEW e \in Events, OthersProcess(e) \/ Finalize(e) \/ Reorg(e)
        PROVE  <1>1!1 /\ <1>1!2
    BY <2>3 DEF OthersProcess, Finalize, Reorg
  <2>4. CASE EventDone
    BY <2>4 DEF EventDone
  <2>5. CASE Listener
    BY <2>5 DEF Listener, TakeNumber, WaitForFinalized, QueryEvents, SendEvents, TakeAck,
       ListenerObserves
  <2>6. CASE Handler
    BY <2>4, <2>6 DEF Handler, ReceiveEvents, Submit, Refused, Finalized, Lost, EventMismatch,
       HandleFails, AckEvents, HandlerObserves
  <2>7. CASE Manager
    BY <2>7 DEF Manager, WriteNumber, ManagerLags, ManagerWakes, ManagerObserves
  <2>8. CASE Environment
    BY <2>1, <2>2, <2>3, <2>8 DEF Environment, NewBlock, InstallCommittee, FinalizeCommittee,
       QueryFails, EventFails, HandleFails, DropTx, ProcessCrashes
  <2>9. CASE Run
    BY <2>9 DEF Run
  <2>10. ASSUME NEW t \in Watchers, Watch(t) PROVE <1>1!1 /\ <1>1!2
    BY <2>10 DEF Watch
  <2>11. CASE UNCHANGED vars
    BY <2>11 DEF vars
  <2> QED BY <2>5, <2>6, <2>7, <2>8, <2>9, <2>10, <2>11 DEF Next
<1> QED BY <1>1 DEF Okay, Settled

\* The steps that touch no block number and no batch: the chains', and those of a task that
\* leaves or waits.
LEMMA QuietStep ==
    ASSUME CacheInv, Okay \subseteq Okay', alive' \subseteq alive,
           UNCHANGED <<redis, listener, number, news, work>>
    PROVE  CacheInv'
<1>1. Left' \subseteq Left
  BY DEF Left, EventsIn, listener
<1>2. NumbersInv'
  BY DEF CacheInv, NumbersInv, Past, listener
<1>3. BatchInv'
  BY <1>1 DEF CacheInv, BatchInv, listener, work
<1> QED BY <1>2, <1>3 DEF CacheInv

\* The steps after which the handler is gone.
LEMMA GoneStep ==
    ASSUME CacheInv, Okay \subseteq Okay', "handler" \notin alive',
           UNCHANGED <<redis, listener, number, news>>,
           ack' = "acked" => ack = "acked"
    PROVE  CacheInv'
<1>1. Left' \subseteq Left
  BY DEF Left, EventsIn, listener
<1>2. NumbersInv'
  BY DEF CacheInv, NumbersInv, Past, listener
<1>3. BatchInv'
  BY <1>1 DEF CacheInv, BatchInv, listener
<1> QED BY <1>2, <1>3 DEF CacheInv

\* A range without events left is behind the listener.
LEMMA PastRange ==
    ASSUME TypeOK, Past(next), Left = {}
    PROVE  Past(to + 1)
<1> SUFFICES ASSUME NEW e \in Events, BlockOf[e] < to + 1 PROVE e \in Okay
  BY DEF Past
<1>1. BlockOf[e] \in Nat /\ next \in Nat /\ to \in Nat
  BY RelayerAssumption DEF TypeOK
<1>2. CASE BlockOf[e] < next
  BY <1>2 DEF Past
<1>3. CASE ~(BlockOf[e] < next)
  <2>1. BlockOf[e] \in next .. to
    BY <1>1, <1>3, SMT
  <2> QED BY <2>1 DEF Left, EventsIn
<1> QED BY <1>2, <1>3

LEMMA CacheStep ==
    ASSUME TypeOK, CacheInv, [Next]_vars
    PROVE  CacheInv'
<1> USE OkayGrows
<1>n. \A S \in SUBSET Events : S # None
  BY RelayerAssumption
<1>t. DefaultBlock \in Nat /\ Past(DefaultBlock)
  BY RelayerAssumption DEF Past
<1> USE DEF supervision, submission, chains, listener, numbers, work
<1>1. CASE \/ NewBlock \/ InstallCommittee \/ FinalizeCommittee \/ Include \/ FinalizeBlock
           \/ \E e \in Events : OthersProcess(e) \/ Finalize(e)
  <2>1. alive' \subseteq alive /\ UNCHANGED <<redis, listener, number, news, work>>
    BY <1>1 DEF NewBlock, InstallCommittee, FinalizeCommittee, Include, FinalizeBlock,
       OthersProcess, Finalize
  <2> QED BY <2>1, QuietStep
<1>2. CASE DropTx \/ \E e \in Events : Reorg(e)
  <2>1. alive' \subseteq alive /\ UNCHANGED <<redis, listener, number, news, work>>
    BY <1>2 DEF DropTx, Reorg
  <2> QED BY <2>1, QuietStep
<1>3. CASE QueryFails
  <2>1. NumbersInv'
    BY <1>3 DEF QueryFails, At, CacheInv, NumbersInv, Past
  <2>2. BatchInv'
    BY <1>3 DEF QueryFails, At, CacheInv, BatchInv
  <2> QED BY <2>1, <2>2 DEF CacheInv
<1>4. CASE EventFails \/ Refused \/ Lost \/ EventMismatch
  <2>1. HandleFails /\ UNCHANGED <<redis, listener, number, news>> /\ ack' = "dropped"
    BY <1>4 DEF EventFails, Refused, Lost, EventMismatch, HandleFails
  <2>2. "handler" \notin alive'
    BY <2>1 DEF HandleFails, Exit
  <2> QED BY <2>1, <2>2, GoneStep
<1>5. CASE HandlerObserves
  <2>1. "handler" \notin alive'
    BY <1>5, Observes DEF HandlerObserves
  <2>2. UNCHANGED <<redis, listener, number, news>> /\ (ack' = "acked" => ack = "acked")
    BY <1>5 DEF HandlerObserves
  <2> QED BY <2>1, <2>2, GoneStep
<1>6. CASE ProcessCrashes
  <2>1. /\ redis' = redis /\ number' = None /\ news' = None /\ lst' = "next" /\ alive' = {}
    BY <1>6, Dies DEF ProcessCrashes, Forget, Crash
  <2> QED BY <2>1 DEF CacheInv, NumbersInv, BatchInv, Past
<1>7. CASE Run
  <2>1. /\ redis' = redis \/ redis' = DefaultBlock
        /\ number' \in {DefaultBlock, redis'} /\ number' # None /\ news' = number'
        /\ lst' = "next" /\ channel' = None /\ todo' = None /\ ack' = "none"
    BY <1>7, <1>t, RelayerAssumption DEF Run, Forget, ReadBlockNumber, TypeOK
  <2>2. redis' # None => Past(redis)'
    BY <1>t, <2>1 DEF CacheInv, NumbersInv, Past
  <2>3. Past(number)'
    BY <1>t, <2>1, <2>2 DEF Past
  <2> QED BY <2>1, <2>2, <2>3 DEF CacheInv, NumbersInv, BatchInv
<1>8. CASE ListenerObserves \/ ManagerObserves \/ \E t \in Watchers : Watch(t)
  <2>1. alive' \subseteq alive
    BY <1>8, Observes DEF ListenerObserves, ManagerObserves, Watch, WatcherTrips, Exit
  <2>2. UNCHANGED <<redis, listener, number, news, work>>
    BY <1>8 DEF ListenerObserves, ManagerObserves, Watch
  <2> QED BY <2>1, <2>2, QuietStep
<1>9. CASE Submit \/ Finalized \/ ManagerLags \/ ManagerWakes \/ UNCHANGED vars
  <2>1. alive' \subseteq alive /\ UNCHANGED <<redis, listener, number, news, work>>
    BY <1>9 DEF Submit, Finalized, ManagerLags, ManagerWakes, vars
  <2> QED BY <2>1, QuietStep
<1>10. CASE TakeNumber
  <2>1. NumbersInv'
    BY <1>10 DEF TakeNumber, At, CacheInv, NumbersInv, Past
  <2>2. BatchInv'
    BY <1>10 DEF TakeNumber, At, CacheInv, BatchInv
  <2> QED BY <2>1, <2>2 DEF CacheInv
<1>11. CASE WaitForFinalized
  <2>1. NumbersInv'
    BY <1>11 DEF WaitForFinalized, At, CacheInv, NumbersInv, Past
  <2>2. BatchInv'
    BY <1>11 DEF WaitForFinalized, At, CacheInv, BatchInv
  <2> QED BY <2>1, <2>2 DEF CacheInv
<1>12. CASE QueryEvents
  <2>1. CASE EventsIn(next, to) = {} /\ Announce(to + 1) /\ lst' = "next"
    <3>1. Past(to + 1)
      BY <1>12, <2>1, PastRange DEF QueryEvents, At, CacheInv, NumbersInv, Left
    <3>2. NumbersInv'
      BY <1>12, <2>1, <3>1 DEF QueryEvents, Announce, CacheInv, NumbersInv, Past
    <3>3. BatchInv'
      BY <1>12, <2>1 DEF QueryEvents, At, CacheInv, BatchInv
    <3> QED BY <3>2, <3>3 DEF CacheInv
  <2>2. CASE lst' = "send" /\ UNCHANGED numbers
    <3>1. NumbersInv'
      BY <1>12, <2>2 DEF QueryEvents, At, CacheInv, NumbersInv, Past
    <3>2. BatchInv'
      BY <1>12, <2>2 DEF QueryEvents, At, CacheInv, BatchInv
    <3> QED BY <3>1, <3>2 DEF CacheInv
  <2> QED BY <1>12, <2>1, <2>2 DEF QueryEvents
<1>13. CASE SendEvents
  <2>1. NumbersInv'
    BY <1>13 DEF SendEvents, At, CacheInv, NumbersInv, Past
  <2>2. CASE "handler" \in alive
    <3>1. /\ channel' = EventsIn(next, to) /\ ack' = "none" /\ lst' = "ack"
          /\ next' = next /\ to' = to /\ todo' = todo
      BY <1>13, <2>2 DEF SendEvents
    <3>2. todo = None
      BY <1>13, <2>2 DEF SendEvents, At, CacheInv, BatchInv
    <3>3. Left' \subseteq channel'
      BY <3>1 DEF Left, EventsIn
    <3> QED BY <2>1, <3>1, <3>2, <3>3 DEF CacheInv, BatchInv
  <2>3. CASE "handler" \notin alive
    <3>1. alive' = {} /\ lst' = lst
      BY <1>13, <2>3, Dies DEF SendEvents
    <3> QED BY <1>13, <2>1, <3>1 DEF SendEvents, At, CacheInv, BatchInv
  <2> QED BY <2>2, <2>3
<1>14. CASE TakeAck
  <2>1. CASE ack = "acked" /\ Announce(to + 1)
    <3>1. Past(to + 1)
      BY <1>14, <2>1, PastRange DEF TakeAck, At, CacheInv, NumbersInv, BatchInv
    <3>2. NumbersInv'
      BY <1>14, <2>1, <3>1 DEF TakeAck, Announce, CacheInv, NumbersInv, Past
    <3>3. BatchInv'
      BY <1>14, <2>1 DEF TakeAck, At, CacheInv, BatchInv
    <3> QED BY <3>2, <3>3 DEF CacheInv
  <2>2. CASE ack = "dropped" /\ UNCHANGED numbers
    <3>1. NumbersInv'
      BY <1>14, <2>2 DEF TakeAck, At, CacheInv, NumbersInv, Past
    <3>2. BatchInv'
      BY <1>14, <2>2 DEF TakeAck, At, CacheInv, BatchInv
    <3> QED BY <3>1, <3>2 DEF CacheInv
  <2> QED BY <1>14, <2>1, <2>2 DEF TakeAck
<1>15. CASE ReceiveEvents
  <2>1. NumbersInv'
    BY <1>15 DEF ReceiveEvents, CacheInv, NumbersInv, Past
  <2>2. Left' \subseteq Left
    BY <1>15 DEF ReceiveEvents, Left, EventsIn
  <2>3. BatchInv'
    BY <1>15, <2>2 DEF ReceiveEvents, CacheInv, BatchInv
  <2> QED BY <2>1, <2>3 DEF CacheInv
<1>16. CASE EventDone
  <2>1. NumbersInv'
    BY <1>16 DEF EventDone, CacheInv, NumbersInv, Past
  <2>2. Current \in Events => Current \in Okay'
    <3>1. CASE Settled(Current)
      BY <1>16, <3>1 DEF EventDone, Settled, Okay
    <3>2. CASE ~Settled(Current)
      <4>1. Current \in NewCommittee /\ committee # "final" /\ committee # "none"
        BY <1>16, <3>2 DEF EventDone, NeedsSignature, InCommittee
      <4>2. Current \in overlooked'
        BY <1>16, <4>1 DEF EventDone, TypeOK
      <4> QED BY <4>2 DEF Okay
    <3> QED BY <3>1, <3>2
  <2>3. Left' \subseteq Left \ {Current}
    BY <1>16, <2>2 DEF EventDone, Left, EventsIn
  <2>4. todo # None /\ "handler" \in alive
    BY <1>16 DEF EventDone, Free, Busy
  <2>5. todo' = todo \ {Current} /\ UNCHANGED <<channel, ack, alive, lst>>
    BY <1>16 DEF EventDone
  <2>6. BatchInv'
    BY <2>3, <2>4, <2>5 DEF CacheInv, BatchInv
  <2> QED BY <2>1, <2>6 DEF CacheInv
<1>17. CASE AckEvents
  <2>1. NumbersInv'
    BY <1>17 DEF AckEvents, CacheInv, NumbersInv, Past
  <2>2. Left' \subseteq Left
    BY <1>17 DEF AckEvents, Left, EventsIn
  <2>3. CASE "listener" \in alive
    <3>1. todo = {} /\ todo # None /\ "handler" \in alive
      BY <1>17, <1>n DEF AckEvents
    <3>2. Left = {} /\ channel = None
      BY <3>1 DEF CacheInv, BatchInv
    <3>3. UNCHANGED <<alive, lst, channel>> /\ todo' = None
      BY <1>17, <2>3 DEF AckEvents
    <3> QED BY <2>1, <2>2, <3>1, <3>2, <3>3 DEF CacheInv, BatchInv
  <2>4. CASE "listener" \notin alive
    <3>1. alive' = {} /\ UNCHANGED <<lst, ack>>
      BY <1>17, <2>4, Dies DEF AckEvents
    <3> QED BY <2>1, <2>2, <3>1 DEF CacheInv, BatchInv
  <2> QED BY <2>3, <2>4
<1>18. CASE WriteNumber
  <2>1. NumbersInv'
    BY <1>18 DEF WriteNumber, CacheInv, NumbersInv, Past
  <2>2. Left' \subseteq Left
    BY <1>18 DEF WriteNumber, Left, EventsIn
  <2>3. BatchInv'
    BY <1>18, <2>2 DEF WriteNumber, CacheInv, BatchInv
  <2> QED BY <2>1, <2>3 DEF CacheInv
<1> QED
  BY <1>1, <1>2, <1>3, <1>4, <1>5, <1>6, <1>7, <1>8, <1>9, <1>10, <1>11, <1>12, <1>13, <1>14,
     <1>15, <1>16, <1>17, <1>18
     DEF Next, Listener, Handler, Manager, Environment

\* Every block number on its way to the cache, and the cache, is past settled events only,
\* and a batch is acknowledged only when none of its events is left.
THEOREM CacheInvariant == Spec => []CacheInv
<1>1. Init => CacheInv
  BY RelayerAssumption DEF Init, SupervisorInit, CacheInv, NumbersInv, BatchInv
<1>2. TypeOK /\ CacheInv /\ [Next]_vars => CacheInv'
  BY CacheStep
<1> QED BY <1>1, <1>2, TypeCorrect, PTL DEF Spec

\* Whatever fails, crashes or is restarted on the way, the cache moves past a block only
\* when each of its events is settled or belongs to a committee that was in no finalized
\* block when the event was handled.
THEOREM SealedTheorem == Spec => []SealedSettledUnlessOverlooked
<1>1. CacheInv => SealedSettledUnlessOverlooked
  BY DEF CacheInv, NumbersInv, Past, Okay, SealedSettledUnlessOverlooked, Sealed
<1> QED BY <1>1, CacheInvariant, PTL

-----------------------------------------------------------------------------
(* The cache only advances *)

\* No run reads the default in place of the cache.
Trusted == "read" \notin FaultKinds /\ ~Override

\* The number n is not behind what m holds, if it holds one.
NotBehind(n, m) == m = None \/ n >= m

\* The block numbers on their way are in the order in which they were announced: what the
\* listener works on is not behind what the manager has not received, nor this the cache.
\* The listener never has a number to receive while it works on a range.
OrderInv ==
    Trusted =>
        /\ news # None => NotBehind(news, redis)
        /\ number # None => NotBehind(number, redis) /\ NotBehind(number, news)
        /\ lst # "next" => /\ number = None
                           /\ NotBehind(next, redis) /\ NotBehind(next, news)
        /\ lst \in {"query", "stalled", "send", "ack"} => to >= next

\* The end of a range is not before its beginning.
LEMMA RangeIsForward ==
    ASSUME TypeOK, head >= next
    PROVE  ToBlock \in Nat /\ ToBlock >= next
<1> DEFINE n == next + SyncStep - 1
<1>1. /\ head \in Nat /\ n \in Nat /\ n >= next /\ next \in Nat
      /\ head \in Int /\ n \in Int
  BY RelayerAssumption, SMT DEF TypeOK
<1>2. ToBlock = Min({head, n})
  BY DEF ToBlock
<1> HIDE DEF n
<1>3. Min({head, n}) \in {head, n}
  BY <1>1, MinOfTwo
<1> QED BY <1>1, <1>2, <1>3

LEMMA OrderStep ==
    ASSUME TypeOK, OrderInv, Trusted, [Next]_vars
    PROVE  /\ OrderInv'
           /\ redis = None \/ (redis' # None /\ redis' >= redis)
<1> DEFINE Advances == redis = None \/ (redis' # None /\ redis' >= redis)
<1> SUFFICES OrderInv' /\ Advances
  OBVIOUS
<1>t. /\ redis \in Nat \cup {None} /\ number \in Nat \cup {None} /\ news \in Nat \cup {None}
      /\ next \in Nat /\ to \in Nat /\ None \notin Nat /\ DefaultBlock \in Nat
  BY RelayerAssumption DEF TypeOK
<1>r. redis' = redis => Advances
  BY <1>t
<1> HIDE DEF Advances
<1> USE DEF supervision, submission, chains, listener, numbers, work, NotBehind
<1>q. ASSUME UNCHANGED <<redis, number, news, next, to, lst>> PROVE OrderInv' /\ Advances
  BY <1>q, <1>r DEF OrderInv
<1>1. CASE \/ NewBlock \/ InstallCommittee \/ FinalizeCommittee \/ Include \/ FinalizeBlock
           \/ DropTx \/ \E e \in Events : OthersProcess(e) \/ Finalize(e) \/ Reorg(e)
  <2>1. UNCHANGED <<redis, number, news, next, to, lst>>
    BY <1>1 DEF NewBlock, InstallCommittee, FinalizeCommittee, Include, FinalizeBlock,
       OthersProcess, Finalize, DropTx, Reorg
  <2> QED BY <1>q, <2>1
<1>2. CASE \/ EventFails \/ Refused \/ Lost \/ EventMismatch \/ HandlerObserves
           \/ Submit \/ Finalized \/ ReceiveEvents \/ EventDone \/ AckEvents
  <2>1. UNCHANGED <<redis, number, news, next, to, lst>>
    BY <1>2 DEF EventFails, Refused, Lost, EventMismatch, HandleFails, HandlerObserves,
       Submit, Finalized, ReceiveEvents, EventDone, AckEvents
  <2> QED BY <1>q, <2>1
<1>3. CASE \/ ListenerObserves \/ ManagerObserves \/ ManagerLags \/ ManagerWakes
           \/ UNCHANGED vars \/ \E t \in Watchers : Watch(t)
  <2>1. UNCHANGED <<redis, number, news, next, to, lst>>
    BY <1>3 DEF ListenerObserves, ManagerObserves, ManagerLags, ManagerWakes, Watch, vars
  <2> QED BY <1>q, <2>1
<1>4. CASE QueryFails
  <2>1. UNCHANGED <<redis, number, news, next, to>> /\ lst = "query" /\ lst' = "stalled"
    BY <1>4 DEF QueryFails, At
  <2> QED BY <1>r, <2>1 DEF OrderInv
<1>5. CASE TakeNumber
  <2>1. /\ UNCHANGED <<redis, news>> /\ number # None /\ next' = number /\ number' = None
        /\ lst' = "finalized"
    BY <1>5 DEF TakeNumber
  <2> QED BY <1>r, <2>1 DEF OrderInv
<1>6. CASE WaitForFinalized
  <2>1. /\ UNCHANGED <<redis, number, news, next>> /\ to' = ToBlock /\ head >= next
        /\ lst = "finalized" /\ lst' = "query"
    BY <1>6 DEF WaitForFinalized, At
  <2>2. to' >= next
    BY <2>1, RangeIsForward
  <2> QED BY <1>r, <2>1, <2>2 DEF OrderInv
<1>7. ASSUME lst \in {"query", "ack"}, lst' = "next", Announce(to + 1), redis' = redis
      PROVE  OrderInv' /\ Advances
  <2>1. number' = to + 1 /\ news' = to + 1
    BY <1>7 DEF Announce
  <2>2. to >= next /\ NotBehind(next, redis)
    BY <1>7 DEF OrderInv
  <2>3. NotBehind(to + 1, redis)
    BY <1>t, <2>2
  <2> QED BY <1>r, <1>t, <1>7, <2>1, <2>3 DEF OrderInv
<1>8. CASE QueryEvents
  <2>1. lst = "query" /\ UNCHANGED <<redis, next, to>>
    BY <1>8 DEF QueryEvents, At
  <2>2. CASE Announce(to + 1) /\ lst' = "next"
    BY <1>7, <2>1, <2>2
  <2>3. CASE lst' = "send" /\ UNCHANGED numbers
    BY <1>r, <2>1, <2>3 DEF OrderInv
  <2> QED BY <1>8, <2>2, <2>3 DEF QueryEvents
<1>9. CASE SendEvents
  <2>1. /\ lst = "send" /\ lst' \in {"send", "ack"}
        /\ UNCHANGED <<redis, number, news, next, to>>
    BY <1>9 DEF SendEvents, At
  <2> QED BY <1>r, <2>1 DEF OrderInv
<1>10. CASE TakeAck
  <2>1. lst = "ack" /\ lst' = "next" /\ UNCHANGED <<redis, next, to>>
    BY <1>10 DEF TakeAck, At
  <2>2. CASE Announce(to + 1)
    BY <1>7, <2>1, <2>2
  <2>3. CASE UNCHANGED numbers
    BY <1>r, <2>1, <2>3 DEF OrderInv
  <2> QED BY <1>10, <2>2, <2>3 DEF TakeAck
<1>11. CASE WriteNumber
  <2>1. /\ news # None /\ redis' = news /\ news' = None
        /\ UNCHANGED <<number, next, to, lst>>
    BY <1>11 DEF WriteNumber
  <2>2. Advances
    BY <1>t, <2>1 DEF OrderInv, Advances
  <2> QED BY <2>1, <2>2 DEF OrderInv
<1>12. CASE Run
  <2>1. redis' = redis
    BY <1>12, Zenon DEF Run, Trusted
  <2>2. number' = ReadBlockNumber(redis) /\ news' = number' /\ lst' = "next"
    BY <1>12, <2>1 DEF Run, Fault, Trusted, Forget
  <2> QED BY <1>r, <1>t, <2>1, <2>2 DEF OrderInv, ReadBlockNumber
<1>13. CASE ProcessCrashes
  <2>1. redis' = redis /\ number' = None /\ news' = None /\ lst' = "next"
    BY <1>13 DEF ProcessCrashes, Forget
  <2> QED BY <1>r, <2>1 DEF OrderInv
<1> QED
  BY <1>1, <1>2, <1>3, <1>4, <1>5, <1>6, <1>8, <1>9, <1>10, <1>11, <1>12, <1>13
     DEF Next, Listener, Handler, Manager, Environment

\* The block numbers on their way to the cache are in the order of the blocks.
THEOREM OrderInvariant == Spec => []OrderInv
<1>1. Init => OrderInv
  BY DEF Init, OrderInv
<1>2. TypeOK /\ OrderInv /\ [Next]_vars => OrderInv'
  BY OrderStep DEF OrderInv, Trusted
<1> QED BY <1>1, <1>2, TypeCorrect, PTL DEF Spec

\* A cache that is read without an error and is not overridden only moves forward: the
\* number a run starts with, which the manager sends to itself too, one that it lags behind,
\* and one left over when the process crashes never bring an older block back.
CacheOnlyAdvances ==
    [][ \/ "read" \in FaultKinds \/ Override
        \/ redis = None
        \/ redis' # None /\ redis' >= redis ]_vars

\* A cache that is read without an error and is not overridden never moves back to an older
\* block, whatever the manager misses and wherever a run ends: a block number of an earlier
\* run does not outlive it, and the number the manager sends to itself is the cached one.
THEOREM CacheAdvancesTheorem == Spec => CacheOnlyAdvances
<1>1. TypeOK /\ OrderInv /\ [Next]_vars
      => [ \/ "read" \in FaultKinds \/ Override
           \/ redis = None
           \/ redis' # None /\ redis' >= redis ]_vars
  BY OrderStep DEF Trusted
<1> QED BY <1>1, OrderInvariant, TypeCorrect, PTL DEF Spec, CacheOnlyAdvances
=============================================================================
