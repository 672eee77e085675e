--------------------------- MODULE OrderFeedProofs --------------------------
(* What the order path of the feed guarantees for every set of orders, every *)
(* number of messages and disconnects, and every set of message forms.       *)
EXTENDS OrderFeed, FiniteSetTheorems, TLAPS

\* Before the send there is no deferred; before the registration no map knows
\* the order; an order in _pending_orders is soon in the reverse map too.
NotSent == \A o \in Order :
    /\ pc[o] \in {"idle", "register", "link", "send"} => deferred[o] = "none"
    /\ pc[o] \in {"idle", "register"} =>
          o \notin pending \cup msgIds \cup gone \cup unresolved \cup matched \cup moved
    /\ o \in pending /\ pc[o] # "link" => o \in msgIds

\* An order that left for the disconnected list is not in _pending_orders any
\* more, except while the disconnect callback has not cleared it yet.
Departed == \A o \in Order :
    /\ o \in gone \cup unresolved \cup matched => o \notin pending \/ clearing
    /\ o \in matched => status[o] # "PENDING"
    /\ clearing /\ o \in moved => o \in gone \cup forgotten \/ status[o] # "PENDING"

\* Where a fill callback leaves its order.
FilledByEvent == \A o \in Order :
    /\ fired[o] => /\ fate[o] = "FILLED"
                   /\ o \notin pending
                   /\ deferred[o] \in {"armed", "done"}
                   /\ status[o] # "PENDING"
                   /\ ~Contradictory => status[o] = "FILLED"
    /\ Has(told[o], FillByEvent) => fired[o]

\* Where an error callback leaves its order.
RejectedByError == \A o \in Order :
    Has(told[o], RejectByError) =>
        /\ deferred[o] \notin {"none", "firing"}
        /\ deferred[o] = "armed" => status[o] # "PENDING" /\ o \notin pending
        /\ o \in pending /\ ~clearing => status[o] = "REJECTED"

\* PendingIsTracked, from the registration on.
Tracked == \A o \in Order :
    /\ running
    /\ pc[o] \in {"link", "send"} \/ deferred[o] # "none"
    /\ status[o] = "PENDING"
    /\ o \notin forgotten
    => o \in pending \cup gone

\* The inductive invariant.
Safe == /\ NotSent /\ Departed /\ FilledByEvent /\ RejectedByError /\ Tracked
        /\ ExecFillOnce /\ ErrorRejectOnce
FeedInv == TypeOK /\ Safe

-----------------------------------------------------------------------------
(* Lemmas on the operators.                                                *)

LEMMA AppendFacts ==
    ASSUME NEW s \in Seq(Calls), NEW c \in Calls, NEW K
    PROVE  /\ Append(s, c) \in Seq(Calls)
           /\ Has(Append(s, c), K) => Has(s, K) \/ c \in K
           /\ Once(s, K) /\ ~(c \in K /\ Has(s, K)) => Once(Append(s, c), K)
<1>1. /\ Append(s, c) \in Seq(Calls)
      /\ Len(s) \in Nat
      /\ DOMAIN s = 1 .. Len(s)
      /\ DOMAIN Append(s, c) = 1 .. (Len(s) + 1)
      /\ \A i \in 1 .. Len(s) : Append(s, c)[i] = s[i]
      /\ Append(s, c)[Len(s) + 1] = c
  OBVIOUS
<1>2. \A i \in DOMAIN Append(s, c) : i \in DOMAIN s \/ i = Len(s) + 1
  BY <1>1
<1>3. Has(Append(s, c), K) => Has(s, K) \/ c \in K
  BY <1>1, <1>2 DEF Has
<1>4. Once(s, K) /\ ~(c \in K /\ Has(s, K)) => Once(Append(s, c), K)
  BY <1>1, <1>2 DEF Has, Once
<1> QED
  BY <1>1, <1>3, <1>4

\* The same for a step that tells the orders in S the call c.
Tells(S, c) == told' = [o \in Order |-> IF o \in S /\ running
                                       THEN Append(told[o], c) ELSE told[o]]

LEMMA ToldFacts ==
    ASSUME TypeOK, NEW S, NEW c \in Calls, NEW K, Tells(S, c), NEW o \in Order
    PROVE  /\ told'[o] \in Seq(Calls)
           /\ Has(told'[o], K) => Has(told[o], K) \/ (o \in S /\ c \in K)
           /\ Once(told[o], K) /\ ~(o \in S /\ c \in K /\ Has(told[o], K)) => Once(told'[o], K)
<1>1. told[o] \in Seq(Calls)
  BY DEF TypeOK
<1>2. CASE o \in S /\ running
  <2>1. told'[o] = Append(told[o], c)
    BY <1>2 DEF Tells
  <2> QED
    BY <1>1, <1>2, <2>1, AppendFacts
<1>3. CASE ~(o \in S /\ running)
  <2>1. told'[o] = told[o]
    BY <1>3 DEF Tells
  <2> QED
    BY <1>1, <2>1
<1> QED
  BY <1>2, <1>3

LEMMA TellTells ==
    ASSUME TypeOK, NEW o \in Order, NEW c, Tell(o, c)
    PROVE  Tells({o}, c)
BY DEF TypeOK, Tell, Tells

LEMMA ToldType ==
    ASSUME TypeOK, NEW S, NEW c \in Calls, Tells(S, c)
    PROVE  told' \in [Order -> Seq(Calls)]
<1>1. \A o \in Order : told'[o] \in Seq(Calls)
  BY ToldFacts
<1> QED
  BY <1>1 DEF Tells

LEMMA MessageType ==
    ASSUME NEW m \in Message
    PROVE  m.order \in Order /\ m.oid \in BOOLEAN /\ m.mid \in BOOLEAN
BY BoundsAssumption DEF Message

LEMMA CallFacts ==
    /\ <<"filled", "exec">> \in Calls
    /\ <<"filled", "reconcile">> \in Calls
    /\ <<"cancelled", "exec">> \in Calls
    /\ <<"rejected", "exec">> \in Calls
    /\ <<"rejected", "deferred">> \in Calls
    /\ <<"rejected", "error">> \in Calls
    /\ <<"filled", "exec">> \notin RejectByError
    /\ <<"filled", "reconcile">> \notin FillByEvent \cup RejectByError
    /\ <<"cancelled", "exec">> \notin FillByEvent \cup RejectByError
    /\ <<"rejected", "exec">> \notin FillByEvent \cup RejectByError
    /\ <<"rejected", "deferred">> \notin FillByEvent
    /\ <<"rejected", "error">> \notin FillByEvent
BY DEF Calls, FillByEvent, RejectByError
-----------------------------------------------------------------------------
(* Types.                                                                  *)

Lates == [Order -> {"none", "live", "expired"}]

LEMMA ReceiveType ==
    ASSUME TypeOK, NEW m \in Message, NEW kind, Receive(m, kind)
    PROVE  /\ deferred' \in [Order -> {"none", "armed", "firing", "done"}]
           /\ delivered' \in 0 .. MaxDeliver
<1>1. m.order \in Order
  BY MessageType
<1>2. deferred' \in [Order -> {"none", "armed", "firing", "done"}]
  BY <1>1 DEF TypeOK, Receive
<1>3. delivered' \in 0 .. MaxDeliver
  BY BoundsAssumption DEF TypeOK, Receive
<1> QED
  BY <1>2, <1>3

LEMMA ExecWakesType ==
    ASSUME TypeOK, NEW m \in Message, ExecWakes(m)
    PROVE  event' \in [Order -> BOOLEAN]
BY MessageType DEF TypeOK, ExecWakes

LEMMA LookedUpType ==
    ASSUME TypeOK, NEW m \in Message
    PROVE  LookedUp(m) \in Lates /\ ErrorLookedUp(m) \in Lates
<1>1. LookedUp(m) \in Lates
  BY DEF TypeOK, LookedUp, Lates
<1>2. ErrorLookedUp(m) \in Lates
  BY DEF TypeOK, ErrorLookedUp, Lates
<1> QED
  BY <1>1, <1>2

LEMMA ConsumeType ==
    ASSUME TypeOK, NEW m \in Message, Consume(m)
    PROVE  pending' \in SUBSET Order /\ msgIds' \in SUBSET Order /\ late' \in Lates
<1>1. pending' \in SUBSET Order /\ msgIds' \in SUBSET Order
  BY DEF TypeOK, Consume
<1>2. late' \in Lates
  BY LookedUpType, MessageType DEF Consume, Lates
<1> QED
  BY <1>1, <1>2

LEMMA RegisterLateType ==
    ASSUME TypeOK, NEW S, NEW withMid, RegisterLate(S, withMid)
    PROVE  late' \in Lates /\ lateMid' \in [Order -> BOOLEAN]
<1>1. late' \in Lates
  BY DEF TypeOK, RegisterLate, Lates
<1>2. lateMid' \in [Order -> BOOLEAN]
  <2>1. ASSUME NEW o \in Order PROVE lateMid'[o] \in BOOLEAN
    <3>1. CASE o \in S
      BY <3>1 DEF RegisterLate
    <3>2. CASE o \notin S
      <4>1. lateMid'[o] = lateMid[o]
        BY <3>2 DEF RegisterLate
      <4> QED
        BY <4>1 DEF TypeOK
    <3> QED
      BY <3>1, <3>2
  <2>2. lateMid' = [o \in Order |-> lateMid'[o]]
    BY DEF RegisterLate
  <2> QED
    BY <2>1, <2>2
<1> QED
  BY <1>1, <1>2

LEMMA DropsType ==
    ASSUME TypeOK, drops < MaxDisconnect, drops' = drops + 1
    PROVE  drops' \in 0 .. MaxDisconnect
BY BoundsAssumption DEF TypeOK

LEMMA InitType == Init => TypeOK
<1> SUFFICES ASSUME Init PROVE TypeOK
  OBVIOUS
<1>1. <<>> \in Seq(Calls)
  OBVIOUS
<1>2. told \in [Order -> Seq(Calls)]
  BY <1>1 DEF Init
<1>3. delivered = 0 /\ drops = 0 /\ avail = 0
  BY DEF Init
<1>4. delivered \in 0 .. MaxDeliver /\ drops \in 0 .. MaxDisconnect /\ avail \in Nat
  BY <1>3, BoundsAssumption
<1>5. /\ status \in [Order -> Statuses] /\ reason \in [Order -> Reasons]
      /\ fired \in [Order -> BOOLEAN] /\ event \in [Order -> BOOLEAN]
      /\ late \in [Order -> {"none", "live", "expired"}] /\ lateMid \in [Order -> BOOLEAN]
  BY DEF Init, Statuses, Reasons
<1>6. /\ pc \in [Order -> {"idle", "register", "link", "send", "wait", "expired",
                           "check", "tag", "done"}]
      /\ deferred \in [Order -> {"none", "armed", "firing", "done"}]
      /\ fate \in [Order -> Terminal \cup {"none", "ERROR"}]
  BY DEF Init
<1>7. /\ pending = {} /\ msgIds = {} /\ gone = {} /\ moved = {} /\ forgotten = {}
      /\ unresolved = {} /\ matched = {}
      /\ link = TRUE /\ client = TRUE /\ running = TRUE /\ clearing = FALSE
      /\ restore = "idle" /\ preempt = "idle"
  BY DEF Init
<1> QED
  BY <1>2, <1>4, <1>5, <1>6, <1>7 DEF TypeOK

LEMMA ReconcileCount ==
    ASSUME NEW S \in SUBSET Order, NEW k \in 0 .. Foreign
    PROVE  Cardinality(S) + k \in Nat
<1>1. Cardinality(S) \in Nat
  BY OrdersAssumption, FS_Subset, FS_CardinalityType
<1> QED
  BY <1>1, BoundsAssumption

LEMMA NextType == TypeOK /\ [Next]_vars => TypeOK'
<1> SUFFICES ASSUME TypeOK, [Next]_vars PROVE TypeOK'
  OBVIOUS
<1> USE BoundsAssumption
    DEF TypeOK, callerVars, orderVars, mapVars, restoreVars, linkVars, discVars, brokerVars,
        Goto, SetOrder, Wakes, Statuses, Reasons, Terminal, Lates
<1>1. ASSUME NEW o \in Order, NewOrderBlocked(o) PROVE TypeOK'
  BY <1>1 DEF NewOrderBlocked
<1>2. ASSUME NEW o \in Order, NewOrderOffline(o) PROVE TypeOK'
  BY <1>2 DEF NewOrderOffline
<1>3. ASSUME NEW o \in Order, NewOrderBuild(o) PROVE TypeOK'
  BY <1>3 DEF NewOrderBuild
<1>4. ASSUME NEW o \in Order, RegisterPending(o) PROVE TypeOK'
  BY <1>4 DEF RegisterPending
<1>5. ASSUME NEW o \in Order, RegisterMsgId(o) PROVE TypeOK'
  BY <1>5 DEF RegisterMsgId
<1>6. ASSUME NEW o \in Order, NoClient(o) PROVE TypeOK'
  BY <1>6 DEF NoClient
<1>7. ASSUME NEW o \in Order, Send(o) PROVE TypeOK'
  BY <1>7 DEF Send
<1>8. ASSUME NEW o \in Order, Wake(o) PROVE TypeOK'
  BY <1>8 DEF Wake
<1>9. ASSUME NEW o \in Order, WaitExpires(o) PROVE TypeOK'
  BY <1>9 DEF WaitExpires
<1>10. ASSUME NEW o \in Order, RegisterExpired(o) PROVE TypeOK'
  BY <1>10 DEF RegisterExpired, RegisterLate
<1>11. ASSUME NEW o \in Order, CheckPending(o) PROVE TypeOK'
  BY <1>11 DEF CheckPending
<1>12. ASSUME NEW o \in Order, TagIndeterminate(o) PROVE TypeOK'
  BY <1>12 DEF TagIndeterminate
<1>13. ASSUME NEW o \in Order, DeferredFails(o) PROVE TypeOK'
  BY <1>13, ZenonT(60) DEF DeferredFails
<1>14. ASSUME NEW o \in Order, DeferredRejects(o) PROVE TypeOK'
  <2>1. told' \in [Order -> Seq(Calls)]
    BY <1>14, TellTells, ToldType, CallFacts DEF DeferredRejects
  <2> QED
    BY <1>14, <2>1 DEF DeferredRejects
<1>15. ASSUME NEW o \in Order, BrokerDecide(o) PROVE TypeOK'
  <2>1. PICK f \in Fates : fate' = [fate EXCEPT ![o] = f]
    BY <1>15 DEF BrokerDecide
  <2>2. f \in Terminal \cup {"none", "ERROR"}
    BY <2>1
  <2>3. fate' \in [Order -> Terminal \cup {"none", "ERROR"}]
    BY <2>1, <2>2
  <2> QED
    BY <1>15, <2>3 DEF BrokerDecide
<1>16. ASSUME NEW o \in Order, TtlPasses(o) PROVE TypeOK'
  BY <1>16 DEF TtlPasses
<1>17. ASSUME NEW m \in Message, ExecDrop(m) PROVE TypeOK'
  <2>1. m.order \in Order
    BY MessageType
  <2>2. /\ deferred' \in [Order -> {"none", "armed", "firing", "done"}]
        /\ delivered' \in 0 .. MaxDeliver
    BY <1>17, ReceiveType DEF ExecDrop
  <2>3. late' \in Lates
    BY <1>17, <2>1, LookedUpType DEF ExecDrop
  <2>4. PICK kind \in Terminal \cup {"INFO"} : Receive(m, kind)
    BY <1>17 DEF ExecDrop
  <2> QED
    BY <1>17, <2>2, <2>3, <2>4 DEF ExecDrop, Receive
<1>18. ASSUME NEW m \in Message, ExecInform(m) PROVE TypeOK'
  <2>1. m.order \in Order
    BY MessageType
  <2>2. /\ deferred' \in [Order -> {"none", "armed", "firing", "done"}]
        /\ delivered' \in 0 .. MaxDeliver
    BY <1>18, ReceiveType DEF ExecInform
  <2>3. late' \in Lates
    BY <1>18, <2>1, LookedUpType DEF ExecInform
  <2> QED
    BY <1>18, <2>1, <2>2, <2>3 DEF ExecInform, Receive
<1>19. ASSUME NEW m \in Message, ExecCancelled(m) PROVE TypeOK'
  <2>1. m.order \in Order
    BY MessageType
  <2>2. /\ deferred' \in [Order -> {"none", "armed", "firing", "done"}]
        /\ delivered' \in 0 .. MaxDeliver
    BY <1>19, ReceiveType DEF ExecCancelled
  <2>3. pending' \in SUBSET Order /\ msgIds' \in SUBSET Order /\ late' \in Lates
    BY <1>19, ConsumeType DEF ExecCancelled
  <2>4. told' \in [Order -> Seq(Calls)]
    BY <1>19, <2>1, TellTells, ToldType, CallFacts DEF ExecCancelled
  <2>5. event' \in [Order -> BOOLEAN]
    BY <1>19, ExecWakesType DEF ExecCancelled
  <2> QED
    BY <1>19, <2>1, <2>2, <2>3, <2>4, <2>5 DEF ExecCancelled, Receive
<1>20. ASSUME NEW m \in Message, ExecRejected(m) PROVE TypeOK'
  <2>1. m.order \in Order
    BY MessageType
  <2>2. /\ deferred' \in [Order -> {"none", "armed", "firing", "done"}]
        /\ delivered' \in 0 .. MaxDeliver
    BY <1>20, ReceiveType DEF ExecRejected
  <2>3. pending' \in SUBSET Order /\ msgIds' \in SUBSET Order /\ late' \in Lates
    BY <1>20, ConsumeType DEF ExecRejected
  <2>4. told' \in [Order -> Seq(Calls)]
    BY <1>20, <2>1, TellTells, ToldType, CallFacts DEF ExecRejected
  <2>5. event' \in [Order -> BOOLEAN]
    BY <1>20, ExecWakesType DEF ExecRejected
  <2> QED
    BY <1>20, <2>1, <2>2, <2>3, <2>4, <2>5 DEF ExecRejected, Receive
<1>21. ASSUME NEW m \in Message, ExecDuplicate(m) PROVE TypeOK'
  <2>1. m.order \in Order
    BY MessageType
  <2>2. /\ deferred' \in [Order -> {"none", "armed", "firing", "done"}]
        /\ delivered' \in 0 .. MaxDeliver
    BY <1>21, ReceiveType DEF ExecDuplicate
  <2>3. pending' \in SUBSET Order /\ msgIds' \in SUBSET Order /\ late' \in Lates
    BY <1>21, ConsumeType DEF ExecDuplicate
  <2> QED
    BY <1>21, <2>1, <2>2, <2>3 DEF ExecDuplicate, Receive
<1>22. ASSUME NEW m \in Message, ExecFilled(m) PROVE TypeOK'
  <2>1. m.order \in Order
    BY MessageType
  <2>2. /\ deferred' \in [Order -> {"none", "armed", "firing", "done"}]
        /\ delivered' \in 0 .. MaxDeliver
    BY <1>22, ReceiveType DEF ExecFilled
  <2>3. pending' \in SUBSET Order /\ msgIds' \in SUBSET Order /\ late' \in Lates
    BY <1>22, ConsumeType DEF ExecFilled
  <2>4. told' \in [Order -> Seq(Calls)]
    BY <1>22, <2>1, TellTells, ToldType, CallFacts DEF ExecFilled
  <2>5. event' \in [Order -> BOOLEAN]
    BY <1>22, ExecWakesType DEF ExecFilled
  <2> QED
    BY <1>22, <2>1, <2>2, <2>3, <2>4, <2>5 DEF ExecFilled, Receive
<1>23. ASSUME NEW m \in Message, ErrorDrop(m) PROVE TypeOK'
  <2>1. m.order \in Order
    BY MessageType
  <2>2. /\ deferred' \in [Order -> {"none", "armed", "firing", "done"}]
        /\ delivered' \in 0 .. MaxDeliver
    BY <1>23, ReceiveType DEF ErrorDrop
  <2>3. late' \in Lates
    BY <1>23, <2>1, LookedUpType DEF ErrorDrop
  <2> QED
    BY <1>23, <2>1, <2>2, <2>3 DEF ErrorDrop, Receive
<1>24. ASSUME NEW m \in Message, ErrorFromRegistry(m) PROVE TypeOK'
  <2>1. m.order \in Order
    BY MessageType
  <2>2. /\ deferred' \in [Order -> {"none", "armed", "firing", "done"}]
        /\ delivered' \in 0 .. MaxDeliver
    BY <1>24, ReceiveType DEF ErrorFromRegistry
  <2>3. late' \in Lates
    BY <1>24, <2>1, LookedUpType DEF ErrorFromRegistry
  <2> QED
    BY <1>24, <2>1, <2>2, <2>3 DEF ErrorFromRegistry, Receive
<1>25. ASSUME NEW m \in Message, ErrorFromPending(m) PROVE TypeOK'
  <2>1. m.order \in Order
    BY MessageType
  <2>2. /\ deferred' \in [Order -> {"none", "armed", "firing", "done"}]
        /\ delivered' \in 0 .. MaxDeliver
    BY <1>25, ReceiveType DEF ErrorFromPending
  <2>3. late' \in Lates
    BY <1>25, <2>1, LookedUpType DEF ErrorFromPending
  <2>4. told' \in [Order -> Seq(Calls)]
    BY <1>25, <2>1, TellTells, ToldType, CallFacts DEF ErrorFromPending, ErrorTell
  <2> QED
    BY <1>25, <2>1, <2>2, <2>3, <2>4 DEF ErrorFromPending, Receive
<1>26. CASE DisconnectMove
  <2>1. event' \in [Order -> BOOLEAN]
    BY <1>26 DEF DisconnectMove
  <2>2. late' \in Lates /\ lateMid' \in [Order -> BOOLEAN]
    BY <1>26, RegisterLateType DEF DisconnectMove
  <2>3. status' \in [Order -> Statuses] /\ reason' \in [Order -> Reasons]
    BY <1>26 DEF DisconnectMove
  <2>4. drops' \in 0 .. MaxDisconnect
    BY <1>26, DropsType DEF DisconnectMove
  <2> QED
    BY <1>26, <2>1, <2>2, <2>3, <2>4 DEF DisconnectMove
<1>27. CASE DisconnectClear
  BY <1>27 DEF DisconnectClear
<1>28. CASE Reconnect
  BY <1>28 DEF Reconnect
<1>29. CASE RestoreFetch
  <2>1. avail' \in Nat
    <3>1. CASE avail' = 0
      BY <3>1
    <3>2. ASSUME NEW S \in SUBSET Order, NEW k \in 0 .. Foreign, avail' = Cardinality(S) + k
          PROVE  avail' \in Nat
      BY <3>2, ReconcileCount
    <3> QED
      BY <1>29, <3>1, <3>2 DEF RestoreFetch
  <2> QED
    BY <1>29, <2>1 DEF RestoreFetch
<1>30. CASE RestoreResolve
  <2>1. PICK S \in SUBSET gone :
           /\ status' = [o \in Order |-> IF o \in S THEN "FILLED" ELSE status[o]]
           /\ reason' = [o \in Order |-> IF o \in S THEN "resolved_by_reconcile" ELSE reason[o]]
           /\ Tells(S, <<"filled", "reconcile">>)
           /\ matched' = S /\ unresolved' = gone \ S
    BY <1>30 DEF RestoreResolve, Tells
  <2>2. told' \in [Order -> Seq(Calls)]
    BY <2>1, ToldType, CallFacts
  <2> QED
    BY <1>30, <2>1, <2>2 DEF RestoreResolve
<1>31. CASE RestoreNothing
  BY <1>31 DEF RestoreNothing
<1>32. CASE RestoreAssign
  BY <1>32 DEF RestoreAssign
<1>33. CASE PreemptCheck
  BY <1>33 DEF PreemptCheck
<1>34. CASE PreemptTeardown
  BY <1>34 DEF PreemptTeardown
<1>35. CASE Stop
  BY <1>35 DEF Stop
<1>36. CASE UNCHANGED vars
  BY <1>36 DEF vars
<1> QED
  BY <1>1, <1>2, <1>3, <1>4, <1>5, <1>6, <1>7, <1>8, <1>9, <1>10, <1>11, <1>12, <1>13, <1>14,
     <1>15, <1>16, <1>17, <1>18, <1>19, <1>20, <1>21, <1>22, <1>23, <1>24, <1>25, <1>26,
     <1>27, <1>28, <1>29, <1>30, <1>31, <1>32, <1>33, <1>34, <1>35, <1>36
     DEF Next, Caller, CallerStep, Reactor, ExecEvent, ErrorEvent, Restore, Monitor, Environment
-----------------------------------------------------------------------------
(* The inductive step.                                                     *)

\* The step tells no order a call of these kinds ...
Quiet(K) == \A x \in Order : /\ Has(told'[x], K) => Has(told[x], K)
                             /\ Once(told[x], K) => Once(told'[x], K)
\* ... or tells only o.
Loud(o, K) == \A x \in Order : /\ Has(told'[x], K) => Has(told[x], K) \/ x = o
                               /\ Once(told[x], K) /\ ~(x = o /\ Has(told[x], K))
                                  => Once(told'[x], K)

LEMMA ToldQuiet ==
    ASSUME TypeOK, NEW S, NEW c \in Calls, NEW K, c \notin K, Tells(S, c)
    PROVE  Quiet(K)
BY ToldFacts DEF Quiet

LEMMA ToldLoud ==
    ASSUME TypeOK, NEW o \in Order, NEW c \in Calls, NEW K, Tells({o}, c)
    PROVE  Loud(o, K)
<1>1. ASSUME NEW x \in Order
      PROVE  /\ Has(told'[x], K) => Has(told[x], K) \/ (x \in {o} /\ c \in K)
             /\ Once(told[x], K) /\ ~(x \in {o} /\ c \in K /\ Has(told[x], K))
                => Once(told'[x], K)
  BY ToldFacts
<1> QED
  BY <1>1 DEF Loud

\* The part of the types that the steps below need.
Shape == /\ status \in [Order -> Statuses]
         /\ fired \in [Order -> BOOLEAN]
         /\ deferred \in [Order -> {"none", "armed", "firing", "done"}]
         /\ DOMAIN pc = Order
         /\ DOMAIN fate = Order
         /\ pending \in SUBSET Order

LEMMA NextSafe == TypeOK /\ Safe /\ [Next]_vars => Safe'
<1> SUFFICES ASSUME TypeOK, Safe, [Next]_vars PROVE Safe'
  OBVIOUS
<1> USE DEF Safe, NotSent, Departed, FilledByEvent, RejectedByError, Tracked, ExecFillOnce,
        ErrorRejectOnce, Shape, Statuses, Goto, SetOrder, Wakes,
        callerVars, orderVars, mapVars, restoreVars, linkVars, discVars, brokerVars
<1>0. Shape
  BY DEF TypeOK
<1>1. ASSUME NEW o \in Order, NewOrderBlocked(o) PROVE Safe'
  BY <1>0, <1>1 DEF NewOrderBlocked
<1>2. ASSUME NEW o \in Order, NewOrderOffline(o) PROVE Safe'
  BY <1>0, <1>2 DEF NewOrderOffline
<1>3. ASSUME NEW o \in Order, NewOrderBuild(o) PROVE Safe'
  BY <1>0, <1>3 DEF NewOrderBuild
<1>4. ASSUME NEW o \in Order, RegisterPending(o) PROVE Safe'
  BY <1>0, <1>4 DEF RegisterPending
<1>5. ASSUME NEW o \in Order, RegisterMsgId(o) PROVE Safe'
  BY <1>0, <1>5 DEF RegisterMsgId
<1>6. ASSUME NEW o \in Order, NoClient(o) PROVE Safe'
  BY <1>0, <1>6 DEF NoClient
<1>7. ASSUME NEW o \in Order, Send(o) PROVE Safe'
  BY <1>0, <1>7 DEF Send
<1>8. ASSUME NEW o \in Order, Wake(o) PROVE Safe'
  BY <1>0, <1>8 DEF Wake
<1>9. ASSUME NEW o \in Order, WaitExpires(o) PROVE Safe'
  BY <1>0, <1>9 DEF WaitExpires
<1>10. ASSUME NEW o \in Order, RegisterExpired(o) PROVE Safe'
  BY <1>0, <1>10 DEF RegisterExpired, RegisterLate
<1>11. ASSUME NEW o \in Order, CheckPending(o) PROVE Safe'
  BY <1>0, <1>11 DEF CheckPending
<1>12. ASSUME NEW o \in Order, TagIndeterminate(o) PROVE Safe'
  BY <1>0, <1>12 DEF TagIndeterminate
<1>13. ASSUME NEW o \in Order, DeferredFails(o) PROVE Safe'
  BY <1>0, <1>13 DEF DeferredFails, ReactorFree
<1>14. ASSUME NEW o \in Order, DeferredRejects(o) PROVE Safe'
  <2>1. Quiet(FillByEvent) /\ Loud(o, RejectByError)
    BY <1>14, TellTells, ToldQuiet, ToldLoud, CallFacts DEF DeferredRejects
  <2> QED
    BY <1>0, <1>14, <2>1 DEF DeferredRejects, Quiet, Loud
<1>15. ASSUME NEW o \in Order, BrokerDecide(o) PROVE Safe'
  BY <1>0, <1>15 DEF BrokerDecide
<1>16. ASSUME NEW o \in Order, TtlPasses(o) PROVE Safe'
  BY <1>0, <1>16 DEF TtlPasses
<1>17. ASSUME NEW m \in Message, ExecDrop(m) PROVE Safe'
  <2>1. m.order \in Order
    BY MessageType
  <2>2. PICK kind \in Terminal \cup {"INFO"} : Receive(m, kind)
    BY <1>17 DEF ExecDrop
  <2> QED
    BY <1>0, <1>17, <2>1, <2>2 DEF ExecDrop, Receive, ReactorFree
<1>18. ASSUME NEW m \in Message, ExecInform(m) PROVE Safe'
  <2>1. m.order \in Order
    BY MessageType
  <2> QED
    BY <1>0, <1>18, <2>1 DEF ExecInform, Receive, ReactorFree
<1>19. ASSUME NEW m \in Message, ExecCancelled(m) PROVE Safe'
  <2>1. m.order \in Order
    BY MessageType
  <2>2. Quiet(FillByEvent) /\ Quiet(RejectByError)
    BY <1>19, <2>1, TellTells, ToldQuiet, ToldLoud, CallFacts DEF ExecCancelled
  <2> QED
    BY <1>0, <1>19, <2>1, <2>2
       DEF ExecCancelled, Quiet, Loud, Receive, ReactorFree, Consume, ExecHit, LateHit,
           PendingHit, HasCid,
           Emits, Terminal
<1>20. ASSUME NEW m \in Message, ExecRejected(m) PROVE Safe'
  <2>1. m.order \in Order
    BY MessageType
  <2>2. Quiet(FillByEvent) /\ Quiet(RejectByError)
    BY <1>20, <2>1, TellTells, ToldQuiet, ToldLoud, CallFacts DEF ExecRejected
  <2> QED
    BY <1>0, <1>20, <2>1, <2>2
       DEF ExecRejected, Quiet, Loud, Receive, ReactorFree, Consume, ExecHit, LateHit,
           PendingHit, HasCid,
           Emits, Terminal
<1>21. ASSUME NEW m \in Message, ExecDuplicate(m) PROVE Safe'
  <2>1. m.order \in Order
    BY MessageType
  <2> QED
    BY <1>0, <1>21, <2>1 DEF ExecDuplicate, Receive, ReactorFree, Consume, ExecHit, LateHit
<1>22. ASSUME NEW m \in Message, ExecFilled(m) PROVE Safe'
  <2>1. m.order \in Order
    BY MessageType
  <2>2. Loud(m.order, FillByEvent) /\ Quiet(RejectByError)
    BY <1>22, <2>1, TellTells, ToldQuiet, ToldLoud, CallFacts DEF ExecFilled
  <2> QED
    BY <1>0, <1>22, <2>1, <2>2
       DEF ExecFilled, Quiet, Loud, Receive, ReactorFree, Consume, ExecHit, LateHit,
           PendingHit, HasCid,
           Emits, Terminal
<1>23. ASSUME NEW m \in Message, ErrorDrop(m) PROVE Safe'
  <2>1. m.order \in Order
    BY MessageType
  <2> QED
    BY <1>0, <1>23, <2>1 DEF ErrorDrop, Receive, ReactorFree
<1>24. ASSUME NEW m \in Message, ErrorFromRegistry(m) PROVE Safe'
  <2>1. m.order \in Order
    BY MessageType
  <2> QED
    BY <1>0, <1>24, <2>1
       DEF ErrorFromRegistry, Receive, ReactorFree, ErrorLate, ErrorPending, ErrorCid, Emits,
           Terminal
<1>25. ASSUME NEW m \in Message, ErrorFromPending(m) PROVE Safe'
  <2>1. m.order \in Order
    BY MessageType
  <2>2. CASE status[m.order] = "REJECTED"
    BY <1>0, <1>25, <2>1, <2>2
       DEF ErrorFromPending, ErrorTell, Receive, ReactorFree, ErrorPending, Emits, Terminal
  <2>3. CASE status[m.order] # "REJECTED"
    <3>1. Quiet(FillByEvent) /\ Loud(m.order, RejectByError)
      BY <1>25, <2>1, <2>3, TellTells, ToldQuiet, ToldLoud, CallFacts
         DEF ErrorFromPending, ErrorTell
    <3> QED
      BY <1>0, <1>25, <2>1, <2>3, <3>1
         DEF ErrorFromPending, Quiet, Loud, Receive, ReactorFree, ErrorPending, Emits, Terminal
  <2> QED
    BY <2>2, <2>3
<1>26. CASE DisconnectMove
  BY <1>0, <1>26 DEF DisconnectMove, ReactorFree
<1>27. CASE DisconnectClear
  BY <1>0, <1>27 DEF DisconnectClear, ReactorFree
<1>28. CASE Reconnect
  BY <1>0, <1>28 DEF Reconnect, ReactorFree
<1>29. CASE RestoreFetch
  BY <1>0, <1>29 DEF RestoreFetch, ReactorFree
<1>30. CASE RestoreResolve
  <2>1. PICK S \in SUBSET gone :
           /\ status' = [o \in Order |-> IF o \in S THEN "FILLED" ELSE status[o]]
           /\ Tells(S, <<"filled", "reconcile">>)
           /\ matched' = S /\ unresolved' = gone \ S
    BY <1>30 DEF RestoreResolve, Tells
  <2>2. Quiet(FillByEvent) /\ Quiet(RejectByError)
    BY <2>1, ToldQuiet, CallFacts
  <2> QED
    BY <1>0, <1>30, <2>1, <2>2 DEF RestoreResolve, Quiet
<1>31. CASE RestoreNothing
  BY <1>0, <1>31 DEF RestoreNothing, ReactorFree
<1>32. CASE RestoreAssign
  BY <1>0, <1>32 DEF RestoreAssign, ReactorFree
<1>33. CASE PreemptCheck
  BY <1>0, <1>33 DEF PreemptCheck, ReactorFree
<1>34. CASE PreemptTeardown
  BY <1>0, <1>34 DEF PreemptTeardown, ReactorFree
<1>35. CASE Stop
  BY <1>0, <1>35 DEF Stop, ReactorFree
<1>36. CASE UNCHANGED vars
  BY <1>36 DEF vars
<1> QED
  BY <1>1, <1>2, <1>3, <1>4, <1>5, <1>6, <1>7, <1>8, <1>9, <1>10, <1>11, <1>12, <1>13, <1>14,
     <1>15, <1>16, <1>17, <1>18, <1>19, <1>20, <1>21, <1>22, <1>23, <1>24, <1>25, <1>26,
     <1>27, <1>28, <1>29, <1>30, <1>31, <1>32, <1>33, <1>34, <1>35, <1>36
     DEF Next, Caller, CallerStep, Reactor, ExecEvent, ErrorEvent, Restore, Monitor, Environment

LEMMA InitSafe == Init => Safe
<1> SUFFICES ASSUME Init PROVE Safe
  OBVIOUS
<1>1. ASSUME NEW o \in Order, NEW K PROVE ~Has(told[o], K) /\ Once(told[o], K)
  <2>1. told[o] = <<>>
    BY DEF Init
  <2> QED
    BY <2>1 DEF Has, Once
<1> QED
  BY <1>1 DEF Init, Safe, NotSent, Departed, FilledByEvent, RejectedByError, Tracked,
              ExecFillOnce, ErrorRejectOnce

LEMMA FeedHolds == Spec => []FeedInv
<1>1. Init => FeedInv
  BY InitType, InitSafe DEF FeedInv
<1>2. FeedInv /\ [Next]_vars => FeedInv'
  BY NextType, NextSafe DEF FeedInv
<1> QED
  BY <1>1, <1>2, PTL DEF Spec

\* Every variable keeps its type.
THEOREM OrderFeedTypeOK == Spec => []TypeOK
<1>1. FeedInv => TypeOK
  BY DEF FeedInv
<1> QED
  BY <1>1, FeedHolds, PTL

\* The execution-event handler reports a fill at most once per order, however
\* often FILLED is re-emitted and whatever disconnects and timeouts come between.
THEOREM FillEventsOnce == Spec => []ExecFillOnce
<1>1. FeedInv => ExecFillOnce
  BY DEF FeedInv, Safe
<1> QED
  BY <1>1, FeedHolds, PTL

\* The deferred error and ORDER_ERROR report a rejection at most once per order.
THEOREM ErrorsRejectOnce == Spec => []ErrorRejectOnce
<1>1. FeedInv => ErrorRejectOnce
  BY DEF FeedInv, Safe
<1> QED
  BY <1>1, FeedHolds, PTL

\* A sent order that is still PENDING is in _pending_orders or on the
\* disconnected list, unless an unlocked clear forgot it.
THEOREM PendingOrdersTracked == Spec => []PendingIsTracked
<1>1. FeedInv => PendingIsTracked
  BY DEF FeedInv, Safe, Tracked, PendingIsTracked
<1> QED
  BY <1>1, FeedHolds, PTL

-----------------------------------------------------------------------------
(* What the comments promise, as long as no connection was lost.           *)

\* Without a disconnect nothing is copied, cleared or reconciled.
Undisturbed == drops = 0 => /\ gone = {} /\ ~clearing /\ forgotten = {}
                            /\ restore # "assign"
                            /\ \A o \in Order : ~Has(told[o], FillByReconcile)

\* A step that does none of that.
LEMMA Undisturbing ==
    ASSUME Undisturbed, UNCHANGED <<gone, clearing, forgotten, drops>>,
           restore' = restore \/ restore' # "assign", Quiet(FillByReconcile)
    PROVE  Undisturbed'
BY DEF Undisturbed, Quiet

LEMMA UntoldQuiet == ASSUME UNCHANGED told PROVE Quiet(FillByReconcile)
BY DEF Quiet

LEMMA ToldByOthers ==
    ASSUME TypeOK, NEW o \in Order, NEW c \in Calls, c # <<"filled", "reconcile">>, Tell(o, c)
    PROVE  Quiet(FillByReconcile)
<1>1. c \notin FillByReconcile
  BY DEF FillByReconcile
<1> QED
  BY <1>1, TellTells, ToldQuiet

LEMMA NextUndisturbed == TypeOK /\ Undisturbed /\ [Next]_vars => Undisturbed'
<1> SUFFICES ASSUME TypeOK, Undisturbed, [Next]_vars PROVE Undisturbed'
  OBVIOUS
<1> USE DEF callerVars, orderVars, mapVars, restoreVars, linkVars, discVars, brokerVars
<1>1. ASSUME NEW o \in Order, Caller(o) PROVE Undisturbed'
  BY <1>1, UntoldQuiet, Undisturbing
     DEF Caller, CallerStep, NewOrderBlocked, NewOrderOffline, NewOrderBuild,
         RegisterPending, RegisterMsgId, NoClient, Send, Wake, WaitExpires,
         RegisterExpired, CheckPending, TagIndeterminate
<1>2. ASSUME NEW o \in Order, DeferredFails(o) \/ BrokerDecide(o) \/ TtlPasses(o)
      PROVE  Undisturbed'
  BY <1>2, UntoldQuiet, Undisturbing DEF DeferredFails, BrokerDecide, TtlPasses
<1>3. ASSUME NEW o \in Order, DeferredRejects(o) PROVE Undisturbed'
  <2>1. Quiet(FillByReconcile)
    BY <1>3, CallFacts, ToldByOthers DEF DeferredRejects
  <2> QED
    BY <1>3, <2>1, Undisturbing DEF DeferredRejects
<1>4. ASSUME NEW m \in Message, NEW kind, Receive(m, kind), Quiet(FillByReconcile)
      PROVE  Undisturbed'
  BY <1>4, Undisturbing DEF Receive
<1>5. ASSUME NEW m \in Message, ExecEvent(m) PROVE Undisturbed'
  <2>1. Quiet(FillByReconcile)
    <3>1. CASE ExecDrop(m) \/ ExecInform(m) \/ ExecDuplicate(m)
      BY <3>1, UntoldQuiet DEF ExecDrop, ExecInform, ExecDuplicate
    <3>2. CASE ExecCancelled(m) \/ ExecRejected(m) \/ ExecFilled(m)
      BY <3>2, MessageType, CallFacts, ToldByOthers
         DEF ExecCancelled, ExecRejected, ExecFilled
    <3> QED
      BY <1>5, <3>1, <3>2 DEF ExecEvent
  <2>2. \E kind : Receive(m, kind)
    BY <1>5 DEF ExecEvent, ExecDrop, ExecInform, ExecCancelled, ExecRejected,
                ExecDuplicate, ExecFilled
  <2> QED
    BY <1>4, <2>1, <2>2
<1>6. ASSUME NEW m \in Message, ErrorEvent(m) PROVE Undisturbed'
  <2>1. Quiet(FillByReconcile)
    <3>1. CASE ErrorDrop(m) \/ ErrorFromRegistry(m)
      BY <3>1, UntoldQuiet DEF ErrorDrop, ErrorFromRegistry
    <3>2. CASE ErrorFromPending(m)
      BY <3>2, MessageType, CallFacts, UntoldQuiet, ToldByOthers
         DEF ErrorFromPending, ErrorTell
    <3> QED
      BY <1>6, <3>1, <3>2 DEF ErrorEvent
  <2>2. Receive(m, "ERROR")
    BY <1>6 DEF ErrorEvent, ErrorDrop, ErrorFromRegistry, ErrorFromPending
  <2> QED
    BY <1>4, <2>1, <2>2
<1>7. CASE DisconnectMove
  <2>1. drops' # 0
    BY <1>7, BoundsAssumption DEF DisconnectMove, TypeOK
  <2> QED
    BY <2>1 DEF Undisturbed
<1>8. CASE DisconnectClear \/ RestoreResolve \/ RestoreAssign
  <2>1. drops # 0 /\ drops' = drops
    BY <1>8 DEF Undisturbed, DisconnectClear, RestoreResolve, RestoreAssign
  <2> QED
    BY <2>1 DEF Undisturbed
<1>9. CASE Reconnect \/ RestoreFetch \/ RestoreNothing
  BY <1>9, UntoldQuiet, Undisturbing DEF Reconnect, RestoreFetch, RestoreNothing
<1>10. CASE Monitor \/ Stop
  BY <1>10, UntoldQuiet, Undisturbing DEF Monitor, PreemptCheck, PreemptTeardown, Stop
<1>11. CASE UNCHANGED vars
  BY <1>11, UntoldQuiet, Undisturbing DEF vars
<1> QED
  BY <1>1, <1>2, <1>3, <1>5, <1>6, <1>7, <1>8, <1>9, <1>10, <1>11
     DEF Next, Reactor, Restore, Environment

\* As long as no connection was lost, the two promises hold that the code does not
\* keep in general: every fill is announced at most once, whichever path reports it
\* (_fill_cb_fired), and no clear() loses an order.  Timeouts, deferred errors,
\* repeated and late messages and a stop do not break them; only what
\* _on_conn_disconnected and _resolve_disconnected_orders do can.
THEOREM PromisesUntilDisconnect == Spec => [](drops = 0 => FilledOnce /\ NothingForgotten)
<1>1. Init => Undisturbed
  <2>1. ~Has(<<>>, FillByReconcile)
    BY DEF Has
  <2> QED
    BY <2>1 DEF Init, Undisturbed
<1>2. FeedInv /\ Undisturbed => (drops = 0 => FilledOnce /\ NothingForgotten)
  <2> SUFFICES ASSUME FeedInv, Undisturbed, drops = 0
               PROVE  FilledOnce /\ NothingForgotten
    OBVIOUS
  <2>1. ASSUME NEW o \in Order PROVE Once(told[o], FillByEvent \cup FillByReconcile)
    <3>1. Once(told[o], FillByEvent) /\ ~Has(told[o], FillByReconcile)
      BY DEF FeedInv, Safe, ExecFillOnce, Undisturbed
    <3> QED
      BY <3>1 DEF Once, Has
  <2> QED
    BY <2>1 DEF FilledOnce, NothingForgotten, Undisturbed
<1>3. FeedInv => TypeOK
  BY DEF FeedInv
<1> QED
  BY <1>1, <1>2, <1>3, FeedHolds, NextUndisturbed, PTL DEF Spec

-----------------------------------------------------------------------------
(* What the feed has made of the broker's word, and the refinement of      *)
(* OrderLife.                                                              *)

\* An order that is not registered yet is as new_order built it.
Unentered == \A o \in Order : /\ pc[o] = "idle" => status[o] = "NEW"
                              /\ pc[o] = "register" => status[o] = "PENDING"

\* A heard order is settled for every thread: it is not pending, its deferred will
\* not fire, and it has the broker's verdict or reconcile's.
HeardKept == \A o \in Heard :
    /\ deferred[o] \in {"armed", "done"}
    /\ o \notin pending
    /\ status[o] # "PENDING"
    /\ fate[o] \in Terminal
    /\ ~Contradictory => status[o] \in {fate[o], "FILLED"}

LifeInv == /\ Unentered /\ HeardKept
           /\ link => running
           /\ unresolved \subseteq gone

LEMMA AppendHas ==
    ASSUME NEW s \in Seq(Calls), NEW c \in Calls, NEW K
    PROVE  /\ Has(s, K) => Has(Append(s, c), K)
           /\ c \in K => Has(Append(s, c), K)
<1>1. /\ Len(s) \in Nat
      /\ DOMAIN s = 1 .. Len(s)
      /\ DOMAIN Append(s, c) = 1 .. (Len(s) + 1)
      /\ \A i \in 1 .. Len(s) : Append(s, c)[i] = s[i]
      /\ Append(s, c)[Len(s) + 1] = c
  OBVIOUS
<1>2. DOMAIN s \subseteq DOMAIN Append(s, c) /\ Len(s) + 1 \in DOMAIN Append(s, c)
  BY <1>1
<1> QED
  BY <1>1, <1>2 DEF Has

LEMMA HeardSame == UNCHANGED told => Heard' = Heard
BY DEF Heard

LEMMA HeardQuiet ==
    ASSUME TypeOK, NEW S, NEW c \in Calls, c \notin ByExec, Tells(S, c)
    PROVE  Heard' = Heard
<1>1. ASSUME NEW o \in Order PROVE Has(told'[o], ByExec) <=> Has(told[o], ByExec)
  <2>1. Has(told'[o], ByExec) => Has(told[o], ByExec)
    BY ToldFacts
  <2>2. told[o] \in Seq(Calls)
    BY DEF TypeOK
  <2>3. Has(told[o], ByExec) => Has(told'[o], ByExec)
    BY <2>2, AppendHas DEF Tells
  <2> QED
    BY <2>1, <2>3
<1> QED
  BY <1>1 DEF Heard

LEMMA HeardLoud ==
    ASSUME TypeOK, running, NEW o \in Order, NEW c \in Calls, c \in ByExec, Tells({o}, c)
    PROVE  Heard' = Heard \cup {o}
<1>1. ASSUME NEW x \in Order PROVE Has(told'[x], ByExec) <=> Has(told[x], ByExec) \/ x = o
  <2>1. Has(told'[x], ByExec) => Has(told[x], ByExec) \/ x = o
    <3>1. Has(told'[x], ByExec) => Has(told[x], ByExec) \/ (x \in {o} /\ c \in ByExec)
      BY ToldFacts
    <3> QED
      BY <3>1
  <2>2. told[x] \in Seq(Calls)
    BY DEF TypeOK
  <2>3. Has(told[x], ByExec) \/ x = o => Has(told'[x], ByExec)
    BY <2>2, AppendHas DEF Tells
  <2> QED
    BY <2>1, <2>3
<1> QED
  BY <1>1 DEF Heard

LEMMA ExecCalls ==
    /\ <<"filled", "exec">> \in ByExec
    /\ <<"cancelled", "exec">> \in ByExec
    /\ <<"rejected", "exec">> \in ByExec
    /\ <<"filled", "reconcile">> \notin ByExec
    /\ <<"rejected", "deferred">> \notin ByExec
    /\ <<"rejected", "error">> \notin ByExec
BY DEF ByExec

\* What a message that is handled tells of its order.
LEMMA ReceiveFacts ==
    ASSUME TypeOK, NEW m \in Message, NEW kind, Receive(m, kind)
    PROVE  /\ m.order \in Order /\ deferred[m.order] # "none" /\ ~clearing /\ link
           /\ deferred[m.order] # "firing"
           /\ kind \in Terminal => fate[m.order] = kind
           /\ kind = "ERROR" /\ ~Contradictory => fate[m.order] = "ERROR"
           /\ \A o \in Order : (deferred'[o] = "none") = (deferred[o] = "none")
           /\ \A o \in Order : deferred[o] \in {"armed", "done"} => deferred'[o] \in {"armed", "done"}
           /\ UNCHANGED <<pc, link, client, running, clearing, moved, fate, gone, unresolved>>
<1>1. m.order \in Order
  BY MessageType
<1>2. /\ deferred[m.order] # "none" /\ ~clearing /\ link /\ deferred[m.order] # "firing"
      /\ kind \in Emits(m.order)
      /\ deferred' = [deferred EXCEPT ![m.order] = IF m.mid /\ @ = "armed" THEN "done" ELSE @]
      /\ UNCHANGED <<pc, link, client, running, clearing, moved, fate, gone, unresolved>>
  BY <1>1 DEF Receive, ReactorFree, callerVars, restoreVars, linkVars, discVars
<1>3. /\ kind \in Terminal => fate[m.order] = kind
      /\ kind = "ERROR" /\ ~Contradictory => fate[m.order] = "ERROR"
  BY <1>2 DEF Emits, Terminal
<1>4. deferred \in [Order -> {"none", "armed", "firing", "done"}]
  BY DEF TypeOK
<1>5. \A o \in Order : (deferred'[o] = "none") = (deferred[o] = "none")
  BY <1>1, <1>2, <1>4
<1>6. \A o \in Order : deferred[o] \in {"armed", "done"} => deferred'[o] \in {"armed", "done"}
  BY <1>1, <1>2, <1>4
<1> QED
  BY <1>1, <1>2, <1>3, <1>5, <1>6

\* A message that finds its order takes it out of _pending_orders.
LEMMA ConsumeFacts ==
    ASSUME FeedInv, NEW m \in Message, NEW kind, Receive(m, kind), ExecHit(m), Consume(m)
    PROVE  pending' = pending \ {m.order}
<1>1. m.order \in Order /\ deferred[m.order] # "none"
  BY ReceiveFacts DEF FeedInv
<1>2. m.order \in pending => m.order \in msgIds
  BY <1>1 DEF FeedInv, Safe, NotSent
<1>3. m.oid \/ m.mid
  BY MessageType DEF ExecHit, PendingHit, LateHit, HasCid
<1> QED
  BY <1>2, <1>3, MessageType DEF Consume, HasCid, ExecHit, PendingHit, LateHit

LEMMA NextLife == FeedInv /\ LifeInv /\ [Next]_vars => LifeInv'
<1> SUFFICES ASSUME FeedInv, LifeInv, [Next]_vars PROVE LifeInv'
  OBVIOUS
<1>t. TypeOK /\ Safe
  BY DEF FeedInv
<1>0. Shape /\ NotSent /\ pc \in [Order -> {"idle", "register", "link", "send", "wait",
                                            "expired", "check", "tag", "done"}]
  BY <1>t DEF TypeOK, Shape, Safe
<1>h. Heard \subseteq Order
  BY DEF Heard
<1> USE DEF LifeInv, Unentered, HeardKept, NotSent, Shape, Statuses, Goto, SetOrder, Wakes,
        callerVars, orderVars, mapVars, restoreVars, linkVars, discVars, brokerVars
<1>1. ASSUME NEW o \in Order, NewOrderBlocked(o) PROVE LifeInv'
  <2>1. Heard' = Heard
    BY <1>1, HeardSame DEF NewOrderBlocked
  <2> QED
    BY <1>0, <1>h, <1>1, <2>1 DEF NewOrderBlocked
<1>2. ASSUME NEW o \in Order, NewOrderOffline(o) PROVE LifeInv'
  <2>1. Heard' = Heard
    BY <1>2, HeardSame DEF NewOrderOffline
  <2> QED
    BY <1>0, <1>h, <1>2, <2>1 DEF NewOrderOffline
<1>3. ASSUME NEW o \in Order, NewOrderBuild(o) PROVE LifeInv'
  <2>1. Heard' = Heard
    BY <1>3, HeardSame DEF NewOrderBuild
  <2> QED
    BY <1>0, <1>h, <1>3, <2>1 DEF NewOrderBuild
<1>4. ASSUME NEW o \in Order, RegisterPending(o) PROVE LifeInv'
  <2>1. Heard' = Heard
    BY <1>4, HeardSame DEF RegisterPending
  <2> QED
    BY <1>0, <1>h, <1>4, <2>1 DEF RegisterPending
<1>5. ASSUME NEW o \in Order, RegisterMsgId(o) PROVE LifeInv'
  <2>1. Heard' = Heard
    BY <1>5, HeardSame DEF RegisterMsgId
  <2> QED
    BY <1>0, <1>h, <1>5, <2>1 DEF RegisterMsgId
<1>6. ASSUME NEW o \in Order, NoClient(o) PROVE LifeInv'
  <2>1. Heard' = Heard
    BY <1>6, HeardSame DEF NoClient
  <2> QED
    BY <1>0, <1>h, <1>6, <2>1 DEF NoClient
<1>7. ASSUME NEW o \in Order, Send(o) PROVE LifeInv'
  <2>1. Heard' = Heard
    BY <1>7, HeardSame DEF Send
  <2> QED
    BY <1>0, <1>h, <1>7, <2>1 DEF Send
<1>8. ASSUME NEW o \in Order, Wake(o) PROVE LifeInv'
  <2>1. Heard' = Heard
    BY <1>8, HeardSame DEF Wake
  <2> QED
    BY <1>0, <1>h, <1>8, <2>1 DEF Wake
<1>9. ASSUME NEW o \in Order, WaitExpires(o) PROVE LifeInv'
  <2>1. Heard' = Heard
    BY <1>9, HeardSame DEF WaitExpires
  <2> QED
    BY <1>0, <1>h, <1>9, <2>1 DEF WaitExpires
<1>10. ASSUME NEW o \in Order, RegisterExpired(o) PROVE LifeInv'
  <2>1. Heard' = Heard
    BY <1>10, HeardSame DEF RegisterExpired
  <2> QED
    BY <1>0, <1>h, <1>10, <2>1 DEF RegisterExpired
<1>11. ASSUME NEW o \in Order, CheckPending(o) PROVE LifeInv'
  <2>1. Heard' = Heard
    BY <1>11, HeardSame DEF CheckPending
  <2> QED
    BY <1>0, <1>h, <1>11, <2>1 DEF CheckPending
<1>12. ASSUME NEW o \in Order, TagIndeterminate(o) PROVE LifeInv'
  <2>1. Heard' = Heard
    BY <1>12, HeardSame DEF TagIndeterminate
  <2> QED
    BY <1>0, <1>h, <1>12, <2>1 DEF TagIndeterminate
<1>13. ASSUME NEW o \in Order, DeferredFails(o) PROVE LifeInv'
  <2>1. Heard' = Heard
    BY <1>13, HeardSame DEF DeferredFails
  <2> QED
    BY <1>0, <1>h, <1>13, <2>1 DEF DeferredFails
<1>14. ASSUME NEW o \in Order, DeferredRejects(o) PROVE LifeInv'
  <2>1. Heard' = Heard
    BY <1>t, <1>14, TellTells, HeardQuiet, CallFacts, ExecCalls DEF DeferredRejects
  <2> QED
    BY <1>0, <1>h, <1>14, <2>1 DEF DeferredRejects
<1>15. ASSUME NEW o \in Order, BrokerDecide(o) PROVE LifeInv'
  <2>1. Heard' = Heard
    BY <1>15, HeardSame DEF BrokerDecide
  <2> QED
    BY <1>0, <1>h, <1>15, <2>1 DEF BrokerDecide, Terminal
<1>16. ASSUME NEW o \in Order, TtlPasses(o) PROVE LifeInv'
  <2>1. Heard' = Heard
    BY <1>16, HeardSame DEF TtlPasses
  <2> QED
    BY <1>0, <1>h, <1>16, <2>1 DEF TtlPasses, Terminal
<1>17. ASSUME NEW m \in Message, ExecDrop(m) PROVE LifeInv'
  <2>1. PICK kind : Receive(m, kind)
    BY <1>17 DEF ExecDrop
  <2>2. Heard' = Heard /\ UNCHANGED <<status, pending>>
    BY <1>17, HeardSame DEF ExecDrop
  <2> QED
    BY <1>t, <1>0, <1>h, <2>1, <2>2, ReceiveFacts
<1>18. ASSUME NEW m \in Message, ExecInform(m) PROVE LifeInv'
  <2>1. PICK kind : Receive(m, kind)
    BY <1>18 DEF ExecInform
  <2>2. Heard' = Heard /\ UNCHANGED <<status, pending>>
    BY <1>18, HeardSame DEF ExecInform
  <2> QED
    BY <1>t, <1>0, <1>h, <2>1, <2>2, ReceiveFacts
<1>19. ASSUME NEW m \in Message, ErrorDrop(m) PROVE LifeInv'
  <2>1. PICK kind : Receive(m, kind)
    BY <1>19 DEF ErrorDrop
  <2>2. Heard' = Heard /\ UNCHANGED <<status, pending>>
    BY <1>19, HeardSame DEF ErrorDrop
  <2> QED
    BY <1>t, <1>0, <1>h, <2>1, <2>2, ReceiveFacts
<1>20. ASSUME NEW m \in Message, ExecCancelled(m) PROVE LifeInv'
  <2>1. Receive(m, "CANCELLED") /\ m.order \in Order
    BY <1>20, MessageType DEF ExecCancelled
  <2>2. running
    BY <1>t, <2>1, ReceiveFacts
  <2>3. Heard' = Heard \cup {m.order}
    BY <1>t, <1>20, <2>1, <2>2, TellTells, HeardLoud, CallFacts, ExecCalls DEF ExecCancelled
  <2>4. pending' = pending \ {m.order}
    BY <1>20, <2>1, ConsumeFacts DEF ExecCancelled
  <2>5. status' = [status EXCEPT ![m.order] = "CANCELLED"]
    BY <1>20 DEF ExecCancelled
  <2>6. fate[m.order] = "CANCELLED" /\ "CANCELLED" \in Terminal
    BY <1>t, <2>1, ReceiveFacts DEF Terminal
  <2>7. deferred'[m.order] \in {"armed", "done"}
    BY <1>t, <1>0, <2>1, ReceiveFacts
  <2>8. pc[m.order] \notin {"idle", "register"}
    BY <1>t, <1>0, <2>1, ReceiveFacts
  <2> QED
    BY <1>t, <1>0, <1>h, <2>1, <2>3, <2>4, <2>5, <2>6, <2>7, <2>8, ReceiveFacts
<1>21. ASSUME NEW m \in Message, ExecRejected(m) PROVE LifeInv'
  <2>1. Receive(m, "REJECTED") /\ m.order \in Order
    BY <1>21, MessageType DEF ExecRejected
  <2>2. running
    BY <1>t, <2>1, ReceiveFacts
  <2>3. Heard' = Heard \cup {m.order}
    BY <1>t, <1>21, <2>1, <2>2, TellTells, HeardLoud, CallFacts, ExecCalls DEF ExecRejected
  <2>4. pending' = pending \ {m.order}
    BY <1>21, <2>1, ConsumeFacts DEF ExecRejected
  <2>5. status' = [status EXCEPT ![m.order] = "REJECTED"]
    BY <1>21 DEF ExecRejected
  <2>6. fate[m.order] = "REJECTED" /\ "REJECTED" \in Terminal
    BY <1>t, <2>1, ReceiveFacts DEF Terminal
  <2>7. deferred'[m.order] \in {"armed", "done"}
    BY <1>t, <1>0, <2>1, ReceiveFacts
  <2>8. pc[m.order] \notin {"idle", "register"}
    BY <1>t, <1>0, <2>1, ReceiveFacts
  <2> QED
    BY <1>t, <1>0, <1>h, <2>1, <2>3, <2>4, <2>5, <2>6, <2>7, <2>8, ReceiveFacts
<1>22. ASSUME NEW m \in Message, ExecFilled(m) PROVE LifeInv'
  <2>1. Receive(m, "FILLED") /\ m.order \in Order
    BY <1>22, MessageType DEF ExecFilled
  <2>2. running
    BY <1>t, <2>1, ReceiveFacts
  <2>3. Heard' = Heard \cup {m.order}
    BY <1>t, <1>22, <2>1, <2>2, TellTells, HeardLoud, CallFacts, ExecCalls DEF ExecFilled
  <2>4. pending' = pending \ {m.order}
    BY <1>22, <2>1, ConsumeFacts DEF ExecFilled
  <2>5. status' = [status EXCEPT ![m.order] = "FILLED"]
    BY <1>22 DEF ExecFilled
  <2>6. fate[m.order] = "FILLED" /\ "FILLED" \in Terminal
    BY <1>t, <2>1, ReceiveFacts DEF Terminal
  <2>7. deferred'[m.order] \in {"armed", "done"}
    BY <1>t, <1>0, <2>1, ReceiveFacts
  <2>8. pc[m.order] \notin {"idle", "register"}
    BY <1>t, <1>0, <2>1, ReceiveFacts
  <2> QED
    BY <1>t, <1>0, <1>h, <2>1, <2>3, <2>4, <2>5, <2>6, <2>7, <2>8, ReceiveFacts
<1>23. ASSUME NEW m \in Message, ExecDuplicate(m) PROVE LifeInv'
  <2>1. Receive(m, "FILLED")
    BY <1>23 DEF ExecDuplicate
  <2>2. Heard' = Heard /\ UNCHANGED status
    BY <1>23, HeardSame DEF ExecDuplicate
  <2>3. pending' = pending \ {m.order}
    BY <1>23, <2>1, ConsumeFacts DEF ExecDuplicate
  <2> QED
    BY <1>t, <1>0, <1>h, <2>1, <2>2, <2>3, ReceiveFacts
<1>24. ASSUME NEW m \in Message, ErrorFromRegistry(m) PROVE LifeInv'
  <2>1. Receive(m, "ERROR")
    BY <1>24 DEF ErrorFromRegistry
  <2>2. Heard' = Heard /\ UNCHANGED pending
    BY <1>24, HeardSame DEF ErrorFromRegistry
  <2>3. status' = [status EXCEPT ![m.order] = "REJECTED"]
    BY <1>24 DEF ErrorFromRegistry
  <2>4. pc[m.order] \notin {"idle", "register"}
    BY <1>t, <1>0, <2>1, ReceiveFacts
  <2> QED
    BY <1>t, <1>0, <1>h, <2>1, <2>2, <2>3, <2>4, ReceiveFacts DEF Terminal
<1>25. ASSUME NEW m \in Message, ErrorFromPending(m) PROVE LifeInv'
  <2>1. Receive(m, "ERROR") /\ m.order \in Order
    BY <1>25, MessageType DEF ErrorFromPending
  <2>2. Heard' = Heard
    <3>1. UNCHANGED told \/ Tells({m.order}, <<"rejected", "error">>)
      BY <1>t, <1>25, <2>1, TellTells DEF ErrorFromPending, ErrorTell
    <3> QED
      BY <1>t, <3>1, HeardSame, HeardQuiet, CallFacts, ExecCalls
  <2>3. /\ status' = [status EXCEPT ![m.order] = "REJECTED"]
        /\ pending' = pending \ {m.order}
    BY <1>25 DEF ErrorFromPending
  <2>4. pc[m.order] \notin {"idle", "register"}
    BY <1>t, <1>0, <2>1, ReceiveFacts
  <2> QED
    BY <1>t, <1>0, <1>h, <2>1, <2>2, <2>3, <2>4, ReceiveFacts DEF Terminal
<1>26. CASE DisconnectMove
  <2>1. Heard' = Heard
    BY <1>26, HeardSame DEF DisconnectMove
  <2> QED
    BY <1>0, <1>h, <1>26, <2>1 DEF DisconnectMove
<1>27. CASE DisconnectClear
  <2>1. Heard' = Heard
    BY <1>27, HeardSame DEF DisconnectClear
  <2> QED
    BY <1>0, <1>h, <1>27, <2>1 DEF DisconnectClear
<1>28. CASE Reconnect
  <2>1. Heard' = Heard
    BY <1>28, HeardSame DEF Reconnect
  <2> QED
    BY <1>0, <1>h, <1>28, <2>1 DEF Reconnect
<1>29. CASE RestoreFetch
  <2>1. Heard' = Heard
    BY <1>29, HeardSame DEF RestoreFetch
  <2> QED
    BY <1>0, <1>h, <1>29, <2>1 DEF RestoreFetch
<1>30. CASE RestoreNothing
  <2>1. Heard' = Heard
    BY <1>30, HeardSame DEF RestoreNothing
  <2> QED
    BY <1>0, <1>h, <1>30, <2>1 DEF RestoreNothing
<1>31. CASE RestoreAssign
  <2>1. Heard' = Heard
    BY <1>31, HeardSame DEF RestoreAssign
  <2> QED
    BY <1>0, <1>h, <1>31, <2>1 DEF RestoreAssign
<1>32. CASE PreemptCheck
  <2>1. Heard' = Heard
    BY <1>32, HeardSame DEF PreemptCheck
  <2> QED
    BY <1>0, <1>h, <1>32, <2>1 DEF PreemptCheck
<1>33. CASE PreemptTeardown
  <2>1. Heard' = Heard
    BY <1>33, HeardSame DEF PreemptTeardown
  <2> QED
    BY <1>0, <1>h, <1>33, <2>1 DEF PreemptTeardown
<1>34. CASE Stop
  <2>1. Heard' = Heard
    BY <1>34, HeardSame DEF Stop
  <2> QED
    BY <1>0, <1>h, <1>34, <2>1 DEF Stop
<1>35. CASE RestoreResolve
  <2>1. PICK S \in SUBSET gone :
           /\ status' = [o \in Order |-> IF o \in S THEN "FILLED" ELSE status[o]]
           /\ Tells(S, <<"filled", "reconcile">>)
           /\ unresolved' = gone \ S
    BY <1>35 DEF RestoreResolve, Tells
  <2>2. Heard' = Heard
    BY <1>t, <2>1, HeardQuiet, CallFacts, ExecCalls
  <2>3. UNCHANGED <<pc, deferred, fate, pending, gone, link, running>>
    BY <1>35 DEF RestoreResolve
  <2> QED
    BY <1>0, <1>h, <2>1, <2>2, <2>3
<1>36. CASE UNCHANGED vars
  <2>1. Heard' = Heard
    BY <1>36, HeardSame DEF vars
  <2> QED
    BY <1>0, <1>h, <1>36, <2>1 DEF vars
<1> QED
  BY <1>1, <1>2, <1>3, <1>4, <1>5, <1>6, <1>7, <1>8, <1>9, <1>10, <1>11, <1>12, <1>13,
     <1>14, <1>15, <1>16, <1>17, <1>18, <1>19, <1>20, <1>21, <1>22, <1>23, <1>24, <1>25,
     <1>26, <1>27, <1>28, <1>29, <1>30, <1>31, <1>32, <1>33, <1>34, <1>35, <1>36
     DEF Next, Caller, CallerStep, Reactor, ExecEvent, ErrorEvent, Restore, Monitor, Environment

LEMMA LifeHolds == Spec => [](FeedInv /\ LifeInv)
<1>1. Init => LifeInv
  <2> SUFFICES ASSUME Init PROVE LifeInv
    OBVIOUS
  <2>1. ASSUME NEW o \in Order PROVE ~Has(told[o], ByExec)
    <3>1. told[o] = <<>>
      BY DEF Init
    <3> QED
      BY <3>1 DEF Has
  <2>2. Heard = {}
    BY <2>1 DEF Heard
  <2> QED
    BY <2>2 DEF Init, LifeInv, Unentered, HeardKept
<1> QED
  BY <1>1, NextLife, FeedHolds, PTL DEF Spec

\* With a broker that never sends ORDER_ERROR for an order it has executed or
\* refused, what the execution events have made of an order stays, through
\* timeouts, disconnects, a stop and further messages; only reconcile may call it
\* FILLED.
THEOREM OutcomesStand == Spec => [](~Contradictory => OutcomeKept)
<1>1. LifeInv => (~Contradictory => OutcomeKept)
  BY DEF LifeInv, HeardKept, OutcomeKept
<1> QED
  BY <1>1, LifeHolds, PTL

-----------------------------------------------------------------------------
(* The refinement.                                                         *)

\* A step that keeps every request where it is.
LEMMA StagesKept ==
    ASSUME \A o \in Order : /\ (deferred'[o] = "none") = (deferred[o] = "none")
                            /\ (pc'[o] \in {"idle", "register"}) = (pc[o] \in {"idle", "register"})
                            /\ (pc'[o] \in {"link", "send"}) = (pc[o] \in {"link", "send"})
    PROVE  Stages' = Stages
<1>1. \A o \in Order : Stage(o)' = Stage(o)
  BY DEF Stage
<1> QED
  BY <1>1 DEF Stages

LEMMA StagesSame == UNCHANGED <<pc, deferred>> => Stages' = Stages
BY DEF Stages, Stage

\* A step that moves one request.
LEMMA StageMoves ==
    ASSUME NEW o \in Order, NEW l, NEW g, pc = [x \in Order |-> pc[x]], Goto(o, l),
           \A x \in Order : x # o => deferred'[x] = deferred[x],
           Stage(o)' = g
    PROVE  Stages' = [Stages EXCEPT ![o] = g]
<1>1. \A x \in Order : x # o => Stage(x)' = Stage(x)
  BY DEF Stage, Goto
<1>2. Stages' = [x \in Order |-> Stage(x)']
  BY DEF Stages
<1> QED
  BY <1>1, <1>2 DEF Stages

LEMMA LifeStep ==
    ASSUME FeedInv, LifeInv, [Next]_vars, ~Contradictory
    PROVE  Life!Next \/ UNCHANGED Life!lifeVars
<1>t. TypeOK /\ Safe
  BY DEF FeedInv
<1>0. /\ Shape /\ NotSent /\ fate \in [Order -> Terminal \cup {"none", "ERROR"}]
      /\ pc \in [Order -> {"idle", "register", "link", "send", "wait",
                           "expired", "check", "tag", "done"}]
  BY <1>t DEF TypeOK, Shape, Safe
<1>p. pc = [x \in Order |-> pc[x]]
  BY <1>0
<1>h. Heard \subseteq Order
  BY DEF Heard
<1> USE DEF Goto, SetOrder, Wakes, callerVars, orderVars, mapVars, restoreVars, linkVars,
        discVars, brokerVars, Life!lifeVars
<1>1. ASSUME NEW o \in Order, NewOrderBlocked(o) PROVE Life!Next
  <2>1. Heard' = Heard /\ Awaited' = Awaited
    BY <1>1, HeardSame DEF NewOrderBlocked, Awaited
  <2>2. pc[o] = "idle" /\ deferred[o] = "none" /\ status[o] = "NEW"
    BY <1>0, <1>1 DEF NewOrderBlocked, NotSent, LifeInv, Unentered
  <2>3. Stages[o] = "new" /\ Stage(o)' = "over"
    BY <1>0, <1>1, <2>2 DEF NewOrderBlocked, Stages, Stage
  <2>4. Stages' = [Stages EXCEPT ![o] = "over"]
    BY <1>p, <1>1, <2>3, StageMoves DEF NewOrderBlocked
  <2>5. Life!Refuse(o)
    BY <1>1, <2>1, <2>2, <2>3, <2>4 DEF NewOrderBlocked, Life!Refuse, Life!Becomes, Life!Enters
  <2> QED
    BY <2>5 DEF Life!Next
<1>2. ASSUME NEW o \in Order, NewOrderOffline(o) PROVE Life!Next
  <2>1. Heard' = Heard /\ Awaited' = Awaited
    BY <1>2, HeardSame DEF NewOrderOffline, Awaited
  <2>2. pc[o] = "idle" /\ deferred[o] = "none" /\ status[o] = "NEW"
    BY <1>0, <1>2 DEF NewOrderOffline, NotSent, LifeInv, Unentered
  <2>3. Stages[o] = "new" /\ Stage(o)' = "over"
    BY <1>0, <1>2, <2>2 DEF NewOrderOffline, Stages, Stage
  <2>4. Stages' = [Stages EXCEPT ![o] = "over"]
    BY <1>p, <1>2, <2>3, StageMoves DEF NewOrderOffline
  <2>5. Life!Refuse(o)
    BY <1>2, <2>1, <2>2, <2>3, <2>4 DEF NewOrderOffline, Life!Refuse, Life!Becomes, Life!Enters
  <2> QED
    BY <2>5 DEF Life!Next
<1>3. ASSUME NEW o \in Order, NewOrderBuild(o) PROVE Life!Next
  <2>1. Heard' = Heard /\ Awaited' = Awaited
    BY <1>3, HeardSame DEF NewOrderBuild, Awaited
  <2>2. pc[o] = "idle" /\ deferred[o] = "none" /\ status[o] = "NEW"
    BY <1>0, <1>3 DEF NewOrderBuild, NotSent, LifeInv, Unentered
  <2>3. Stages[o] = "new"
    BY <2>2 DEF Stages, Stage
  <2>4. Stages' = Stages
    <3>1. pc' = [pc EXCEPT ![o] = "register"] /\ deferred' = deferred
      BY <1>3 DEF NewOrderBuild
    <3>2. \A x \in Order : x # o => pc'[x] = pc[x]
      BY <1>0, <3>1
    <3>3. pc'[o] = "register"
      BY <1>0, <3>1
    <3>4. \A x \in Order :
            /\ (pc'[x] \in {"idle", "register"}) = (pc[x] \in {"idle", "register"})
            /\ (pc'[x] \in {"link", "send"}) = (pc[x] \in {"link", "send"})
      BY <2>2, <3>2, <3>3
    <3> QED
      BY <3>1, <3>4, StagesKept
  <2>5. Life!Build(o)
    BY <1>3, <2>1, <2>2, <2>3, <2>4 DEF NewOrderBuild, Life!Build, Life!Becomes
  <2> QED
    BY <2>5 DEF Life!Next
<1>4. ASSUME NEW o \in Order, RegisterPending(o) PROVE Life!Next
  <2>1. Heard' = Heard
    BY <1>4, HeardSame DEF RegisterPending
  <2>2. pc[o] = "register" /\ deferred[o] = "none" /\ status[o] = "PENDING" /\ o \notin moved
    BY <1>0, <1>4 DEF RegisterPending, NotSent, LifeInv, Unentered
  <2>3. Stages[o] = "new" /\ Stage(o)' = "entered"
    BY <1>0, <1>4, <2>2 DEF RegisterPending, Stages, Stage
  <2>4. Stages' = [Stages EXCEPT ![o] = "entered"]
    BY <1>p, <1>4, <2>3, StageMoves DEF RegisterPending
  <2>5. Awaited' = Awaited \cup {o}
    BY <1>4, <2>2 DEF RegisterPending, Awaited
  <2>6. Life!Await(o)
    BY <1>4, <2>1, <2>2, <2>3, <2>4, <2>5 DEF RegisterPending, Life!Await, Life!Enters
  <2> QED
    BY <2>6 DEF Life!Next
<1>5. ASSUME NEW o \in Order, NoClient(o) PROVE Life!Next
  <2>1. Heard' = Heard /\ Awaited' = Awaited
    BY <1>5, HeardSame DEF NoClient, Awaited
  <2>2. pc[o] = "send" /\ deferred[o] = "none"
    BY <1>0, <1>5 DEF NoClient, NotSent
  <2>3. Stages[o] = "entered" /\ Stage(o)' = "over"
    BY <1>0, <1>5, <2>2 DEF NoClient, Stages, Stage
  <2>4. Stages' = [Stages EXCEPT ![o] = "over"]
    BY <1>p, <1>5, <2>3, StageMoves DEF NoClient
  <2>5. Life!Abort(o)
    BY <1>5, <2>1, <2>3, <2>4 DEF NoClient, Life!Abort, Life!Becomes, Life!Enters
  <2> QED
    BY <2>5 DEF Life!Next
<1>6. ASSUME NEW o \in Order, Send(o) PROVE Life!Next
  <2>1. Heard' = Heard /\ Awaited' = Awaited
    BY <1>6, HeardSame DEF Send, Awaited
  <2>2. pc[o] = "send" /\ deferred[o] = "none"
    BY <1>0, <1>6 DEF Send, NotSent
  <2>3. Stages[o] = "entered" /\ Stage(o)' = "sent"
    BY <1>0, <1>6, <2>2 DEF Send, Stages, Stage, Shape
  <2>4. \A x \in Order : x # o => deferred'[x] = deferred[x]
    BY <1>0, <1>6 DEF Send, Shape
  <2>5. Stages' = [Stages EXCEPT ![o] = "sent"]
    BY <1>p, <1>6, <2>3, <2>4, StageMoves DEF Send
  <2>6. Life!Send(o)
    BY <1>6, <2>1, <2>3, <2>5 DEF Send, Life!Send, Life!Enters
  <2> QED
    BY <2>6 DEF Life!Next
<1>7. ASSUME NEW o \in Order, RegisterMsgId(o) PROVE UNCHANGED Life!lifeVars
  <2>1. Heard' = Heard /\ Awaited' = Awaited
    BY <1>7, HeardSame DEF RegisterMsgId, Awaited
  <2>2. Stages' = Stages
    BY <1>0, <1>7, StagesKept DEF RegisterMsgId
  <2> QED
    BY <1>7, <2>1, <2>2 DEF RegisterMsgId
<1>8. ASSUME NEW o \in Order, Wake(o) PROVE UNCHANGED Life!lifeVars
  <2>1. Heard' = Heard /\ Awaited' = Awaited
    BY <1>8, HeardSame DEF Wake, Awaited
  <2>2. Stages' = Stages
    BY <1>0, <1>8, StagesKept DEF Wake
  <2> QED
    BY <1>8, <2>1, <2>2 DEF Wake
<1>9. ASSUME NEW o \in Order, WaitExpires(o) PROVE UNCHANGED Life!lifeVars
  <2>1. Heard' = Heard /\ Awaited' = Awaited
    BY <1>9, HeardSame DEF WaitExpires, Awaited
  <2>2. Stages' = Stages
    BY <1>0, <1>9, StagesKept DEF WaitExpires
  <2> QED
    BY <1>9, <2>1, <2>2 DEF WaitExpires
<1>10. ASSUME NEW o \in Order, RegisterExpired(o) PROVE UNCHANGED Life!lifeVars
  <2>1. Heard' = Heard /\ Awaited' = Awaited
    BY <1>10, HeardSame DEF RegisterExpired, Awaited
  <2>2. Stages' = Stages
    BY <1>0, <1>10, StagesKept DEF RegisterExpired
  <2> QED
    BY <1>10, <2>1, <2>2 DEF RegisterExpired
<1>11. ASSUME NEW o \in Order, CheckPending(o) PROVE UNCHANGED Life!lifeVars
  <2>1. Heard' = Heard /\ Awaited' = Awaited
    BY <1>11, HeardSame DEF CheckPending, Awaited
  <2>2. Stages' = Stages
    BY <1>0, <1>11, StagesKept DEF CheckPending
  <2> QED
    BY <1>11, <2>1, <2>2 DEF CheckPending
<1>12. ASSUME NEW o \in Order, TagIndeterminate(o) PROVE UNCHANGED Life!lifeVars
  <2>1. Heard' = Heard /\ Awaited' = Awaited
    BY <1>12, HeardSame DEF TagIndeterminate, Awaited
  <2>2. Stages' = Stages
    BY <1>0, <1>12, StagesKept DEF TagIndeterminate
  <2> QED
    BY <1>12, <2>1, <2>2 DEF TagIndeterminate
<1>13. ASSUME NEW o \in Order, DeferredFails(o) PROVE UNCHANGED Life!lifeVars
  <2>1. Heard' = Heard /\ Awaited' = Awaited
    BY <1>13, HeardSame DEF DeferredFails, Awaited
  <2>2. Stages' = Stages
    BY <1>0, <1>13, StagesKept DEF DeferredFails, Shape
  <2> QED
    BY <1>13, <2>1, <2>2 DEF DeferredFails
<1>14. ASSUME NEW o \in Order, DeferredRejects(o) PROVE Life!Next
  <2>1. Heard' = Heard /\ Awaited' = Awaited
    BY <1>t, <1>14, TellTells, HeardQuiet, CallFacts, ExecCalls DEF DeferredRejects, Awaited
  <2>2. o \notin Heard /\ Stages[o] = "sent"
    BY <1>14 DEF DeferredRejects, LifeInv, HeardKept, Stages, Stage
  <2>3. Stages' = Stages
    BY <1>0, <1>14, StagesKept DEF DeferredRejects, Shape
  <2>4. Life!GiveUp(o)
    BY <1>14, <2>1, <2>2, <2>3 DEF DeferredRejects, Life!GiveUp, Life!Becomes
  <2> QED
    BY <2>4 DEF Life!Next
<1>15. ASSUME NEW o \in Order, BrokerDecide(o) PROVE Life!Next
  <2>1. Heard' = Heard /\ Awaited' = Awaited /\ Stages' = Stages
    BY <1>15, HeardSame, StagesSame DEF BrokerDecide, Awaited
  <2>2. Stages[o] = "sent"
    BY <1>15 DEF BrokerDecide, Stages, Stage
  <2>3. Life!Decide(o)
    BY <1>15, <2>1, <2>2 DEF BrokerDecide, Life!Decide
  <2> QED
    BY <2>3 DEF Life!Next
<1>16. ASSUME NEW o \in Order, TtlPasses(o) PROVE UNCHANGED Life!lifeVars
  BY <1>16, HeardSame, StagesSame DEF TtlPasses, Awaited
<1>17. ASSUME NEW m \in Message, ExecDrop(m) PROVE UNCHANGED Life!lifeVars
  <2>1. PICK kind : Receive(m, kind)
    BY <1>17 DEF ExecDrop
  <2>2. Heard' = Heard /\ UNCHANGED <<status, pending>>
    BY <1>17, HeardSame DEF ExecDrop
  <2>3. Stages' = Stages
    BY <1>t, <2>1, ReceiveFacts, StagesKept
  <2>4. Awaited' = Awaited
    BY <1>t, <2>1, <2>2, ReceiveFacts DEF Awaited
  <2> QED
    BY <1>t, <2>1, <2>2, <2>3, <2>4, ReceiveFacts
<1>18. ASSUME NEW m \in Message, ExecInform(m) PROVE UNCHANGED Life!lifeVars
  <2>1. PICK kind : Receive(m, kind)
    BY <1>18 DEF ExecInform
  <2>2. Heard' = Heard /\ UNCHANGED <<status, pending>>
    BY <1>18, HeardSame DEF ExecInform
  <2>3. Stages' = Stages
    BY <1>t, <2>1, ReceiveFacts, StagesKept
  <2>4. Awaited' = Awaited
    BY <1>t, <2>1, <2>2, ReceiveFacts DEF Awaited
  <2> QED
    BY <1>t, <2>1, <2>2, <2>3, <2>4, ReceiveFacts
<1>19. ASSUME NEW m \in Message, ErrorDrop(m) PROVE UNCHANGED Life!lifeVars
  <2>1. PICK kind : Receive(m, kind)
    BY <1>19 DEF ErrorDrop
  <2>2. Heard' = Heard /\ UNCHANGED <<status, pending>>
    BY <1>19, HeardSame DEF ErrorDrop
  <2>3. Stages' = Stages
    BY <1>t, <2>1, ReceiveFacts, StagesKept
  <2>4. Awaited' = Awaited
    BY <1>t, <2>1, <2>2, ReceiveFacts DEF Awaited
  <2> QED
    BY <1>t, <2>1, <2>2, <2>3, <2>4, ReceiveFacts
<1>20. ASSUME NEW m \in Message, ExecCancelled(m) PROVE Life!Next
  <2>1. Receive(m, "CANCELLED") /\ m.order \in Order
    BY <1>20, MessageType DEF ExecCancelled
  <2>2. /\ fate[m.order] = "CANCELLED" /\ ~clearing /\ ~clearing' /\ running
        /\ UNCHANGED <<fate, gone>>
    BY <1>t, <2>1, ReceiveFacts DEF LifeInv, Terminal
  <2>3. Heard' = Heard \cup {m.order}
    BY <1>t, <1>20, <2>1, <2>2, TellTells, HeardLoud, CallFacts, ExecCalls DEF ExecCancelled
  <2>4. Awaited' = Awaited \ {m.order}
    BY <1>20, <2>1, <2>2, ConsumeFacts DEF ExecCancelled, Awaited
  <2>5. Stages' = Stages /\ Stages[m.order] = "sent"
    BY <1>t, <2>1, ReceiveFacts, StagesKept DEF Stages, Stage
  <2>6. status' = [status EXCEPT ![m.order] = fate[m.order]]
    BY <1>20, <2>2 DEF ExecCancelled
  <2>7. Life!Hear(m.order)
    BY <2>2, <2>3, <2>4, <2>5, <2>6 DEF Life!Hear, Life!Becomes
  <2> QED
    BY <2>1, <2>7 DEF Life!Next
<1>21. ASSUME NEW m \in Message, ExecRejected(m) PROVE Life!Next
  <2>1. Receive(m, "REJECTED") /\ m.order \in Order
    BY <1>21, MessageType DEF ExecRejected
  <2>2. /\ fate[m.order] = "REJECTED" /\ ~clearing /\ ~clearing' /\ running
        /\ UNCHANGED <<fate, gone>>
    BY <1>t, <2>1, ReceiveFacts DEF LifeInv, Terminal
  <2>3. Heard' = Heard \cup {m.order}
    BY <1>t, <1>21, <2>1, <2>2, TellTells, HeardLoud, CallFacts, ExecCalls DEF ExecRejected
  <2>4. Awaited' = Awaited \ {m.order}
    BY <1>21, <2>1, <2>2, ConsumeFacts DEF ExecRejected, Awaited
  <2>5. Stages' = Stages /\ Stages[m.order] = "sent"
    BY <1>t, <2>1, ReceiveFacts, StagesKept DEF Stages, Stage
  <2>6. status' = [status EXCEPT ![m.order] = fate[m.order]]
    BY <1>21, <2>2 DEF ExecRejected
  <2>7. Life!Hear(m.order)
    BY <2>2, <2>3, <2>4, <2>5, <2>6 DEF Life!Hear, Life!Becomes
  <2> QED
    BY <2>1, <2>7 DEF Life!Next
<1>22. ASSUME NEW m \in Message, ExecFilled(m) PROVE Life!Next
  <2>1. Receive(m, "FILLED") /\ m.order \in Order
    BY <1>22, MessageType DEF ExecFilled
  <2>2. /\ fate[m.order] = "FILLED" /\ ~clearing /\ ~clearing' /\ running
        /\ UNCHANGED <<fate, gone>>
    BY <1>t, <2>1, ReceiveFacts DEF LifeInv, Terminal
  <2>3. Heard' = Heard \cup {m.order}
    BY <1>t, <1>22, <2>1, <2>2, TellTells, HeardLoud, CallFacts, ExecCalls DEF ExecFilled
  <2>4. Awaited' = Awaited \ {m.order}
    BY <1>22, <2>1, <2>2, ConsumeFacts DEF ExecFilled, Awaited
  <2>5. Stages' = Stages /\ Stages[m.order] = "sent"
    BY <1>t, <2>1, ReceiveFacts, StagesKept DEF Stages, Stage
  <2>6. status' = [status EXCEPT ![m.order] = fate[m.order]]
    BY <1>22, <2>2 DEF ExecFilled
  <2>7. Life!Hear(m.order)
    BY <2>2, <2>3, <2>4, <2>5, <2>6 DEF Life!Hear, Life!Becomes
  <2> QED
    BY <2>1, <2>7 DEF Life!Next
<1>23. ASSUME NEW m \in Message, ExecDuplicate(m) PROVE UNCHANGED Life!lifeVars
  <2>1. Receive(m, "FILLED") /\ m.order \in Order
    BY <1>23, MessageType DEF ExecDuplicate
  <2>2. Heard' = Heard /\ UNCHANGED status
    BY <1>23, HeardSame DEF ExecDuplicate
  <2>3. pending' = pending \ {m.order}
    BY <1>23, <2>1, ConsumeFacts DEF ExecDuplicate
  <2>4. m.order \notin pending
    BY <1>t, <1>23, <2>1 DEF ExecDuplicate, Safe, FilledByEvent
  <2>5. Awaited' = Awaited
    BY <1>t, <2>1, <2>3, <2>4, ReceiveFacts DEF Awaited
  <2>6. Stages' = Stages
    BY <1>t, <2>1, ReceiveFacts, StagesKept
  <2> QED
    BY <1>t, <2>1, <2>2, <2>5, <2>6, ReceiveFacts
<1>24. ASSUME NEW m \in Message, ErrorFromRegistry(m) PROVE Life!Next
  <2>1. Receive(m, "ERROR") /\ m.order \in Order
    BY <1>24, MessageType DEF ErrorFromRegistry
  <2>2. /\ fate[m.order] = "ERROR" /\ ~clearing /\ ~clearing'
        /\ UNCHANGED <<fate, gone>>
    BY <1>t, <2>1, ReceiveFacts
  <2>3. Heard' = Heard
    BY <1>24, HeardSame DEF ErrorFromRegistry
  <2>4. m.order \notin pending
    <3>1. m.order \in pending => m.order \in msgIds
      BY <1>t, <1>0, <2>1, ReceiveFacts DEF NotSent
    <3>2. m.oid \/ m.mid
      BY <1>24, MessageType, BoundsAssumption DEF ErrorFromRegistry, ErrorLate, ErrorPending, ErrorCid
    <3> QED
      BY <1>24, <3>1, <3>2, MessageType DEF ErrorFromRegistry, ErrorLate, ErrorPending, ErrorCid
  <2>5. Awaited' = Awaited \ {m.order}
    BY <1>24, <2>2, <2>4 DEF ErrorFromRegistry, Awaited
  <2>6. Stages' = Stages /\ Stages[m.order] = "sent"
    BY <1>t, <2>1, ReceiveFacts, StagesKept DEF Stages, Stage
  <2>7. Life!Fail(m.order)
    BY <1>24, <2>2, <2>3, <2>5, <2>6 DEF ErrorFromRegistry, Life!Fail, Life!Becomes
  <2> QED
    BY <2>1, <2>7 DEF Life!Next
<1>25. ASSUME NEW m \in Message, ErrorFromPending(m) PROVE Life!Next
  <2>1. Receive(m, "ERROR") /\ m.order \in Order
    BY <1>25, MessageType DEF ErrorFromPending
  <2>2. /\ fate[m.order] = "ERROR" /\ ~clearing /\ ~clearing'
        /\ UNCHANGED <<fate, gone>>
    BY <1>t, <2>1, ReceiveFacts
  <2>3. Heard' = Heard
    <3>1. UNCHANGED told \/ Tells({m.order}, <<"rejected", "error">>)
      BY <1>t, <1>25, <2>1, TellTells DEF ErrorFromPending, ErrorTell
    <3> QED
      BY <1>t, <3>1, HeardSame, HeardQuiet, CallFacts, ExecCalls
  <2>4. Awaited' = Awaited \ {m.order}
    BY <1>25, <2>2 DEF ErrorFromPending, Awaited
  <2>5. Stages' = Stages /\ Stages[m.order] = "sent"
    BY <1>t, <2>1, ReceiveFacts, StagesKept DEF Stages, Stage
  <2>6. Life!Fail(m.order)
    BY <1>25, <2>2, <2>3, <2>4, <2>5 DEF ErrorFromPending, Life!Fail, Life!Becomes
  <2> QED
    BY <2>1, <2>6 DEF Life!Next
<1>26. CASE DisconnectMove
  <2>1. Heard' = Heard /\ Stages' = Stages
    BY <1>26, HeardSame, StagesSame DEF DisconnectMove
  <2>2. Awaited = pending /\ Awaited' = {}
    BY <1>26 DEF DisconnectMove, ReactorFree, Awaited
  <2>3. Life!Lose
    BY <1>26, <2>1, <2>2 DEF DisconnectMove, Life!Lose, Life!Relapse
  <2> QED
    BY <2>3 DEF Life!Next
<1>27. CASE DisconnectClear
  <2>1. Heard' = Heard /\ Stages' = Stages /\ Awaited' = {}
    BY <1>27, HeardSame, StagesSame DEF DisconnectClear, Awaited
  <2>2. Life!Forget
    BY <1>27, <2>1 DEF DisconnectClear, Life!Forget
  <2> QED
    BY <2>2 DEF Life!Next
<1>28. ASSUME Reconnect PROVE UNCHANGED Life!lifeVars
  BY <1>28, HeardSame, StagesSame DEF Reconnect, Awaited
<1>29. ASSUME RestoreFetch PROVE UNCHANGED Life!lifeVars
  BY <1>29, HeardSame, StagesSame DEF RestoreFetch, Awaited
<1>30. ASSUME RestoreNothing PROVE UNCHANGED Life!lifeVars
  BY <1>30, HeardSame, StagesSame DEF RestoreNothing, Awaited
<1>31. ASSUME PreemptCheck PROVE UNCHANGED Life!lifeVars
  BY <1>31, HeardSame, StagesSame DEF PreemptCheck, Awaited
<1>32. ASSUME PreemptTeardown PROVE UNCHANGED Life!lifeVars
  BY <1>32, HeardSame, StagesSame DEF PreemptTeardown, Awaited
<1>33. CASE RestoreResolve
  <2>1. PICK S \in SUBSET gone :
           /\ status' = [o \in Order |-> IF o \in S THEN "FILLED" ELSE status[o]]
           /\ Tells(S, <<"filled", "reconcile">>)
    BY <1>33 DEF RestoreResolve, Tells
  <2>2. Heard' = Heard
    BY <1>t, <2>1, HeardQuiet, CallFacts, ExecCalls
  <2>3. Stages' = Stages /\ Awaited' = Awaited
    BY <1>33, StagesSame DEF RestoreResolve, Awaited
  <2>4. Life!Guess(S)
    BY <1>33, <2>1, <2>2, <2>3 DEF RestoreResolve, Life!Guess
  <2>5. S \in SUBSET Order
    BY <1>t DEF TypeOK
  <2> QED
    BY <2>4, <2>5 DEF Life!Next
<1>34. CASE RestoreAssign
  <2>1. Heard' = Heard /\ Stages' = Stages /\ Awaited' = Awaited
    BY <1>34, HeardSame, StagesSame DEF RestoreAssign, Awaited
  <2>2. gone' \in SUBSET gone
    BY <1>34 DEF RestoreAssign, LifeInv
  <2>3. Life!Drop
    BY <1>34, <2>1, <2>2 DEF RestoreAssign, Life!Drop
  <2> QED
    BY <2>3 DEF Life!Next
<1>35. CASE Stop
  <2>1. Heard' = Heard /\ Stages' = Stages
    BY <1>35, HeardSame, StagesSame DEF Stop
  <2>2. Awaited = pending /\ Awaited' = {}
    BY <1>35 DEF Stop, ReactorFree, Awaited
  <2>3. Life!Stop
    BY <1>35, <2>1, <2>2 DEF Stop, Life!Stop, Life!Relapse
  <2> QED
    BY <2>3 DEF Life!Next
<1>36. ASSUME UNCHANGED vars PROVE UNCHANGED Life!lifeVars
  BY <1>36, HeardSame, StagesSame DEF vars, Awaited
<1> QED
  BY <1>1, <1>2, <1>3, <1>4, <1>5, <1>6, <1>7, <1>8, <1>9, <1>10, <1>11, <1>12, <1>13,
     <1>14, <1>15, <1>16, <1>17, <1>18, <1>19, <1>20, <1>21, <1>22, <1>23, <1>24, <1>25,
     <1>26, <1>27, <1>28, <1>29, <1>30, <1>31, <1>32, <1>33, <1>34, <1>35, <1>36
     DEF Next, Caller, CallerStep, Reactor, ExecEvent, ErrorEvent, Restore, Monitor, Environment

\* The orders of the feed live as OrderLife says: with a broker that does not
\* contradict itself, every step of every thread is a step of that life or does
\* not show in it.
THEOREM FeedImplementsLife == ~Contradictory => (Spec => LifeSpec)
<1> SUFFICES ASSUME ~Contradictory PROVE Spec => LifeSpec
  OBVIOUS
<1>1. Init => Life!Init
  <2> SUFFICES ASSUME Init PROVE Life!Init
    OBVIOUS
  <2>1. ASSUME NEW o \in Order PROVE ~Has(told[o], ByExec) /\ Stage(o) = "new"
    <3>1. told[o] = <<>> /\ deferred[o] = "none" /\ pc[o] = "idle"
      BY DEF Init
    <3> QED
      BY <3>1 DEF Has, Stage
  <2>2. Heard = {} /\ Stages = [o \in Order |-> "new"] /\ Awaited = {}
    BY <2>1 DEF Heard, Stages, Awaited, Init
  <2> QED
    BY <2>2 DEF Init, Life!Init
<1>2. FeedInv /\ LifeInv /\ [Next]_vars => [Life!Next]_(Life!lifeVars)
  BY LifeStep
<1> QED
  BY <1>1, <1>2, LifeHolds, PTL DEF Spec, LifeSpec, Life!Spec
=============================================================================
