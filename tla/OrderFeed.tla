----------------------------- MODULE OrderFeed ------------------------------
(***************************************************************************)
(* The live order path of OpenApiSpotFeed (open_api_spot_feed.py): what    *)
(* happens to an order between new_order and its terminal outcome.         *)
(*                                                                         *)
(* Four kinds of threads share the order maps without a lock:              *)
(*   - a caller per order, blocked in new_order;                           *)
(*   - the Twisted reactor: execution and error events, the deferred of    *)
(*     client.send, the disconnect callback (one at a time: ReactorFree);  *)
(*   - the restore thread that reconciles after a reconnect;               *)
(*   - the pre-emptive reconnect monitor.                                  *)
(* An action is a stretch of one thread's code that the others can only    *)
(* see whole; check-then-act pairs are two actions.                        *)
(*                                                                         *)
(* An order stands for its request_id (clientOrderId) and its clientMsgId. *)
(* All orders have the same symbol, side and volume, the case in which     *)
(* _resolve_disconnected_orders cannot tell positions apart.               *)
(***************************************************************************)
EXTENDS Naturals, Sequences, FiniteSets

CONSTANTS
    Order,          \* orders the strategies place
    Foreign,        \* other open positions that match the orders' shape
    Fates,          \* verdicts of the broker: execution types, "ERROR"
    Forms,          \* identifiers a message carries: [oid, mid]
    Contradictory,  \* may the broker send an ORDER_ERROR for a decided order?
    MaxDeliver,     \* bound: messages delivered by the broker
    MaxDisconnect   \* bound: disconnects

\* _TERMINAL_EXEC_TYPES; ORDER_EXPIRED is handled as ORDER_CANCELLED is.
Terminal == {"FILLED", "REJECTED", "CANCELLED"}

ASSUME BoundsAssumption == /\ Foreign \in Nat
                           /\ Fates \subseteq Terminal \cup {"ERROR"}
                           /\ Forms \subseteq [oid : BOOLEAN, mid : BOOLEAN]
                           /\ Contradictory \in BOOLEAN
                           /\ MaxDeliver \in Nat
                           /\ MaxDisconnect \in Nat
ASSUME OrdersAssumption == IsFiniteSet(Order)

VARIABLES
    status, reason,  \* the Order object, shared by every thread
    fired,           \* order._fill_cb_fired
    event,           \* the threading.Event the caller waits on
    pending,         \* keys of _pending_orders
    msgIds,          \* keys of _pending_client_msg_ids
    late,            \* _late_fill_registry: none, live or past its TTL
    lateMid,         \* does the registry entry carry a client_msg_id?
    gone,            \* _disconnected_pending_orders
    told,            \* callbacks submitted per order: <<outcome, handler>>
    pc,              \* the caller in new_order
    deferred,        \* the deferred of client.send
    link,            \* _state_mgr.is_operational and a usable transport
    client,          \* _conn.client is not None
    running,         \* the feed has not been stopped
    moved,           \* orders the disconnect callback has moved, before clear()
    clearing,        \* the disconnect callback is between its loop and clear()
    restore,         \* the restore thread
    avail,           \* number of matching positions reconcile() returned
    unresolved, matched,  \* locals of _resolve_disconnected_orders
    preempt,         \* the pre-emptive reconnect thread
    fate,            \* what the broker decided for the order
    delivered, drops,     \* counters for the two bounds
    forgotten        \* history: orders a map was cleared of without a trace

callerVars == <<pc>>
orderVars == <<status, reason, fired, event, told>>
mapVars == <<pending, msgIds, late, lateMid, gone>>
restoreVars == <<restore, avail, unresolved, matched>>
linkVars == <<link, client, running, preempt, drops>>
discVars == <<moved, clearing, forgotten>>
brokerVars == <<fate, delivered>>
vars == <<callerVars, orderVars, mapVars, restoreVars, linkVars, discVars,
          brokerVars, deferred>>

Statuses == {"NEW", "PENDING", "FILLED", "REJECTED", "CANCELLED"}
Reasons == {"", "policy", "not_connected", "deferred_error", "indeterminate",
            "connection_lost", "broker", "order_cancelled", "order_filled",
            "resolved_by_reconcile"}
Calls == {"filled", "rejected", "cancelled"} \X
         {"exec", "reconcile", "deferred", "error"}

Init == /\ status = [o \in Order |-> "NEW"]
        /\ reason = [o \in Order |-> ""]
        /\ fired = [o \in Order |-> FALSE]
        /\ event = [o \in Order |-> FALSE]
        /\ pending = {} /\ msgIds = {} /\ gone = {}
        /\ late = [o \in Order |-> "none"]
        /\ lateMid = [o \in Order |-> FALSE]
        /\ told = [o \in Order |-> <<>>]
        /\ pc = [o \in Order |-> "idle"]
        /\ deferred = [o \in Order |-> "none"]
        /\ link = TRUE /\ client = TRUE /\ running = TRUE
        /\ moved = {} /\ clearing = FALSE /\ forgotten = {}
        /\ restore = "idle" /\ avail = 0 /\ unresolved = {} /\ matched = {}
        /\ preempt = "idle"
        /\ fate = [o \in Order |-> "none"]
        /\ delivered = 0 /\ drops = 0

Goto(o, l) == pc' = [pc EXCEPT ![o] = l]
SetOrder(o, s, r) == /\ status' = [status EXCEPT ![o] = s]
                     /\ reason' = [reason EXCEPT ![o] = r]
Wakes(o) == event' = [event EXCEPT ![o] = TRUE]

\* _trigger_callback: a stopped executor swallows the submission.
Tell(o, call) == told' = [told EXCEPT ![o] = IF running THEN Append(@, call) ELSE @]

\* _register_late_fill, for a set of orders.
RegisterLate(S, withMid) ==
    /\ late' = [o \in Order |-> IF o \in S THEN "live" ELSE late[o]]
    /\ lateMid' = [o \in Order |-> IF o \in S THEN o \in withMid ELSE lateMid[o]]

-----------------------------------------------------------------------------
(* The caller: new_order, statement by statement.                          *)

\* The permission policy refuses (kill switch): nothing is sent.
NewOrderBlocked(o) ==
    /\ pc[o] = "idle"
    /\ SetOrder(o, "REJECTED", "policy")
    /\ Goto(o, "done")
    /\ UNCHANGED <<fired, event, told, mapVars, restoreVars, linkVars, discVars,
                   brokerVars, deferred>>

\* Not operational: PENDING with reason not_connected.
NewOrderOffline(o) ==
    /\ pc[o] = "idle"
    /\ ~link
    /\ SetOrder(o, "PENDING", "not_connected")
    /\ Goto(o, "done")
    /\ UNCHANGED <<fired, event, told, mapVars, restoreVars, linkVars, discVars,
                   brokerVars, deferred>>

\* Operational: the order object exists, nothing is registered yet.
NewOrderBuild(o) ==
    /\ pc[o] = "idle"
    /\ link
    /\ SetOrder(o, "PENDING", "")
    /\ Goto(o, "register")
    /\ UNCHANGED <<fired, event, told, mapVars, restoreVars, linkVars, discVars,
                   brokerVars, deferred>>

RegisterPending(o) ==
    /\ pc[o] = "register"
    /\ pending' = pending \cup {o}
    /\ Goto(o, "link")
    /\ UNCHANGED <<orderVars, msgIds, late, lateMid, gone, restoreVars, linkVars,
                   discVars, brokerVars, deferred>>

RegisterMsgId(o) ==
    /\ pc[o] = "link"
    /\ msgIds' = msgIds \cup {o}
    /\ Goto(o, "send")
    /\ UNCHANGED <<orderVars, pending, late, lateMid, gone, restoreVars, linkVars,
                   discVars, brokerVars, deferred>>

\* client is None: REJECTED at once, both map entries stay behind.
NoClient(o) ==
    /\ pc[o] = "send"
    /\ ~client
    /\ status' = [status EXCEPT ![o] = "REJECTED"]
    /\ Goto(o, "done")
    /\ UNCHANGED <<reason, fired, event, told, mapVars, restoreVars, linkVars,
                   discVars, brokerVars, deferred>>

\* reactor.callFromThread(do_send), then event.wait(timeout + 5).
Send(o) ==
    /\ pc[o] = "send"
    /\ client
    /\ deferred' = [deferred EXCEPT ![o] = "armed"]
    /\ Goto(o, "wait")
    /\ UNCHANGED <<orderVars, mapVars, restoreVars, linkVars, discVars, brokerVars>>

\* The event was set in time; the grace poll only delays the return.
Wake(o) ==
    /\ pc[o] = "wait"
    /\ event[o]
    /\ Goto(o, "done")
    /\ UNCHANGED <<orderVars, mapVars, restoreVars, linkVars, discVars, brokerVars,
                   deferred>>

\* event.wait returned False.
WaitExpires(o) ==
    /\ pc[o] = "wait"
    /\ ~event[o]
    /\ Goto(o, "expired")
    /\ UNCHANGED <<orderVars, mapVars, restoreVars, linkVars, discVars, brokerVars,
                   deferred>>

RegisterExpired(o) ==
    /\ pc[o] = "expired"
    /\ RegisterLate({o}, {o})
    /\ Goto(o, "check")
    /\ UNCHANGED <<orderVars, pending, msgIds, gone, restoreVars, linkVars,
                   discVars, brokerVars, deferred>>

\* if order.status == OrderStatus.PENDING ...
CheckPending(o) ==
    /\ pc[o] = "check"
    /\ Goto(o, IF status[o] = "PENDING" THEN "tag" ELSE "done")
    /\ UNCHANGED <<orderVars, mapVars, restoreVars, linkVars, discVars, brokerVars,
                   deferred>>

\* ... order.reason = indeterminate_awaiting_event
TagIndeterminate(o) ==
    /\ pc[o] = "tag"
    /\ reason' = [reason EXCEPT ![o] = "indeterminate"]
    /\ Goto(o, "done")
    /\ UNCHANGED <<status, fired, event, told, mapVars, restoreVars, linkVars,
                   discVars, brokerVars, deferred>>

CallerStep(o) == \/ RegisterPending(o) \/ RegisterMsgId(o)   \/ NoClient(o)
                 \/ Send(o)            \/ Wake(o)            \/ WaitExpires(o)
                 \/ RegisterExpired(o) \/ CheckPending(o)    \/ TagIndeterminate(o)
Caller(o) == NewOrderBlocked(o) \/ NewOrderOffline(o) \/ NewOrderBuild(o) \/ CallerStep(o)

-----------------------------------------------------------------------------
(* The broker and the transport library, as the feed uses them.            *)

ReactorFree == ~clearing /\ \A o \in Order : deferred[o] # "firing"

\* A message names its order by clientOrderId (oid), by the envelope's clientMsgId
\* (mid) or by both.
Message == {[order |-> o, oid |-> f.oid, mid |-> f.mid] : o \in Order, f \in Forms}

\* The broker settles a request it received.
BrokerDecide(o) ==
    /\ deferred[o] # "none"
    /\ fate[o] = "none"
    /\ link
    /\ \E f \in Fates : fate' = [fate EXCEPT ![o] = f]
    /\ UNCHANGED <<callerVars, orderVars, mapVars, restoreVars, linkVars, discVars,
                   delivered, deferred>>

\* The broker (re-)emits what it decided; an informational event may come any
\* time; a message that is lost is one that is not delivered.
Emits(o) == (IF fate[o] = "none" THEN {} ELSE {fate[o]})
            \cup (IF Contradictory /\ fate[o] # "none" THEN {"ERROR"} ELSE {})
            \cup {"INFO"}

\* A message reaches the reactor; a reply to the request settles the deferred
\* after the feed's handler has run.
Receive(m, kind) ==
    /\ ReactorFree
    /\ link
    /\ deferred[m.order] # "none"
    /\ delivered < MaxDeliver
    /\ kind \in Emits(m.order)
    /\ delivered' = delivered + 1
    /\ deferred' = [deferred EXCEPT ![m.order] =
                       IF m.mid /\ @ = "armed" THEN "done" ELSE @]
    /\ UNCHANGED <<callerVars, restoreVars, linkVars, discVars, fate, gone, lateMid>>

-----------------------------------------------------------------------------
(* The reactor: execution events.                                          *)

\* The client_order_id the handler ends up with: an id that is not pending is
\* replaced by what the clientMsgId maps to, which may be nothing.
HasCid(m) == IF m.oid /\ m.order \in pending THEN TRUE
             ELSE IF m.mid THEN m.order \in msgIds ELSE m.oid
PendingHit(m) == HasCid(m) /\ m.order \in pending
LateHit(m) == /\ ~PendingHit(m)
              /\ late[m.order] = "live"
              /\ HasCid(m) \/ (m.mid /\ lateMid[m.order])
ExecHit(m) == PendingHit(m) \/ LateHit(m)

\* A registry match sets an event of its own that nobody waits on.
ExecWakes(m) == event' = [event EXCEPT ![m.order] = @ \/ PendingHit(m)]

\* The registry after the lookup: _lookup_late_fill drops every expired entry,
\* the scan by clientMsgId only the one it meets.
LookedUp(m) ==
    [o \in Order |->
        IF /\ ~PendingHit(m)
           /\ late[o] = "expired"
           /\ HasCid(m) \/ (m.mid /\ o = m.order /\ lateMid[o])
        THEN "none" ELSE late[o]]

\* Mutant: the pending entry is left behind.
ConsumeLate(m) ==
    /\ pending' = pending
    /\ late' = [LookedUp(m) EXCEPT ![m.order] = "none"]
    /\ msgIds' = IF m.mid THEN msgIds \ {m.order} ELSE msgIds

\* _consume_order_state_across_all_maps(client_order_id, client_msg_id)
Consume(m) ==
    /\ pending' = IF HasCid(m) THEN pending \ {m.order} ELSE pending
    /\ late' = [LookedUp(m) EXCEPT ![m.order] =
                   IF HasCid(m) \/ (m.mid /\ lateMid[m.order]) THEN "none" ELSE @]
    /\ msgIds' = IF m.mid THEN msgIds \ {m.order} ELSE msgIds

\* No match: the event is dropped.
ExecDrop(m) ==
    /\ \E kind \in Terminal \cup {"INFO"} : Receive(m, kind)
    /\ ~ExecHit(m)
    /\ late' = LookedUp(m)
    /\ UNCHANGED <<orderVars, pending, msgIds>>

\* Mutant: the behaviour before card ce6de98d, any match pops the pending entry.
ExecInformPops(m) ==
    /\ Receive(m, "INFO")
    /\ ExecHit(m)
    /\ Consume(m)
    /\ UNCHANGED orderVars

\* ORDER_ACCEPTED, ORDER_PARTIAL_FILL and the like: nothing but the lookup.
ExecInform(m) ==
    /\ Receive(m, "INFO")
    /\ ExecHit(m)
    /\ late' = LookedUp(m)
    /\ UNCHANGED <<orderVars, pending, msgIds>>

\* ORDER_CANCELLED and ORDER_EXPIRED.
ExecCancelled(m) ==
    /\ Receive(m, "CANCELLED")
    /\ ExecHit(m)
    /\ Consume(m)
    /\ SetOrder(m.order, "CANCELLED", "order_cancelled")
    /\ ExecWakes(m)
    /\ Tell(m.order, <<"cancelled", "exec">>)
    /\ UNCHANGED fired

ExecRejected(m) ==
    /\ Receive(m, "REJECTED")
    /\ ExecHit(m)
    /\ Consume(m)
    /\ SetOrder(m.order, "REJECTED", "broker")
    /\ ExecWakes(m)
    /\ Tell(m.order, <<"rejected", "exec">>)
    /\ UNCHANGED fired

\* _fill_cb_fired is set: the re-emission is dropped after the maps are cleared.
ExecDuplicate(m) ==
    /\ Receive(m, "FILLED")
    /\ ExecHit(m)
    /\ fired[m.order]
    /\ Consume(m)
    /\ UNCHANGED orderVars

\* Mutant: the fill callback is not deduplicated.
ExecFilledAgain(m) ==
    /\ Receive(m, "FILLED")
    /\ ExecHit(m)
    /\ Consume(m)
    /\ SetOrder(m.order, "FILLED", "order_filled")
    /\ fired' = [fired EXCEPT ![m.order] = TRUE]
    /\ ExecWakes(m)
    /\ Tell(m.order, <<"filled", "exec">>)

ExecFilled(m) ==
    /\ Receive(m, "FILLED")
    /\ ExecHit(m)
    /\ ~fired[m.order]
    /\ Consume(m)
    /\ SetOrder(m.order, "FILLED", "order_filled")
    /\ fired' = [fired EXCEPT ![m.order] = TRUE]
    /\ ExecWakes(m)
    /\ Tell(m.order, <<"filled", "exec">>)

-----------------------------------------------------------------------------
(* The reactor: ORDER_ERROR, _handle_pending_order_error.                  *)

ErrorCid(m) == m.oid \/ (m.mid /\ m.order \in msgIds)
ErrorPending(m) == ErrorCid(m) /\ m.order \in pending
\* The lookup by id skips and purges expired entries, the scan by clientMsgId
\* does not look at the TTL.
ErrorLate(m) == /\ ~ErrorPending(m)
                /\ \/ ErrorCid(m) /\ late[m.order] = "live"
                   \/ ~ErrorCid(m) /\ m.mid /\ late[m.order] # "none" /\ lateMid[m.order]
ErrorLookedUp(m) == [o \in Order |->
    IF ErrorCid(m) /\ late[o] = "expired" THEN "none" ELSE late[o]]

ErrorDrop(m) ==
    /\ Receive(m, "ERROR")
    /\ ~ErrorPending(m) /\ ~ErrorLate(m)
    /\ late' = ErrorLookedUp(m)
    /\ UNCHANGED <<orderVars, pending, msgIds>>

\* A registry match: REJECTED whatever the status was, and no callback.
ErrorFromRegistry(m) ==
    /\ Receive(m, "ERROR")
    /\ ErrorLate(m)
    /\ late' = [ErrorLookedUp(m) EXCEPT ![m.order] = "none"]
    /\ SetOrder(m.order, "REJECTED", "broker")
    /\ UNCHANGED <<fired, event, told, pending, msgIds>>

\* Mutant: the callback is fired although the order is already REJECTED.
ErrorTells(o) == Tell(o, <<"rejected", "error">>)

\* if not already_rejected: on_order_rejected
ErrorTell(o) == IF status[o] = "REJECTED" THEN UNCHANGED told
                ELSE Tell(o, <<"rejected", "error">>)

ErrorFromPending(m) ==
    /\ Receive(m, "ERROR")
    /\ ErrorPending(m)
    /\ pending' = pending \ {m.order}
    /\ late' = [late EXCEPT ![m.order] = "none"]
    /\ msgIds' = IF m.mid THEN msgIds \ {m.order} ELSE msgIds
    /\ ErrorTell(m.order)
    /\ SetOrder(m.order, "REJECTED", "broker")
    /\ Wakes(m.order)
    /\ UNCHANGED fired

-----------------------------------------------------------------------------
(* The reactor: the deferred of client.send fails (on_error), typically by *)
(* its own timeout of the same length as the caller's.                     *)

\* Mutant: on_error does not look at the status.
DeferredFailsAlways(o) ==
    /\ ReactorFree
    /\ deferred[o] = "armed"
    /\ deferred' = [deferred EXCEPT ![o] = "firing"]
    /\ UNCHANGED <<callerVars, orderVars, mapVars, restoreVars, linkVars, discVars,
                   brokerVars>>

\* on_error looks at the status.
DeferredFails(o) ==
    /\ ReactorFree
    /\ deferred[o] = "armed"
    /\ IF status[o] = "PENDING"
       THEN deferred' = [deferred EXCEPT ![o] = "firing"] /\ UNCHANGED event
       ELSE deferred' = [deferred EXCEPT ![o] = "done"] /\ Wakes(o)
    /\ UNCHANGED <<callerVars, status, reason, fired, told, mapVars, restoreVars,
                   linkVars, discVars, brokerVars>>

\* The status was PENDING when on_error looked; the pending entry stays.
DeferredRejects(o) ==
    /\ deferred[o] = "firing"
    /\ deferred' = [deferred EXCEPT ![o] = "done"]
    /\ SetOrder(o, "REJECTED", "deferred_error")
    /\ Tell(o, <<"rejected", "deferred">>)
    /\ Wakes(o)
    /\ UNCHANGED <<callerVars, fired, mapVars, restoreVars, linkVars, discVars,
                   brokerVars>>

-----------------------------------------------------------------------------
(* The reactor: _on_conn_disconnected, its loop and then its two clear()s. *)

DisconnectMove ==
    /\ ReactorFree
    /\ link
    /\ drops < MaxDisconnect
    /\ drops' = drops + 1
    /\ link' = FALSE
    /\ RegisterLate(pending, msgIds)
    /\ status' = [o \in Order |-> IF o \in pending THEN "PENDING" ELSE status[o]]
    /\ reason' = [o \in Order |-> IF o \in pending THEN "connection_lost" ELSE reason[o]]
    /\ event' = [o \in Order |-> event[o] \/ o \in pending]
    /\ gone' = gone \cup pending
    /\ moved' = pending
    /\ clearing' = TRUE
    /\ UNCHANGED <<callerVars, fired, told, pending, msgIds, restoreVars, client,
                   running, preempt, forgotten, brokerVars, deferred>>

DisconnectClear ==
    /\ clearing
    /\ clearing' = FALSE
    /\ pending' = {}
    /\ msgIds' = {}
    /\ forgotten' = forgotten \cup (pending \ moved)
    /\ moved' = {}
    /\ UNCHANGED <<callerVars, orderVars, late, lateMid, gone, restoreVars, linkVars,
                   brokerVars, deferred>>

\* A registry entry outlives _LATE_FILL_TTL_SEC.
TtlPasses(o) ==
    /\ late[o] = "live"
    /\ late' = [late EXCEPT ![o] = "expired"]
    /\ UNCHANGED <<callerVars, orderVars, pending, msgIds, lateMid, gone, restoreVars,
                   linkVars, discVars, brokerVars, deferred>>

-----------------------------------------------------------------------------
(* The restore thread: re-authentication done, reconcile, resolve.         *)

Reconnect ==
    /\ ReactorFree
    /\ ~link /\ running
    /\ restore = "idle"
    /\ link' = TRUE /\ client' = TRUE
    /\ restore' = "fetch"
    /\ UNCHANGED <<callerVars, orderVars, mapVars, avail, unresolved, matched, running,
                   preempt, drops, discVars, brokerVars, deferred>>

\* reconcile(): the matching positions that are open (a filled order's, or someone
\* else's, may be closed by now), or
\* nothing when the query fails.
RestoreFetch ==
    /\ restore = "fetch"
    /\ \/ avail' = 0
       \/ /\ link
          /\ \E S \in SUBSET {o \in Order : fate[o] = "FILLED"}, n \in 0 .. Foreign :
                avail' = Cardinality(S) + n
    /\ restore' = "resolve"
    /\ UNCHANGED <<callerVars, orderVars, mapVars, unresolved, matched, linkVars,
                   discVars, brokerVars, deferred>>

\* The loop of _resolve_disconnected_orders: as many orders as there are
\* positions become FILLED; neither the status nor _fill_cb_fired is looked at.
RestoreResolve ==
    /\ restore = "resolve"
    /\ gone # {}
    /\ \E S \in SUBSET gone :
          /\ Cardinality(S) = IF avail < Cardinality(gone) THEN avail ELSE Cardinality(gone)
          /\ status' = [o \in Order |-> IF o \in S THEN "FILLED" ELSE status[o]]
          /\ reason' = [o \in Order |-> IF o \in S THEN "resolved_by_reconcile" ELSE reason[o]]
          /\ told' = [o \in Order |-> IF o \in S /\ running
                         THEN Append(told[o], <<"filled", "reconcile">>) ELSE told[o]]
          /\ matched' = S
          /\ unresolved' = gone \ S
    /\ restore' = "assign"
    /\ UNCHANGED <<callerVars, fired, event, mapVars, avail, linkVars, discVars,
                   brokerVars, deferred>>

RestoreNothing ==
    /\ restore = "resolve"
    /\ gone = {}
    /\ restore' = "idle"
    /\ UNCHANGED <<callerVars, orderVars, mapVars, avail, unresolved, matched, linkVars,
                   discVars, brokerVars, deferred>>

\* self._disconnected_pending_orders = unresolved
RestoreAssign ==
    /\ restore = "assign"
    /\ gone' = unresolved
    /\ forgotten' = forgotten \cup (gone \ (unresolved \cup matched))
    /\ restore' = "idle" /\ unresolved' = {} /\ matched' = {}
    /\ UNCHANGED <<callerVars, orderVars, pending, msgIds, late, lateMid, avail,
                   linkVars, moved, clearing, brokerVars, deferred>>

-----------------------------------------------------------------------------
(* The pre-emptive monitor: it looks, sleeps for the backoff, tears down.  *)

PreemptCheck ==
    /\ preempt = "idle"
    /\ link /\ running
    /\ pending = {}
    /\ preempt' = "backoff"
    /\ UNCHANGED <<callerVars, orderVars, mapVars, restoreVars, link, client, running,
                   drops, discVars, brokerVars, deferred>>

PreemptTeardown ==
    /\ preempt = "backoff"
    /\ preempt' = "idle"
    /\ client' = FALSE
    /\ UNCHANGED <<callerVars, orderVars, mapVars, restoreVars, link, running, drops,
                   discVars, brokerVars, deferred>>

\* stop(): every waiter is released and every map is emptied.
Stop ==
    /\ running
    /\ ReactorFree
    /\ running' = FALSE /\ link' = FALSE /\ client' = FALSE
    /\ status' = [o \in Order |-> IF o \in pending THEN "PENDING" ELSE status[o]]
    /\ reason' = [o \in Order |-> IF o \in pending THEN "connection_lost" ELSE reason[o]]
    /\ event' = [o \in Order |-> event[o] \/ o \in pending]
    /\ pending' = {} /\ msgIds' = {}
    /\ late' = [o \in Order |-> "none"]
    /\ UNCHANGED <<callerVars, fired, told, lateMid, gone, restoreVars, preempt, drops,
                   discVars, brokerVars, deferred>>

-----------------------------------------------------------------------------
ExecEvent(m) == \/ ExecDrop(m)     \/ ExecInform(m)    \/ ExecCancelled(m)
                \/ ExecRejected(m) \/ ExecDuplicate(m) \/ ExecFilled(m)
ErrorEvent(m) == ErrorDrop(m) \/ ErrorFromRegistry(m) \/ ErrorFromPending(m)
Reactor == \/ \E m \in Message : ExecEvent(m) \/ ErrorEvent(m)
           \/ \E o \in Order : DeferredFails(o) \/ DeferredRejects(o)
           \/ DisconnectMove \/ DisconnectClear
Restore == Reconnect \/ RestoreFetch \/ RestoreResolve \/ RestoreNothing \/ RestoreAssign
Monitor == PreemptCheck \/ PreemptTeardown
Environment == \E o \in Order : BrokerDecide(o) \/ TtlPasses(o)

Next == \/ \E o \in Order : Caller(o)
        \/ Reactor \/ Restore \/ Monitor \/ Environment \/ Stop

Spec == Init /\ [][Next]_vars

-----------------------------------------------------------------------------
TypeOK ==
    /\ status \in [Order -> Statuses]
    /\ reason \in [Order -> Reasons]
    /\ fired \in [Order -> BOOLEAN]
    /\ event \in [Order -> BOOLEAN]
    /\ pending \in SUBSET Order
    /\ msgIds \in SUBSET Order
    /\ late \in [Order -> {"none", "live", "expired"}]
    /\ lateMid \in [Order -> BOOLEAN]
    /\ gone \in SUBSET Order
    /\ told \in [Order -> Seq(Calls)]
    /\ pc \in [Order -> {"idle", "register", "link", "send", "wait", "expired",
                         "check", "tag", "done"}]
    /\ deferred \in [Order -> {"none", "armed", "firing", "done"}]
    /\ link \in BOOLEAN /\ client \in BOOLEAN /\ running \in BOOLEAN
    /\ moved \in SUBSET Order /\ clearing \in BOOLEAN /\ forgotten \in SUBSET Order
    /\ restore \in {"idle", "fetch", "resolve", "assign"}
    /\ avail \in Nat
    /\ unresolved \in SUBSET Order /\ matched \in SUBSET Order
    /\ preempt \in {"idle", "backoff"}
    /\ fate \in [Order -> Terminal \cup {"none", "ERROR"}]
    /\ delivered \in 0 .. MaxDeliver /\ drops \in 0 .. MaxDisconnect

\* A sequence of calls holds one of the given kinds; holds at most one of them.
Has(s, kinds) == \E i \in DOMAIN s : s[i] \in kinds
Once(s, kinds) == \A i, j \in DOMAIN s : s[i] \in kinds /\ s[j] \in kinds => i = j

FillByEvent == {<<"filled", "exec">>}
FillByReconcile == {<<"filled", "reconcile">>}
RejectByError == {<<"rejected", "deferred">>, <<"rejected", "error">>}
RejectByAny == RejectByError \cup {<<"rejected", "exec">>}

\* The dedupe of _handle_execution_event: however often the broker re-emits
\* FILLED, and although a timed-out caller may put a filled order back into the
\* registry, the event handlers submit on_order_filled at most once per order.
ExecFillOnce == \A o \in Order : Once(told[o], FillByEvent)

\* The deferred error and the ORDER_ERROR event between them submit
\* on_order_rejected at most once per order (the already_rejected guard), with a
\* disconnect in between too.
ErrorRejectOnce == \A o \in Order : Once(told[o], RejectByError)

\* Orders for which the feed has handled an execution event with a verdict.
ByExec == {"filled", "cancelled", "rejected"} \X {"exec"}
Heard == {o \in Order : Has(told[o], ByExec)}

\* _consume_order_state_across_all_maps: a duplicate or late event "never
\* overwrites a confirmed terminal status".  Whatever the event handlers have made
\* of an order stays: no timeout, disconnect, stop or further message changes it,
\* except that _resolve_disconnected_orders may call it FILLED.
OutcomeKept == \A o \in Heard : status[o] \in {fate[o], "FILLED"}

\* No order is left in limbo: one that was sent and is still PENDING can be found
\* by a broker event (pending) or by reconcile (the disconnected list), unless
\* one of the unlocked clears below forgot it.
PendingIsTracked ==
    \A o \in Order : /\ running
                     /\ deferred[o] # "none"
                     /\ status[o] = "PENDING"
                     /\ o \notin forgotten
                     => o \in pending \cup gone

\* How far the request of an order is.
Stage(o) == CASE deferred[o] # "none" -> "sent"
              [] deferred[o] = "none" /\ pc[o] \in {"idle", "register"} -> "new"
              [] deferred[o] = "none" /\ pc[o] \in {"link", "send"} -> "entered"
              [] OTHER -> "over"
Stages == [o \in Order |-> Stage(o)]

\* An order that the disconnect callback has copied is not waited for any more,
\* although clear() is still to come.
Awaited == IF clearing THEN pending \ moved ELSE pending

\* The feed's orders live as OrderLife says, whatever the threads, the messages and
\* the maps do (new_order, _handle_execution_event, _handle_pending_order_error,
\* _on_conn_disconnected, _resolve_disconnected_orders, stop).
Life == INSTANCE OrderLife WITH
    Verdicts <- Fates,
    stage <- Stages,
    verdict <- fate,
    open <- Awaited,
    lost <- gone,
    heard <- Heard
LifeSpec == Life!Spec

-----------------------------------------------------------------------------
(* What the comments of the source promise and the code does not keep.     *)

\* The _fill_cb_fired flag "Prevents duplicate on_order_filled": at most one fill
\* callback per order, whichever path reports it.
FilledOnce == \A o \in Order : Once(told[o], FillByEvent \cup FillByReconcile)

\* new_order does not report a timed-out order as rejected, because "that would
\* mark a still-pending order as failed prematurely and double-count fills that
\* arrive via the late path": no order is told both rejected and filled.
NotRejectedAndFilled ==
    \A o \in Order : ~(/\ Has(told[o], RejectByAny)
                       /\ Has(told[o], FillByEvent \cup FillByReconcile))

\* _on_conn_disconnected moves pending orders "so that execution events arriving
\* after the disconnect can still be matched": no clear loses an order.
NothingForgotten == forgotten = {}
=============================================================================
