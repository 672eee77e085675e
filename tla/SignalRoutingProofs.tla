------------------------ MODULE SignalRoutingProofs ------------------------
(* What the gate and the counters guarantee for any number of signals,       *)
(* symbols, strategies and directions, and any cap.                          *)
EXTENDS SignalRouting, FiniteSetTheorems, TLAPS

\* Where the router is fits what has become of the signal it routes, and
\* signals that were not routed yet have left no trace.
RouterOK ==
    /\ cur = None <=> at = "idle"
    /\ cur # None => cur = routed
    /\ \A s \in Signal : s <= routed => attr[s] \in Attr
    /\ \A s \in Signal : s > routed => order[s] = "none"
    /\ at \in {"blend", "execute"} => order[cur] = "none"
    /\ at \in {"wait", "count"} => order[cur] = "queued"
    /\ \A s \in held : s <= routed /\ s # cur
    /\ \A s \in Signal : heard[s] # "nothing" =>
            order[s] \in {"sent", "filled", "failed"}

RoutingType == TypeOK /\ RouterOK

USE RoutingAssumption

-----------------------------------------------------------------------------
(* Types.                                                                  *)

LEMMA FiniteSignal == IsFiniteSet(Signal)
BY FS_Interval DEF Signal

LEMMA FreshIsNatural == GateType => FreshNumber \in Nat
<1> SUFFICES ASSUME GateType PROVE FreshNumber \in Nat
  OBVIOUS
<1> DEFINE K == {k \in Symbols \X Strategies : index[k] # NoSlot}
<1>1. IsFiniteSet(Symbols \X Strategies)
  BY FS_Product
<1>2. K \in SUBSET (Symbols \X Strategies)
  OBVIOUS
<1>3. IsFiniteSet(K)
  BY <1>1, <1>2, FS_Subset
<1>4. Cardinality(K) \in Nat
  BY <1>3, FS_CardinalityType
<1>5. IsFiniteSet(held)
  BY FiniteSignal, FS_Subset DEF GateType
<1>6. Cardinality(held) \in Nat /\ Cardinality(pend) \in Nat
  BY <1>5, FS_CardinalityType DEF GateType
<1> QED BY <1>4, <1>6 DEF FreshNumber

LEMMA ReserveType == \A a \in Attr : GateType /\ Reserve(a) => GateType'
<1> SUFFICES ASSUME NEW a \in Attr, GateType, Reserve(a) PROVE GateType'
  OBVIOUS
<1> DEFINE n == FreshNumber
           kept == {p \in pend : ~(p.sym = a.sym /\ p.strat = a.strat /\ p.n = n)}
           slot == [sym |-> a.sym, strat |-> a.strat, dir |-> a.dir, n |-> n]
<1>1. n \in Nat
  BY FreshIsNatural
<1>2. slot \in Slot
  BY <1>1 DEF Slot, Attr
<1>3. pend' = kept \cup {slot} /\ held' = held
  BY DEF Reserve
<1>4. kept \in SUBSET pend
  OBVIOUS
<1>5. IsFiniteSet(kept)
  BY <1>4, FS_Subset DEF GateType
<1>6. IsFiniteSet(pend')
  BY <1>3, <1>5, FS_AddElement
<1>7. pend' \subseteq Slot
  BY <1>2, <1>3 DEF GateType
<1>8. index' = [index EXCEPT ![Key(a)] = n]
  BY DEF Reserve
<1>9. Key(a) \in Symbols \X Strategies
  BY DEF Key, Attr
<1>10. index' \in [Symbols \X Strategies -> Nat \cup {NoSlot}]
  BY <1>1, <1>8, <1>9 DEF GateType
<1> QED BY <1>3, <1>6, <1>7, <1>10 DEF GateType

LEMMA ReleaseType ==
    \A a \in Attr : GateType /\ (ReleasePending(a) \/ Release(a)) =>
        GateType' /\ pend' \subseteq pend /\ held' = held
<1> SUFFICES ASSUME NEW a \in Attr, GateType, ReleasePending(a) \/ Release(a)
             PROVE  GateType' /\ pend' \subseteq pend /\ held' = held
  OBVIOUS
<1>1. pend' \subseteq pend /\ held' = held
  BY DEF ReleasePending, Release
<1>2. IsFiniteSet(pend')
  BY <1>1, FS_Subset DEF GateType
<1>3. CASE ReleasePending(a)
  BY <1>1, <1>2, <1>3 DEF ReleasePending, GateType, NoSlot
<1>4. CASE Release(a)
  BY <1>1, <1>2, <1>4 DEF Release, GateType, NoSlot
<1> QED BY <1>1, <1>3, <1>4

LEMMA AttachType ==
    \A s \in Signal : GateType /\ AttachPosition(s) =>
        GateType' /\ pend' \subseteq pend /\ held' = held \cup {s}
<1> SUFFICES ASSUME NEW s \in Signal, GateType, AttachPosition(s)
             PROVE  GateType' /\ pend' \subseteq pend /\ held' = held \cup {s}
  OBVIOUS
<1>1. pend' \subseteq pend /\ held' = held \cup {s}
  BY DEF AttachPosition
<1>2. IsFiniteSet(pend')
  BY <1>1, FS_Subset DEF GateType
<1> QED BY <1>1, <1>2 DEF AttachPosition, GateType, NoSlot

\* The gate's part of every step.
GateStep ==
    \/ \E a \in Attr : /\ Reserve(a) /\ RouterIdle
                       /\ AtRisk(a.sym) < MaxAtRisk
                       /\ cur' = routed + 1 /\ attr'[cur'] = a
                       /\ \A s \in held : attr'[s] = attr[s]
    \/ /\ \E a \in Attr : ReleasePending(a) \/ Release(a)
       /\ attr' = attr /\ cur' \in {cur, None}
    \/ /\ cur # None /\ AttachPosition(cur)
       /\ attr' = attr /\ cur' = None
    \/ /\ UNCHANGED <<pend, index, attr>> /\ held' \subseteq held
       /\ cur' \in {cur, None}

LEMMA GateStepType == GateType /\ cur \in Signal \cup {None} /\ GateStep => GateType'
<1> SUFFICES ASSUME GateType, cur \in Signal \cup {None}, GateStep PROVE GateType'
  OBVIOUS
<1>1. ASSUME NEW a \in Attr, Reserve(a) PROVE GateType'
  BY <1>1, ReserveType
<1>2. ASSUME NEW a \in Attr, ReleasePending(a) \/ Release(a) PROVE GateType'
  BY <1>2, ReleaseType
<1>3. ASSUME cur # None, AttachPosition(cur) PROVE GateType'
  BY <1>3, AttachType
<1>4. ASSUME UNCHANGED <<pend, index>>, held' \subseteq held PROVE GateType'
  BY <1>4 DEF GateType
<1> QED BY <1>1, <1>2, <1>3, <1>4 DEF GateStep

LEMMA RoutingInit == Init => RoutingType
<1> SUFFICES ASSUME Init PROVE RoutingType
  OBVIOUS
<1>1. live \in BOOLEAN
  BY Zenon DEF Init
<1>2. GateType
  BY FS_EmptySet DEF Init, GateType
<1>3. RouterType /\ OrderType
  BY DEF Init, RouterType, OrderType, Signal, None
<1>4. RouterOK
  BY DEF Init, RouterOK, Signal, None
<1> QED BY <1>1, <1>2, <1>3, <1>4 DEF RoutingType, TypeOK

\* One step per action: the router's state and the orders stay in type, and
\* the gate takes one of its own steps.
LEMMA RouterStep ==
    RoutingType /\ [Next]_vars =>
        RouterType' /\ OrderType' /\ RouterOK' /\ GateStep /\ live' = live
<1> SUFFICES ASSUME RoutingType, [Next]_vars
             PROVE  RouterType' /\ OrderType' /\ RouterOK' /\ GateStep /\ live' = live
  OBVIOUS
<1> USE DEF RoutingType, TypeOK, gateVars, routerVars, counters
<1>a. cur # None => cur \in Signal /\ attr[cur] \in Attr
  BY DEF RouterOK, RouterType, Signal, None
<1>1. ASSUME NEW a \in Emits, GateAllows(a)
      PROVE  RouterType' /\ OrderType' /\ RouterOK' /\ GateStep /\ live' = live
  <2>1. a \in Attr /\ routed + 1 \in Signal
    BY <1>1 DEF GateAllows, RouterType, Signal
  <2>2. cur' = routed + 1 /\ attr' = [attr EXCEPT ![routed + 1] = a] /\ held' = held
    BY <1>1 DEF GateAllows, Reserve
  <2>3. RouterType' /\ OrderType'
    BY <1>1, <2>1 DEF GateAllows, RouterType, OrderType, Signal
  <2>4. \A s \in held : attr'[s] = attr[s] /\ s # routed + 1
    BY <2>1, <2>2 DEF RouterOK, RouterType, GateType, Signal
  <2>5. RouterOK'
    BY <1>1, <2>1, <2>2, <2>4 DEF GateAllows, RouterIdle, RouterOK, RouterType, OrderType, GateType, Signal, None
  <2>6. attr'[cur'] = a
    BY <2>1, <2>2 DEF RouterType
  <2>7. GateStep
    BY <1>1, <2>1, <2>2, <2>4, <2>6 DEF GateAllows, GateStep
  <2> QED BY <1>1, <2>3, <2>5, <2>7 DEF GateAllows
<1>2. ASSUME BlendRejects \/ NoOrder
      PROVE  RouterType' /\ OrderType' /\ RouterOK' /\ GateStep /\ live' = live
  <2>1. cur # None /\ attr[cur] \in Attr /\ cur \in Signal
    BY <1>2, <1>a DEF BlendRejects, NoOrder, RouterOK
  <2>2. ReleasePending(attr[cur]) /\ held' = held /\ cur' = None /\ attr' = attr
    BY <1>2 DEF BlendRejects, NoOrder, Done, ReleasePending
  <2>3. RouterType' /\ OrderType'
    BY <1>2 DEF BlendRejects, NoOrder, Done, RouterType, OrderType, None
  <2>4. RouterOK'
    BY <1>2, <2>1, <2>2 DEF BlendRejects, NoOrder, Done, RouterOK, RouterType, GateType, Signal, None
  <2> QED BY <1>2, <2>1, <2>2, <2>3, <2>4 DEF BlendRejects, NoOrder, GateStep
<1>3. ASSUME BlendAccepts \/ QueueOrder \/ WaitExpires \/ CountSent
      PROVE  RouterType' /\ OrderType' /\ RouterOK' /\ GateStep /\ live' = live
  <2>1. cur # None /\ cur \in Signal
    BY <1>3, <1>a DEF BlendAccepts, QueueOrder, WaitExpires, CountSent, RouterOK
  <2>2. CASE BlendAccepts
    BY <2>1, <2>2 DEF BlendAccepts, RouterType, OrderType, RouterOK, GateType, GateStep, None
  <2>3. CASE WaitExpires
    BY <2>1, <2>3 DEF WaitExpires, RouterType, OrderType, RouterOK, GateType, GateStep, None
  <2>4. CASE QueueOrder
    <3>1. /\ order' = [order EXCEPT ![cur] = "queued"] /\ at = "execute" /\ at' = "wait"
          /\ UNCHANGED <<live, gateVars, routed, attr, cur, open, heard, counters, days>>
      BY <2>4 DEF QueueOrder
    <3>2. RouterType' /\ OrderType'
      BY <2>1, <3>1 DEF RouterType, OrderType
    <3>3. RouterOK'
      BY <2>1, <3>1 DEF RouterType, OrderType, RouterOK, GateType, Signal, None
    <3> QED BY <3>1, <3>2, <3>3 DEF GateStep
  <2>5. CASE CountSent
    <3>1. RouterType' /\ OrderType'
      BY <2>5 DEF CountSent, Done, RouterType, OrderType, None
    <3>2. RouterOK'
      BY <2>1, <2>5 DEF CountSent, Done, RouterType, OrderType, RouterOK, GateType, Signal, None
    <3> QED BY <2>5, <3>1, <3>2 DEF CountSent, Done, GateStep
  <2> QED BY <1>3, <2>2, <2>3, <2>4, <2>5
<1>4. ASSUME PaperFilled
      PROVE  RouterType' /\ OrderType' /\ RouterOK' /\ GateStep /\ live' = live
  <2>1. cur # None /\ cur \in Signal
    BY <1>4, <1>a DEF PaperFilled, RouterOK
  <2>2. held' = held \cup {cur} /\ cur' = None /\ attr' = attr
    BY <1>4 DEF PaperFilled, AttachPosition, Done
  <2>3. RouterType' /\ OrderType'
    BY <1>4, <2>1 DEF PaperFilled, Done, RouterType, OrderType, None
  <2>4. RouterOK'
    BY <1>4, <2>1, <2>2 DEF PaperFilled, Done, RouterOK, RouterType, GateType, Signal, None
  <2> QED BY <1>4, <2>1, <2>2, <2>3, <2>4 DEF PaperFilled, GateStep
<1>5. ASSUME NEW s \in Signal, Transmit(s) \/ BrokerDecides(s)
      PROVE  RouterType' /\ OrderType' /\ RouterOK' /\ GateStep /\ live' = live
  <2>1. RouterType' /\ OrderType'
    BY <1>5 DEF Transmit, BrokerDecides, RouterType, OrderType
  <2>2. s # cur
    BY <1>5 DEF Transmit, BrokerDecides, RouterIdle, RouterOK, RouterType, Signal, None
  <2>3. RouterOK'
    BY <1>5, <2>2, <1>a DEF Transmit, BrokerDecides, RouterIdle, RouterOK, RouterType, OrderType, Signal, None
  <2> QED BY <1>5, <2>1, <2>3 DEF Transmit, BrokerDecides, GateStep
<1>6. ASSUME NEW s \in Signal, PositionCloses(s)
      PROVE  RouterType' /\ OrderType' /\ RouterOK' /\ GateStep /\ live' = live
  <2>1. RouterType' /\ OrderType'
    BY <1>6 DEF PositionCloses, RouterType, OrderType
  <2>2. held' \subseteq held
    BY <1>6 DEF PositionCloses
  <2>3. RouterOK'
    BY <1>6, <2>2 DEF PositionCloses, RouterOK
  <2> QED BY <1>6, <2>1, <2>2, <2>3 DEF PositionCloses, GateStep
<1>7. ASSUME NEW s \in Signal, LateFilled(s)
      PROVE  RouterType' /\ OrderType' /\ RouterOK' /\ GateStep /\ live' = live
  <2>1. RouterType' /\ OrderType'
    BY <1>7 DEF LateFilled, Down, RouterType, OrderType
  <2>2. RouterOK'
    BY <1>7 DEF LateFilled, RouterOK, OrderType
  <2> QED BY <1>7, <2>1, <2>2 DEF LateFilled, GateStep
<1>8. ASSUME NEW s \in Signal, LateFailed(s)
      PROVE  RouterType' /\ OrderType' /\ RouterOK' /\ GateStep /\ live' = live
  <2>1. RouterType' /\ OrderType'
    BY <1>8 DEF LateFailed, Down, RouterType, OrderType
  <2>2. attr[s] \in Attr
    BY <1>8 DEF LateFailed, RouterOK, RouterType, Signal
  <2>3. held' = held
    BY <1>8 DEF LateFailed, Release
  <2>4. RouterOK'
    BY <1>8, <2>3 DEF LateFailed, RouterOK, OrderType
  <2> QED BY <1>8, <2>1, <2>2, <2>4 DEF LateFailed, GateStep
<1>9. ASSUME ResetDailyCounters
      PROVE  RouterType' /\ OrderType' /\ RouterOK' /\ GateStep /\ live' = live
  <2>1. RouterType' /\ OrderType'
    BY <1>9 DEF ResetDailyCounters, RouterType, OrderType
  <2> QED BY <1>9, <2>1 DEF ResetDailyCounters, RouterOK, GateStep
<1>10. ASSUME UNCHANGED vars
      PROVE  RouterType' /\ OrderType' /\ RouterOK' /\ GateStep /\ live' = live
  BY <1>10 DEF vars, RouterType, OrderType, RouterOK, GateStep
<1> QED BY <1>1, <1>2, <1>3, <1>4, <1>5, <1>6, <1>7, <1>8, <1>9, <1>10 DEF Next

LEMMA RoutingTypeStep == RoutingType /\ [Next]_vars => RoutingType'
<1> SUFFICES ASSUME RoutingType, [Next]_vars PROVE RoutingType'
  OBVIOUS
<1>1. RouterType' /\ OrderType' /\ RouterOK' /\ GateStep /\ live' = live
  BY RouterStep
<1>2. GateType'
  BY <1>1, GateStepType DEF RoutingType, TypeOK, RouterType, Signal, None
<1>3. (live \in BOOLEAN)'
  BY <1>1, Zenon DEF RoutingType, TypeOK
<1> QED BY <1>1, <1>2, <1>3 DEF RoutingType, TypeOK

\* The routing state stays in its types: the pending set is finite, the
\* counters are naturals (signals_pending is bounded at zero in
\* _release_late), and the router's place fits its order.
THEOREM RoutingTypeCorrect == Spec => []TypeOK
<1>1. RoutingType => TypeOK
  BY DEF RoutingType
<1> QED BY RoutingInit, RoutingTypeStep, <1>1, PTL DEF Spec

-----------------------------------------------------------------------------
(* The cap.                                                                *)

\* While a signal is routed there is room for it besides its own pending
\* slots: only its own reservation may have filled the last place.
RoomForCur ==
    cur # None =>
        Cardinality(PendOf(attr[cur].sym) \ PendOfKey(attr[cur]))
          + Cardinality(HeldOf(attr[cur].sym)) < MaxAtRisk

GateInv == GateCap /\ RoomForCur

LEMMA FiniteSlots ==
    GateType => /\ IsFiniteSet(pend) /\ IsFiniteSet(held)
                /\ \A y : IsFiniteSet(PendOf(y)) /\ IsFiniteSet(HeldOf(y))
<1> SUFFICES ASSUME GateType
             PROVE  /\ IsFiniteSet(pend) /\ IsFiniteSet(held)
                    /\ \A y : IsFiniteSet(PendOf(y)) /\ IsFiniteSet(HeldOf(y))
  OBVIOUS
<1>1. IsFiniteSet(pend) /\ IsFiniteSet(held)
  BY FiniteSignal, FS_Subset DEF GateType
<1>2. \A y : PendOf(y) \in SUBSET pend /\ HeldOf(y) \in SUBSET held
  BY DEF PendOf, HeldOf
<1> QED BY <1>1, <1>2, FS_Subset

\* Smaller sets have no more elements.
LEMMA SmallerSum ==
    ASSUME NEW S, NEW T, NEW U, NEW V, IsFiniteSet(S), IsFiniteSet(T),
           U \subseteq S, V \subseteq T
    PROVE  /\ Cardinality(S) \in Nat /\ Cardinality(T) \in Nat
           /\ Cardinality(U) \in Nat /\ Cardinality(V) \in Nat
           /\ Cardinality(U) + Cardinality(V) <= Cardinality(S) + Cardinality(T)
<1>1. IsFiniteSet(U) /\ IsFiniteSet(V)
  BY FS_Subset
<1>2. /\ Cardinality(S) \in Nat /\ Cardinality(T) \in Nat
      /\ Cardinality(U) \in Nat /\ Cardinality(V) \in Nat
  BY <1>1, FS_CardinalityType
<1>3. Cardinality(U) <= Cardinality(S) /\ Cardinality(V) <= Cardinality(T)
  BY FS_Subset
<1> QED BY <1>2, <1>3

\* Steps that only free slots.
LEMMA GateShrinks ==
    ASSUME GateType, GateInv, pend' \subseteq pend, held' \subseteq held,
           attr' = attr, cur' \in {cur, None}
    PROVE  GateInv'
<1>1. \A y : PendOf(y)' \subseteq PendOf(y) /\ HeldOf(y)' \subseteq HeldOf(y)
  BY DEF PendOf, HeldOf
<1>2. ASSUME NEW y \in Symbols PROVE AtRisk(y)' <= MaxAtRisk
  <2>1. IsFiniteSet(PendOf(y)) /\ IsFiniteSet(HeldOf(y))
    BY FiniteSlots
  <2>2. /\ AtRisk(y)' \in Nat /\ AtRisk(y) \in Nat
        /\ AtRisk(y)' <= AtRisk(y)
    BY <1>1, <2>1, SmallerSum DEF AtRisk
  <2> QED BY <2>2 DEF GateInv, GateCap
<1>3. ASSUME cur' # None PROVE RoomForCur'
  <2>1. PICK a : a = attr[cur] /\ a = attr'[cur'] /\ cur # None
    BY <1>3
  <2> DEFINE P == PendOf(a.sym) \ PendOfKey(a)
             Q == PendOf(a.sym)' \ PendOfKey(a)'
  <2>2. P \subseteq PendOf(a.sym) /\ IsFiniteSet(PendOf(a.sym)) /\ IsFiniteSet(HeldOf(a.sym))
    BY FiniteSlots
  <2>3. IsFiniteSet(P)
    BY <2>2, FS_Subset
  <2>4. Q \subseteq P
    BY <1>1 DEF PendOf, PendOfKey
  <2>5. /\ Cardinality(P) \in Nat /\ Cardinality(HeldOf(a.sym)) \in Nat
        /\ Cardinality(Q) \in Nat /\ Cardinality(HeldOf(a.sym)') \in Nat
        /\ Cardinality(Q) + Cardinality(HeldOf(a.sym)')
             <= Cardinality(P) + Cardinality(HeldOf(a.sym))
    BY <1>1, <2>2, <2>3, <2>4, SmallerSum
  <2>6. Cardinality(P) + Cardinality(HeldOf(a.sym)) < MaxAtRisk
    BY <2>1 DEF GateInv, RoomForCur
  <2>7. Cardinality(Q) + Cardinality(HeldOf(a.sym)') < MaxAtRisk
    BY <2>5, <2>6
  <2> QED BY <2>1, <2>7 DEF RoomForCur, PendOf, PendOfKey, HeldOf
<1> QED BY <1>2, <1>3 DEF GateInv, GateCap, RoomForCur
\* A reservation takes at most one place, and the place was free.
LEMMA GateReserves ==
    ASSUME NEW a \in Attr, GateType, GateInv, Reserve(a),
           AtRisk(a.sym) < MaxAtRisk, cur' # None, attr'[cur'] = a,
           \A s \in held : attr'[s] = attr[s]
    PROVE  GateInv'
<1>1. PICK slot : /\ slot.sym = a.sym /\ slot.strat = a.strat
                  /\ pend' \subseteq pend \cup {slot} /\ held' = held
  <2> DEFINE sl == [sym |-> a.sym, strat |-> a.strat, dir |-> a.dir, n |-> FreshNumber]
  <2>1. sl.sym = a.sym /\ sl.strat = a.strat
    OBVIOUS
  <2>2. pend' \subseteq pend \cup {sl} /\ held' = held
    BY DEF Reserve
  <2> QED BY <2>1, <2>2
<1>2. \A y : HeldOf(y)' = HeldOf(y)
  BY <1>1 DEF HeldOf
<1>3. \A y : IsFiniteSet(PendOf(y)) /\ IsFiniteSet(HeldOf(y))
  BY FiniteSlots
<1>4. ASSUME NEW y \in Symbols, y # a.sym PROVE AtRisk(y)' <= MaxAtRisk
  <2>1. PendOf(y)' \subseteq PendOf(y)
    BY <1>1, <1>4 DEF PendOf
  <2>2. AtRisk(y)' \in Nat /\ AtRisk(y) \in Nat /\ AtRisk(y)' <= AtRisk(y)
    BY <1>2, <1>3, <2>1, SmallerSum DEF AtRisk
  <2> QED BY <2>2 DEF GateInv, GateCap
<1>5. AtRisk(a.sym)' <= MaxAtRisk
  <2> DEFINE S == PendOf(a.sym) \cup {slot}
  <2>1. PendOf(a.sym)' \subseteq S
    BY <1>1 DEF PendOf
  <2>2. IsFiniteSet(S) /\ Cardinality(PendOf(a.sym)) \in Nat
    BY <1>3, FS_AddElement, FS_CardinalityType
  <2>3. Cardinality(S) <= Cardinality(PendOf(a.sym)) + 1
    BY <1>3, <2>2, FS_AddElement
  <2>4. /\ Cardinality(S) \in Nat /\ Cardinality(HeldOf(a.sym)) \in Nat
        /\ Cardinality(PendOf(a.sym)') \in Nat
        /\ Cardinality(PendOf(a.sym)') + Cardinality(HeldOf(a.sym))
             <= Cardinality(S) + Cardinality(HeldOf(a.sym))
    BY <1>3, <2>1, <2>2, SmallerSum
  <2>5. AtRisk(a.sym)' = Cardinality(PendOf(a.sym)') + Cardinality(HeldOf(a.sym))
    BY <1>2 DEF AtRisk
  <2> QED BY <2>2, <2>3, <2>4, <2>5 DEF AtRisk
<1>6. RoomForCur'
  <2> DEFINE Q == PendOf(a.sym)' \ PendOfKey(a)'
  <2>1. Q \subseteq PendOf(a.sym)
    BY <1>1 DEF PendOf, PendOfKey
  <2>2. /\ Cardinality(Q) \in Nat /\ Cardinality(HeldOf(a.sym)) \in Nat
        /\ Cardinality(PendOf(a.sym)) \in Nat
        /\ Cardinality(Q) + Cardinality(HeldOf(a.sym))
             <= Cardinality(PendOf(a.sym)) + Cardinality(HeldOf(a.sym))
    BY <1>3, <2>1, SmallerSum
  <2>3. Cardinality(Q) + Cardinality(HeldOf(a.sym)') < MaxAtRisk
    BY <1>2, <2>2 DEF AtRisk
  <2> QED BY <2>3 DEF RoomForCur, PendOf, PendOfKey, HeldOf
<1> QED BY <1>4, <1>5, <1>6 DEF GateInv, GateCap

\* The position takes the place its signal had, or the one that was free.
LEMMA GateAttaches ==
    ASSUME GateType, GateInv, cur \in Signal, cur # None, AttachPosition(cur),
           attr' = attr, cur' = None
    PROVE  GateInv'
<1>1. PICK a : a = attr[cur]
  OBVIOUS
<1>2. PICK c : c = cur
  OBVIOUS
<1>3. pend' = pend \ PendOfKey(a) /\ held' = held \cup {c}
  BY <1>1, <1>2 DEF AttachPosition
<1>4. \A y : IsFiniteSet(PendOf(y)) /\ IsFiniteSet(HeldOf(y))
  BY FiniteSlots
<1>5. ASSUME NEW y \in Symbols, y # a.sym PROVE AtRisk(y)' <= MaxAtRisk
  <2>1. PendOf(y)' \subseteq PendOf(y) /\ HeldOf(y)' \subseteq HeldOf(y)
    BY <1>1, <1>2, <1>3, <1>5 DEF PendOf, HeldOf
  <2>2. AtRisk(y)' \in Nat /\ AtRisk(y) \in Nat /\ AtRisk(y)' <= AtRisk(y)
    BY <1>4, <2>1, SmallerSum DEF AtRisk
  <2> QED BY <2>2 DEF GateInv, GateCap
<1>6. AtRisk(a.sym)' <= MaxAtRisk
  <2> DEFINE P == PendOf(a.sym) \ PendOfKey(a)
             H == HeldOf(a.sym) \cup {c}
  <2>1. PendOf(a.sym)' \subseteq P /\ HeldOf(a.sym)' \subseteq H
    BY <1>1, <1>2, <1>3 DEF PendOf, HeldOf
  <2>2. IsFiniteSet(P) /\ IsFiniteSet(H) /\ Cardinality(HeldOf(a.sym)) \in Nat
    BY <1>4, FS_AddElement, FS_Subset, FS_CardinalityType
  <2>3. Cardinality(H) <= Cardinality(HeldOf(a.sym)) + 1
    BY <1>4, <2>2, FS_AddElement
  <2>4. /\ Cardinality(P) \in Nat /\ Cardinality(H) \in Nat
        /\ AtRisk(a.sym)' \in Nat
        /\ AtRisk(a.sym)' <= Cardinality(P) + Cardinality(H)
    BY <2>1, <2>2, SmallerSum DEF AtRisk
  <2>5. Cardinality(P) + Cardinality(HeldOf(a.sym)) < MaxAtRisk
    BY <1>1 DEF GateInv, RoomForCur
  <2> QED BY <2>2, <2>3, <2>4, <2>5
<1> QED BY <1>5, <1>6 DEF GateInv, GateCap, RoomForCur

LEMMA GateInvStep == RoutingType /\ GateInv /\ [Next]_vars => GateInv'
<1> SUFFICES ASSUME RoutingType, GateInv, [Next]_vars PROVE GateInv'
  OBVIOUS
<1>1. GateStep /\ GateType /\ cur \in Signal \cup {None} /\ routed \in Nat
  BY RouterStep DEF RoutingType, TypeOK, RouterType, Signal, None
<1>2. ASSUME NEW a \in Attr, Reserve(a), AtRisk(a.sym) < MaxAtRisk,
             cur' = routed + 1, attr'[cur'] = a,
             \A s \in held : attr'[s] = attr[s]
      PROVE  GateInv'
  <2>1. cur' # None
    BY <1>1, <1>2 DEF None
  <2> QED BY <1>1, <1>2, <2>1, GateReserves
<1>3. ASSUME NEW a \in Attr, ReleasePending(a) \/ Release(a),
             attr' = attr, cur' \in {cur, None}
      PROVE  GateInv'
  <2>1. pend' \subseteq pend /\ held' = held
    BY <1>1, <1>3, ReleaseType
  <2> QED BY <1>1, <1>3, <2>1, GateShrinks
<1>4. ASSUME cur # None, AttachPosition(cur), attr' = attr, cur' = None
      PROVE  GateInv'
  BY <1>1, <1>4, GateAttaches
<1>5. ASSUME UNCHANGED <<pend, index, attr>>, held' \subseteq held,
             cur' \in {cur, None}
      PROVE  GateInv'
  BY <1>1, <1>5, GateShrinks
<1> QED BY <1>1, <1>2, <1>3, <1>4, <1>5 DEF GateStep

LEMMA GateInvInit == Init => GateInv
<1> SUFFICES ASSUME Init PROVE GateInv
  OBVIOUS
<1>1. \A y : PendOf(y) = {} /\ HeldOf(y) = {}
  BY DEF Init, PendOf, HeldOf
<1>2. \A y : AtRisk(y) = 0
  BY <1>1, FS_EmptySet DEF AtRisk
<1>3. MaxAtRisk \in Nat \ {0} /\ cur = None
  BY RoutingAssumption DEF Init
<1> QED BY <1>2, <1>3 DEF GateInv, GateCap, RoomForCur

\* CorrelationGate.check keeps every symbol at or below its cap of slots:
\* the router is one thread, so nobody takes the place of the signal it
\* routes before attach_position, even when a late failure frees its slot.
THEOREM GateKeepsCap == Spec => []GateCap
<1>1. Init => RoutingType /\ GateInv
  BY RoutingInit, GateInvInit
<1>2. RoutingType /\ GateInv /\ [Next]_vars => (RoutingType /\ GateInv)'
  BY RoutingTypeStep, GateInvStep
<1>3. RoutingType /\ GateInv => GateCap
  BY DEF GateInv
<1> QED BY <1>1, <1>2, <1>3, PTL DEF Spec
-----------------------------------------------------------------------------
(* The index.                                                              *)

\* Dropping the slots of one key together with its entry.
LEMMA DropKey ==
    ASSUME NEW a \in Attr, GateType, IndexNamesSlots,
           pend' = pend \ PendOfKey(a), index' = [index EXCEPT ![Key(a)] = NoSlot]
    PROVE  IndexNamesSlots'
<1> SUFFICES ASSUME NEW k \in Symbols \X Strategies, index'[k] # NoSlot
             PROVE  \E p \in pend' : Key(p) = k /\ p.n = index'[k]
  BY DEF IndexNamesSlots
<1>1. Key(a) \in Symbols \X Strategies
  BY DEF Key, Attr
<1>2. k # Key(a) /\ index'[k] = index[k]
  BY <1>1 DEF GateType
<1>3. PICK p \in pend : Key(p) = k /\ p.n = index[k]
  BY <1>2 DEF IndexNamesSlots
<1>4. p \notin PendOfKey(a)
  BY <1>2, <1>3 DEF PendOfKey, Key
<1> QED BY <1>2, <1>3, <1>4

LEMMA IndexStep == RoutingType /\ IndexNamesSlots /\ [Next]_vars => IndexNamesSlots'
<1> SUFFICES ASSUME RoutingType, IndexNamesSlots, [Next]_vars PROVE IndexNamesSlots'
  OBVIOUS
<1>1. /\ GateStep /\ GateType
      /\ cur # None => attr[cur] \in Attr
  BY RouterStep DEF RoutingType, TypeOK, RouterType, RouterOK, Signal, None
<1>2. ASSUME NEW a \in Attr, Reserve(a) PROVE IndexNamesSlots'
  <2> SUFFICES ASSUME NEW k \in Symbols \X Strategies, index'[k] # NoSlot
               PROVE  \E p \in pend' : Key(p) = k /\ p.n = index'[k]
    BY DEF IndexNamesSlots
  <2> DEFINE n == FreshNumber
             slot == [sym |-> a.sym, strat |-> a.strat, dir |-> a.dir, n |-> n]
  <2>1. Key(a) \in Symbols \X Strategies
    BY DEF Key, Attr
  <2>2. index' = [index EXCEPT ![Key(a)] = n] /\ slot \in pend'
    BY <1>2 DEF Reserve
  <2>3. CASE k = Key(a)
    <3>1. Key(slot) = k /\ slot.n = n
      BY <2>3 DEF Key
    <3>2. index'[k] = n
      BY <1>1, <2>1, <2>2, <2>3 DEF GateType
    <3> QED BY <2>2, <3>1, <3>2
  <2>4. CASE k # Key(a)
    <3>1. index'[k] = index[k]
      BY <1>1, <2>1, <2>2, <2>4 DEF GateType
    <3>2. PICK p \in pend : Key(p) = k /\ p.n = index[k]
      BY <3>1 DEF IndexNamesSlots
    <3>3. p \in pend'
      BY <1>2, <2>4, <3>2 DEF Reserve, Key
    <3> QED BY <3>1, <3>2, <3>3
  <2> QED BY <2>3, <2>4
<1>3. ASSUME NEW a \in Attr, ReleasePending(a) PROVE IndexNamesSlots'
  <2>1. pend' = pend \ PendOfKey(a) /\ index' = [index EXCEPT ![Key(a)] = NoSlot]
    BY <1>3 DEF ReleasePending
  <2> QED BY <1>1, <2>1, DropKey
<1>4. ASSUME NEW a \in Attr, Release(a) PROVE IndexNamesSlots'
  BY <1>4 DEF Release, IndexNamesSlots
<1>5. ASSUME cur # None, AttachPosition(cur) PROVE IndexNamesSlots'
  <2>1. PICK a \in Attr : a = attr[cur]
    BY <1>1, <1>5
  <2>2. pend' = pend \ PendOfKey(a) /\ index' = [index EXCEPT ![Key(a)] = NoSlot]
    BY <1>5, <2>1 DEF AttachPosition
  <2> QED BY <1>1, <2>2, DropKey
<1>6. ASSUME UNCHANGED <<pend, index, attr>> PROVE IndexNamesSlots'
  BY <1>6 DEF IndexNamesSlots
<1> QED BY <1>1, <1>2, <1>3, <1>4, <1>5, <1>6 DEF GateStep

\* Whatever releases slots, by (symbol, strategy) or by (symbol, direction),
\* no entry of CorrelationGate._pending is left naming a slot that is gone.
THEOREM IndexConsistent == Spec => []IndexNamesSlots
<1>1. Init => RoutingType /\ IndexNamesSlots
  BY RoutingInit DEF Init, IndexNamesSlots
<1>2. RoutingType /\ IndexNamesSlots /\ [Next]_vars => (RoutingType /\ IndexNamesSlots)'
  BY RoutingTypeStep, IndexStep
<1> QED BY <1>1, <1>2, PTL DEF Spec

-----------------------------------------------------------------------------
(* The counters.                                                           *)

HeardFilled == {s \in Signal : heard[s] = "filled"}
Waiting == {s \in Counted : heard[s] = "nothing"}

CounterInv == FillsExact /\ PendingBounded

LEMMA FiniteHeard ==
    /\ IsFiniteSet(HeardFilled) /\ IsFiniteSet(Waiting)
    /\ Cardinality(HeardFilled) \in Nat /\ Cardinality(Waiting) \in Nat
<1>1. HeardFilled \in SUBSET Signal /\ Waiting \in SUBSET Signal
  BY DEF HeardFilled, Waiting, Counted
<1> QED BY <1>1, FiniteSignal, FS_Subset, FS_CardinalityType

LEMMA CounterInvDef ==
    CounterInv <=> /\ fills = Cardinality(HeardFilled)
                   /\ pending <= Cardinality(Waiting)
BY DEF CounterInv, FillsExact, PendingBounded, HeardFilled, Waiting

\* What each step does to the two sets.
LEMMA CounterStep ==
    RoutingType /\ [Next]_vars =>
      \/ /\ HeardFilled' = HeardFilled /\ fills' = fills
         /\ Waiting' = Waiting /\ pending' \in {pending, 0}
      \/ \E s \in Signal \ Waiting :
            /\ HeardFilled' = HeardFilled /\ fills' = fills
            /\ Waiting' = Waiting \cup {s} /\ pending' = pending + 1
      \/ \E s \in Waiting \ HeardFilled :
            /\ Waiting' = Waiting \ {s} /\ pending' = Down(pending)
            /\ \/ HeardFilled' = HeardFilled \cup {s} /\ fills' = fills + 1
               \/ HeardFilled' = HeardFilled /\ fills' = fills
<1> SUFFICES ASSUME RoutingType, [Next]_vars
    PROVE
      \/ /\ HeardFilled' = HeardFilled /\ fills' = fills
         /\ Waiting' = Waiting /\ pending' \in {pending, 0}
      \/ \E s \in Signal \ Waiting :
            /\ HeardFilled' = HeardFilled /\ fills' = fills
            /\ Waiting' = Waiting \cup {s} /\ pending' = pending + 1
      \/ \E s \in Waiting \ HeardFilled :
            /\ Waiting' = Waiting \ {s} /\ pending' = Down(pending)
            /\ \/ HeardFilled' = HeardFilled \cup {s} /\ fills' = fills + 1
               \/ HeardFilled' = HeardFilled /\ fills' = fills
  OBVIOUS
<1> DEFINE Same == /\ HeardFilled' = HeardFilled /\ fills' = fills
                   /\ Waiting' = Waiting /\ pending' \in {pending, 0}
<1> USE DEF RoutingType, TypeOK, RouterType, OrderType, gateVars, routerVars, counters
<1>a. /\ cur # None => cur \in Signal
      /\ \A s \in Signal : order[s] \in {"sent", "filled", "failed"} => s # cur
  BY DEF RouterOK, Signal, None
<1>1. ASSUME NEW a \in Emits, GateAllows(a) PROVE Same
  <2>1. /\ cur = None /\ cur' = routed + 1 /\ routed + 1 \in Signal
        /\ order[routed + 1] = "none"
        /\ UNCHANGED <<order, heard, pending, fills>>
    BY <1>1 DEF GateAllows, RouterIdle, RouterOK, Signal
  <2> QED BY <2>1 DEF HeardFilled, Waiting, Counted, Signal, None
<1>2. ASSUME BlendRejects \/ NoOrder \/ PaperFilled PROVE Same
  <2>1. /\ cur # None /\ order[cur] = "none" /\ cur' = None
        /\ UNCHANGED <<order, heard, pending, fills>>
    BY <1>2 DEF BlendRejects, NoOrder, PaperFilled, Done, RouterOK
  <2> QED BY <2>1 DEF HeardFilled, Waiting, Counted, Signal, None
<1>3. ASSUME BlendAccepts \/ QueueOrder \/ WaitExpires PROVE Same
  <2>1. /\ cur' = cur /\ cur \in Signal
        /\ order' = order \/ order' = [order EXCEPT ![cur] = "queued"]
        /\ UNCHANGED <<heard, pending, fills>>
    BY <1>3, <1>a DEF BlendAccepts, QueueOrder, WaitExpires, RouterOK
  <2> QED BY <2>1 DEF HeardFilled, Waiting, Counted
<1>4. ASSUME CountSent
      PROVE  \E s \in Signal \ Waiting :
            /\ HeardFilled' = HeardFilled /\ fills' = fills
            /\ Waiting' = Waiting \cup {s} /\ pending' = pending + 1
  <2>1. PICK c \in Signal : c = cur
    BY <1>4, <1>a DEF CountSent, RouterOK
  <2>2. /\ order[c] = "queued" /\ heard[c] = "nothing" /\ cur' = None
        /\ UNCHANGED <<order, heard, fills>> /\ pending' = pending + 1
    BY <1>4, <2>1 DEF CountSent, Done, RouterOK
  <2>3. c \notin Waiting /\ HeardFilled' = HeardFilled
    BY <2>1, <2>2 DEF Waiting, Counted, HeardFilled
  <2>4. Waiting' = Waiting \cup {c}
    BY <2>1, <2>2 DEF Waiting, Counted, Signal, None
  <2> QED BY <2>2, <2>3, <2>4
<1>5. ASSUME NEW s \in Signal, Transmit(s) \/ BrokerDecides(s) PROVE Same
  <2>1. /\ order[s] # "none"
        /\ \E o \in {"sent", "filled", "failed"} : order' = [order EXCEPT ![s] = o]
        /\ UNCHANGED <<cur, heard, pending, fills>>
    BY <1>5 DEF Transmit, BrokerDecides
  <2> QED BY <2>1 DEF HeardFilled, Waiting, Counted
<1>6. ASSUME NEW s \in Signal, PositionCloses(s) PROVE Same
  BY <1>6 DEF PositionCloses, HeardFilled, Waiting, Counted
<1>7. ASSUME NEW s \in Signal, LateFilled(s), heard[s] = "nothing"
      PROVE  /\ s \in Waiting \ HeardFilled
             /\ Waiting' = Waiting \ {s} /\ pending' = Down(pending)
             /\ HeardFilled' = HeardFilled \cup {s} /\ fills' = fills + 1
  <2>1. /\ heard' = [heard EXCEPT ![s] = "filled"] /\ pending' = Down(pending)
        /\ fills' = fills + 1 /\ UNCHANGED <<order, cur>> /\ order[s] = "filled"
    BY <1>7 DEF LateFilled
  <2> QED BY <1>7, <2>1, <1>a DEF HeardFilled, Waiting, Counted
<1>8. ASSUME NEW s \in Signal, LateFailed(s), heard[s] = "nothing"
      PROVE  /\ s \in Waiting \ HeardFilled
             /\ Waiting' = Waiting \ {s} /\ pending' = Down(pending)
             /\ HeardFilled' = HeardFilled /\ fills' = fills
  <2>1. /\ heard' = [heard EXCEPT ![s] = "failed"] /\ pending' = Down(pending)
        /\ fills' = fills /\ UNCHANGED <<order, cur>>
        /\ order[s] \in {"sent", "filled", "failed"}
    BY <1>8 DEF LateFailed
  <2> QED BY <1>8, <2>1, <1>a DEF HeardFilled, Waiting, Counted
<1>9. ASSUME NEW s \in Signal, LateFilled(s) \/ LateFailed(s), heard[s] # "nothing"
      PROVE  Same
  BY <1>9 DEF LateFilled, LateFailed, HeardFilled, Waiting, Counted
<1>10. ASSUME ResetDailyCounters \/ UNCHANGED vars PROVE Same
  BY <1>10 DEF ResetDailyCounters, vars, HeardFilled, Waiting, Counted
<1>11. ASSUME NEW s \in Signal, LateFilled(s) \/ LateFailed(s), heard[s] = "nothing"
       PROVE  \E r \in Waiting \ HeardFilled :
            /\ Waiting' = Waiting \ {r} /\ pending' = Down(pending)
            /\ \/ HeardFilled' = HeardFilled \cup {r} /\ fills' = fills + 1
               \/ HeardFilled' = HeardFilled /\ fills' = fills
  BY <1>7, <1>8, <1>11
<1> HIDE DEF RoutingType, TypeOK, RouterType, OrderType
<1> QED
  BY <1>1, <1>2, <1>3, <1>4, <1>5, <1>6, <1>9, <1>10, <1>11, Zenon DEF Next

LEMMA CounterInvStep == RoutingType /\ CounterInv /\ [Next]_vars => CounterInv'
<1> SUFFICES ASSUME RoutingType, CounterInv, [Next]_vars PROVE CounterInv'
  OBVIOUS
<1>1. /\ fills = Cardinality(HeardFilled) /\ pending <= Cardinality(Waiting)
      /\ pending \in Nat /\ fills \in Nat
  BY CounterInvDef DEF RoutingType, TypeOK, OrderType
<1> SUFFICES /\ fills' = Cardinality(HeardFilled')
             /\ pending' <= Cardinality(Waiting')
  BY CounterInvDef DEF CounterInv, FillsExact, PendingBounded, HeardFilled, Waiting
<1>2. CASE /\ HeardFilled' = HeardFilled /\ fills' = fills
           /\ Waiting' = Waiting /\ pending' \in {pending, 0}
  BY <1>1, <1>2, FiniteHeard
<1>3. ASSUME NEW s \in Signal \ Waiting,
             HeardFilled' = HeardFilled, fills' = fills,
             Waiting' = Waiting \cup {s}, pending' = pending + 1
      PROVE  fills' = Cardinality(HeardFilled') /\ pending' <= Cardinality(Waiting')
  <2>1. Cardinality(Waiting') = Cardinality(Waiting) + 1
    BY <1>3, FiniteHeard, FS_AddElement
  <2> QED BY <1>1, <1>3, <2>1, FiniteHeard
<1>4. ASSUME NEW s \in Waiting \ HeardFilled,
             Waiting' = Waiting \ {s}, pending' = Down(pending),
             \/ HeardFilled' = HeardFilled \cup {s} /\ fills' = fills + 1
             \/ HeardFilled' = HeardFilled /\ fills' = fills
      PROVE  fills' = Cardinality(HeardFilled') /\ pending' <= Cardinality(Waiting')
  <2>1. Cardinality(Waiting') = Cardinality(Waiting) - 1
    BY <1>4, FiniteHeard, FS_RemoveElement
  <2>2. Cardinality(Waiting) # 0
    BY <1>4, FiniteHeard, FS_EmptySet
  <2>3. pending' <= Cardinality(Waiting')
    BY <1>1, <1>4, <2>1, <2>2, FiniteHeard DEF Down
  <2>4. Cardinality(HeardFilled \cup {s}) = Cardinality(HeardFilled) + 1
    BY <1>4, FiniteHeard, FS_AddElement
  <2> QED BY <1>1, <1>4, <2>3, <2>4
<1> QED BY <1>2, <1>3, <1>4, CounterStep

LEMMA CounterInvHolds == Spec => [](RoutingType /\ CounterInv)
<1>1. Init => RoutingType /\ CounterInv
  <2> SUFFICES ASSUME Init PROVE RoutingType /\ CounterInv
    OBVIOUS
  <2>1. HeardFilled = {} /\ Waiting = {} /\ fills = 0 /\ pending = 0
    BY DEF Init, HeardFilled, Waiting, Counted
  <2> QED BY <2>1, RoutingInit, CounterInvDef, FS_EmptySet
<1>2. RoutingType /\ CounterInv /\ [Next]_vars => (RoutingType /\ CounterInv)'
  BY RoutingTypeStep, CounterInvStep
<1> QED BY <1>1, <1>2, PTL DEF Spec

\* health.live_fills counts each order once, however often and in whatever
\* order the feed reports it: the fired flag of _release_late.
THEOREM FillsCountedOnce == Spec => []FillsExact
<1>1. RoutingType /\ CounterInv => FillsExact
  BY DEF CounterInv
<1> QED BY <1>1, CounterInvHolds, PTL

\* signals_pending is never more than the orders that wait for a verdict,
\* although the daily reset zeroes it while orders are under way.
THEOREM PendingNeverTooHigh == Spec => []PendingBounded
<1>1. RoutingType /\ CounterInv => PendingBounded
  BY DEF CounterInv
<1> QED BY <1>1, CounterInvHolds, PTL
=============================================================================
