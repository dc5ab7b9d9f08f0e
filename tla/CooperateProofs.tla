--------------------------- MODULE CooperateProofs ---------------------------
(***************************************************************************)
(* Proofs about Cooperate, for any set of devices and any bounds: what     *)
(* follows from IInv, the refinement of InputRoute, and RelayTimed, which  *)
(* needs RelayInv besides.                                                 *)
(***************************************************************************)
EXTENDS Cooperate, SequenceTheorems, WellFoundedInduction, TLAPS

-----------------------------------------------------------------------------
(* The inductive invariant *)

\* What may be in the lanes and timers of d: nobody asks d to cooperate with
\* itself, directly or through a relay.
EventFor(d) ==
    {e \in Event : /\ e.type = "START_COOPERATE" => e.origin # d
                   /\ e.type = "RELAY_COOPERATE" => e.target # d}

NetOK(n) ==
    /\ n \in [sess : [Device -> SUBSET Device],
              box : [Device -> [Device -> Seq(Event)]],
              faults : 0..MaxFaults]
    /\ \A d, s \in Device : n.box[d][s] \in Seq(EventFor(d))

RoleOK(d, c) ==
    /\ c.step = "RELAY" => c.state = "IN"
    /\ c.capture # None => c.state = "OUT" /\ c.capture = c.peer
    /\ c.inject = (IF c.state = "IN" THEN c.peer ELSE None)
    /\ c.state # "FREE" => c.peer \in Device \ {d}
    /\ c.step = "RELAY" => c.target \in Device \ {d, c.peer}

SpeedOK(d, c) ==
    /\ c.state # "IN" => c.speed = d
    /\ c.origin = d \/ (c.state = "FREE" /\ c.origin = NoSpeed)

PointerOK(d, c) ==
    d \in PointerDevice =>
        /\ c.state = "FREE" /\ ~c.hide => c.visible
        /\ c.state = "OUT" => ~c.visible /\ ~c.hide

ContextOK(d, c) == c \in Context /\ RoleOK(d, c) /\ SpeedOK(d, c) /\ PointerOK(d, c)

TimersOK(d, t) == t \in [TimerId -> EventFor(d) \cup {None}]

IInv ==
    /\ dev \in [Device -> Context]
    /\ \A d \in Device : ContextOK(d, dev[d])
    /\ NetOK(net)
    /\ timers \in [Device -> [TimerId -> Event \cup {None}]]
    /\ \A d \in Device : TimersOK(d, timers[d])
    /\ used \in [start : 0..MaxStarts, event : 0..MaxEvents]

-----------------------------------------------------------------------------
(* Numbers, sequences and sessions *)

\* A set of timer ids that is not empty has a smallest one.
LEMMA SmallestNat ==
    ASSUME NEW S \in SUBSET Nat, S # {}
    PROVE  \E i \in S : \A j \in S : i <= j
<1> DEFINE R == OpToRel(<, Nat)
<1>1. IsWellFoundedOn(R, Nat)
  BY NatLessThanWellFounded
<1>2. \A i, j \in Nat : i < j => <<i, j>> \in R
  BY DEF OpToRel
<1> HIDE DEF R
<1>3. PICK i \in S : \A j \in S : ~(<<j, i>> \in R)
  BY <1>1, WFMin
<1>4. \A j \in S : ~(j < i)
  BY <1>2, <1>3
<1>5. \A j \in S : i <= j
  BY <1>4
<1>6. QED
  BY <1>5

\* A prefix of a lane holds nothing that was not in the lane.
LEMMA TruncatedType ==
    ASSUME NEW S, NEW q \in Seq(S), NEW r \in Truncated(q)
    PROVE  r \in Seq(S)
<1>1. PICK k \in 0..Len(q) : r = SubSeq(q, 1, k)
  BY DEF Truncated
<1>2. \A i \in 1..k : q[i] \in S
  BY <1>1
<1>3. QED
  BY <1>1, <1>2

\* One lane of d may be replaced by events meant for d, whatever happens to
\* the sessions.
LEMMA SessionLaneOK ==
    ASSUME NEW n, NetOK(n), NEW d \in Device, NEW s \in Device, NEW q \in Seq(EventFor(d)),
           NEW ss \in [Device -> SUBSET Device]
    PROVE  NetOK([n EXCEPT !.sess = ss, !.box[d][s] = q])
<1> DEFINE B == [n.box EXCEPT ![d][s] = q]
<1>1. q \in Seq(Event)
  BY DEF EventFor
<1>2. n.box \in [Device -> [Device -> Seq(Event)]]
  BY DEF NetOK
<1>3. B \in [Device -> [Device -> Seq(Event)]]
  BY <1>1, <1>2
<1>4. \A d1, s1 \in Device : B[d1][s1] \in Seq(EventFor(d1))
  BY <1>2 DEF NetOK
<1>5. NetOK([n EXCEPT !.sess = ss, !.box = B])
  BY <1>3, <1>4 DEF NetOK
<1>6. QED
  BY <1>5

LEMMA LaneOK ==
    ASSUME NEW n, NetOK(n), NEW d \in Device, NEW s \in Device, NEW q \in Seq(EventFor(d))
    PROVE  NetOK([n EXCEPT !.box[d][s] = q])
<1>1. n.sess \in [Device -> SUBSET Device]
  BY DEF NetOK
<1>2. NetOK([n EXCEPT !.sess = n.sess, !.box[d][s] = q])
  BY <1>1, SessionLaneOK
<1>3. [n EXCEPT !.sess = n.sess, !.box[d][s] = q] = [n EXCEPT !.box[d][s] = q]
  BY DEF NetOK
<1>4. QED
  BY <1>2, <1>3

\* Posting keeps the lanes well formed.
LEMMA PostedOK ==
    ASSUME NEW n, NetOK(n), NEW d \in Device, NEW s \in Device, NEW e \in EventFor(d)
    PROVE  NetOK(Posted(n, d, s, e)) /\ Posted(n, d, s, e).faults = n.faults
<1>1. Append(n.box[d][s], e) \in Seq(EventFor(d))
  BY DEF NetOK
<1>2. NetOK(Posted(n, d, s, e))
  BY <1>1, LaneOK DEF Posted
<1>3. QED
  BY <1>2 DEF Posted, NetOK

LEMMA FaultOK ==
    ASSUME NEW n, NetOK(n), n.faults < MaxFaults
    PROVE  NetOK(Fault(n))
<1>1. n.faults + 1 \in 0..MaxFaults
  BY BoundAssumption DEF NetOK
<1>2. QED
  BY <1>1 DEF NetOK, Fault

LEMMA CloseSessionOK ==
    ASSUME NEW n, NetOK(n), NEW d \in Device, NEW p \in Device, NEW m \in CloseSession(n, d, p)
    PROVE  NetOK(m) /\ m.faults = n.faults
<1>1. CASE p \notin n.sess[d]
  BY <1>1 DEF CloseSession
<1>2. CASE p \in n.sess[d]
  <2>1. PICK q \in Truncated(n.box[d][p]) :
            m = [n EXCEPT !.sess[d] = @ \ {p}, !.box[d][p] = q]
    BY <1>2 DEF CloseSession
  <2> DEFINE ss == [n.sess EXCEPT ![d] = @ \ {p}]
  <2>2. q \in Seq(EventFor(d))
    BY <2>1, TruncatedType DEF NetOK
  <2>3. ss \in [Device -> SUBSET Device]
    BY DEF NetOK
  <2>4. m = [n EXCEPT !.sess = ss, !.box[d][p] = q]
    BY <2>1
  <2>5. NetOK(m)
    BY <2>2, <2>3, <2>4, SessionLaneOK
  <2>6. m.faults = n.faults
    BY <2>1 DEF NetOK
  <2>7. QED
    BY <2>5, <2>6
<1>3. QED
  BY <1>1, <1>2

LEMMA CloseAllSessionsOK ==
    ASSUME NEW n, NetOK(n), NEW d \in Device, NEW m \in CloseAllSessions(n, d)
    PROVE  NetOK(m) /\ m.faults = n.faults
<1>1. PICK b \in [Device -> UNION {Truncated(n.box[d][s]) : s \in Device}] :
        /\ m = [n EXCEPT !.sess[d] = {}, !.box[d] = b]
        /\ \A s \in Device :
              IF s \in n.sess[d] THEN b[s] \in Truncated(n.box[d][s])
                                 ELSE b[s] = n.box[d][s]
  BY DEF CloseAllSessions
<1>2. \A s \in Device : b[s] \in Seq(Event) /\ b[s] \in Seq(EventFor(d))
  <2>1. TAKE s \in Device
  <2>2. n.box[d][s] \in Seq(Event) /\ n.box[d][s] \in Seq(EventFor(d))
    BY DEF NetOK
  <2>3. CASE s \in n.sess[d]
    BY <1>1, <2>2, <2>3, TruncatedType
  <2>4. CASE s \notin n.sess[d]
    BY <1>1, <2>2, <2>4
  <2>5. QED
    BY <2>3, <2>4
<1>3. b \in [Device -> Seq(Event)]
  BY <1>1, <1>2
<1>4. QED
  BY <1>1, <1>2, <1>3 DEF NetOK

LEMMA OpenSessionOK ==
    ASSUME NEW n, NetOK(n), NEW d \in Device, NEW p \in Device, NEW o \in OpenSession(n, d, p)
    PROVE  NetOK(o.net) /\ o.ok \in BOOLEAN /\ (o.ok => p # d)
<1>1. CASE p = d \/ p \in n.sess[d]
  <2>1. o = [ok |-> p # d, net |-> n]
    BY <1>1 DEF OpenSession
  <2>2. QED
    BY <2>1
<1>2. CASE ~(p = d \/ p \in n.sess[d])
  <2>1. CASE \E q \in IF d \in n.sess[p] THEN Truncated(n.box[p][d]) ELSE {n.box[p][d]} :
                o = [ok |-> TRUE,
                     net |-> [n EXCEPT !.sess[d] = @ \cup {p}, !.sess[p] = @ \cup {d},
                                       !.box[p][d] = q]]
    <3>1. PICK q \in IF d \in n.sess[p] THEN Truncated(n.box[p][d]) ELSE {n.box[p][d]} :
                o = [ok |-> TRUE,
                     net |-> [n EXCEPT !.sess[d] = @ \cup {p}, !.sess[p] = @ \cup {d},
                                       !.box[p][d] = q]]
      BY <2>1
    <3>2. n.box[p][d] \in Seq(Event) /\ n.box[p][d] \in Seq(EventFor(p))
      BY DEF NetOK
    <3>3. q \in Seq(EventFor(p))
      BY <3>1, <3>2, TruncatedType
    <3> DEFINE ss == [n.sess EXCEPT ![d] = @ \cup {p}, ![p] = @ \cup {d}]
    <3>4. ss \in [Device -> SUBSET Device]
      BY DEF NetOK
    <3>5. o.net = [n EXCEPT !.sess = ss, !.box[p][d] = q]
      BY <3>1 DEF NetOK
    <3> HIDE DEF ss
    <3>6. NetOK([n EXCEPT !.sess = ss, !.box[p][d] = q])
      BY <3>3, <3>4, SessionLaneOK
    <3>7. NetOK(o.net)
      BY <3>5, <3>6
    <3>8. QED
      BY <1>2, <3>1, <3>7
  <2>2. CASE n.faults < MaxFaults /\ o = [ok |-> FALSE, net |-> Fault(n)]
    BY <2>2, FaultOK
  <2>3. QED
    BY <1>2, <2>1, <2>2 DEF OpenSession
<1>3. QED
  BY <1>1, <1>2

LEMMA SendPacketOK ==
    ASSUME NEW n, NetOK(n), NEW d \in Device, NEW p \in Device, NEW e \in EventFor(p),
           NEW r \in SendPacket(n, d, p, e)
    PROVE  NetOK(r.net) /\ r.ok \in BOOLEAN
<1>1. SessionClosedEvent(p) \in EventFor(d)
  BY DEF SessionClosedEvent, EventFor, Event
<1>2. CASE r = [ok |-> TRUE, net |-> IF d \in n.sess[p] THEN Posted(n, p, d, e) ELSE n]
  BY <1>2, PostedOK
<1>3. CASE \E m \in CloseSession(n, d, p) :
             r = [ok |-> FALSE, net |-> Posted(m, d, d, SessionClosedEvent(p))]
  BY <1>1, <1>3, CloseSessionOK, PostedOK
<1>4. CASE /\ n.faults < MaxFaults
           /\ \E m \in CloseSession(n, d, p) :
                r = [ok |-> FALSE, net |-> Fault(Posted(m, d, d, SessionClosedEvent(p)))]
  <2>1. PICK m \in CloseSession(n, d, p) :
          r = [ok |-> FALSE, net |-> Fault(Posted(m, d, d, SessionClosedEvent(p)))]
    BY <1>4
  <2>2. NetOK(Posted(m, d, d, SessionClosedEvent(p)))
    BY <1>1, <2>1, CloseSessionOK, PostedOK
  <2>3. Posted(m, d, d, SessionClosedEvent(p)).faults < MaxFaults
    BY <1>4, CloseSessionOK DEF Posted, NetOK
  <2>4. QED
    BY <2>1, <2>2, <2>3, FaultOK
<1>5. QED
  BY <1>2, <1>3, <1>4 DEF SendPacket

LEMMA SendStopOK ==
    ASSUME NEW n, NetOK(n), NEW d \in Device, NEW c, ContextOK(d, c), NEW m \in SendStop(n, d, c)
    PROVE  NetOK(m)
<1>1. CASE c.state = "FREE"
  BY <1>1 DEF SendStop
<1>2. CASE c.state # "FREE"
  <2>1. c.peer \in Device
    BY <1>2 DEF ContextOK, RoleOK
  <2>2. StopCooperateMsg(d) \in EventFor(c.peer)
    BY DEF StopCooperateMsg, EventFor, Event
  <2>3. QED
    BY <1>2, <2>1, <2>2, SendPacketOK DEF SendStop
<1>3. QED
  BY <1>1, <1>2

-----------------------------------------------------------------------------
(* What the handlers do to the context of d *)

\* The contexts c and k differ at most in what the invariant says nothing
\* about: the calls, the switch, the peer's speed and the timer.
Agree(c, k) ==
    /\ k.state = c.state /\ k.step = c.step /\ k.peer = c.peer /\ k.target = c.target
    /\ k.capture = c.capture /\ k.inject = c.inject /\ k.speed = c.speed
    /\ k.origin = c.origin /\ k.hide = c.hide /\ k.visible = c.visible

LEMMA AgreeOK ==
    ASSUME NEW d \in Device, NEW c, ContextOK(d, c), NEW k \in Context, Agree(c, k)
    PROVE  ContextOK(d, k)
BY DEF Agree, ContextOK, RoleOK, SpeedOK, PointerOK

\* What a context in FREE, OUT or IN has to look like.
LEMMA FreeOK ==
    ASSUME NEW d \in Device, NEW k \in Context,
           k.state = "FREE", k.step = "INITIAL", k.capture = None, k.inject = None,
           k.speed = d, k.origin \in {d, NoSpeed},
           d \in PointerDevice => k.hide \/ k.visible
    PROVE  ContextOK(d, k)
BY DEF ContextOK, RoleOK, SpeedOK, PointerOK

LEMMA OutOK ==
    ASSUME NEW d \in Device, NEW k \in Context,
           k.state = "OUT", k.step = "INITIAL", k.peer \in Device \ {d},
           k.capture \in {k.peer, None}, k.inject = None,
           k.speed = d, k.origin = d, ~k.hide, ~k.visible
    PROVE  ContextOK(d, k)
BY DEF ContextOK, RoleOK, SpeedOK, PointerOK

LEMMA InOK ==
    ASSUME NEW d \in Device, NEW k \in Context,
           k.state = "IN", k.peer \in Device \ {d},
           k.step = "RELAY" => k.target \in Device \ {d, k.peer},
           k.capture = None, k.inject = k.peer, k.origin = d
    PROVE  ContextOK(d, k)
BY DEF ContextOK, RoleOK, SpeedOK, PointerOK

\* k is well formed, and the state machine is where it was in c.
Kept(d, c, k) == ContextOK(d, k) /\ k.state = c.state /\ k.step = c.step

LEMMA CallOK ==
    ASSUME NEW d \in Device, NEW c, ContextOK(d, c)
    PROVE  /\ Kept(d, c, StartCooperateCall(c))
           /\ Kept(d, c, StartCooperateFinish(c))
           /\ Kept(d, c, ErrorNotAllowWhenMotionDragging(c))
           /\ \A which \in {"start", "stop"} : Kept(d, c, NeverAnswered(c, which))
           /\ \A speed \in Speed : Kept(d, c, StorePeerSpeed(c, speed))
<1>1. Kept(d, c, StartCooperateCall(c))
  <2>1. StartCooperateCall(c) \in Context
    BY DEF StartCooperateCall, ContextOK, Context
  <2>2. Agree(c, StartCooperateCall(c))
    BY DEF StartCooperateCall, Agree, ContextOK, Context
  <2>3. QED
    BY <2>1, <2>2, AgreeOK DEF Agree, Kept
<1>2. Kept(d, c, StartCooperateFinish(c))
  <2>1. StartCooperateFinish(c) \in Context
    BY DEF StartCooperateFinish, ContextOK, Context
  <2>2. Agree(c, StartCooperateFinish(c))
    BY DEF StartCooperateFinish, Agree, ContextOK, Context
  <2>3. QED
    BY <2>1, <2>2, AgreeOK DEF Agree, Kept
<1>3. Kept(d, c, ErrorNotAllowWhenMotionDragging(c))
  <2>1. ErrorNotAllowWhenMotionDragging(c) \in Context
    BY DEF ErrorNotAllowWhenMotionDragging, ContextOK, Context
  <2>2. Agree(c, ErrorNotAllowWhenMotionDragging(c))
    BY DEF ErrorNotAllowWhenMotionDragging, Agree, ContextOK, Context
  <2>3. QED
    BY <2>1, <2>2, AgreeOK DEF Agree, Kept
<1>4. ASSUME NEW which \in {"start", "stop"}
      PROVE  Kept(d, c, NeverAnswered(c, which))
  <2>1. NeverAnswered(c, which) \in Context
    BY DEF NeverAnswered, ContextOK, Context
  <2>2. Agree(c, NeverAnswered(c, which))
    BY DEF NeverAnswered, Agree, ContextOK, Context
  <2>3. QED
    BY <2>1, <2>2, AgreeOK DEF Agree, Kept
<1>5. ASSUME NEW speed \in Speed
      PROVE  Kept(d, c, StorePeerSpeed(c, speed))
  <2>1. StorePeerSpeed(c, speed) \in Context
    BY DEF StorePeerSpeed, ContextOK, Context
  <2>2. Agree(c, StorePeerSpeed(c, speed))
    BY DEF StorePeerSpeed, Agree, ContextOK, Context
  <2>3. QED
    BY <2>1, <2>2, AgreeOK DEF Agree, Kept
<1>6. QED
  BY <1>1, <1>2, <1>3, <1>4, <1>5

\* A reset context.
LEMMA OnResetOK ==
    ASSUME NEW d \in Device, NEW c, ContextOK(d, c)
    PROVE  /\ ContextOK(d, OnReset(c)) /\ OnReset(c).state = c.state
           /\ ContextOK(d, OnResetWithNotifyMessage(c))
           /\ OnResetWithNotifyMessage(c).state = c.state
           /\ OnResetWithNotifyMessage(c).step = "INITIAL"
<1>1. ASSUME NEW k, ContextOK(d, k)
      PROVE  ContextOK(d, OnReset(k)) /\ OnReset(k).state = k.state /\ OnReset(k).step = "INITIAL"
  <2>1. OnReset(k) \in Context
    BY <1>1 DEF ContextOK, Context, OnReset
  <2>2. RoleOK(d, OnReset(k))
    BY <1>1 DEF ContextOK, Context, RoleOK, OnReset
  <2>3. SpeedOK(d, OnReset(k)) /\ PointerOK(d, OnReset(k))
    BY <1>1 DEF ContextOK, Context, SpeedOK, PointerOK, OnReset
  <2>4. OnReset(k).state = k.state /\ OnReset(k).step = "INITIAL"
    BY <1>1 DEF ContextOK, Context, OnReset
  <2>5. QED
    BY <2>1, <2>2, <2>3, <2>4 DEF ContextOK
<1>2. ContextOK(d, StartCooperateFinish(c)) /\ StartCooperateFinish(c).state = c.state
  BY CallOK DEF Kept
<1>3. QED
  BY <1>1, <1>2 DEF OnResetWithNotifyMessage

\* TransiteTo along the transitions the handlers make.
LEMMA TransiteToFields ==
    ASSUME NEW d \in Device, NEW c \in Context, NEW s \in {"FREE", "OUT", "IN"},
           c.state # s, c.state = "IN" => s = "FREE"
    PROVE  LET k == TransiteTo(d, c, s) IN
           /\ k \in Context
           /\ k.state = s
           /\ k.step = c.step /\ k.peer = c.peer /\ k.target = c.target
           /\ k.capture = c.capture /\ k.inject = c.inject
           /\ k.speed = c.speed /\ k.origin = c.origin /\ k.peerSpeed = c.peerSpeed
           /\ s = "OUT" => ~k.hide /\ ~k.visible
           /\ s = "FREE" /\ d \in PointerDevice => k.hide \/ k.visible
<1> DEFINE v == d \in PointerDevice
           w == ~c.hide /\ v
           u == ~c.hide
<1>1. v \in BOOLEAN
  OBVIOUS
<1>2. w \in BOOLEAN /\ u \in BOOLEAN
  OBVIOUS
<1>3. CASE c.state = "FREE" /\ s = "OUT"
  <2>1. TransiteTo(d, c, s) = [c EXCEPT !.hide = FALSE, !.state = "OUT", !.visible = FALSE]
    BY <1>3 DEF TransiteTo, OnEnterState, OnLeaveState, Context
  <2>2. QED
    BY <1>3, <2>1 DEF Context
<1>4. CASE c.state = "FREE" /\ s = "IN"
  <2>1. TransiteTo(d, c, s) = [c EXCEPT !.hide = FALSE, !.state = "IN", !.visible = TRUE]
    BY <1>4 DEF TransiteTo, OnEnterState, OnLeaveState, Context
  <2>2. QED
    BY <1>4, <2>1 DEF Context
<1>5. CASE c.state = "OUT" /\ s = "FREE"
  <2>1. TransiteTo(d, c, s) = [c EXCEPT !.visible = w, !.state = "FREE"]
    BY <1>5 DEF TransiteTo, OnEnterState, OnLeaveState, Context
  <2>2. d \in PointerDevice => c.hide \/ w
    OBVIOUS
  <2> HIDE DEF w
  <2>3. QED
    BY <1>2, <1>5, <2>1, <2>2 DEF Context
<1>6. CASE c.state = "OUT" /\ s = "IN"
  <2>1. TransiteTo(d, c, s) = [c EXCEPT !.state = "IN", !.visible = u]
    BY <1>6 DEF TransiteTo, OnEnterState, OnLeaveState, Context
  <2> HIDE DEF u
  <2>2. QED
    BY <1>2, <1>6, <2>1 DEF Context
<1>7. CASE c.state = "IN" /\ s = "FREE"
  <2>1. TransiteTo(d, c, s) = [c EXCEPT !.hide = TRUE, !.visible = FALSE, !.state = "FREE"]
    BY <1>7 DEF TransiteTo, OnEnterState, OnLeaveState, Context
  <2>2. QED
    BY <1>7, <2>1 DEF Context
<1>8. QED
  BY <1>3, <1>4, <1>5, <1>6, <1>7 DEF Context

\* A context that has left OUT or IN; its step may still have to be reset.
Released(d, k) ==
    /\ k \in Context
    /\ k.state = "FREE" /\ k.capture = None /\ k.inject = None
    /\ k.speed = d /\ k.origin \in {d, NoSpeed}
    /\ d \in PointerDevice => k.hide \/ k.visible

LEMMA ReleasedOK ==
    ASSUME NEW d \in Device, NEW k, Released(d, k)
    PROVE  /\ k.step = "INITIAL" => ContextOK(d, k)
           /\ ContextOK(d, OnReset(k)) /\ OnReset(k).state = "FREE"
           /\ ContextOK(d, OnResetWithNotifyMessage(k))
           /\ OnResetWithNotifyMessage(k).state = "FREE"
<1>1. ASSUME NEW r, Released(d, r), r.step = "INITIAL"
      PROVE  ContextOK(d, r) /\ r.state = "FREE"
  BY <1>1, FreeOK DEF Released
<1>2. Released(d, OnReset(k)) /\ OnReset(k).step = "INITIAL"
  BY DEF Released, Context, OnReset
<1>3. /\ Released(d, OnResetWithNotifyMessage(k))
      /\ OnResetWithNotifyMessage(k).step = "INITIAL"
  BY DEF Released, Context, OnReset, OnResetWithNotifyMessage, StartCooperateFinish
<1>4. QED
  BY <1>1, <1>2, <1>3

LEMMA TransiteToFree ==
    ASSUME NEW d \in Device, NEW k \in Context,
           k.state # "FREE", k.capture = None, k.inject = None, k.origin = d
    PROVE  LET r == ResetSpeed(TransiteTo(d, k, "FREE")) IN
           Released(d, r) /\ r.step = k.step
<1> DEFINE t == TransiteTo(d, k, "FREE")
<1>1. /\ t \in Context
      /\ t.state = "FREE" /\ t.step = k.step /\ t.capture = None /\ t.inject = None
      /\ t.origin = d
      /\ d \in PointerDevice => t.hide \/ t.visible
  BY TransiteToFields DEF Context
<1> HIDE DEF t
<1> DEFINE r == ResetSpeed(t)
<1>2. r \in Context
  BY <1>1 DEF ResetSpeed, Context, Speed
<1>3. /\ r.state = t.state /\ r.step = t.step /\ r.capture = t.capture /\ r.inject = t.inject
      /\ r.speed = t.origin /\ r.origin = t.origin /\ r.hide = t.hide /\ r.visible = t.visible
  BY <1>1 DEF ResetSpeed, Context
<1> HIDE DEF r
<1>4. Released(d, r) /\ r.step = k.step
  BY <1>1, <1>2, <1>3 DEF Released
<1>5. QED
  BY <1>4 DEF t, r

\* Every StopCooperate releases the device, whatever step it is in.
LEMMA StopCooperateReleases ==
    ASSUME NEW d \in Device, NEW c, ContextOK(d, c)
    PROVE  Released(d, StopCooperate(d, c)) /\ StopCooperate(d, c).step = c.step
<1>1. c \in Context
  BY DEF ContextOK
<1>2. CASE c.state = "FREE"
  BY <1>2 DEF StopCooperate, Released, ContextOK, RoleOK, SpeedOK, PointerOK
<1>3. CASE c.state = "OUT"
  <2> DEFINE k == InterceptorDisable(c)
  <2>1. /\ k \in Context
        /\ k.state # "FREE" /\ k.capture = None /\ k.inject = None /\ k.origin = d
        /\ k.step = c.step
    BY <1>3 DEF InterceptorDisable, ContextOK, Context, RoleOK, SpeedOK
  <2>2. StopCooperate(d, c) = ResetSpeed(TransiteTo(d, k, "FREE"))
    BY <1>3 DEF StopCooperate, OutStopCooperate
  <2> HIDE DEF k
  <2>3. QED
    BY <2>1, <2>2, TransiteToFree
<1>4. CASE c.state = "IN"
  <2> DEFINE k == BuilderDisable(c)
             r == ResetSpeed(TransiteTo(d, k, "FREE"))
             v == d \in PointerDevice
  <2>1. /\ k \in Context
        /\ k.state # "FREE" /\ k.capture = None /\ k.inject = None /\ k.origin = d
        /\ k.step = c.step
    BY <1>4 DEF BuilderDisable, ContextOK, Context, RoleOK, SpeedOK
  <2>2. StopCooperate(d, c) = [r EXCEPT !.visible = v]
    BY <1>4 DEF StopCooperate, InStopCooperate
  <2>3. v \in BOOLEAN
    OBVIOUS
  <2>4. Released(d, r) /\ r.step = c.step
    <3> HIDE DEF k
    <3>1. QED
      BY <2>1, TransiteToFree
  <2>5. v <=> d \in PointerDevice
    OBVIOUS
  <2> HIDE DEF k, r, v
  <2>6. QED
    BY <2>2, <2>3, <2>4, <2>5 DEF Released, Context
<1>5. QED
  BY <1>1, <1>2, <1>3, <1>4 DEF Context

LEMMA StopCooperateOK ==
    ASSUME NEW d \in Device, NEW c, ContextOK(d, c)
    PROVE  /\ c.step = "INITIAL" => ContextOK(d, StopCooperate(d, c))
           /\ StopCooperate(d, c).state = "FREE"
           /\ ContextOK(d, OnReset(StopCooperate(d, c)))
           /\ OnReset(StopCooperate(d, c)).state = "FREE"
           /\ ContextOK(d, OnResetWithNotifyMessage(StopCooperate(d, c)))
           /\ OnResetWithNotifyMessage(StopCooperate(d, c)).state = "FREE"
BY StopCooperateReleases, ReleasedOK DEF Released

-----------------------------------------------------------------------------
(* Handlers: each one gives d a context that is well formed, and leaves the *)
(* network and the timers of d well formed.                                 *)

\* k may follow c: it is well formed, and no handler turns IN into OUT.
Follows(d, c, k) == ContextOK(d, k) /\ (c.state = "IN" => k.state # "OUT")

DevStep(d) == dev' = [dev EXCEPT ![d] = dev'[d]] /\ Follows(d, dev[d], dev'[d])
TimersStep(d) == timers' = [timers EXCEPT ![d] = timers'[d]] /\ TimersOK(d, timers'[d])
HandlerStep(d) == DevStep(d) /\ NetOK(net') /\ TimersStep(d)

LEMMA BecomeOK ==
    ASSUME IInv, NEW d \in Device, NEW k, Follows(d, dev[d], k), Become(d, k)
    PROVE  DevStep(d)
BY DEF IInv, Become, DevStep

LEMMA SameContext ==
    ASSUME IInv, NEW d \in Device, UNCHANGED dev
    PROVE  DevStep(d)
BY DEF IInv, DevStep, Follows

LEMMA SameTimers ==
    ASSUME IInv, NEW d \in Device, UNCHANGED timers
    PROVE  TimersStep(d)
BY DEF IInv, TimersStep

LEMMA AddTimerOK ==
    ASSUME IInv, NEW d \in Device, NEW e \in EventFor(d),
           timers' = [timers EXCEPT ![d] = AddTimer(@, e)]
    PROVE  TimersStep(d)
<1>1. timers \in [Device -> [TimerId -> Event \cup {None}]] /\ TimersOK(d, timers[d])
  BY DEF IInv
<1>2. timers'[d] = AddTimer(timers[d], e)
  BY <1>1
<1>3. TimersOK(d, AddTimer(timers[d], e))
  BY <1>1 DEF AddTimer, TimersOK
<1>4. QED
  BY <1>1, <1>2, <1>3 DEF TimersStep

LEMMA RemoveTimerOK ==
    ASSUME IInv, NEW d \in Device, NEW id,
           timers' = [timers EXCEPT ![d] = RemoveTimer(@, id)]
    PROVE  TimersStep(d)
<1>1. timers \in [Device -> [TimerId -> Event \cup {None}]] /\ TimersOK(d, timers[d])
  BY DEF IInv
<1>2. timers'[d] = RemoveTimer(timers[d], id)
  BY <1>1
<1>3. TimersOK(d, RemoveTimer(timers[d], id))
  BY <1>1 DEF RemoveTimer, TimersOK
<1>4. QED
  BY <1>1, <1>2, <1>3 DEF TimersStep

LEMMA StopNowOK ==
    ASSUME IInv, NEW d \in Device, NEW n, NetOK(n), StopNow(d, n)
    PROVE  HandlerStep(d)
<1>1. ContextOK(d, dev[d])
  BY DEF IInv
<1>2. DevStep(d)
  BY <1>1, StopCooperateOK, BecomeOK DEF Follows, StopNow
<1>3. NetOK(net')
  BY <1>1, SendStopOK DEF StopNow
<1>4. QED
  BY <1>2, <1>3, SameTimers DEF HandlerStep, StopNow

LEMMA OnStopOK ==
    ASSUME IInv, NEW d \in Device, NEW n, NetOK(n),
           NEW unchained \in BOOLEAN, NEW caller \in BOOLEAN, OnStop(d, n, unchained, caller)
    PROVE  HandlerStep(d)
<1> DEFINE c == OnReset(StopCooperate(d, dev[d]))
<1>1. ContextOK(d, dev[d])
  BY DEF IInv
<1>2. Follows(d, dev[d], c) /\ Follows(d, dev[d], NeverAnswered(c, "stop"))
  <2>1. ContextOK(d, c) /\ c.state = "FREE"
    BY <1>1, StopCooperateOK
  <2> HIDE DEF c
  <2>2. ContextOK(d, NeverAnswered(c, "stop")) /\ NeverAnswered(c, "stop").state = "FREE"
    BY <2>1, CallOK DEF Kept
  <2>3. QED
    BY <2>1, <2>2 DEF Follows
<1>3. DevStep(d)
  <2> HIDE DEF c
  <2>1. Become(d, IF caller /\ dev[d].step = "RELAY" THEN NeverAnswered(c, "stop") ELSE c)
    BY DEF OnStop, c
  <2>2. QED
    BY <1>2, <2>1, BecomeOK
<1>4. NetOK(net')
  <2>1. PICK m \in SendStop(n, d, dev[d]) :
          net' \in IF unchained THEN CloseAllSessions(m, d) ELSE {m}
    BY DEF OnStop
  <2>2. NetOK(m)
    BY <1>1, SendStopOK
  <2>3. QED
    BY <2>1, <2>2, CloseAllSessionsOK
<1>5. QED
  BY <1>3, <1>4, SameTimers DEF HandlerStep, OnStop

LEMMA OnPeerGoneOK ==
    ASSUME IInv, NEW d \in Device, NEW n, NetOK(n), NEW p \in Device, OnPeerGone(d, n, p)
    PROVE  HandlerStep(d)
<1> DEFINE c == dev[d]
           k == IF p = c.peer THEN StopCooperate(d, c) ELSE c
<1>1. ContextOK(d, c)
  BY DEF IInv
<1>2. c.step \in {"INITIAL", "RELAY"}
  BY <1>1 DEF ContextOK, Context
<1>3. /\ c.step = "INITIAL" => Follows(d, c, k)
      /\ Follows(d, c, OnResetWithNotifyMessage(k))
  BY <1>1, StopCooperateOK, OnResetOK DEF Follows
<1>4. DevStep(d)
  <2>1. Become(d, IF c.step = "RELAY" THEN OnResetWithNotifyMessage(k) ELSE k)
    BY DEF OnPeerGone
  <2> HIDE DEF k
  <2>2. QED
    BY <1>2, <1>3, <2>1, BecomeOK
<1>5. NetOK(net')
  BY <1>1, SendStopOK DEF OnPeerGone
<1>6. QED
  BY <1>4, <1>5, SameTimers DEF HandlerStep, OnPeerGone

LEMMA FreeOnStartOK ==
    ASSUME IInv, NEW d \in Device, NEW r \in Device, NEW opt \in BOOLEAN, FreeOnStart(d, r, opt)
    PROVE  HandlerStep(d)
<1> DEFINE b == [dev[d] EXCEPT !.peer = r]
           c == StartCooperateCall(b)
           gaveUp == [c EXCEPT !.visible = TRUE]
           Out(k) == OnTransitionOut(TransiteTo(d, StartCooperateFinish(k), "OUT"))
           msg == StartCooperateMsg(d, d, c.speed, opt)
<1>1. ContextOK(d, dev[d]) /\ dev[d].state = "FREE" /\ NetOK(net)
  BY DEF IInv, FreeOnStart
<1>2. ContextOK(d, b) /\ b.state = "FREE" /\ b.peer = r
  <2>1. b \in Context /\ b.state = "FREE" /\ b.peer = r
    BY <1>1 DEF ContextOK, Context
  <2>2. RoleOK(d, b) /\ SpeedOK(d, b) /\ PointerOK(d, b)
    BY <1>1 DEF ContextOK, Context, RoleOK, SpeedOK, PointerOK
  <2>3. QED
    BY <2>1, <2>2 DEF ContextOK
<1>3. ContextOK(d, c) /\ c.state = "FREE" /\ c.peer = r
  <2> HIDE DEF b
  <2>1. ContextOK(d, c)
    BY <1>2, CallOK DEF Kept
  <2>2. c.state = "FREE" /\ c.peer = r
    BY <1>2 DEF StartCooperateCall, ContextOK, Context
  <2>3. QED
    BY <2>1, <2>2
<1>4. ContextOK(d, gaveUp)
  <2> HIDE DEF c
  <2>1. gaveUp \in Context
    BY <1>3 DEF ContextOK, Context
  <2>2. RoleOK(d, gaveUp) /\ SpeedOK(d, gaveUp) /\ PointerOK(d, gaveUp)
    BY <1>3 DEF ContextOK, Context, RoleOK, SpeedOK, PointerOK
  <2>3. QED
    BY <2>1, <2>2 DEF ContextOK
<1>5. ContextOK(d, ErrorNotAllowWhenMotionDragging(c)) /\ ContextOK(d, StartCooperateFinish(c))
  <2> HIDE DEF c
  <2>1. QED
    BY <1>3, CallOK DEF Kept
<1>6. r # d => ContextOK(d, Out(c)) /\ ContextOK(d, Out(InterceptorEnable(c)))
  <2> HIDE DEF c
  <2>1. ASSUME NEW k \in {c, InterceptorEnable(c)}, r # d
        PROVE  ContextOK(d, Out(k))
    <3> DEFINE f == StartCooperateFinish(k)
               t == TransiteTo(d, f, "OUT")
    <3>1. /\ f \in Context /\ f.state = "FREE" /\ f.step = "INITIAL" /\ f.peer = r
          /\ f.capture \in {None, r} /\ f.inject = None /\ f.speed = d
      BY <1>3, <2>1 DEF StartCooperateFinish, InterceptorEnable, ContextOK, Context, RoleOK, SpeedOK
    <3> HIDE DEF f
    <3>2. /\ t \in Context /\ t.state = "OUT" /\ t.step = "INITIAL" /\ t.peer = r
          /\ t.capture \in {None, r} /\ t.inject = None /\ t.speed = d
          /\ ~t.hide /\ ~t.visible
      BY <3>1, TransiteToFields
    <3> HIDE DEF t
    <3> DEFINE o == OnTransitionOut(t)
    <3>3. /\ o \in Context /\ o.state = "OUT" /\ o.step = "INITIAL" /\ o.peer \in Device \ {d}
          /\ o.capture \in {o.peer, None} /\ o.inject = None /\ o.speed = d /\ o.origin = d
          /\ ~o.hide /\ ~o.visible
      BY <2>1, <3>2 DEF OnTransitionOut, Context, Speed
    <3> HIDE DEF o
    <3>4. ContextOK(d, o)
      BY <3>3, OutOK
    <3>5. QED
      BY <3>4 DEF o, t, f
  <2>2. QED
    BY <2>1
<1>7. msg \in EventFor(r) \/ r = d
  BY <1>3 DEF StartCooperateMsg, EventFor, Event, ContextOK, Context
<1>8. TimersStep(d)
  BY SameTimers DEF FreeOnStart
<1>9. CASE Become(d, ErrorNotAllowWhenMotionDragging(c)) /\ UNCHANGED net
  BY <1>1, <1>5, <1>8, <1>9, BecomeOK DEF Follows, HandlerStep
<1>10. ASSUME NEW o \in OpenSession(net, d, r), ~o.ok, Become(d, StartCooperateFinish(c)),
              net' = o.net
       PROVE  HandlerStep(d)
  BY <1>1, <1>5, <1>8, <1>10, BecomeOK, OpenSessionOK DEF Follows, HandlerStep
<1>11. ASSUME NEW o \in OpenSession(net, d, r), MayFail(o.net), Become(d, gaveUp),
              net' = Fault(o.net)
       PROVE  HandlerStep(d)
  <2>1. NetOK(net')
    BY <1>1, <1>11, OpenSessionOK, FaultOK DEF MayFail
  <2>2. QED
    BY <1>1, <1>4, <1>8, <1>11, <2>1, BecomeOK DEF Follows, HandlerStep
<1>12. ASSUME NEW o \in OpenSession(net, d, r), o.ok,
              NEW s \in SendPacket(o.net, d, r, msg),
              \/ Become(d, gaveUp) /\ net' = s.net
              \/ Become(d, Out(InterceptorEnable(c))) /\ net' = s.net
              \/ MayFail(s.net) /\ Become(d, IF opt THEN Out(c) ELSE gaveUp) /\ net' = Fault(s.net)
       PROVE  HandlerStep(d)
  <2>1. r # d /\ NetOK(o.net)
    BY <1>1, <1>12, OpenSessionOK
  <2>2. NetOK(s.net)
    <3> HIDE DEF msg
    <3>1. QED
      BY <1>7, <2>1, SendPacketOK
  <2>3. NetOK(net')
    BY <1>12, <2>2, FaultOK DEF MayFail
  <2>4. DevStep(d)
    <3> HIDE DEF c, Out, gaveUp
    <3>1. \/ Become(d, gaveUp)
          \/ Become(d, Out(InterceptorEnable(c)))
          \/ Become(d, Out(c))
      BY <1>12
    <3>2. QED
      BY <1>1, <1>4, <1>6, <2>1, <3>1, BecomeOK DEF Follows
  <2>5. QED
    BY <1>8, <2>3, <2>4 DEF HandlerStep
<1>13. QED
  BY <1>9, <1>10, <1>11, <1>12 DEF FreeOnStart

\* Leaving IN by switching the builder off.
LEMMA LeaveInReleases ==
    ASSUME NEW d \in Device, NEW c, ContextOK(d, c), c.state = "IN"
    PROVE  LET r == ResetSpeed(TransiteTo(d, BuilderDisable(c), "FREE")) IN
           Released(d, r) /\ r.step = c.step
<1> DEFINE k == BuilderDisable(c)
<1>1. /\ k \in Context
      /\ k.state # "FREE" /\ k.capture = None /\ k.inject = None /\ k.origin = d
      /\ k.step = c.step
  BY DEF BuilderDisable, ContextOK, Context, RoleOK, SpeedOK
<1> HIDE DEF k
<1>2. LET r == ResetSpeed(TransiteTo(d, k, "FREE")) IN Released(d, r) /\ r.step = c.step
  BY <1>1, TransiteToFree
<1>3. QED
  BY <1>2 DEF k

\* The other answers to Start leave the state alone or come back from IN.
LEMMA RefusedStartOK ==
    ASSUME IInv, NEW d \in Device, NEW r \in Device,
           OutOnStart(d) \/ InOnStartRefused(d, r) \/ RelayOnStart(d)
    PROVE  HandlerStep(d)
<1>1. ContextOK(d, dev[d]) /\ NetOK(net)
  BY DEF IInv
<1>2. /\ Follows(d, dev[d], StartCooperateFinish(StartCooperateCall(dev[d])))
      /\ Follows(d, dev[d], NeverAnswered(StartCooperateFinish(dev[d]), "start"))
      /\ Follows(d, dev[d], NeverAnswered(dev[d], "start"))
  BY <1>1, CallOK DEF Kept, Follows
<1>3. DevStep(d)
  BY <1>2, BecomeOK, SameContext DEF OutOnStart, InOnStartRefused, RelayOnStart
<1>4. NetOK(net') /\ TimersStep(d)
  BY <1>1, SameTimers DEF OutOnStart, InOnStartRefused, RelayOnStart
<1>5. QED
  BY <1>3, <1>4 DEF HandlerStep

LEMMA InOnComeBackOK ==
    ASSUME IInv, NEW d \in Device, NEW r \in Device, InOnComeBack(d, r)
    PROVE  HandlerStep(d)
<1> DEFINE b == StartCooperateCall(dev[d])
           c == StartCooperateFinish(BuilderDisable(b))
           k == ResetSpeed(TransiteTo(d, c, "FREE"))
<1>1. ContextOK(d, dev[d]) /\ dev[d].state = "IN" /\ dev[d].step = "INITIAL" /\ NetOK(net)
  BY DEF IInv, InOnComeBack
<1>2. /\ c \in Context
      /\ c.state # "FREE" /\ c.capture = None /\ c.inject = None /\ c.origin = d
      /\ c.step = "INITIAL"
  <2>1. ContextOK(d, b)
    BY <1>1, CallOK DEF Kept
  <2>2. b.state = "IN" /\ b.step = "INITIAL"
    BY <1>1 DEF StartCooperateCall, ContextOK, Context
  <2> HIDE DEF b
  <2>3. QED
    BY <2>1, <2>2 DEF StartCooperateFinish, BuilderDisable, ContextOK, Context, RoleOK, SpeedOK
<1>3. ContextOK(d, k) /\ k.state = "FREE"
  <2> HIDE DEF c
  <2>1. Released(d, k) /\ k.step = "INITIAL"
    BY <1>2, TransiteToFree
  <2> HIDE DEF k
  <2>2. QED
    BY <2>1, ReleasedOK DEF Released
<1>4. Become(d, k)
  BY DEF InOnComeBack
<1>5. DevStep(d)
  <2> HIDE DEF k
  <2>1. QED
    BY <1>3, <1>4, BecomeOK DEF Follows
<1>6. NetOK(net')
  <2>1. ComeBackMsg(d) \in EventFor(r)
    BY DEF ComeBackMsg, EventFor, Event
  <2>2. QED
    BY <1>1, <2>1, SendPacketOK DEF InOnComeBack
<1>7. QED
  BY <1>5, <1>6, SameTimers DEF HandlerStep, InOnComeBack

LEMMA InOnRelayOK ==
    ASSUME IInv, NEW d \in Device, NEW r \in Device, InOnRelay(d, r)
    PROVE  HandlerStep(d)
<1> DEFINE b == StartCooperateCall(dev[d])
           c == [b EXCEPT !.target = r, !.step = "RELAY"]
           timeout == RelayCooperateFinishedMsg(c.peer, FALSE)
<1>1. /\ ContextOK(d, dev[d]) /\ dev[d].state = "IN" /\ NetOK(net)
      /\ r # d /\ r # dev[d].peer
  BY DEF IInv, InOnRelay
<1>2. ContextOK(d, b) /\ b.state = "IN" /\ b.peer = dev[d].peer
  <2>1. ContextOK(d, b)
    BY <1>1, CallOK DEF Kept
  <2>2. b.state = "IN" /\ b.peer = dev[d].peer
    BY <1>1 DEF StartCooperateCall, ContextOK, Context
  <2>3. QED
    BY <2>1, <2>2
<1>3. ContextOK(d, c) /\ c.state = "IN" /\ c.peer = dev[d].peer /\ c.peer \in Device
  <2> HIDE DEF b
  <2>1. c \in Context
    BY <1>2 DEF ContextOK, Context
  <2>2. /\ c.state = "IN" /\ c.step = "RELAY" /\ c.target = r /\ c.peer = b.peer
        /\ c.peer \in Device \ {d} /\ c.capture = None /\ c.inject = c.peer /\ c.origin = d
    BY <1>2 DEF ContextOK, Context, RoleOK, SpeedOK
  <2> HIDE DEF c
  <2>3. QED
    BY <1>1, <1>2, <2>1, <2>2, InOK
<1> HIDE DEF b, c
<1>4. ASSUME NEW id \in TimerId \cup {None}
      PROVE  Follows(d, dev[d], [c EXCEPT !.timerId = id])
  <2>1. [c EXCEPT !.timerId = id] \in Context
    BY <1>3 DEF ContextOK, Context
  <2>2. Agree(c, [c EXCEPT !.timerId = id])
    BY <1>3 DEF Agree, ContextOK, Context
  <2>3. QED
    BY <1>3, <2>1, <2>2, AgreeOK DEF Agree, Follows
<1>5. TakeNextTimerId(timers[d]) \in TimerId \cup {None}
  <2>1. ASSUME FreeTimerIds(timers[d]) # {}
        PROVE  \E i \in FreeTimerIds(timers[d]) : \A j \in FreeTimerIds(timers[d]) : i <= j
    <3>1. FreeTimerIds(timers[d]) \in SUBSET Nat
      BY TimerIdAssumption DEF FreeTimerIds
    <3>2. QED
      BY <2>1, <3>1, SmallestNat
  <2>2. FreeTimerIds(timers[d]) \subseteq TimerId
    BY DEF FreeTimerIds
  <2>3. QED
    BY <2>1, <2>2 DEF TakeNextTimerId
<1>6. ASSUME NEW o \in OpenSession(net, d, r), Become(d, OnResetWithNotifyMessage(c)),
             net' = o.net, UNCHANGED timers
      PROVE  HandlerStep(d)
  <2>1. NetOK(net')
    BY <1>1, <1>6, OpenSessionOK
  <2>2. DevStep(d)
    BY <1>3, <1>6, OnResetOK, BecomeOK DEF Follows
  <2>3. QED
    BY <1>6, <2>1, <2>2, SameTimers DEF HandlerStep
<1>7. ASSUME NEW o \in OpenSession(net, d, r),
             NEW s \in SendPacket(o.net, d, c.peer, RelayCooperateMsg(d, r)), net' = s.net,
             Become(d, [c EXCEPT !.timerId = TakeNextTimerId(timers[d])]),
             timers' = [timers EXCEPT ![d] = AddTimer(@, timeout)]
      PROVE  HandlerStep(d)
  <2>1. NetOK(o.net)
    BY <1>1, OpenSessionOK
  <2>2. RelayCooperateMsg(d, r) \in EventFor(c.peer)
    BY <1>1, <1>3 DEF RelayCooperateMsg, EventFor, Event
  <2>3. NetOK(net')
    BY <1>3, <1>7, <2>1, <2>2, SendPacketOK
  <2>4. DevStep(d)
    BY <1>4, <1>5, <1>7, BecomeOK
  <2>5. timeout \in EventFor(d)
    BY <1>3 DEF RelayCooperateFinishedMsg, EventFor, Event
  <2>6. TimersStep(d)
    <3> HIDE DEF timeout
    <3>1. QED
      BY <1>7, <2>5, AddTimerOK
  <2>7. QED
    BY <2>3, <2>4, <2>6 DEF HandlerStep
<1>8. QED
  BY <1>6, <1>7 DEF InOnRelay, c, b

LEMMA StartOK ==
    ASSUME IInv, NEW d \in Device, NEW r \in Device, NEW opt \in BOOLEAN, Start(d, r, opt)
    PROVE  HandlerStep(d)
BY FreeOnStartOK, RefusedStartOK, InOnComeBackOK, InOnRelayOK DEF Start

LEMMA EnableOK ==
    ASSUME IInv, NEW d \in Device, Enable(d)
    PROVE  HandlerStep(d)
<1> DEFINE c == [dev[d] EXCEPT !.enabled = TRUE]
<1>1. ContextOK(d, dev[d]) /\ NetOK(net)
  BY DEF IInv
<1>2. c \in Context /\ Agree(dev[d], c)
  BY <1>1 DEF ContextOK, Context, Agree
<1>3. Follows(d, dev[d], c) /\ Become(d, c)
  BY <1>1, <1>2, AgreeOK DEF Agree, Follows, Enable
<1>4. DevStep(d)
  <2> HIDE DEF c
  <2>1. QED
    BY <1>3, BecomeOK
<1>5. QED
  BY <1>1, <1>4, SameTimers DEF HandlerStep, Enable

LEMMA DisableOK ==
    ASSUME IInv, NEW d \in Device, Disable(d)
    PROVE  HandlerStep(d)
<1> DEFINE off == [dev[d] EXCEPT !.enabled = FALSE]
           v == d \in PointerDevice
           shown == [off EXCEPT !.visible = v]
<1>1. ContextOK(d, dev[d]) /\ NetOK(net) /\ v \in BOOLEAN
  BY DEF IInv
<1>2. ContextOK(d, off) /\ off.state = dev[d].state /\ off.origin = dev[d].origin
  <2>1. off \in Context /\ Agree(dev[d], off)
    BY <1>1 DEF ContextOK, Context, Agree
  <2>2. QED
    BY <1>1, <2>1, AgreeOK DEF Agree
<1>3. CASE dev[d].state = "FREE"
  <2>1. /\ shown \in Context
        /\ shown.state = "FREE" /\ shown.step = "INITIAL"
        /\ shown.capture = None /\ shown.inject = None
        /\ shown.speed = d /\ shown.origin = dev[d].origin /\ shown.origin \in {d, NoSpeed}
        /\ d \in PointerDevice => shown.visible
    <3>1. v <=> d \in PointerDevice
      OBVIOUS
    <3> HIDE DEF off, v
    <3>2. QED
      BY <1>1, <1>2, <1>3, <3>1 DEF ContextOK, Context, RoleOK, SpeedOK
  <2> HIDE DEF shown
  <2>2. ContextOK(d, shown)
    BY <2>1, FreeOK
  <2>3. dev[d].origin # NoSpeed => ContextOK(d, ResetSpeed(shown))
    <3>1. /\ ResetSpeed(shown) \in Context
          /\ LET k == ResetSpeed(shown) IN
             /\ k.state = "FREE" /\ k.step = "INITIAL" /\ k.capture = None /\ k.inject = None
             /\ k.speed = shown.origin /\ k.origin = shown.origin /\ k.visible = shown.visible
      BY <2>1 DEF ResetSpeed, Context, Speed
    <3>2. QED
      BY <2>1, <3>1, FreeOK
  <2>4. \/ Become(d, off)
        \/ Become(d, shown)
        \/ dev[d].origin # NoSpeed /\ Become(d, ResetSpeed(shown))
    BY <1>3 DEF Disable, shown
  <2> HIDE DEF off
  <2>5. DevStep(d)
    BY <1>2, <1>3, <2>2, <2>3, <2>4, BecomeOK DEF Follows
  <2>6. QED
    BY <1>1, <1>3, <2>5, SameTimers DEF HandlerStep, Disable
<1>4. CASE dev[d].state # "FREE"
  <2>1. Become(d, OnReset(StopCooperate(d, off))) /\ net' \in SendStop(net, d, dev[d])
    BY <1>4 DEF Disable
  <2> HIDE DEF off
  <2>2. DevStep(d)
    BY <1>2, <2>1, StopCooperateOK, BecomeOK DEF Follows
  <2>3. QED
    BY <1>1, <2>1, <2>2, SendStopOK, SameTimers DEF HandlerStep, Disable
<1>5. QED
  BY <1>3, <1>4

LEMMA AppClosedOK ==
    ASSUME IInv, NEW d \in Device, AppClosed(d)
    PROVE  HandlerStep(d)
<1>1. ContextOK(d, dev[d]) /\ NetOK(net) /\ dev[d].step \in {"INITIAL", "RELAY"}
  BY DEF IInv, ContextOK, Context
<1>2. DevStep(d)
  BY <1>1, StopCooperateOK, BecomeOK DEF Follows, AppClosed
<1>3. NetOK(net')
  BY <1>1, CloseAllSessionsOK, SendStopOK DEF AppClosed
<1>4. QED
  BY <1>2, <1>3, SameTimers DEF HandlerStep, AppClosed

LEMMA LocalPointerOK ==
    ASSUME IInv, NEW d \in Device, LocalPointer(d)
    PROVE  HandlerStep(d)
<1> DEFINE c == [dev[d] EXCEPT !.hide = FALSE, !.visible = TRUE]
<1>1. ContextOK(d, dev[d]) /\ NetOK(net)
  BY DEF IInv
<1>2. CASE dev[d].state = "FREE" /\ Become(d, c) /\ UNCHANGED <<net, timers>>
  <2>1. /\ c \in Context
        /\ c.state = "FREE" /\ c.step = "INITIAL" /\ c.capture = None /\ c.inject = None
        /\ c.speed = d /\ c.origin \in {d, NoSpeed} /\ c.visible
    BY <1>1, <1>2 DEF ContextOK, Context, RoleOK, SpeedOK
  <2> HIDE DEF c
  <2>2. ContextOK(d, c)
    BY <2>1, FreeOK
  <2>3. QED
    BY <1>1, <1>2, <2>2, BecomeOK, SameTimers DEF Follows, HandlerStep
<1>3. QED
  BY <1>1, <1>2, StopNowOK DEF LocalPointer

LEMMA HotplugOK ==
    ASSUME IInv, NEW d \in Device, Hotplug(d)
    PROVE  HandlerStep(d)
<1>1. ContextOK(d, dev[d]) /\ NetOK(net) /\ dev[d].step = "INITIAL"
  BY DEF IInv, ContextOK, Context, RoleOK, Hotplug
<1>2. DevStep(d)
  BY <1>1, StopCooperateOK, BecomeOK DEF Follows, Hotplug
<1>3. NetOK(net')
  BY <1>1, SendStopOK DEF Hotplug
<1>4. QED
  BY <1>2, <1>3, SameTimers DEF HandlerStep, Hotplug

LEMMA UserOK ==
    ASSUME IInv, NEW d \in Device, User(d)
    PROVE  HandlerStep(d)
<1>1. NetOK(net)
  BY DEF IInv
<1>2. ASSUME NEW r \in Device, NEW opt \in BOOLEAN, Start(d, r, opt)
      PROVE  HandlerStep(d)
  BY <1>2, StartOK
<1>3. ASSUME NEW unchained \in BOOLEAN, NEW caller \in BOOLEAN, Stop(d, unchained, caller)
      PROVE  HandlerStep(d)
  BY <1>1, <1>3, OnStopOK DEF Stop
<1>4. CASE VirtualTrackpadGone(d)
  BY <1>1, <1>4, StopNowOK DEF VirtualTrackpadGone
<1>5. ASSUME NEW p \in Device, PeerGone(d, p)
      PROVE  HandlerStep(d)
  BY <1>1, <1>5, OnPeerGoneOK DEF PeerGone
<1>6. QED
  BY <1>2, <1>3, <1>4, <1>5, EnableOK, DisableOK, AppClosedOK, LocalPointerOK, HotplugOK
  DEF User

\* Entering IN, with the builder switched to the origin of the START.
LEMMA EnterInOK ==
    ASSUME NEW d \in Device, NEW k \in Context,
           k.state # "IN", k.step = "INITIAL", k.peer \in Device \ {d},
           k.capture = None, k.inject = k.peer, k.speed = d
    PROVE  ContextOK(d, OnTransitionIn(TransiteTo(d, k, "IN")))
<1> DEFINE t == TransiteTo(d, k, "IN")
           r == OnTransitionIn(t)
<1>1. /\ t \in Context
      /\ t.state = "IN" /\ t.step = "INITIAL" /\ t.peer \in Device \ {d}
      /\ t.capture = None /\ t.inject = t.peer /\ t.speed = d
  BY TransiteToFields DEF Context
<1> HIDE DEF t
<1>2. /\ r \in Context
      /\ r.state = "IN" /\ r.step = "INITIAL" /\ r.peer \in Device \ {d}
      /\ r.capture = None /\ r.inject = r.peer /\ r.origin = d
  BY <1>1 DEF OnTransitionIn, Context, Speed
<1> HIDE DEF r
<1>3. ContextOK(d, r)
  BY <1>2, InOK
<1>4. QED
  BY <1>3 DEF r, t

\* What a START for d carries.
LEMMA StartFields ==
    ASSUME NEW d \in Device, NEW e \in EventFor(d), e.type = "START_COOPERATE"
    PROVE  e.from \in Device /\ e.origin \in Device \ {d} /\ e.speed \in Speed /\ e.opt \in BOOLEAN
BY DEF EventFor, Event

LEMMA FreeOnRemoteStartOK ==
    ASSUME IInv, NEW d \in Device, NEW n, NetOK(n), NEW e \in EventFor(d),
           e.type = "START_COOPERATE", FreeOnRemoteStart(d, n, e)
    PROVE  HandlerStep(d)
<1> DEFINE b == StorePeerSpeed(dev[d], e.speed)
           c == BuilderEnable(RemoteStartSuccess(b, e.origin))
<1>1. ContextOK(d, dev[d]) /\ dev[d].state = "FREE"
  BY DEF IInv, FreeOnRemoteStart
<1>2. ContextOK(d, b) /\ b.state = "FREE"
  <2>1. ContextOK(d, b)
    BY <1>1, StartFields, CallOK DEF Kept
  <2>2. b.state = "FREE"
    BY <1>1 DEF StorePeerSpeed, ContextOK, Context
  <2>3. QED
    BY <2>1, <2>2
<1>3. /\ c \in Context
      /\ c.state = "FREE" /\ c.step = "INITIAL" /\ c.peer \in Device \ {d}
      /\ c.capture = None /\ c.inject = c.peer /\ c.speed = d
  <2> HIDE DEF b
  <2>1. QED
    BY <1>2, StartFields
    DEF BuilderEnable, RemoteStartSuccess, ContextOK, Context, RoleOK, SpeedOK
<1>4. Become(d, OnTransitionIn(TransiteTo(d, c, "IN")))
  BY DEF FreeOnRemoteStart
<1> HIDE DEF c
<1>5. DevStep(d)
  BY <1>1, <1>3, <1>4, EnterInOK, BecomeOK DEF Follows
<1>6. QED
  BY <1>5, SameTimers DEF HandlerStep, FreeOnRemoteStart

LEMMA OutOnRemoteStartOK ==
    ASSUME IInv, NEW d \in Device, NEW n, NetOK(n), NEW e \in EventFor(d),
           e.type = "START_COOPERATE", OutOnRemoteStart(d, n, e)
    PROVE  HandlerStep(d)
<1> DEFINE b == InterceptorDisable(ResetSpeed(dev[d]))
           c == BuilderEnable(RemoteStartSuccess(b, e.origin))
<1>1. ContextOK(d, dev[d]) /\ dev[d].state = "OUT"
  BY DEF IInv, OutOnRemoteStart
<1>2. CASE StopNow(d, n)
  BY <1>2, StopNowOK
<1>3. CASE /\ Become(d, OnTransitionIn(TransiteTo(d, c, "IN")))
           /\ net' \in SendStop(n, d, dev[d])
           /\ UNCHANGED timers
  <2>1. /\ b \in Context
        /\ b.state = "OUT" /\ b.step = "INITIAL" /\ b.capture = None /\ b.inject = None
        /\ b.speed = d
    BY <1>1 DEF InterceptorDisable, ResetSpeed, ContextOK, Context, RoleOK, SpeedOK, Speed
  <2>2. /\ c \in Context
        /\ c.state = "OUT" /\ c.step = "INITIAL" /\ c.peer \in Device \ {d}
        /\ c.capture = None /\ c.inject = c.peer /\ c.speed = d
    <3> HIDE DEF b
    <3>1. QED
      BY <2>1, StartFields DEF BuilderEnable, RemoteStartSuccess, Context
  <2> HIDE DEF c
  <2>3. DevStep(d)
    BY <1>1, <1>3, <2>2, EnterInOK, BecomeOK DEF Follows
  <2>4. QED
    BY <1>1, <1>3, <2>3, SendStopOK, SameTimers DEF HandlerStep
<1>4. QED
  BY <1>2, <1>3 DEF OutOnRemoteStart

LEMMA InOnRemoteStartOK ==
    ASSUME IInv, NEW d \in Device, NEW n, NetOK(n), NEW e \in EventFor(d),
           e.type = "START_COOPERATE", InOnRemoteStart(d, n, e)
    PROVE  HandlerStep(d)
<1> DEFINE c == StorePeerSpeed(dev[d], e.speed)
           b == RemoteStartSuccess(ResetSpeed(c), e.origin)
           k == OnTransitionIn(BuilderUpdate(b))
<1>1. ContextOK(d, dev[d]) /\ dev[d].state = "IN" /\ dev[d].step = "INITIAL"
  BY DEF IInv, InOnRemoteStart
<1>2. ContextOK(d, c)
  BY <1>1, StartFields, CallOK DEF Kept
<1>3. c.state = "IN" /\ c.step = "INITIAL"
  BY <1>1 DEF StorePeerSpeed, ContextOK, Context
<1>4. ContextOK(d, k) /\ k.state = "IN"
  <2> HIDE DEF c
  <2>1. /\ b \in Context
        /\ b.state = "IN" /\ b.step = "INITIAL" /\ b.peer \in Device \ {d}
        /\ b.capture = None /\ b.inject # None /\ b.speed = d
    <3>1. /\ c.capture = None /\ c.inject \in Device /\ c.origin = d
      BY <1>2, <1>3 DEF ContextOK, RoleOK, SpeedOK
    <3>2. c \in Context
      BY <1>2 DEF ContextOK
    <3>3. c.inject # None
      BY <3>1, DeviceAssumption
    <3>4. b \in Context
      BY <3>2, StartFields DEF RemoteStartSuccess, ResetSpeed, Context, Speed
    <3>5. QED
      BY <1>3, <3>1, <3>2, <3>3, <3>4, StartFields DEF RemoteStartSuccess, ResetSpeed, Context
  <2> HIDE DEF b
  <2>2. /\ k \in Context
        /\ k.state = "IN" /\ k.step = "INITIAL" /\ k.peer \in Device \ {d}
        /\ k.capture = None /\ k.inject = k.peer /\ k.origin = d
    BY <2>1 DEF BuilderUpdate, OnTransitionIn, Context, Speed
  <2> HIDE DEF k
  <2>3. QED
    BY <2>2, InOK
<1>5. CASE Become(d, c) /\ net' = n
  <2> HIDE DEF c
  <2>1. QED
    BY <1>2, <1>3, <1>5, BecomeOK, SameTimers DEF Follows, HandlerStep, InOnRemoteStart
<1>6. CASE Become(d, k) /\ net' \in SendStop(n, d, dev[d])
  <2> HIDE DEF k
  <2>1. QED
    BY <1>1, <1>4, <1>6, BecomeOK, SendStopOK, SameTimers DEF Follows, HandlerStep, InOnRemoteStart
<1>7. QED
  BY <1>5, <1>6 DEF InOnRemoteStart

LEMMA RelayOnRemoteStartOK ==
    ASSUME IInv, NEW d \in Device, NEW n, NetOK(n), NEW e \in EventFor(d),
           e.type = "START_COOPERATE", RelayOnRemoteStart(d, n, e)
    PROVE  HandlerStep(d)
<1> DEFINE c == StorePeerSpeed(dev[d], e.speed)
<1>1. ContextOK(d, dev[d])
  BY DEF IInv
<1>2. ContextOK(d, c) /\ Follows(d, dev[d], c)
  BY <1>1, StartFields, CallOK DEF Kept, Follows
<1>3. Follows(d, dev[d], OnReset(c)) /\ Follows(d, dev[d], OnResetWithNotifyMessage(c))
  <2> HIDE DEF c
  <2>1. QED
    BY <1>2, OnResetOK DEF Follows
<1>4. DevStep(d)
  <2>1. \/ Become(d, c)
        \/ Become(d, IF e.opt THEN OnReset(c) ELSE OnResetWithNotifyMessage(c))
    BY DEF RelayOnRemoteStart
  <2> HIDE DEF c
  <2>2. QED
    BY <1>2, <1>3, <2>1, BecomeOK
<1>5. NetOK(net') /\ TimersStep(d)
  BY PostedOK, SameTimers, AddTimerOK DEF RelayOnRemoteStart
<1>6. QED
  BY <1>4, <1>5 DEF HandlerStep

LEMMA OnRemoteStartOK ==
    ASSUME IInv, NEW d \in Device, NEW n, NetOK(n), NEW e \in EventFor(d), OnRemoteStart(d, n, e)
    PROVE  HandlerStep(d)
<1>1. CASE RemoteStartRefused(d, n)
  BY <1>1, OnStopOK, FaultOK DEF RemoteStartRefused, MayFail
<1>2. QED
  BY <1>1, FreeOnRemoteStartOK, OutOnRemoteStartOK, InOnRemoteStartOK, RelayOnRemoteStartOK
  DEF OnRemoteStart

LEMMA OnRemoteStopOK ==
    ASSUME IInv, NEW d \in Device, NEW n, NetOK(n), NEW e \in EventFor(d), OnRemoteStop(d, n, e)
    PROVE  HandlerStep(d)
<1> DEFINE c == dev[d]
           off == IF c.state = "OUT" THEN InterceptorDisable(c) ELSE BuilderDisable(c)
           k == ResetSpeed(TransiteTo(d, off, "FREE"))
<1>1. ContextOK(d, c) /\ c.state # "FREE"
  BY DEF IInv, OnRemoteStop
<1>2. CASE c.step = "INITIAL" /\ Become(d, k) /\ net' = n
  <2>1. /\ off \in Context
        /\ off.state # "FREE" /\ off.capture = None /\ off.inject = None /\ off.origin = d
        /\ off.step = "INITIAL"
    BY <1>1, <1>2
    DEF InterceptorDisable, BuilderDisable, ContextOK, Context, RoleOK, SpeedOK
  <2> HIDE DEF off
  <2>2. Released(d, k) /\ k.step = "INITIAL"
    BY <2>1, TransiteToFree
  <2> HIDE DEF k
  <2>3. ContextOK(d, k) /\ k.state = "FREE"
    BY <2>2, ReleasedOK DEF Released
  <2>4. QED
    BY <1>2, <2>3, BecomeOK, SameTimers DEF Follows, HandlerStep, OnRemoteStop
<1>3. CASE Become(d, OnReset(c)) /\ net' = Posted(n, d, d, e)
  BY <1>1, <1>3, OnResetOK, BecomeOK, PostedOK, SameTimers DEF Follows, HandlerStep, OnRemoteStop
<1>4. QED
  BY <1>2, <1>3 DEF OnRemoteStop

LEMMA OnComeBackOK ==
    ASSUME IInv, NEW d \in Device, NEW n, NetOK(n), NEW e \in EventFor(d), OnComeBack(d, n, e)
    PROVE  HandlerStep(d)
<1> DEFINE c == RemoteStartSuccess(InterceptorDisable(dev[d]), e.from)
           k == ResetSpeed(TransiteTo(d, c, "FREE"))
<1>1. ContextOK(d, dev[d]) /\ dev[d].state = "OUT"
  BY DEF IInv, OnComeBack
<1>2. e.from \in Device
  BY DEF EventFor, Event
<1>3. /\ c \in Context
      /\ c.state # "FREE" /\ c.capture = None /\ c.inject = None /\ c.origin = d
      /\ c.step = "INITIAL"
  BY <1>1, <1>2
  DEF InterceptorDisable, RemoteStartSuccess, ContextOK, Context, RoleOK, SpeedOK
<1>4. Become(d, k)
  BY DEF OnComeBack
<1> HIDE DEF c
<1>5. Released(d, k) /\ k.step = "INITIAL"
  BY <1>3, TransiteToFree
<1> HIDE DEF k
<1>6. ContextOK(d, k)
  BY <1>5, ReleasedOK
<1>7. QED
  BY <1>4, <1>6, BecomeOK, SameTimers DEF Follows, HandlerStep, OnComeBack

LEMMA OnRelayOK ==
    ASSUME IInv, NEW d \in Device, NEW n, NetOK(n), NEW e \in EventFor(d), OnRelay(d, n, e)
    PROVE  HandlerStep(d)
<1> DEFINE c == dev[d]
           k == InterceptorUpdate([c EXCEPT !.peer = e.target])
<1>1. ContextOK(d, c) /\ c.state = "OUT"
  BY DEF IInv, OnRelay
<1>2. e.from \in Device /\ e.target \in Device \ {d}
  BY DEF OnRelay, EventFor, Event
<1>3. PICK o \in OpenSession(n, d, e.target) :
        /\ \E s \in SendPacket(o.net, d, e.from, RelayCooperateFinishedMsg(d, o.ok)) : net' = s.net
        /\ Become(d, IF o.ok THEN k ELSE c)
  BY DEF OnRelay
<1>4. NetOK(o.net) /\ o.ok \in BOOLEAN
  BY <1>2, OpenSessionOK
<1>5. RelayCooperateFinishedMsg(d, o.ok) \in EventFor(e.from)
  BY <1>4 DEF RelayCooperateFinishedMsg, EventFor, Event
<1>6. NetOK(net')
  BY <1>2, <1>3, <1>4, <1>5, SendPacketOK
<1>7. ContextOK(d, k)
  <2>1. /\ c \in Context
        /\ c.step = "INITIAL" /\ c.capture \in {c.peer, None} /\ c.inject = None
        /\ c.speed = d /\ c.origin = d
    BY <1>1 DEF ContextOK, Context, RoleOK, SpeedOK
  <2>2. /\ k \in Context
        /\ k.state = "OUT" /\ k.step = "INITIAL" /\ k.peer = e.target
        /\ k.capture \in {k.peer, None} /\ k.inject = None
        /\ k.speed = d /\ k.origin = d /\ k.hide = c.hide /\ k.visible = c.visible
    BY <1>1, <1>2, <2>1 DEF InterceptorUpdate, Context
  <2>3. PointerOK(d, k)
    BY <1>1, <2>2 DEF ContextOK, PointerOK
  <2> HIDE DEF k
  <2>4. QED
    BY <1>2, <2>2, <2>3 DEF ContextOK, RoleOK, SpeedOK
<1>8. DevStep(d)
  <2> HIDE DEF k
  <2>1. QED
    BY <1>1, <1>3, <1>7, BecomeOK DEF Follows
<1>9. QED
  BY <1>6, <1>8, SameTimers DEF HandlerStep, OnRelay

LEMMA OnResponseOK ==
    ASSUME IInv, NEW d \in Device, NEW n, NetOK(n), NEW e \in EventFor(d), OnResponse(d, n, e)
    PROVE  HandlerStep(d)
<1> DEFINE c == dev[d]
           b == StartCooperateFinish(BuilderDisable(c))
           k == ResetSpeed(TransiteTo(d, b, "FREE"))
           start == StartCooperateMsg(d, c.peer, c.speed, FALSE)
<1>1. ContextOK(d, c) /\ c.step = "RELAY" /\ c.state = "IN"
  BY DEF IInv, ContextOK, RoleOK, OnResponse
<1>2. c.peer \in Device /\ c.target \in Device \ {c.peer} /\ c.speed \in Speed
  BY <1>1 DEF ContextOK, Context, RoleOK
<1>3. TimersStep(d)
  BY RemoveTimerOK DEF OnResponse
<1>4. CASE /\ Become(d, OnReset(k))
           /\ \E s \in SendPacket(n, d, c.target, start) : net' = s.net
  <2>1. /\ b \in Context
        /\ b.state # "FREE" /\ b.capture = None /\ b.inject = None /\ b.origin = d
    BY <1>1
    DEF StartCooperateFinish, BuilderDisable, ContextOK, Context, RoleOK, SpeedOK
  <2>2. Released(d, k)
    <3> HIDE DEF b
    <3>1. QED
      BY <2>1, TransiteToFree
  <2>3. start \in EventFor(c.target)
    BY <1>2 DEF StartCooperateMsg, EventFor, Event
  <2> HIDE DEF k, start
  <2>4. DevStep(d)
    BY <1>4, <2>2, ReleasedOK, BecomeOK DEF Follows
  <2>5. NetOK(net')
    BY <1>2, <1>4, <2>3, SendPacketOK
  <2>6. QED
    BY <1>3, <2>4, <2>5 DEF HandlerStep
<1>5. CASE /\ Become(d, StopCooperate(d, OnResetWithNotifyMessage(c)))
           /\ net' \in SendStop(n, d, c)
  <2>1. ContextOK(d, OnResetWithNotifyMessage(c))
    BY <1>1, OnResetOK
  <2>2. OnResetWithNotifyMessage(c).step = "INITIAL"
    BY <1>1 DEF OnResetWithNotifyMessage, StartCooperateFinish, OnReset, ContextOK, Context
  <2>3. Follows(d, c, StopCooperate(d, OnResetWithNotifyMessage(c)))
    BY <2>1, <2>2, StopCooperateOK DEF Follows
  <2>4. QED
    BY <1>1, <1>3, <1>5, <2>3, BecomeOK, SendStopOK DEF HandlerStep
<1>6. QED
  BY <1>4, <1>5 DEF OnResponse

LEMMA DispatchOK ==
    ASSUME IInv, NEW d \in Device, NEW s \in Device, Dispatch(d, s)
    PROVE  HandlerStep(d)
<1> DEFINE q == net.box[d][s]
           e == Head(q)
           n == [net EXCEPT !.box[d][s] = Tail(@)]
<1>1. NetOK(net) /\ q \in Seq(EventFor(d)) /\ q # <<>>
  BY DEF IInv, NetOK, Dispatch
<1>2. e \in EventFor(d) /\ Tail(q) \in Seq(EventFor(d))
  <2> HIDE DEF q
  <2>1. QED
    BY <1>1, HeadTailProperties
<1>3. NetOK([net EXCEPT !.box[d][s] = Tail(q)])
  <2> HIDE DEF q
  <2>1. QED
    BY <1>1, <1>2, LaneOK
<1>4. NetOK(n)
  BY <1>3
<1>5. \/ OnRemoteStart(d, n, e)
      \/ OnRemoteStop(d, n, e)
      \/ OnComeBack(d, n, e)
      \/ OnRelay(d, n, e)
      \/ OnResponse(d, n, e)
      \/ OnSoftbusSessionClosed(d, n, e)
      \/ Unhandled(d, n, e)
  BY DEF Dispatch
<1> HIDE DEF e, n
<1>6. CASE OnSoftbusSessionClosed(d, n, e)
  <2>1. e.from \in Device
    BY <1>2 DEF EventFor, Event
  <2>2. QED
    BY <1>4, <1>6, <2>1, OnPeerGoneOK DEF OnSoftbusSessionClosed
<1>7. CASE Unhandled(d, n, e)
  BY <1>4, <1>7, SameContext, SameTimers DEF Unhandled, HandlerStep
<1>8. QED
  BY <1>2, <1>4, <1>5, <1>6, <1>7, OnRemoteStartOK, OnRemoteStopOK, OnComeBackOK, OnRelayOK,
     OnResponseOK

LEMMA ShutdownOK ==
    ASSUME NEW n, NetOK(n), NEW d \in Device, NEW p \in Device, NEW m \in Shutdown(n, d, p)
    PROVE  NetOK(m)
<1>1. PICK q \in Truncated(n.box[d][p]) :
        m = [n EXCEPT !.sess[d] = @ \ {p}, !.box[d][p] = Append(q, SessionClosedEvent(p))]
  BY DEF Shutdown
<1> DEFINE ss == [n.sess EXCEPT ![d] = @ \ {p}]
           b == Append(q, SessionClosedEvent(p))
<1>2. q \in Seq(EventFor(d))
  BY <1>1, TruncatedType DEF NetOK
<1>3. SessionClosedEvent(p) \in EventFor(d)
  BY DEF SessionClosedEvent, EventFor, Event
<1>4. b \in Seq(EventFor(d))
  BY <1>2, <1>3
<1>5. ss \in [Device -> SUBSET Device]
  BY DEF NetOK
<1>6. m = [n EXCEPT !.sess = ss, !.box[d][p] = b]
  BY <1>1
<1> HIDE DEF ss, b
<1>7. NetOK([n EXCEPT !.sess = ss, !.box[d][p] = b])
  BY <1>4, <1>5, SessionLaneOK
<1>8. QED
  BY <1>6, <1>7

LEMMA FireTimerOK ==
    ASSUME IInv, NEW d \in Device, NEW i \in TimerId, FireTimer(d, i)
    PROVE  HandlerStep(d)
<1>1. /\ timers \in [Device -> [TimerId -> Event \cup {None}]]
      /\ TimersOK(d, timers[d]) /\ NetOK(net)
  BY DEF IInv
<1>2. timers[d][i] \in EventFor(d)
  BY <1>1 DEF TimersOK, FireTimer
<1>3. NetOK(net')
  BY <1>1, <1>2, PostedOK DEF FireTimer
<1>4. TimersStep(d)
  BY <1>1 DEF TimersStep, TimersOK, FireTimer
<1>5. QED
  BY <1>3, <1>4, SameContext DEF HandlerStep, FireTimer

-----------------------------------------------------------------------------
(* The inductive invariant and what follows from it *)

\* A step in which one device's handler runs preserves the invariant.
LEMMA HandlerStepOK ==
    ASSUME IInv, NEW d \in Device, HandlerStep(d),
           used' \in [start : 0..MaxStarts, event : 0..MaxEvents]
    PROVE  IInv'
<1>1. /\ dev \in [Device -> Context] /\ \A x \in Device : ContextOK(x, dev[x])
      /\ timers \in [Device -> [TimerId -> Event \cup {None}]]
      /\ \A x \in Device : TimersOK(x, timers[x])
  BY DEF IInv
<1>2. /\ dev' = [dev EXCEPT ![d] = dev'[d]] /\ ContextOK(d, dev'[d]) /\ dev'[d] \in Context
  BY DEF HandlerStep, DevStep, Follows, ContextOK
<1>3. (dev \in [Device -> Context])' /\ \A x \in Device : ContextOK(x, dev'[x])
  BY <1>1, <1>2
<1>4. /\ timers' = [timers EXCEPT ![d] = timers'[d]] /\ TimersOK(d, timers'[d])
      /\ timers'[d] \in [TimerId -> Event \cup {None}]
  BY DEF HandlerStep, TimersStep, TimersOK, EventFor
<1>5. /\ (timers \in [Device -> [TimerId -> Event \cup {None}]])'
      /\ \A x \in Device : TimersOK(x, timers'[x])
  BY <1>1, <1>4
<1>6. (\A x \in Device : ContextOK(x, dev[x]))' /\ (\A x \in Device : TimersOK(x, timers[x]))'
  BY <1>3, <1>5 DEF ContextOK, RoleOK, SpeedOK, PointerOK, TimersOK, EventFor
<1>7. NetOK(net)'
  BY DEF HandlerStep, NetOK, EventFor
<1>8. QED
  BY <1>3, <1>5, <1>6, <1>7 DEF IInv

LEMMA InitIInv == Init => IInv
<1> SUFFICES ASSUME Init PROVE IInv
  OBVIOUS
<1>1. PICK on \in SUBSET Device :
        dev = [d \in Device |-> [InitContext(d) EXCEPT !.enabled = d \in on]]
  BY DEF Init
<1>2. ASSUME NEW d \in Device
      PROVE  ContextOK(d, dev[d])
  <2> DEFINE v == d \in PointerDevice
             w == d \in on
             k == [state |-> "FREE", step |-> "INITIAL", peer |-> None, target |-> None,
                   capture |-> None, inject |-> None,
                   speed |-> d, origin |-> NoSpeed, peerSpeed |-> NoSpeed,
                   hide |-> FALSE, visible |-> v, enabled |-> w,
                   call |-> "none", lost |-> {}, timerId |-> None]
  <2>1. dev[d] = k
    BY <1>1 DEF InitContext
  <2>2. v \in BOOLEAN /\ w \in BOOLEAN
    OBVIOUS
  <2>3. d \in PointerDevice => k.visible
    OBVIOUS
  <2> HIDE DEF v, w
  <2>4. k \in Context
    BY <2>2 DEF Context, Speed
  <2>5. /\ k.state = "FREE" /\ k.step = "INITIAL" /\ k.capture = None /\ k.inject = None
        /\ k.speed = d /\ k.origin = NoSpeed
    OBVIOUS
  <2> HIDE DEF k
  <2>6. QED
    BY <2>1, <2>3, <2>4, <2>5, FreeOK
<1>3. dev \in [Device -> Context]
  BY <1>1, <1>2 DEF ContextOK
<1>4. NetOK(net)
  <2>1. \A S : <<>> \in Seq(S)
    OBVIOUS
  <2>2. QED
    BY <2>1, BoundAssumption DEF Init, NetOK
<1>5. /\ timers \in [Device -> [TimerId -> Event \cup {None}]]
      /\ \A d \in Device : TimersOK(d, timers[d])
  BY DEF Init, TimersOK
<1>6. used \in [start : 0..MaxStarts, event : 0..MaxEvents]
  BY BoundAssumption DEF Init
<1>7. QED
  BY <1>2, <1>3, <1>4, <1>5, <1>6 DEF IInv

LEMMA NextIInv == IInv /\ [Next]_vars => IInv'
<1> SUFFICES ASSUME IInv, [Next]_vars PROVE IInv'
  OBVIOUS
<1>1. /\ used \in [start : 0..MaxStarts, event : 0..MaxEvents]
      /\ NetOK(net)
  BY DEF IInv
<1>2. (CountStart \/ CountEvent \/ UNCHANGED used)
        => used' \in [start : 0..MaxStarts, event : 0..MaxEvents]
  <2>1. CASE CountStart
    BY <1>1, <2>1, BoundAssumption DEF CountStart
  <2>2. CASE CountEvent
    BY <1>1, <2>2, BoundAssumption DEF CountEvent
  <2>3. QED
    BY <1>1, <2>1, <2>2
<1>3. ASSUME NEW d \in Device, User(d)
      PROVE  IInv'
  <2>1. CountStart \/ CountEvent
    BY <1>3
    DEF User, Start, Stop, Enable, Disable, AppClosed, LocalPointer, Hotplug,
        VirtualTrackpadGone, PeerGone
  <2>2. QED
    BY <1>2, <1>3, <2>1, UserOK, HandlerStepOK
<1>4. ASSUME NEW d \in Device, NEW s \in Device, Dispatch(d, s)
      PROVE  IInv'
  BY <1>2, <1>4, DispatchOK, HandlerStepOK DEF Dispatch
<1>5. ASSUME NEW d \in Device, NEW s \in Device, OnShutdown(d, s) \/ LinkDown(d, s)
      PROVE  IInv'
  <2>1. NetOK(net')
    BY <1>1, <1>5, ShutdownOK, FaultOK DEF OnShutdown, LinkDown, MayFail
  <2>2. UNCHANGED <<dev, timers, used>>
    BY <1>5 DEF OnShutdown, LinkDown
  <2>3. QED
    BY <1>2, <2>1, <2>2, SameContext, SameTimers, HandlerStepOK DEF HandlerStep
<1>6. ASSUME NEW d \in Device, NEW i \in TimerId, FireTimer(d, i)
      PROVE  IInv'
  BY <1>2, <1>6, FireTimerOK, HandlerStepOK DEF FireTimer
<1>7. CASE UNCHANGED vars
  BY <1>7 DEF vars, IInv, ContextOK, RoleOK, SpeedOK, PointerOK, TimersOK, NetOK, EventFor
<1>8. QED
  BY <1>3, <1>4, <1>5, <1>6, <1>7 DEF Next, System

\* The invariant holds in every reachable state.
THEOREM Invariance == Spec => []IInv
BY InitIInv, NextIInv, PTL DEF Spec

\* Everything the plugin stores has its type, for any devices and bounds.
THEOREM TypeCorrect == Spec => []TypeOK
<1>1. IInv => TypeOK
  BY DEF IInv, NetOK, TypeOK
<1>2. QED
  BY <1>1, Invariance, PTL

\* CooperateIn's step is RelayConfirmation only while the state machine is IN.
THEOREM RelayOnlyWhileInHolds == Spec => []RelayOnlyWhileIn
<1>1. IInv => RelayOnlyWhileIn
  BY DEF IInv, ContextOK, RoleOK, RelayOnlyWhileIn
<1>2. QED
  BY <1>1, Invariance, PTL

\* The interceptor's and the builder's copies of the peer agree with Context.
THEOREM InputRoutedHolds == Spec => []InputRouted
<1>1. IInv => InputRouted
  BY DEF IInv, ContextOK, RoleOK, InputRouted
<1>2. QED
  BY <1>1, Invariance, PTL

\* No device cooperates with itself, directly or through a relay.
THEOREM NeverOwnPeerHolds == Spec => []NeverOwnPeer
<1>1. IInv => NeverOwnPeer
  BY DEF IInv, ContextOK, RoleOK, NeverOwnPeer
<1>2. QED
  BY <1>1, Invariance, PTL

\* The user's own pointer speed is back whenever the device is not IN.
THEOREM SpeedRestoredHolds == Spec => []SpeedRestored
<1>1. IInv => SpeedRestored
  BY DEF IInv, ContextOK, SpeedOK, SpeedRestored
<1>2. QED
  BY <1>1, Invariance, PTL

\* A device with a mouse shows its pointer whenever it is FREE and not hiding.
THEOREM PointerShownHolds == Spec => []PointerShown
<1>1. IInv => PointerShown
  BY DeviceAssumption DEF IInv, ContextOK, PointerOK, PointerShown
<1>2. QED
  BY <1>1, Invariance, PTL

-----------------------------------------------------------------------------
(* Refinement: Spec implements InputRoute!Spec *)

LEMMA RouteInit == Init => Route!Init
<1> SUFFICES ASSUME Init PROVE Route!Init
  OBVIOUS
<1>1. \A d \in Device : dev[d].capture = None /\ dev[d].inject = None /\ dev[d].speed = d
  BY DEF Init, InitContext
<1>2. QED
  BY <1>1 DEF Route!Init

\* A handler's step of d changes the route of d alone: it receives, if the
\* builder is on afterwards, sends, if the interceptor is, or is released.
LEMMA RouteStep ==
    ASSUME IInv, NEW d \in Device, DevStep(d)
    PROVE  Route!Next
<1> DEFINE S(x) == {dev[x].capture} \ {None}
           T(x) == {dev[x].inject} \ {None}
           O(x) == dev[x].speed = x
           c == dev[d]
           k == dev'[d]
<1>1. /\ dev \in [Device -> Context] /\ ContextOK(d, c)
      /\ dev' = [dev EXCEPT ![d] = k] /\ ContextOK(d, k)
      /\ c.state = "IN" => k.state # "OUT"
  BY DEF IInv, DevStep, Follows
<1>2. \A x \in Device \ {d} : dev'[x] = dev[x]
  BY <1>1
<1>3. CASE k.state = "IN"
  <2>1. k.inject \in Device \ {d} /\ k.inject # None /\ k.capture = None
    BY <1>1, <1>3, DeviceAssumption DEF ContextOK, RoleOK
  <2>2. PICK p \in Device \ {d} : p = k.inject
    BY <2>1
  <2>3. Route!Receive(d, p)
    <3>1. [x \in Device |-> S(x)]' = [[x \in Device |-> S(x)] EXCEPT ![d] = {}]
      BY <1>2, <2>1, <2>2
    <3>2. [x \in Device |-> T(x)]' = [[x \in Device |-> T(x)] EXCEPT ![d] = {p}]
      BY <1>2, <2>1, <2>2
    <3>3. \E own \in BOOLEAN :
            [x \in Device |-> O(x)]' = [[x \in Device |-> O(x)] EXCEPT ![d] = own]
      <4>1. O(d)' \in BOOLEAN
        OBVIOUS
      <4>2. [x \in Device |-> O(x)]' = [[x \in Device |-> O(x)] EXCEPT ![d] = O(d)']
        BY <1>2
      <4>3. QED
        BY <4>1, <4>2
    <3>4. QED
      BY <3>1, <3>2, <3>3 DEF Route!Receive
  <2>4. QED
    BY <2>3 DEF Route!Next
<1>4. CASE k.state # "IN" /\ k.capture = None
  <2>1. k.inject = None /\ k.speed = d
    BY <1>1, <1>4 DEF ContextOK, RoleOK, SpeedOK
  <2>2. Route!Release(d)
    <3>1. [x \in Device |-> S(x)]' = [[x \in Device |-> S(x)] EXCEPT ![d] = {}]
      BY <1>2, <1>4
    <3>2. [x \in Device |-> T(x)]' = [[x \in Device |-> T(x)] EXCEPT ![d] = {}]
      BY <1>2, <2>1
    <3>3. [x \in Device |-> O(x)]' = [[x \in Device |-> O(x)] EXCEPT ![d] = TRUE]
      BY <1>2, <2>1
    <3>4. QED
      BY <3>1, <3>2, <3>3 DEF Route!Release
  <2>3. QED
    BY <2>2 DEF Route!Next
<1>5. CASE k.state # "IN" /\ k.capture # None
  <2>1. /\ k.capture \in Device \ {d} /\ k.inject = None /\ k.speed = d
        /\ c.inject = None /\ c.speed = d
    BY <1>1, <1>5 DEF ContextOK, RoleOK, SpeedOK
  <2>2. PICK p \in Device \ {d} : p = k.capture
    BY <2>1
  <2>3. Route!Send(d, p)
    <3>1. [x \in Device |-> S(x)]' = [[x \in Device |-> S(x)] EXCEPT ![d] = {p}]
      BY <1>2, <1>5, <2>2
    <3>2. [x \in Device |-> T(x)]' = [x \in Device |-> T(x)]
      BY <1>2, <2>1, <2>2
    <3>3. [x \in Device |-> O(x)]' = [x \in Device |-> O(x)]
      BY <1>2, <2>1, <2>2
    <3>4. [x \in Device |-> T(x)][d] = {}
      BY <2>1
    <3>5. QED
      BY <3>1, <3>2, <3>3, <3>4 DEF Route!Send
  <2>4. QED
    BY <2>3 DEF Route!Next
<1>6. QED
  BY <1>3, <1>4, <1>5

LEMMA RouteNext == IInv /\ [Next]_vars => [Route!Next]_(Route!routes)
<1> SUFFICES ASSUME IInv, [Next]_vars PROVE [Route!Next]_(Route!routes)
  OBVIOUS
<1>1. CASE UNCHANGED dev
  BY <1>1 DEF Route!routes
<1>2. ASSUME NEW d \in Device, User(d)
      PROVE  Route!Next
  BY <1>2, UserOK, RouteStep DEF HandlerStep
<1>3. ASSUME NEW d \in Device, NEW s \in Device, Dispatch(d, s)
      PROVE  Route!Next
  BY <1>3, DispatchOK, RouteStep DEF HandlerStep
<1>4. QED
  BY <1>1, <1>2, <1>3 DEF Next, System, OnShutdown, LinkDown, FireTimer, vars

\* For any devices and bounds, the plugin implements InputRoute: whatever
\* packets, failures and calls there are, one device's input changes hands at a
\* time, and received input is never passed on.
THEOREM Refinement == Spec => ImplementsInputRoute
<1>1. IInv /\ [Next]_vars => [Route!Next]_(Route!routes)
  BY RouteNext
<1>2. QED
  BY <1>1, RouteInit, Invariance, PTL DEF Spec, ImplementsInputRoute, Route!Spec

-----------------------------------------------------------------------------
(* The timeout of a relay                                                  *)

\* What is in the lane of a device to itself: no session is closed on it, so
\* only its own worker takes events from it.
InLane(q, e) == \E k \in DOMAIN q : q[k] = e

NoSelf(n) == \A x \in Device : x \notin n.sess[x]

OwnKept(n, m) ==
    /\ NoSelf(m)
    /\ \A x \in Device : \A e : InLane(n.box[x][x], e) => InLane(m.box[x][x], e)

Timeout(c) == RelayCooperateFinishedMsg(c.peer, FALSE)

LEMMA OwnKeptTransitive ==
    ASSUME NEW n, NEW m, NEW k, OwnKept(n, m), OwnKept(m, k)
    PROVE  OwnKept(n, k)
BY DEF OwnKept

LEMMA AppendInLane ==
    ASSUME NEW S, NEW q \in Seq(S), NEW e, NEW f
    PROVE  /\ InLane(Append(q, e), e)
           /\ InLane(q, f) => InLane(Append(q, e), f)
<1> DEFINE a == Append(q, e)
<1>1. Len(q) \in Nat /\ DOMAIN q = 1..Len(q)
  OBVIOUS
<1>2. DOMAIN a = 1..(Len(q) + 1) /\ a[Len(q) + 1] = e /\ \A k \in 1..Len(q) : a[k] = q[k]
  OBVIOUS
<1> HIDE DEF a
<1>3. InLane(a, e)
  BY <1>1, <1>2 DEF InLane
<1>4. InLane(q, f) => InLane(a, f)
  BY <1>1, <1>2 DEF InLane
<1>5. QED
  BY <1>3, <1>4 DEF a

\* A lane between two devices may change in any way.
LEMMA OtherLane ==
    ASSUME NEW n, NetOK(n), NoSelf(n), NEW d \in Device, NEW s \in Device, d # s, NEW q,
           NEW ss \in [Device -> SUBSET Device], \A x \in Device : x \notin ss[x]
    PROVE  OwnKept(n, [n EXCEPT !.sess = ss, !.box[d][s] = q])
<1> DEFINE m == [n EXCEPT !.sess = ss, !.box[d][s] = q]
<1>1. m.sess = ss /\ \A x \in Device : m.box[x][x] = n.box[x][x]
  BY DEF NetOK
<1>2. QED
  BY <1>1 DEF OwnKept, NoSelf

LEMMA PostedKeeps ==
    ASSUME NEW n, NetOK(n), NoSelf(n), NEW d \in Device, NEW s \in Device, NEW e
    PROVE  /\ OwnKept(n, Posted(n, d, s, e))
           /\ s = d => InLane(Posted(n, d, s, e).box[d][d], e)
<1> DEFINE m == Posted(n, d, s, e)
<1>1. /\ m.sess = n.sess
      /\ \A x \in Device : x # d \/ d # s => m.box[x][x] = n.box[x][x]
      /\ s = d => m.box[d][d] = Append(n.box[d][d], e)
  BY DEF Posted, NetOK
<1>2. n.box[d][d] \in Seq(Event)
  BY DEF NetOK
<1> HIDE DEF m
<1>3. \A f : /\ InLane(Append(n.box[d][d], e), e)
             /\ InLane(n.box[d][d], f) => InLane(Append(n.box[d][d], e), f)
  BY <1>2, AppendInLane
<1>4. OwnKept(n, m) /\ (s = d => InLane(m.box[d][d], e))
  BY <1>1, <1>3 DEF OwnKept, NoSelf
<1>5. QED
  BY <1>4 DEF m

LEMMA FaultKeeps ==
    ASSUME NEW n, NetOK(n), NoSelf(n)
    PROVE  OwnKept(n, Fault(n))
BY DEF OwnKept, NoSelf, Fault, NetOK

LEMMA CloseSessionKeeps ==
    ASSUME NEW n, NetOK(n), NoSelf(n), NEW d \in Device, NEW p \in Device,
           NEW m \in CloseSession(n, d, p)
    PROVE  OwnKept(n, m)
<1>1. CASE p \notin n.sess[d]
  BY <1>1 DEF CloseSession, OwnKept
<1>2. CASE p \in n.sess[d]
  <2>1. PICK q \in Truncated(n.box[d][p]) : m = [n EXCEPT !.sess[d] = @ \ {p}, !.box[d][p] = q]
    BY <1>2 DEF CloseSession
  <2> DEFINE ss == [n.sess EXCEPT ![d] = @ \ {p}]
  <2>2. ss \in [Device -> SUBSET Device] /\ (\A x \in Device : x \notin ss[x]) /\ p # d
    BY <1>2 DEF NetOK, NoSelf
  <2>3. m = [n EXCEPT !.sess = ss, !.box[d][p] = q]
    BY <2>1
  <2> HIDE DEF ss
  <2>4. QED
    BY <2>2, <2>3, OtherLane
<1>3. QED
  BY <1>1, <1>2

LEMMA CloseAllSessionsKeeps ==
    ASSUME NEW n, NetOK(n), NoSelf(n), NEW d \in Device, NEW m \in CloseAllSessions(n, d)
    PROVE  OwnKept(n, m)
<1>1. PICK b \in [Device -> UNION {Truncated(n.box[d][s]) : s \in Device}] :
        /\ m = [n EXCEPT !.sess[d] = {}, !.box[d] = b]
        /\ \A s \in Device : IF s \in n.sess[d] THEN b[s] \in Truncated(n.box[d][s])
                                                ELSE b[s] = n.box[d][s]
  BY DEF CloseAllSessions
<1>2. b[d] = n.box[d][d]
  BY <1>1 DEF NoSelf
<1>3. \A x \in Device : m.box[x][x] = n.box[x][x] /\ m.sess[x] \subseteq n.sess[x]
  BY <1>1, <1>2 DEF NetOK
<1>4. QED
  BY <1>3 DEF OwnKept, NoSelf

LEMMA OpenSessionKeeps ==
    ASSUME NEW n, NetOK(n), NoSelf(n), NEW d \in Device, NEW p \in Device,
           NEW o \in OpenSession(n, d, p)
    PROVE  OwnKept(n, o.net)
<1>1. CASE p = d \/ p \in n.sess[d]
  <2>1. o = [ok |-> p # d, net |-> n]
    BY <1>1 DEF OpenSession
  <2>2. QED
    BY <2>1 DEF OwnKept
<1>2. CASE ~(p = d \/ p \in n.sess[d])
  <2>1. CASE \E q \in IF d \in n.sess[p] THEN Truncated(n.box[p][d]) ELSE {n.box[p][d]} :
               o = [ok |-> TRUE,
                    net |-> [n EXCEPT !.sess[d] = @ \cup {p}, !.sess[p] = @ \cup {d},
                                      !.box[p][d] = q]]
    <3>1. PICK q :
               o = [ok |-> TRUE,
                    net |-> [n EXCEPT !.sess[d] = @ \cup {p}, !.sess[p] = @ \cup {d},
                                      !.box[p][d] = q]]
      BY <2>1
    <3> DEFINE ss == [n.sess EXCEPT ![d] = @ \cup {p}, ![p] = @ \cup {d}]
    <3>2. ss \in [Device -> SUBSET Device] /\ \A x \in Device : x \notin ss[x]
      BY <1>2 DEF NetOK, NoSelf
    <3>3. o.net = [n EXCEPT !.sess = ss, !.box[p][d] = q]
      BY <3>1 DEF NetOK
    <3> HIDE DEF ss
    <3>4. OwnKept(n, [n EXCEPT !.sess = ss, !.box[p][d] = q])
      BY <1>2, <3>2, OtherLane
    <3>5. QED
      BY <3>3, <3>4
  <2>2. CASE o = [ok |-> FALSE, net |-> Fault(n)]
    BY <2>2, FaultKeeps
  <2>3. QED
    BY <1>2, <2>1, <2>2 DEF OpenSession
<1>3. QED
  BY <1>1, <1>2

LEMMA SendPacketKeeps ==
    ASSUME NEW n, NetOK(n), NoSelf(n), NEW d \in Device, NEW p \in Device, NEW e,
           NEW r \in SendPacket(n, d, p, e)
    PROVE  OwnKept(n, r.net)
<1> DEFINE closed(m) == Posted(m, d, d, SessionClosedEvent(p))
<1>1. ASSUME NEW m \in CloseSession(n, d, p)
      PROVE  OwnKept(n, closed(m)) /\ OwnKept(n, Fault(closed(m)))
  <2>1. NetOK(m) /\ OwnKept(n, m) /\ NoSelf(m)
    BY CloseSessionOK, CloseSessionKeeps DEF OwnKept
  <2>2. SessionClosedEvent(p) \in EventFor(d)
    BY DEF SessionClosedEvent, EventFor, Event
  <2>3. NetOK(closed(m)) /\ OwnKept(m, closed(m))
    BY <2>1, <2>2, PostedOK, PostedKeeps
  <2> HIDE DEF closed
  <2>4. OwnKept(n, closed(m))
    BY <2>1, <2>3, OwnKeptTransitive
  <2>5. OwnKept(closed(m), Fault(closed(m)))
    BY <2>3, FaultKeeps DEF OwnKept
  <2>6. QED
    BY <2>4, <2>5, OwnKeptTransitive
<1>2. CASE r = [ok |-> TRUE, net |-> IF d \in n.sess[p] THEN Posted(n, p, d, e) ELSE n]
  <2>1. OwnKept(n, n)
    BY DEF OwnKept
  <2>2. QED
    BY <1>2, <2>1, PostedKeeps
<1>3. CASE \E m \in CloseSession(n, d, p) :
             \/ r = [ok |-> FALSE, net |-> closed(m)]
             \/ r = [ok |-> FALSE, net |-> Fault(closed(m))]
  <2> HIDE DEF closed
  <2>1. QED
    BY <1>1, <1>3
<1>4. QED
  BY <1>2, <1>3 DEF SendPacket

LEMMA SendStopKeeps ==
    ASSUME NEW n, NetOK(n), NoSelf(n), NEW d \in Device, NEW c, ContextOK(d, c),
           NEW m \in SendStop(n, d, c)
    PROVE  OwnKept(n, m)
<1>1. CASE c.state = "FREE"
  BY <1>1 DEF SendStop, OwnKept
<1>2. CASE c.state # "FREE"
  <2>1. c.peer \in Device
    BY <1>2 DEF ContextOK, RoleOK
  <2>2. QED
    BY <1>2, <2>1, SendPacketKeeps DEF SendStop
<1>3. QED
  BY <1>1, <1>2

LEMMA ShutdownKeeps ==
    ASSUME NEW n, NetOK(n), NoSelf(n), NEW d \in Device, NEW p \in n.sess[d],
           NEW m \in Shutdown(n, d, p)
    PROVE  OwnKept(n, m)
<1>1. PICK q : m = [n EXCEPT !.sess[d] = @ \ {p}, !.box[d][p] = q]
  BY DEF Shutdown
<1> DEFINE ss == [n.sess EXCEPT ![d] = @ \ {p}]
<1>2. /\ ss \in [Device -> SUBSET Device] /\ \A x \in Device : x \notin ss[x]
      /\ p \in Device /\ p # d
  BY DEF NetOK, NoSelf
<1>3. m = [n EXCEPT !.sess = ss, !.box[d][p] = q]
  BY <1>1
<1> HIDE DEF ss
<1>4. QED
  BY <1>2, <1>3, OtherLane

-----------------------------------------------------------------------------
(* Handlers: each one keeps what d posted to itself, and the timeout if    *)
(* there is a relay afterwards.                                            *)

\* A relay that d is in after the step was already on, with the same peer and
\* timers, or it has just been given a timer, if there was one to give.
RelayKept(d) ==
    LET c == dev[d]
        k == dev'[d]
    IN  \/ k.step # "RELAY"
        \/ /\ c.step = "RELAY" /\ k.peer = c.peer /\ k.timerId = c.timerId
           /\ \A i \in TimerId : timers[d][i] # None => timers'[d][i] = timers[d][i]
        \/ k.timerId = None
        \/ \E i \in TimerId : timers'[d][i] = Timeout(k)

RelayStep(d, n) == RelayKept(d) /\ OwnKept(n, net')

\* Becoming FREE or OUT ends any relay.
LEMMA RelayOver ==
    ASSUME IInv, NEW d \in Device, NEW k, Become(d, k), HandlerStep(d),
           k.state # "IN" \/ k.step = "INITIAL"
    PROVE  RelayKept(d)
<1>1. dev'[d] = k /\ ContextOK(d, dev'[d])
  BY DEF IInv, Become, HandlerStep, DevStep, Follows
<1>2. k.step # "RELAY"
  BY <1>1 DEF ContextOK, RoleOK
<1>3. QED
  BY <1>1, <1>2 DEF RelayKept

LEMMA RelayGoesOn ==
    ASSUME IInv, NEW d \in Device, NEW k, Become(d, k), UNCHANGED timers,
           k.step = dev[d].step, k.peer = dev[d].peer, k.timerId = dev[d].timerId
    PROVE  RelayKept(d)
<1>1. dev'[d] = k
  BY DEF IInv, Become
<1>2. QED
  BY <1>1 DEF RelayKept

LEMMA SameRelay ==
    ASSUME IInv, NEW d \in Device, UNCHANGED <<dev, timers>>
    PROVE  RelayKept(d)
BY DEF RelayKept

LEMMA SameLanes == ASSUME NEW n, NoSelf(n) PROVE OwnKept(n, n)
BY DEF OwnKept

LEMMA StopNowKeeps ==
    ASSUME IInv, NEW d \in Device, NEW n, NetOK(n), NoSelf(n), StopNow(d, n)
    PROVE  RelayStep(d, n)
<1>1. ContextOK(d, dev[d])
  BY DEF IInv
<1>2. RelayKept(d)
  BY <1>1, StopNowOK, StopCooperateOK, RelayOver DEF StopNow
<1>3. OwnKept(n, net')
  BY <1>1, SendStopKeeps DEF StopNow
<1>4. QED
  BY <1>2, <1>3 DEF RelayStep

LEMMA OnStopKeeps ==
    ASSUME IInv, NEW d \in Device, NEW n, NetOK(n), NoSelf(n),
           NEW unchained \in BOOLEAN, NEW caller \in BOOLEAN, OnStop(d, n, unchained, caller)
    PROVE  RelayStep(d, n)
<1> DEFINE c == OnReset(StopCooperate(d, dev[d]))
<1>1. ContextOK(d, dev[d])
  BY DEF IInv
<1>2. RelayKept(d)
  <2>1. ContextOK(d, c) /\ c.state = "FREE"
    BY <1>1, StopCooperateOK
  <2>2. Become(d, IF caller /\ dev[d].step = "RELAY" THEN NeverAnswered(c, "stop") ELSE c)
    BY DEF OnStop
  <2> HIDE DEF c
  <2>3. NeverAnswered(c, "stop").state = "FREE"
    BY <2>1, CallOK DEF Kept
  <2>4. QED
    BY <2>1, <2>2, <2>3, OnStopOK, RelayOver
<1>3. OwnKept(n, net')
  <2>1. PICK m \in SendStop(n, d, dev[d]) :
          net' \in IF unchained THEN CloseAllSessions(m, d) ELSE {m}
    BY DEF OnStop
  <2>2. NetOK(m) /\ OwnKept(n, m) /\ NoSelf(m)
    BY <1>1, SendStopOK, SendStopKeeps DEF OwnKept
  <2>3. OwnKept(m, net')
    BY <2>1, <2>2, CloseAllSessionsKeeps, SameLanes
  <2>4. QED
    BY <2>2, <2>3, OwnKeptTransitive
<1>4. QED
  BY <1>2, <1>3 DEF RelayStep

LEMMA OnPeerGoneKeeps ==
    ASSUME IInv, NEW d \in Device, NEW n, NetOK(n), NoSelf(n), NEW p \in Device,
           OnPeerGone(d, n, p)
    PROVE  RelayStep(d, n)
<1> DEFINE c == dev[d]
           k == IF p = c.peer THEN StopCooperate(d, c) ELSE c
<1>1. ContextOK(d, c)
  BY DEF IInv
<1>2. RelayKept(d)
  <2>1. Become(d, IF c.step = "RELAY" THEN OnResetWithNotifyMessage(k) ELSE k)
    BY DEF OnPeerGone
  <2>2. CASE p = c.peer
    <3>1. k.state = "FREE" /\ OnResetWithNotifyMessage(k).state = "FREE"
      BY <1>1, <2>2, StopCooperateOK
    <3> HIDE DEF k
    <3>2. QED
      BY <2>1, <3>1, OnPeerGoneOK, RelayOver
  <2>3. CASE p # c.peer
    <3>1. c.step = "RELAY" /\ OnResetWithNotifyMessage(c).step = "INITIAL"
      BY <1>1, <2>3, OnResetOK DEF OnPeerGone, Concerns
    <3>2. Become(d, OnResetWithNotifyMessage(c))
      BY <2>1, <2>3, <3>1
    <3>3. QED
      BY <3>1, <3>2, OnPeerGoneOK, RelayOver
  <2>4. QED
    BY <2>2, <2>3
<1>3. OwnKept(n, net')
  BY <1>1, SendStopKeeps, SameLanes DEF OnPeerGone
<1>4. QED
  BY <1>2, <1>3 DEF RelayStep

LEMMA FreeOnStartKeeps ==
    ASSUME IInv, NoSelf(net), NEW d \in Device, NEW r \in Device, NEW opt \in BOOLEAN,
           FreeOnStart(d, r, opt)
    PROVE  RelayStep(d, net)
<1> DEFINE b == [dev[d] EXCEPT !.peer = r]
           c == StartCooperateCall(b)
           gaveUp == [c EXCEPT !.visible = TRUE]
           Out(k) == OnTransitionOut(TransiteTo(d, StartCooperateFinish(k), "OUT"))
           msg == StartCooperateMsg(d, d, c.speed, opt)
<1>1. /\ ContextOK(d, dev[d]) /\ dev[d].state = "FREE" /\ NetOK(net)
      /\ dev[d] \in Context /\ HandlerStep(d)
  BY FreeOnStartOK DEF IInv, FreeOnStart, ContextOK
<1>2. c \in Context /\ c.state = "FREE"
  BY <1>1 DEF StartCooperateCall, Context
<1>3. /\ gaveUp.state = "FREE" /\ ErrorNotAllowWhenMotionDragging(c).state = "FREE"
      /\ StartCooperateFinish(c).state = "FREE"
  <2> HIDE DEF c
  <2>1. QED
    BY <1>2 DEF ErrorNotAllowWhenMotionDragging, StartCooperateFinish, Context
<1>4. Out(c).state = "OUT" /\ Out(InterceptorEnable(c)).state = "OUT"
  <2> HIDE DEF c
  <2>1. ASSUME NEW k \in {c, InterceptorEnable(c)}
        PROVE  Out(k).state = "OUT"
    <3> DEFINE f == StartCooperateFinish(k)
               t == TransiteTo(d, f, "OUT")
    <3>1. f \in Context /\ f.state = "FREE"
      BY <1>2 DEF StartCooperateFinish, InterceptorEnable, Context
    <3> HIDE DEF f
    <3>2. t \in Context /\ t.state = "OUT"
      BY <3>1, TransiteToFields
    <3> HIDE DEF t
    <3>3. OnTransitionOut(t).state = "OUT"
      BY <3>2 DEF OnTransitionOut, Context
    <3>4. QED
      BY <3>3 DEF t, f
  <2>2. QED
    BY <2>1
<1>5. RelayKept(d)
  <2>1. \/ Become(d, ErrorNotAllowWhenMotionDragging(c)) \/ Become(d, StartCooperateFinish(c))
        \/ Become(d, gaveUp) \/ Become(d, Out(InterceptorEnable(c))) \/ Become(d, Out(c))
    BY DEF FreeOnStart
  <2> HIDE DEF c, gaveUp, Out
  <2>2. QED
    BY <1>1, <1>3, <1>4, <2>1, RelayOver
<1>6. OwnKept(net, net')
  <2>1. CASE UNCHANGED net
    BY <2>1, SameLanes
  <2>2. ASSUME NEW o \in OpenSession(net, d, r), net' = o.net \/ net' = Fault(o.net)
        PROVE  OwnKept(net, net')
    <3>1. NetOK(o.net) /\ OwnKept(net, o.net) /\ NoSelf(o.net)
      BY <1>1, OpenSessionOK, OpenSessionKeeps DEF OwnKept
    <3>2. QED
      BY <2>2, <3>1, FaultKeeps, OwnKeptTransitive
  <2>3. ASSUME NEW o \in OpenSession(net, d, r), o.ok, NEW s \in SendPacket(o.net, d, r, msg),
               net' = s.net \/ net' = Fault(s.net)
        PROVE  OwnKept(net, net')
    <3>1. NetOK(o.net) /\ OwnKept(net, o.net) /\ NoSelf(o.net) /\ r # d
      BY <1>1, <2>3, OpenSessionOK, OpenSessionKeeps DEF OwnKept
    <3>2. msg \in EventFor(r)
      BY <1>2, <3>1 DEF StartCooperateMsg, EventFor, Event, Context
    <3> HIDE DEF msg
    <3>3. NetOK(s.net) /\ OwnKept(o.net, s.net) /\ NoSelf(s.net)
      BY <3>1, <3>2, SendPacketOK, SendPacketKeeps DEF OwnKept
    <3>4. OwnKept(net, s.net)
      BY <3>1, <3>3, OwnKeptTransitive
    <3>5. QED
      BY <2>3, <3>3, <3>4, FaultKeeps, OwnKeptTransitive
  <2>4. QED
    BY <2>1, <2>2, <2>3 DEF FreeOnStart
<1>7. QED
  BY <1>5, <1>6 DEF RelayStep

LEMMA RefusedStartKeeps ==
    ASSUME IInv, NoSelf(net), NEW d \in Device, NEW r \in Device,
           OutOnStart(d) \/ InOnStartRefused(d, r) \/ RelayOnStart(d)
    PROVE  RelayStep(d, net)
<1> DEFINE c == dev[d]
<1>1. c \in Context /\ UNCHANGED <<net, timers>>
  BY DEF IInv, OutOnStart, InOnStartRefused, RelayOnStart
<1>2. ASSUME NEW k \in {StartCooperateFinish(StartCooperateCall(c)),
                        NeverAnswered(StartCooperateFinish(c), "start"),
                        NeverAnswered(c, "start")}
      PROVE  k.step = c.step /\ k.peer = c.peer /\ k.timerId = c.timerId
  <2> HIDE DEF c
  <2>1. QED
    BY <1>1 DEF StartCooperateFinish, StartCooperateCall, NeverAnswered, Context
<1>3. RelayKept(d)
  BY <1>1, <1>2, RelayGoesOn, SameRelay DEF OutOnStart, InOnStartRefused, RelayOnStart
<1>4. QED
  BY <1>1, <1>3, SameLanes DEF RelayStep

LEMMA InOnComeBackKeeps ==
    ASSUME IInv, NoSelf(net), NEW d \in Device, NEW r \in Device, InOnComeBack(d, r)
    PROVE  RelayStep(d, net)
<1> DEFINE b == StartCooperateCall(dev[d])
           c == StartCooperateFinish(BuilderDisable(b))
           k == ResetSpeed(TransiteTo(d, c, "FREE"))
<1>1. ContextOK(d, dev[d]) /\ dev[d].state = "IN" /\ NetOK(net) /\ HandlerStep(d)
  BY InOnComeBackOK DEF IInv, InOnComeBack
<1>2. k.state = "FREE"
  <2>1. ContextOK(d, b) /\ b.state = "IN"
    BY <1>1, CallOK DEF Kept
  <2> HIDE DEF b
  <2>2. /\ c \in Context
        /\ c.state # "FREE" /\ c.capture = None /\ c.inject = None /\ c.origin = d
    BY <2>1 DEF StartCooperateFinish, BuilderDisable, ContextOK, Context, RoleOK, SpeedOK
  <2> HIDE DEF c
  <2>3. QED
    BY <2>2, TransiteToFree DEF Released
<1>3. Become(d, k)
  BY DEF InOnComeBack
<1> HIDE DEF k
<1>4. RelayKept(d)
  BY <1>1, <1>2, <1>3, RelayOver
<1>5. OwnKept(net, net')
  BY <1>1, SendPacketKeeps DEF InOnComeBack
<1>6. QED
  BY <1>4, <1>5 DEF RelayStep

\* A relay is given a timer in a slot that is free, if there is one.
LEMMA TimerAdded ==
    ASSUME NEW t, NEW e, TakeNextTimerId(t) # None
    PROVE  \E i \in TimerId : AddTimer(t, e)[i] = e
<1>1. FreeTimerIds(t) # {}
  BY DEF TakeNextTimerId
<1>2. FreeTimerIds(t) \in SUBSET Nat
  BY TimerIdAssumption DEF FreeTimerIds
<1>3. \E i \in FreeTimerIds(t) : \A j \in FreeTimerIds(t) : i <= j
  BY <1>1, <1>2, SmallestNat
<1>4. TakeNextTimerId(t) \in TimerId
  BY <1>1, <1>3 DEF TakeNextTimerId, FreeTimerIds
<1>5. QED
  BY <1>4 DEF AddTimer

\* A timer that is added takes no other's slot.
LEMMA TimersStay ==
    ASSUME NEW t, NEW e, NEW i \in TimerId, t[i] # None
    PROVE  AddTimer(t, e)[i] = t[i]
<1>1. i \notin FreeTimerIds(t)
  BY DEF FreeTimerIds
<1>2. TakeNextTimerId(t) # i
  <2>1. CASE FreeTimerIds(t) = {}
    BY <2>1, TimerIdAssumption DEF TakeNextTimerId
  <2>2. CASE FreeTimerIds(t) # {}
    <3>1. FreeTimerIds(t) \in SUBSET Nat
      BY TimerIdAssumption DEF FreeTimerIds
    <3>2. \E m \in FreeTimerIds(t) : \A j \in FreeTimerIds(t) : m <= j
      BY <2>2, <3>1, SmallestNat
    <3>3. TakeNextTimerId(t) \in FreeTimerIds(t)
      BY <2>2, <3>2 DEF TakeNextTimerId
    <3>4. QED
      BY <1>1, <3>3
  <2>3. QED
    BY <2>1, <2>2
<1>3. QED
  BY <1>2 DEF AddTimer

LEMMA InOnRelayKeeps ==
    ASSUME IInv, NoSelf(net), NEW d \in Device, NEW r \in Device, InOnRelay(d, r)
    PROVE  RelayStep(d, net)
<1> DEFINE b == StartCooperateCall(dev[d])
           c == [b EXCEPT !.target = r, !.step = "RELAY"]
           timeout == RelayCooperateFinishedMsg(c.peer, FALSE)
           k == [c EXCEPT !.timerId = TakeNextTimerId(timers[d])]
<1>1. /\ ContextOK(d, dev[d]) /\ dev[d].state = "IN" /\ NetOK(net) /\ HandlerStep(d)
      /\ dev \in [Device -> Context] /\ timers \in [Device -> [TimerId -> Event \cup {None}]]
      /\ r # d /\ r # dev[d].peer
  BY InOnRelayOK DEF IInv, InOnRelay
<1>2. c \in Context /\ c.peer = dev[d].peer /\ c.peer \in Device
  BY <1>1 DEF StartCooperateCall, ContextOK, Context, RoleOK
<1>3. ASSUME NEW o \in OpenSession(net, d, r), Become(d, OnResetWithNotifyMessage(c)),
             net' = o.net
      PROVE  RelayStep(d, net)
  <2> HIDE DEF c
  <2>1. OnResetWithNotifyMessage(c).step = "INITIAL"
    BY <1>2 DEF OnResetWithNotifyMessage, StartCooperateFinish, OnReset, Context
  <2>2. RelayKept(d)
    BY <1>1, <1>3, <2>1, RelayOver
  <2>3. QED
    BY <1>1, <1>3, <2>2, OpenSessionKeeps DEF RelayStep
<1>4. ASSUME NEW o \in OpenSession(net, d, r),
             NEW s \in SendPacket(o.net, d, c.peer, RelayCooperateMsg(d, r)), net' = s.net,
             Become(d, k), timers' = [timers EXCEPT ![d] = AddTimer(@, timeout)]
      PROVE  RelayStep(d, net)
  <2> HIDE DEF c
  <2>1. NetOK(o.net) /\ OwnKept(net, o.net) /\ NoSelf(o.net)
    BY <1>1, OpenSessionOK, OpenSessionKeeps DEF OwnKept
  <2>2. OwnKept(o.net, net')
    BY <1>2, <1>4, <2>1, SendPacketKeeps
  <2>3. k.peer = c.peer /\ k.timerId = TakeNextTimerId(timers[d])
    BY <1>2 DEF Context
  <2>4. dev'[d] = k
    BY <1>1, <1>4 DEF Become
  <2>5. timers'[d] = AddTimer(timers[d], timeout)
    BY <1>1, <1>4
  <2>6. Timeout(k) = timeout
    BY <2>3 DEF Timeout
  <2> HIDE DEF k, timeout
  <2>7. RelayKept(d)
    BY <2>3, <2>4, <2>5, <2>6, TimerAdded DEF RelayKept
  <2>8. QED
    BY <2>1, <2>2, <2>7, OwnKeptTransitive DEF RelayStep
<1>5. QED
  BY <1>3, <1>4 DEF InOnRelay

LEMMA EnableKeeps ==
    ASSUME IInv, NoSelf(net), NEW d \in Device, Enable(d)
    PROVE  RelayStep(d, net)
<1> DEFINE k == [dev[d] EXCEPT !.enabled = TRUE]
<1>1. Become(d, k) /\ UNCHANGED <<net, timers>>
  BY DEF Enable
<1>2. k.step = dev[d].step /\ k.peer = dev[d].peer /\ k.timerId = dev[d].timerId
  BY DEF IInv, Context
<1> HIDE DEF k
<1>3. QED
  BY <1>1, <1>2, RelayGoesOn, SameLanes DEF RelayStep

LEMMA DisableKeeps ==
    ASSUME IInv, NoSelf(net), NEW d \in Device, Disable(d)
    PROVE  RelayStep(d, net)
<1> DEFINE off == [dev[d] EXCEPT !.enabled = FALSE]
           v == d \in PointerDevice
           shown == [off EXCEPT !.visible = v]
<1>1. ContextOK(d, dev[d]) /\ NetOK(net) /\ HandlerStep(d) /\ dev[d] \in Context
  BY DisableOK DEF IInv, ContextOK
<1>2. CASE dev[d].state = "FREE"
  <2>1. off.state = "FREE" /\ shown.state = "FREE" /\ ResetSpeed(shown).state = "FREE"
    BY <1>1, <1>2 DEF Context, ResetSpeed
  <2>2. UNCHANGED net /\ (Become(d, off) \/ Become(d, shown) \/ Become(d, ResetSpeed(shown)))
    BY <1>2 DEF Disable, shown
  <2> HIDE DEF off, shown
  <2>3. QED
    BY <1>1, <2>1, <2>2, RelayOver, SameLanes DEF RelayStep
<1>3. CASE dev[d].state # "FREE"
  <2>1. ContextOK(d, off)
    <3>1. off \in Context /\ Agree(dev[d], off)
      BY <1>1 DEF ContextOK, Context, Agree
    <3>2. QED
      BY <1>1, <3>1, AgreeOK
  <2>2. Become(d, OnReset(StopCooperate(d, off))) /\ net' \in SendStop(net, d, dev[d])
    BY <1>3 DEF Disable
  <2> HIDE DEF off
  <2>3. RelayKept(d)
    BY <1>1, <2>1, <2>2, StopCooperateOK, RelayOver
  <2>4. QED
    BY <1>1, <2>2, <2>3, SendStopKeeps DEF RelayStep
<1>4. QED
  BY <1>2, <1>3

LEMMA AppClosedKeeps ==
    ASSUME IInv, NoSelf(net), NEW d \in Device, AppClosed(d)
    PROVE  RelayStep(d, net)
<1>1. ContextOK(d, dev[d]) /\ NetOK(net) /\ HandlerStep(d)
  BY AppClosedOK DEF IInv
<1>2. RelayKept(d)
  BY <1>1, StopCooperateOK, RelayOver DEF AppClosed
<1>3. PICK m \in CloseAllSessions(net, d) : net' \in SendStop(m, d, dev[d])
  BY DEF AppClosed
<1>4. NetOK(m) /\ OwnKept(net, m) /\ NoSelf(m)
  BY <1>1, CloseAllSessionsOK, CloseAllSessionsKeeps DEF OwnKept
<1>5. OwnKept(m, net')
  BY <1>1, <1>3, <1>4, SendStopKeeps
<1>6. QED
  BY <1>2, <1>4, <1>5, OwnKeptTransitive DEF RelayStep

LEMMA LocalPointerKeeps ==
    ASSUME IInv, NoSelf(net), NEW d \in Device, LocalPointer(d)
    PROVE  RelayStep(d, net)
<1> DEFINE k == [dev[d] EXCEPT !.hide = FALSE, !.visible = TRUE]
<1>1. NetOK(net) /\ dev[d] \in Context
  BY DEF IInv
<1>2. CASE Become(d, k) /\ UNCHANGED <<net, timers>>
  <2>1. k.step = dev[d].step /\ k.peer = dev[d].peer /\ k.timerId = dev[d].timerId
    BY <1>1 DEF Context
  <2> HIDE DEF k
  <2>2. QED
    BY <1>2, <2>1, RelayGoesOn, SameLanes DEF RelayStep
<1>3. QED
  BY <1>1, <1>2, StopNowKeeps DEF LocalPointer

LEMMA HotplugKeeps ==
    ASSUME IInv, NoSelf(net), NEW d \in Device, Hotplug(d)
    PROVE  RelayStep(d, net)
<1>1. ContextOK(d, dev[d]) /\ NetOK(net) /\ HandlerStep(d)
  BY HotplugOK DEF IInv
<1>2. RelayKept(d)
  BY <1>1, StopCooperateOK, RelayOver DEF Hotplug
<1>3. PICK m \in SendStop(net, d, dev[d]) :
        net' \in IF d \in PointerDevice THEN {m} ELSE SendStop(m, d, dev[d])
  BY DEF Hotplug
<1>4. NetOK(m) /\ OwnKept(net, m) /\ NoSelf(m)
  BY <1>1, SendStopOK, SendStopKeeps DEF OwnKept
<1>5. OwnKept(m, net')
  BY <1>1, <1>3, <1>4, SendStopKeeps, SameLanes
<1>6. QED
  BY <1>2, <1>4, <1>5, OwnKeptTransitive DEF RelayStep

LEMMA UserKeeps ==
    ASSUME IInv, NoSelf(net), NEW d \in Device, User(d)
    PROVE  RelayStep(d, net)
<1>1. NetOK(net)
  BY DEF IInv
<1>2. ASSUME NEW r \in Device, NEW opt \in BOOLEAN, Start(d, r, opt)
      PROVE  RelayStep(d, net)
  BY <1>2, FreeOnStartKeeps, RefusedStartKeeps, InOnComeBackKeeps, InOnRelayKeeps DEF Start
<1>3. ASSUME NEW unchained \in BOOLEAN, NEW caller \in BOOLEAN, Stop(d, unchained, caller)
      PROVE  RelayStep(d, net)
  BY <1>1, <1>3, OnStopKeeps DEF Stop
<1>4. CASE VirtualTrackpadGone(d)
  BY <1>1, <1>4, StopNowKeeps DEF VirtualTrackpadGone
<1>5. ASSUME NEW p \in Device, PeerGone(d, p)
      PROVE  RelayStep(d, net)
  BY <1>1, <1>5, OnPeerGoneKeeps DEF PeerGone
<1>6. QED
  BY <1>2, <1>3, <1>4, <1>5, EnableKeeps, DisableKeeps, AppClosedKeeps, LocalPointerKeeps,
     HotplugKeeps
  DEF User

\* Whoever enters IN, or stays there with a new peer, is in step INITIAL.
LEMMA EnterInStep ==
    ASSUME NEW d \in Device, NEW k \in Context, k.state # "IN", k.step = "INITIAL"
    PROVE  OnTransitionIn(TransiteTo(d, k, "IN")).step = "INITIAL"
<1> DEFINE t == TransiteTo(d, k, "IN")
<1>1. t \in Context /\ t.step = "INITIAL"
  BY TransiteToFields
<1> HIDE DEF t
<1>2. OnTransitionIn(t).step = "INITIAL"
  BY <1>1 DEF OnTransitionIn, Context
<1>3. QED
  BY <1>2 DEF t

LEMMA OnRemoteStartKeeps ==
    ASSUME IInv, NEW d \in Device, NEW n, NetOK(n), NoSelf(n), NEW e \in EventFor(d),
           OnRemoteStart(d, n, e)
    PROVE  RelayStep(d, n)
<1> DEFINE c == dev[d]
<1>1. ContextOK(d, c) /\ c \in Context /\ HandlerStep(d)
  BY OnRemoteStartOK DEF IInv, ContextOK
<1>2. /\ e.type = "START_COOPERATE" /\ e.from \in Device /\ e.origin \in Device \ {d}
      /\ e.speed \in Speed /\ e.opt \in BOOLEAN
  BY StartFields DEF OnRemoteStart
<1>3. CASE RemoteStartRefused(d, n)
  <2>1. ASSUME MayFail(n), OnStop(d, Fault(n), TRUE, FALSE)
        PROVE  RelayStep(d, n)
    <3>1. NetOK(Fault(n)) /\ OwnKept(n, Fault(n)) /\ NoSelf(Fault(n))
      BY <2>1, FaultOK, FaultKeeps DEF MayFail, OwnKept
    <3>2. RelayStep(d, Fault(n))
      BY <2>1, <3>1, OnStopKeeps
    <3>3. QED
      BY <3>1, <3>2, OwnKeptTransitive DEF RelayStep
  <2>2. QED
    BY <1>3, <2>1, OnStopKeeps DEF RemoteStartRefused
<1>4. CASE FreeOnRemoteStart(d, n, e)
  <2> DEFINE b == BuilderEnable(RemoteStartSuccess(StorePeerSpeed(c, e.speed), e.origin))
  <2>1. c.state = "FREE" /\ c.step = "INITIAL"
    BY <1>1, <1>4 DEF FreeOnRemoteStart, ContextOK, RoleOK, Context
  <2>2. b \in Context /\ b.state = "FREE" /\ b.step = "INITIAL"
    BY <1>1, <1>2, <2>1 DEF BuilderEnable, RemoteStartSuccess, StorePeerSpeed, Context
  <2>3. Become(d, OnTransitionIn(TransiteTo(d, b, "IN"))) /\ net' = n
    BY <1>4 DEF FreeOnRemoteStart
  <2> HIDE DEF b
  <2>4. RelayKept(d)
    BY <1>1, <2>2, <2>3, EnterInStep, RelayOver
  <2>5. QED
    BY <2>3, <2>4, SameLanes DEF RelayStep
<1>5. CASE OutOnRemoteStart(d, n, e)
  <2> DEFINE b == BuilderEnable(RemoteStartSuccess(InterceptorDisable(ResetSpeed(c)), e.origin))
  <2>1. c.state = "OUT" /\ c.step = "INITIAL"
    BY <1>1, <1>5 DEF OutOnRemoteStart, ContextOK, RoleOK, Context
  <2>2. b \in Context /\ b.state = "OUT" /\ b.step = "INITIAL"
    <3> DEFINE f == InterceptorDisable(ResetSpeed(c))
    <3>1. f \in Context /\ f.state = "OUT" /\ f.step = "INITIAL"
      BY <1>1, <2>1 DEF InterceptorDisable, ResetSpeed, Context, Speed
    <3> HIDE DEF f
    <3>2. BuilderEnable(RemoteStartSuccess(f, e.origin)) \in Context
      BY <1>2, <3>1 DEF BuilderEnable, RemoteStartSuccess, Context
    <3>3. /\ BuilderEnable(RemoteStartSuccess(f, e.origin)).state = "OUT"
          /\ BuilderEnable(RemoteStartSuccess(f, e.origin)).step = "INITIAL"
      BY <3>1 DEF BuilderEnable, RemoteStartSuccess, Context
    <3>4. QED
      BY <3>2, <3>3 DEF f
  <2>3. CASE StopNow(d, n)
    BY <2>3, StopNowKeeps
  <2>4. CASE Become(d, OnTransitionIn(TransiteTo(d, b, "IN"))) /\ net' \in SendStop(n, d, c)
    <3> HIDE DEF b
    <3>1. RelayKept(d)
      BY <1>1, <2>2, <2>4, EnterInStep, RelayOver
    <3>2. QED
      BY <1>1, <2>4, <3>1, SendStopKeeps DEF RelayStep
  <2>5. QED
    BY <1>5, <2>3, <2>4 DEF OutOnRemoteStart
<1>6. CASE InOnRemoteStart(d, n, e)
  <2> DEFINE b == StorePeerSpeed(c, e.speed)
             k == OnTransitionIn(BuilderUpdate(RemoteStartSuccess(ResetSpeed(b), e.origin)))
  <2>1. c.step = "INITIAL"
    BY <1>6 DEF InOnRemoteStart
  <2>2. b.step = "INITIAL" /\ k.step = "INITIAL"
    BY <1>1, <2>1
    DEF StorePeerSpeed, ResetSpeed, RemoteStartSuccess, BuilderUpdate, OnTransitionIn, Context
  <2>3. \/ Become(d, b) /\ net' = n
        \/ Become(d, k) /\ net' \in SendStop(n, d, c)
    BY <1>6 DEF InOnRemoteStart
  <2> HIDE DEF b, k
  <2>4. RelayKept(d)
    BY <1>1, <2>2, <2>3, RelayOver
  <2>5. QED
    BY <1>1, <2>3, <2>4, SameLanes, SendStopKeeps DEF RelayStep
<1>7. CASE RelayOnRemoteStart(d, n, e)
  <2> DEFINE b == StorePeerSpeed(c, e.speed)
  <2>1. b \in Context /\ b.step = c.step /\ b.peer = c.peer /\ b.timerId = c.timerId
    BY <1>1, <1>2 DEF StorePeerSpeed, Context
  <2>2. c.step = "RELAY"
    BY <1>7 DEF RelayOnRemoteStart
  <2>3. CASE Become(d, b) /\ net' = n /\ UNCHANGED timers
    <3> HIDE DEF b
    <3>1. QED
      BY <2>1, <2>3, RelayGoesOn, SameLanes DEF RelayStep
  <2>4. CASE /\ Become(d, IF e.opt THEN OnReset(b) ELSE OnResetWithNotifyMessage(b))
             /\ net' = Posted(n, d, d, e)
    <3> HIDE DEF b
    <3>1. OnReset(b).step = "INITIAL" /\ OnResetWithNotifyMessage(b).step = "INITIAL"
      BY <2>1 DEF OnReset, OnResetWithNotifyMessage, StartCooperateFinish, Context
    <3>2. RelayKept(d)
      BY <1>1, <2>4, <3>1, RelayOver
    <3>3. QED
      BY <2>4, <3>2, PostedKeeps DEF RelayStep
  <2>5. CASE /\ Become(d, b) /\ net' = n
             /\ timers' = [timers EXCEPT ![d] = AddTimer(@, e)]
    <3> HIDE DEF b
    <3>1. dev'[d] = b /\ timers'[d] = AddTimer(timers[d], e)
      BY <2>5 DEF IInv, Become
    <3>2. \A i \in TimerId : timers[d][i] # None => timers'[d][i] = timers[d][i]
      BY <3>1, TimersStay
    <3>3. RelayKept(d)
      BY <2>1, <2>2, <3>1, <3>2 DEF RelayKept
    <3>4. QED
      BY <2>5, <3>3, SameLanes DEF RelayStep
  <2>6. QED
    BY <1>7, <2>3, <2>4, <2>5 DEF RelayOnRemoteStart
<1>8. QED
  BY <1>3, <1>4, <1>5, <1>6, <1>7 DEF OnRemoteStart

LEMMA OnRemoteStopKeeps ==
    ASSUME IInv, NEW d \in Device, NEW n, NetOK(n), NoSelf(n), NEW e \in EventFor(d),
           OnRemoteStop(d, n, e)
    PROVE  RelayStep(d, n)
<1> DEFINE c == dev[d]
           off == IF c.state = "OUT" THEN InterceptorDisable(c) ELSE BuilderDisable(c)
           k == ResetSpeed(TransiteTo(d, off, "FREE"))
<1>1. ContextOK(d, c) /\ c.state # "FREE" /\ HandlerStep(d)
  BY OnRemoteStopOK DEF IInv, OnRemoteStop
<1>2. CASE Become(d, k) /\ net' = n
  <2>1. /\ off \in Context
        /\ off.state # "FREE" /\ off.capture = None /\ off.inject = None /\ off.origin = d
    BY <1>1 DEF InterceptorDisable, BuilderDisable, ContextOK, Context, RoleOK, SpeedOK
  <2> HIDE DEF off
  <2>2. k.state = "FREE"
    BY <2>1, TransiteToFree DEF Released
  <2> HIDE DEF k
  <2>3. QED
    BY <1>1, <1>2, <2>2, RelayOver, SameLanes DEF RelayStep
<1>3. CASE Become(d, OnReset(c)) /\ net' = Posted(n, d, d, e)
  <2>1. OnReset(c).step = "INITIAL"
    BY <1>1 DEF ContextOK, Context, OnReset
  <2>2. QED
    BY <1>1, <1>3, <2>1, RelayOver, PostedKeeps DEF RelayStep
<1>4. QED
  BY <1>2, <1>3 DEF OnRemoteStop

LEMMA OnComeBackKeeps ==
    ASSUME IInv, NEW d \in Device, NEW n, NetOK(n), NoSelf(n), NEW e \in EventFor(d),
           OnComeBack(d, n, e)
    PROVE  RelayStep(d, n)
<1> DEFINE c == RemoteStartSuccess(InterceptorDisable(dev[d]), e.from)
           k == ResetSpeed(TransiteTo(d, c, "FREE"))
<1>1. ContextOK(d, dev[d]) /\ dev[d].state = "OUT" /\ HandlerStep(d)
  BY OnComeBackOK DEF IInv, OnComeBack
<1>2. e.from \in Device
  BY DEF EventFor, Event
<1>3. /\ c \in Context
      /\ c.state # "FREE" /\ c.capture = None /\ c.inject = None /\ c.origin = d
  BY <1>1, <1>2
  DEF InterceptorDisable, RemoteStartSuccess, ContextOK, Context, RoleOK, SpeedOK
<1>4. Become(d, k) /\ net' = n
  BY DEF OnComeBack
<1> HIDE DEF c
<1>5. k.state = "FREE"
  BY <1>3, TransiteToFree DEF Released
<1> HIDE DEF k
<1>6. QED
  BY <1>1, <1>4, <1>5, RelayOver, SameLanes DEF RelayStep

LEMMA OnRelayKeeps ==
    ASSUME IInv, NEW d \in Device, NEW n, NetOK(n), NoSelf(n), NEW e \in EventFor(d),
           OnRelay(d, n, e)
    PROVE  RelayStep(d, n)
<1> DEFINE c == dev[d]
           k == InterceptorUpdate([c EXCEPT !.peer = e.target])
<1>1. c \in Context /\ c.state = "OUT" /\ HandlerStep(d)
  BY OnRelayOK DEF IInv, OnRelay
<1>2. e.from \in Device /\ e.target \in Device \ {d}
  BY DEF OnRelay, EventFor, Event
<1>3. PICK o \in OpenSession(n, d, e.target) :
        /\ \E s \in SendPacket(o.net, d, e.from, RelayCooperateFinishedMsg(d, o.ok)) : net' = s.net
        /\ Become(d, IF o.ok THEN k ELSE c)
  BY DEF OnRelay
<1>4. NetOK(o.net) /\ OwnKept(n, o.net) /\ NoSelf(o.net)
  BY <1>2, OpenSessionOK, OpenSessionKeeps DEF OwnKept
<1>5. OwnKept(o.net, net')
  BY <1>2, <1>3, <1>4, SendPacketKeeps
<1>6. k.state = "OUT"
  BY <1>1 DEF InterceptorUpdate, Context
<1> HIDE DEF k
<1>7. RelayKept(d)
  BY <1>1, <1>3, <1>6, RelayOver
<1>8. QED
  BY <1>4, <1>5, <1>7, OwnKeptTransitive DEF RelayStep

LEMMA OnResponseKeeps ==
    ASSUME IInv, NEW d \in Device, NEW n, NetOK(n), NoSelf(n), NEW e \in EventFor(d),
           OnResponse(d, n, e)
    PROVE  RelayStep(d, n) /\ dev'[d].step = "INITIAL"
<1> DEFINE c == dev[d]
           b == StartCooperateFinish(BuilderDisable(c))
           k == ResetSpeed(TransiteTo(d, b, "FREE"))
<1>1. /\ ContextOK(d, c) /\ c.step = "RELAY" /\ c.state = "IN" /\ HandlerStep(d)
      /\ dev \in [Device -> Context]
  BY OnResponseOK DEF IInv, ContextOK, RoleOK, OnResponse
<1>2. c.peer \in Device /\ c.target \in Device
  BY <1>1 DEF ContextOK, Context, RoleOK
<1>3. ContextOK(d, dev'[d])
  BY <1>1 DEF HandlerStep, DevStep, Follows
<1>4. CASE /\ Become(d, OnReset(k))
           /\ \E s \in SendPacket(n, d, c.target, StartCooperateMsg(d, c.peer, c.speed, FALSE)) :
                net' = s.net
  <2>1. /\ b \in Context
        /\ b.state # "FREE" /\ b.capture = None /\ b.inject = None /\ b.origin = d
    BY <1>1
    DEF StartCooperateFinish, BuilderDisable, ContextOK, Context, RoleOK, SpeedOK
  <2> HIDE DEF b
  <2>2. Released(d, k)
    BY <2>1, TransiteToFree
  <2> HIDE DEF k
  <2>3. OnReset(k).state = "FREE"
    BY <2>2, ReleasedOK
  <2>4. RelayKept(d) /\ dev'[d].state = "FREE"
    BY <1>1, <1>4, <2>3, RelayOver DEF Become
  <2>5. dev'[d].step = "INITIAL"
    BY <1>3, <2>4 DEF ContextOK, Context, RoleOK
  <2>6. OwnKept(n, net')
    BY <1>2, <1>4, SendPacketKeeps
  <2>7. QED
    BY <2>4, <2>5, <2>6 DEF RelayStep
<1>5. CASE /\ Become(d, StopCooperate(d, OnResetWithNotifyMessage(c)))
           /\ net' \in SendStop(n, d, c)
  <2>1. StopCooperate(d, OnResetWithNotifyMessage(c)).state = "FREE"
    BY <1>1, OnResetOK, StopCooperateOK
  <2>2. RelayKept(d) /\ dev'[d].state = "FREE"
    BY <1>1, <1>5, <2>1, RelayOver DEF Become
  <2>3. dev'[d].step = "INITIAL"
    BY <1>3, <2>2 DEF ContextOK, Context, RoleOK
  <2>4. QED
    BY <1>1, <1>5, <2>2, <2>3, SendStopKeeps DEF RelayStep
<1>6. QED
  BY <1>4, <1>5 DEF OnResponse

\* Taking an event from a lane of d costs d no other event of its own lane.
LEMMA TakenKeeps ==
    ASSUME NEW d \in Device, NEW s \in Device, NetOK(net), net.box[d][s] # <<>>,
           NEW f, InLane(net.box[d][d], f), s # d \/ f # Head(net.box[d][s])
    PROVE  InLane([net EXCEPT !.box[d][s] = Tail(@)].box[d][d], f)
<1> DEFINE n == [net EXCEPT !.box[d][s] = Tail(@)]
           q == net.box[d][s]
<1>1. net.box \in [Device -> [Device -> Seq(Event)]]
  BY DEF NetOK
<1>2. CASE s # d
  BY <1>1, <1>2 DEF NetOK
<1>3. CASE s = d
  <2>1. n.box[d][d] = Tail(q)
    BY <1>1, <1>3 DEF NetOK
  <2>2. q \in Seq(Event) /\ q # <<>> /\ InLane(q, f) /\ f # Head(q)
    BY <1>1, <1>3
  <2> HIDE DEF n, q
  <2>3. /\ Len(q) \in Nat \ {0} /\ DOMAIN q = 1..Len(q) /\ Head(q) = q[1]
        /\ DOMAIN Tail(q) = 1..(Len(q) - 1)
        /\ \A k \in 1..(Len(q) - 1) : Tail(q)[k] = q[k + 1]
    BY <2>2
  <2>4. PICK k \in 1..Len(q) : q[k] = f
    BY <2>2, <2>3 DEF InLane
  <2>5. k # 1 /\ k - 1 \in 1..(Len(q) - 1) /\ (k - 1) + 1 = k
    BY <2>2, <2>3, <2>4
  <2>6. Tail(q)[k - 1] = f
    BY <2>3, <2>4, <2>5
  <2>7. InLane(Tail(q), f)
    BY <2>3, <2>5, <2>6 DEF InLane
  <2>8. QED
    BY <2>1, <2>7 DEF n
<1>4. QED
  BY <1>2, <1>3

LEMMA DispatchKeeps ==
    ASSUME IInv, NoSelf(net), NEW d \in Device, NEW s \in Device, Dispatch(d, s)
    PROVE  /\ RelayKept(d) /\ NoSelf(net')
           /\ \A x \in Device \ {d} : \A f : InLane(net.box[x][x], f) => InLane(net'.box[x][x], f)
           /\ dev'[d].step = "RELAY" /\ InLane(net.box[d][d], Timeout(dev[d]))
                => InLane(net'.box[d][d], Timeout(dev[d]))
<1> DEFINE q == net.box[d][s]
           e == Head(q)
           n == [net EXCEPT !.box[d][s] = Tail(@)]
<1>1. NetOK(net) /\ q \in Seq(EventFor(d)) /\ q # <<>>
  BY DEF IInv, NetOK, Dispatch
<1>2. e \in EventFor(d) /\ Tail(q) \in Seq(EventFor(d))
  <2> HIDE DEF q
  <2>1. QED
    BY <1>1, HeadTailProperties
<1>3. NetOK(n)
  <2> HIDE DEF q
  <2>1. NetOK([net EXCEPT !.box[d][s] = Tail(q)])
    BY <1>1, <1>2, LaneOK
  <2>2. QED
    BY <2>1 DEF q
<1>4. NoSelf(n) /\ \A x \in Device \ {d} : n.box[x] = net.box[x]
  BY <1>1 DEF NoSelf, NetOK
<1>5. ASSUME NEW f, InLane(net.box[d][d], f), s # d \/ f # e
      PROVE  InLane(n.box[d][d], f)
  BY <1>1, <1>5, TakenKeeps
<1>6. \/ OnRemoteStart(d, n, e)
      \/ OnRemoteStop(d, n, e)
      \/ OnComeBack(d, n, e)
      \/ OnRelay(d, n, e)
      \/ OnResponse(d, n, e)
      \/ OnSoftbusSessionClosed(d, n, e)
      \/ Unhandled(d, n, e)
  BY DEF Dispatch
<1> HIDE DEF e, n, q
<1>7. RelayStep(d, n)
  <2>1. CASE OnSoftbusSessionClosed(d, n, e)
    <3>1. e.from \in Device
      BY <1>2 DEF EventFor, Event
    <3>2. QED
      BY <1>3, <1>4, <2>1, <3>1, OnPeerGoneKeeps DEF OnSoftbusSessionClosed
  <2>2. CASE Unhandled(d, n, e)
    BY <1>4, <2>2, SameRelay, SameLanes DEF Unhandled, RelayStep
  <2>3. QED
    BY <1>2, <1>3, <1>4, <1>6, <2>1, <2>2, OnRemoteStartKeeps, OnRemoteStopKeeps,
       OnComeBackKeeps, OnRelayKeeps, OnResponseKeeps
\* The timeout is only taken by OnResponse, unless there is no relay.
<1>8. e = Timeout(dev[d]) => dev'[d].step # "RELAY"
  <2>1. SUFFICES ASSUME e = Timeout(dev[d]) PROVE dev'[d].step # "RELAY"
    OBVIOUS
  <2>2. e.type = "RELAY_COOPERATE_FINISHED" /\ e.from = dev[d].peer
    BY <2>1 DEF Timeout, RelayCooperateFinishedMsg
  <2>3. CASE OnResponse(d, n, e)
    BY <1>2, <1>3, <1>4, <2>3, OnResponseKeeps
  <2>4. CASE Unhandled(d, n, e)
    BY <2>2, <2>4 DEF Unhandled
  <2>5. QED
    BY <1>6, <2>2, <2>3, <2>4
    DEF OnRemoteStart, OnRemoteStop, OnComeBack, OnRelay, OnSoftbusSessionClosed
<1>9. \A x \in Device \ {d} : \A f : InLane(net.box[x][x], f) => InLane(net'.box[x][x], f)
  BY <1>4, <1>7 DEF RelayStep, OwnKept
<1>10. ASSUME dev'[d].step = "RELAY", InLane(net.box[d][d], Timeout(dev[d]))
       PROVE  InLane(net'.box[d][d], Timeout(dev[d]))
  <2>1. InLane(n.box[d][d], Timeout(dev[d]))
    BY <1>5, <1>8, <1>10
  <2>2. QED
    BY <1>7, <2>1 DEF RelayStep, OwnKept
<1>11. QED
  BY <1>7, <1>9, <1>10 DEF RelayStep, OwnKept

-----------------------------------------------------------------------------
(* The timeout of a relay: the invariant                                   *)

\* d is not in a relay, its relay got no timer, or the timeout is ahead.
TimeoutAhead(c, t, q) ==
    c.step = "RELAY" /\ c.timerId # None =>
        (\E i \in TimerId : t[i] = Timeout(c)) \/ InLane(q, Timeout(c))

RelayInv ==
    /\ NoSelf(net)
    /\ \A d \in Device : TimeoutAhead(dev[d], timers[d], net.box[d][d])

LEMMA RelayInvInit == Init => RelayInv
<1> SUFFICES ASSUME Init PROVE RelayInv
  OBVIOUS
<1>1. \A d \in Device : dev[d].step = "INITIAL"
  BY DEF Init, InitContext
<1>2. QED
  BY <1>1 DEF Init, RelayInv, NoSelf, TimeoutAhead

\* A handler of d that keeps its relay and its own lane.
LEMMA RelayStepInv ==
    ASSUME IInv, RelayInv, NEW d \in Device, HandlerStep(d), RelayKept(d), NoSelf(net'),
           \A x \in Device \ {d} : \A f : InLane(net.box[x][x], f) => InLane(net'.box[x][x], f),
           dev'[d].step = "RELAY" /\ InLane(net.box[d][d], Timeout(dev[d]))
             => InLane(net'.box[d][d], Timeout(dev[d]))
    PROVE  RelayInv'
<1>1. /\ dev' = [dev EXCEPT ![d] = dev'[d]] /\ timers' = [timers EXCEPT ![d] = timers'[d]]
      /\ dev \in [Device -> Context] /\ timers \in [Device -> [TimerId -> Event \cup {None}]]
  BY DEF HandlerStep, DevStep, TimersStep, IInv
<1>2. ASSUME NEW x \in Device \ {d}
      PROVE  TimeoutAhead(dev'[x], timers'[x], net'.box[x][x])
  <2>1. dev'[x] = dev[x] /\ timers'[x] = timers[x]
    BY <1>1
  <2>2. QED
    BY <2>1 DEF RelayInv, TimeoutAhead
<1>3. TimeoutAhead(dev'[d], timers'[d], net'.box[d][d])
  <2>1. SUFFICES ASSUME dev'[d].step = "RELAY", dev'[d].timerId # None,
                        dev[d].step = "RELAY", dev'[d].peer = dev[d].peer,
                        dev'[d].timerId = dev[d].timerId,
                        \A i \in TimerId : timers[d][i] # None => timers'[d][i] = timers[d][i]
                 PROVE  TimeoutAhead(dev'[d], timers'[d], net'.box[d][d])
    BY DEF RelayKept, TimeoutAhead
  <2>2. Timeout(dev'[d]) = Timeout(dev[d])
    BY <2>1 DEF Timeout
  <2>3. Timeout(dev[d]) # None
    <3>1. dev[d].peer \in Device
      BY <2>1 DEF IInv, ContextOK, RoleOK
    <3>2. Timeout(dev[d]) \in Event
      BY <3>1 DEF Timeout, RelayCooperateFinishedMsg, Event
    <3>3. QED
      BY <3>2, EventAssumption
  <2>4. (\E i \in TimerId : timers[d][i] = Timeout(dev[d]))
          \/ InLane(net.box[d][d], Timeout(dev[d]))
    BY <2>1 DEF RelayInv, TimeoutAhead
  <2>5. QED
    BY <2>1, <2>2, <2>3, <2>4 DEF TimeoutAhead
<1>4. QED
  BY <1>2, <1>3 DEF RelayInv, NoSelf, TimeoutAhead, InLane, Timeout

LEMMA RelayInvNext == IInv /\ RelayInv /\ [Next]_vars => RelayInv'
<1> SUFFICES ASSUME IInv, RelayInv, [Next]_vars PROVE RelayInv'
  OBVIOUS
<1>1. NetOK(net) /\ NoSelf(net)
  BY DEF IInv, RelayInv
<1>2. ASSUME NEW d \in Device, User(d)
      PROVE  RelayInv'
  BY <1>1, <1>2, UserOK, UserKeeps, RelayStepInv DEF RelayStep, OwnKept
<1>3. ASSUME NEW d \in Device, NEW s \in Device, Dispatch(d, s)
      PROVE  RelayInv'
  BY <1>1, <1>3, DispatchOK, DispatchKeeps, RelayStepInv
<1>4. ASSUME NEW d \in Device, NEW s \in Device, OnShutdown(d, s) \/ LinkDown(d, s)
      PROVE  RelayInv'
  <2>1. UNCHANGED <<dev, timers>>
    BY <1>4 DEF OnShutdown, LinkDown
  <2>2. OwnKept(net, net')
    <3>1. CASE OnShutdown(d, s)
      BY <1>1, <3>1, ShutdownKeeps DEF OnShutdown
    <3>2. CASE LinkDown(d, s)
      <4>1. /\ NetOK(Fault(net)) /\ OwnKept(net, Fault(net)) /\ NoSelf(Fault(net))
            /\ s \in Fault(net).sess[d]
        BY <1>1, <3>2, FaultOK, FaultKeeps DEF LinkDown, MayFail, OwnKept, Fault, NetOK
      <4>2. OwnKept(Fault(net), net')
        BY <3>2, <4>1, ShutdownKeeps DEF LinkDown
      <4>3. QED
        BY <4>1, <4>2, OwnKeptTransitive
    <3>3. QED
      BY <1>4, <3>1, <3>2
  <2>3. NoSelf(net') /\ \A x \in Device : \A f :
          InLane(net.box[x][x], f) => InLane(net'.box[x][x], f)
    BY <2>2 DEF OwnKept
  <2>4. ASSUME NEW x \in Device
        PROVE  TimeoutAhead(dev'[x], timers'[x], net'.box[x][x])
    <3>1. TimeoutAhead(dev[x], timers[x], net.box[x][x])
      BY DEF RelayInv
    <3>2. QED
      BY <2>1, <2>3, <3>1 DEF TimeoutAhead
  <2>5. QED
    BY <2>3, <2>4 DEF RelayInv, NoSelf, TimeoutAhead, InLane, Timeout
\* The timer that fires becomes an event of d's own lane.
<1>5. ASSUME NEW d \in Device, NEW i \in TimerId, FireTimer(d, i)
      PROVE  RelayInv'
  <2>1. /\ UNCHANGED dev /\ timers' = [timers EXCEPT ![d][i] = None]
        /\ net' = Posted(net, d, d, timers[d][i])
        /\ timers \in [Device -> [TimerId -> Event \cup {None}]]
    BY <1>5 DEF FireTimer, IInv
  <2>2. OwnKept(net, net') /\ InLane(net'.box[d][d], timers[d][i])
    BY <1>1, <2>1, PostedKeeps
  <2>3. ASSUME NEW x \in Device
        PROVE  TimeoutAhead(dev'[x], timers'[x], net'.box[x][x])
    <3>1. \A j \in TimerId : x # d \/ j # i => timers'[x][j] = timers[x][j]
      BY <2>1
    <3>2. TimeoutAhead(dev[x], timers[x], net.box[x][x])
      BY DEF RelayInv
    <3>3. \A f : InLane(net.box[x][x], f) => InLane(net'.box[x][x], f)
      BY <2>2 DEF OwnKept
    <3>4. QED
      BY <2>1, <2>2, <3>1, <3>2, <3>3 DEF TimeoutAhead
  <2>4. NoSelf(net')
    BY <2>2 DEF OwnKept
  <2>5. QED
    BY <2>3, <2>4 DEF RelayInv, NoSelf, TimeoutAhead, InLane, Timeout
<1>6. CASE UNCHANGED vars
  BY <1>6 DEF vars, RelayInv, NoSelf, TimeoutAhead, InLane, Timeout
<1>7. QED
  BY <1>2, <1>3, <1>4, <1>5, <1>6 DEF Next, System

\* The timeout of a relay that has a timer is always ahead, in the timer or in
\* the Channel, whatever the packets, failures, timers and calls.
THEOREM RelayTimedHolds == Spec => []RelayTimed
<1>1. RelayInv => RelayTimed
  BY DEF RelayInv, TimeoutAhead, InLane, Timeout, RelayTimed
<1>2. QED
  BY <1>1, Invariance, RelayInvInit, RelayInvNext, PTL DEF Spec

=============================================================================
