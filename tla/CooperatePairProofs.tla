------------------------- MODULE CooperatePairProofs -------------------------
(***************************************************************************)
(* Proofs about Cooperate, for any devices and bounds, as long as nobody   *)
(* relays: a device whose input goes elsewhere finds it injected there     *)
(* (OutReaches).  Between two devices nobody can relay.                    *)
(*                                                                         *)
(* OutReaches is about states in which nothing is on its way.  What makes  *)
(* it inductive is to say, of every state, what a device that is OUT still *)
(* waits for: an event in its lanes that will release it, a session that   *)
(* the soft bus will report as closed, or its own START, still ahead of    *)
(* the peer, or handled and not withdrawn since.  A step of a device       *)
(* concerns at most the pairs the device is in, so it is enough to follow  *)
(* one pair at a time.                                                     *)
(***************************************************************************)
EXTENDS CooperateProofs

\* Nobody is handing its peer's input over to a third device.
NobodyRelays == \A d \in Device : dev[d].step = "INITIAL"

\* Two devices, or one.
TwoDevices == \A a, b, c \in Device : a = b \/ b = c \/ a = c

-----------------------------------------------------------------------------
(* The inductive invariant *)

\* What a lane of d holds as long as nobody relays: packets of s, or what d
\* has posted to itself, which is only that a session is closed.
PairEvent(d, s) ==
    {e \in EventFor(d) : /\ e.type \notin {"RELAY_COOPERATE", "RELAY_COOPERATE_FINISHED"}
                         /\ e.from # d
                         /\ IF s = d THEN e.type = "SESSION_CLOSED" ELSE e.from = s
                         /\ e.type = "START_COOPERATE" => e.origin = e.from}

PairNet(n) ==
    \A d \in Device : /\ d \notin n.sess[d]
                      /\ \A s \in Device : n.box[d][s] \in Seq(PairEvent(d, s))

NoRelay ==
    \A d \in Device : /\ dev[d].step = "INITIAL"
                      /\ \A i \in TimerId : timers[d][i] = None

\* Something in the lanes of d is from p and will release d, ...
Called(n, d, p) ==
    \/ n.box[d][p] # <<>>
    \/ \E k \in DOMAIN n.box[d][d] : n.box[d][d][k].from = p

\* ... or the soft bus will find that p has closed its end.
HalfOpen(n, d, p) == p \in n.sess[d] /\ d \notin n.sess[p]

Linked(n, d, p) == p \in n.sess[d] /\ d \in n.sess[p]

\* The last that p will hear of d is its START.
Asked(n, d, p) ==
    n.box[p][d] # <<>> /\ n.box[p][d][Len(n.box[p][d])].type = "START_COOPERATE"

\* c, the context of p, is that of a device that injects the input of d.
Joined(c, d) == c.state = "IN" /\ c.peer = d

\* Why d, which is OUT, does not wait in vain for p, whose context is c.
Awaits(n, c, d, p) ==
    \/ Called(n, d, p) \/ HalfOpen(n, d, p)
    \/ Linked(n, d, p) /\ (Asked(n, d, p) \/ (n.box[p][d] = <<>> /\ Joined(c, d)))

OutAwaits ==
    \A d \in Device :
        dev[d].state = "OUT" => Awaits(net, dev[dev[d].peer], d, dev[d].peer)

PairInv == PairNet(net) /\ NoRelay /\ (net.faults = 0 => OutAwaits)

\* d hears of it when p gives up: it has an event to handle already, or its
\* end of a session by which p can be heard.
Hears(n, d, p) == Called(n, d, p) \/ p \in n.sess[d]

\* d will be released, whatever p does.
Freed(n, d, p) == Called(n, d, p) \/ HalfOpen(n, d, p)

\* All that d can wait for of p is in m as it is in n, ...
SamePair(n, m, d, p) ==
    /\ p \in m.sess[d] <=> p \in n.sess[d]
    /\ d \in m.sess[p] <=> d \in n.sess[p]
    /\ m.box[d][d] = n.box[d][d] /\ m.box[d][p] = n.box[d][p] /\ m.box[p][d] = n.box[p][d]

\* ... and so it is for the pairs that p is not in.
Aside(n, m, p) == \A d, q \in Device \ {p} : d # q => SamePair(n, m, d, q)

LEMMA AwaitsHears ==
    ASSUME NEW n, NEW c, NEW d, NEW p
    PROVE  /\ Awaits(n, c, d, p) => Hears(n, d, p)
           /\ Freed(n, d, p) => Hears(n, d, p) /\ \A k : Awaits(n, k, d, p)
           /\ Awaits(n, c, d, p) /\ ~Joined(c, d) => \A k : Awaits(n, k, d, p)
           /\ \A k : Awaits(n, c, d, p) /\ (Joined(c, d) => Joined(k, d)) => Awaits(n, k, d, p)
BY DEF Awaits, Hears, Freed, HalfOpen, Linked

LEMMA SamePairKeeps ==
    ASSUME NEW n, NEW m, NEW d, NEW p, SamePair(n, m, d, p)
    PROVE  /\ \A c : Awaits(n, c, d, p) => Awaits(m, c, d, p)
           /\ Hears(n, d, p) => Hears(m, d, p)
           /\ Freed(n, d, p) => Freed(m, d, p)
<1>1. /\ Called(m, d, p) <=> Called(n, d, p)
      /\ HalfOpen(m, d, p) <=> HalfOpen(n, d, p)
      /\ Linked(m, d, p) <=> Linked(n, d, p)
      /\ Asked(m, d, p) <=> Asked(n, d, p)
      /\ m.box[p][d] = n.box[p][d]
  BY DEF SamePair, Called, HalfOpen, Linked, Asked
<1>2. QED
  BY <1>1 DEF SamePair, Awaits, Hears, Freed

LEMMA SamePairTransitive ==
    ASSUME NEW n, NEW m, NEW k, NEW d, NEW p, SamePair(n, m, d, p), SamePair(m, k, d, p)
    PROVE  SamePair(n, k, d, p)
BY DEF SamePair

LEMMA AsideTransitive ==
    ASSUME NEW n, NEW m, NEW k, NEW p, Aside(n, m, p), Aside(m, k, p)
    PROVE  Aside(n, k, p)
BY SamePairTransitive DEF Aside

LEMMA SameNet == ASSUME NEW n, NEW p PROVE Aside(n, n, p) /\ \A d : SamePair(n, n, d, p)
BY DEF Aside, SamePair

-----------------------------------------------------------------------------
(* Lanes and sessions *)

LEMMA PairEvents ==
    ASSUME NEW d \in Device, NEW p \in Device, d # p
    PROVE  /\ StopCooperateMsg(d) \in PairEvent(p, d)
           /\ ComeBackMsg(d) \in PairEvent(p, d)
           /\ \A v \in Speed, o \in BOOLEAN : StartCooperateMsg(d, d, v, o) \in PairEvent(p, d)
           /\ \A s \in {d, p} : SessionClosedEvent(d) \in PairEvent(p, s)
BY DEF PairEvent, EventFor, Event, StopCooperateMsg, ComeBackMsg, StartCooperateMsg,
       SessionClosedEvent

LEMMA PairLane ==
    ASSUME NEW n, NetOK(n), PairNet(n), NEW d \in Device, NEW s \in Device,
           NEW q \in Seq(PairEvent(d, s)),
           NEW ss \in [Device -> SUBSET Device], \A x \in Device : x \notin ss[x]
    PROVE  PairNet([n EXCEPT !.sess = ss, !.box[d][s] = q])
<1> DEFINE B == [n.box EXCEPT ![d][s] = q]
<1>1. n.box \in [Device -> [Device -> Seq(Event)]]
  BY DEF NetOK
<1>2. \A d1, s1 \in Device : B[d1][s1] = IF d1 = d /\ s1 = s THEN q ELSE n.box[d1][s1]
  BY <1>1
<1> HIDE DEF B
<1>3. PairNet([n EXCEPT !.sess = ss, !.box = B])
  BY <1>2 DEF PairNet, NetOK
<1>4. QED
  BY <1>3 DEF B

LEMMA PostedFields ==
    ASSUME NEW n, NetOK(n), NEW d \in Device, NEW s \in Device, NEW e \in PairEvent(d, s)
    PROVE  LET m == Posted(n, d, s, e) IN
           /\ m.sess = n.sess /\ m.faults = n.faults
           /\ m.box[d][s] = Append(n.box[d][s], e) /\ m.box[d][s] # <<>>
           /\ m.box[d][s][Len(m.box[d][s])] = e
           /\ \A x, y \in Device : x # d \/ y # s => m.box[x][y] = n.box[x][y]
           /\ PairNet(n) => PairNet(m)
           /\ NetOK(m)
<1> DEFINE m == Posted(n, d, s, e)
           q == Append(n.box[d][s], e)
<1>1. n.box \in [Device -> [Device -> Seq(Event)]] /\ n.sess \in [Device -> SUBSET Device]
  BY DEF NetOK
<1>2. e \in Event /\ e \in EventFor(d)
  BY DEF PairEvent, EventFor
<1>3. q # <<>> /\ q[Len(q)] = e
  <2>1. n.box[d][s] \in Seq(Event)
    BY <1>1
  <2>2. \A r \in Seq(Event) : Append(r, e) # <<>> /\ Append(r, e)[Len(Append(r, e))] = e
    BY <1>2
  <2> QED BY <2>1, <2>2
<1>4. m = [n EXCEPT !.box[d][s] = q]
  BY DEF Posted
<1>5. m.sess = n.sess /\ m.faults = n.faults
  BY <1>4 DEF NetOK
<1>6. m.box[d][s] = q /\ \A x, y \in Device : x # d \/ y # s => m.box[x][y] = n.box[x][y]
  BY <1>1, <1>4 DEF NetOK
<1>7. NetOK(m)
  BY <1>2, PostedOK
<1>8. ASSUME PairNet(n) PROVE PairNet(m)
  <2>1. q \in Seq(PairEvent(d, s))
    BY <1>8 DEF PairNet
  <2>2. \A x \in Device : x \notin m.sess[x]
    BY <1>5, <1>8 DEF PairNet
  <2>3. \A x, y \in Device : m.box[x][y] \in Seq(PairEvent(x, y))
    BY <1>6, <1>8, <2>1 DEF PairNet
  <2> QED BY <2>2, <2>3 DEF PairNet
<1>9. QED
  BY <1>3, <1>5, <1>6, <1>7, <1>8

\* Without a failure, a packet arrives, is lost in a session that the other has
\* closed, or there is no session and the sender is told.
LEMMA SendPacketPair ==
    ASSUME NEW n, NetOK(n), PairNet(n), NEW d \in Device, NEW p \in Device,
           NEW e \in PairEvent(p, d), d # p, NEW r \in SendPacket(n, d, p, e)
    PROVE  /\ NetOK(r.net) /\ PairNet(r.net)
           /\ r.net.faults = 0 =>
                /\ n.faults = 0
                /\ p \in n.sess[d] <=> r.ok
                /\ p \in n.sess[d] /\ d \in n.sess[p] => r.net = Posted(n, p, d, e)
                /\ p \in n.sess[d] /\ d \notin n.sess[p] => r.net = n
                /\ p \notin n.sess[d] => r.net = Posted(n, d, d, SessionClosedEvent(p))
<1>1. SessionClosedEvent(p) \in PairEvent(d, d) /\ e \in EventFor(p)
  BY PairEvents DEF PairEvent
<1>2. NetOK(r.net)
  BY <1>1, SendPacketOK
<1>3. ASSUME NEW m \in CloseSession(n, d, p)
      PROVE  NetOK(m) /\ PairNet(m) /\ m.faults = n.faults /\ (p \notin n.sess[d] => m = n)
  <2>1. NetOK(m) /\ m.faults = n.faults
    BY CloseSessionOK
  <2>2. CASE p \notin n.sess[d]
    BY <2>1, <2>2 DEF CloseSession
  <2>3. CASE p \in n.sess[d]
    <3>1. PICK q \in Truncated(n.box[d][p]) : m = [n EXCEPT !.sess[d] = @ \ {p}, !.box[d][p] = q]
      BY <2>3 DEF CloseSession
    <3> DEFINE ss == [n.sess EXCEPT ![d] = @ \ {p}]
    <3>2. ss \in [Device -> SUBSET Device] /\ \A x \in Device : x \notin ss[x]
      BY DEF NetOK, PairNet
    <3>3. q \in Seq(PairEvent(d, p))
      BY <3>1, TruncatedType DEF PairNet
    <3>4. m = [n EXCEPT !.sess = ss, !.box[d][p] = q]
      BY <3>1
    <3> HIDE DEF ss
    <3>5. PairNet(m)
      BY <3>2, <3>3, <3>4, PairLane
    <3> QED BY <2>1, <2>3, <3>5
  <2> QED BY <2>2, <2>3
<1>4. CASE p \in n.sess[d] /\ r = [ok |-> TRUE, net |-> IF d \in n.sess[p] THEN Posted(n, p, d, e) ELSE n]
  <2>1. PairNet(r.net) /\ r.net.faults = n.faults
    BY <1>4, PostedFields
  <2> QED BY <1>2, <1>4, <2>1
<1>5. CASE /\ p \notin n.sess[d]
           /\ \E m \in CloseSession(n, d, p) :
                r = [ok |-> FALSE, net |-> Posted(m, d, d, SessionClosedEvent(p))]
  <2>1. r = [ok |-> FALSE, net |-> Posted(n, d, d, SessionClosedEvent(p))]
    BY <1>3, <1>5
  <2>2. PairNet(r.net) /\ r.net.faults = n.faults
    BY <1>1, <2>1, PostedFields
  <2> QED BY <1>2, <1>5, <2>1, <2>2
<1>6. CASE /\ n.faults < MaxFaults
           /\ \E m \in CloseSession(n, d, p) :
                r = [ok |-> FALSE, net |-> Fault(Posted(m, d, d, SessionClosedEvent(p)))]
  <2>1. PICK m \in CloseSession(n, d, p) :
          r = [ok |-> FALSE, net |-> Fault(Posted(m, d, d, SessionClosedEvent(p)))]
    BY <1>6
  <2> DEFINE k == Posted(m, d, d, SessionClosedEvent(p))
  <2>2. PairNet(k) /\ NetOK(k)
    BY <1>1, <1>3, PostedFields
  <2>3. r.net = Fault(k)
    BY <2>1
  <2> HIDE DEF k
  <2>4. PairNet(Fault(k)) /\ Fault(k).faults # 0
    BY <2>2 DEF Fault, PairNet, NetOK
  <2> QED BY <1>2, <2>3, <2>4
<1>7. QED
  BY <1>4, <1>5, <1>6 DEF SendPacket

\* It concerns nobody but the two.
LEMMA SendApart ==
    ASSUME NEW n, NetOK(n), PairNet(n), NEW p \in Device, NEW q \in Device,
           NEW e \in PairEvent(q, p), q # p, NEW r \in SendPacket(n, p, q, e), r.net.faults = 0
    PROVE  Aside(n, r.net, p) /\ \A d \in Device \ {p, q} : SamePair(n, r.net, d, p)
<1>1. SessionClosedEvent(q) \in PairEvent(p, p)
  BY PairEvents
<1>2. \/ r.net = n \/ r.net = Posted(n, q, p, e)
      \/ r.net = Posted(n, p, p, SessionClosedEvent(q))
  BY SendPacketPair
<1>3. /\ r.net.sess = n.sess
      /\ \A x, y \in Device : <<x, y>> \notin {<<q, p>>, <<p, p>>} => r.net.box[x][y] = n.box[x][y]
  BY <1>1, <1>2, PostedFields
<1>4. QED
  BY <1>3 DEF Aside, SamePair

LEMMA CloseAllSessionsPair ==
    ASSUME NEW n, NetOK(n), PairNet(n), NEW d \in Device, NEW m \in CloseAllSessions(n, d)
    PROVE  /\ NetOK(m) /\ PairNet(m) /\ m.faults = n.faults
           /\ m.sess[d] = {} /\ \A x \in Device \ {d} : m.sess[x] = n.sess[x] /\ m.box[x] = n.box[x]
           /\ Aside(n, m, d)
<1>1. PICK b \in [Device -> UNION {Truncated(n.box[d][s]) : s \in Device}] :
        /\ m = [n EXCEPT !.sess[d] = {}, !.box[d] = b]
        /\ \A s \in Device : IF s \in n.sess[d] THEN b[s] \in Truncated(n.box[d][s])
                                                ELSE b[s] = n.box[d][s]
  BY DEF CloseAllSessions
<1>2. \A s \in Device : b[s] \in Seq(PairEvent(d, s))
  <2>1. TAKE s \in Device
  <2>2. n.box[d][s] \in Seq(PairEvent(d, s))
    BY DEF PairNet
  <2> QED BY <1>1, <2>2, TruncatedType
<1>3. /\ m.sess[d] = {} /\ \A x \in Device \ {d} : m.sess[x] = n.sess[x] /\ m.box[x] = n.box[x]
      /\ m.box[d] = b
  BY <1>1 DEF NetOK
<1>4. PairNet(m)
  BY <1>2, <1>3 DEF PairNet
<1>5. Aside(n, m, d)
  BY <1>3 DEF Aside, SamePair
<1>6. QED
  BY <1>3, <1>4, <1>5, CloseAllSessionsOK

\* A session that is opened anew may cost the other what was on its way to it.
LEMMA OpenSessionPair ==
    ASSUME NEW n, NetOK(n), PairNet(n), NEW d \in Device, NEW p \in Device, NEW o \in OpenSession(n, d, p)
    PROVE  /\ NetOK(o.net) /\ PairNet(o.net) /\ (o.ok => p # d)
           /\ o.net.faults = 0 =>
                /\ n.faults = 0
                /\ o.ok <=> p # d
                /\ ~o.ok => o.net = n
                /\ Aside(n, o.net, d) /\ \A x \in Device \ {d, p} : SamePair(n, o.net, x, d)
                /\ o.ok => /\ p \in o.net.sess[d]
                           /\ o.net = n \/ d \in o.net.sess[p]
                           /\ o.net.box[p][p] = n.box[p][p]
                           /\ o.net.box[p][d] = n.box[p][d] \/ d \in o.net.sess[p]
                           /\ n.sess[p] \subseteq o.net.sess[p]
<1>1. NetOK(o.net) /\ (o.ok => p # d)
  BY OpenSessionOK
<1>2. CASE p = d \/ p \in n.sess[d]
  <2>1. o = [ok |-> p # d, net |-> n]
    BY <1>2 DEF OpenSession
  <2> QED BY <1>1, <1>2, <2>1, SameNet DEF PairNet
<1>3. CASE ~(p = d \/ p \in n.sess[d])
  <2>1. CASE \E q \in IF d \in n.sess[p] THEN Truncated(n.box[p][d]) ELSE {n.box[p][d]} :
               o = [ok |-> TRUE,
                    net |-> [n EXCEPT !.sess[d] = @ \cup {p}, !.sess[p] = @ \cup {d}, !.box[p][d] = q]]
    <3>1. PICK q \in IF d \in n.sess[p] THEN Truncated(n.box[p][d]) ELSE {n.box[p][d]} :
               o = [ok |-> TRUE,
                    net |-> [n EXCEPT !.sess[d] = @ \cup {p}, !.sess[p] = @ \cup {d}, !.box[p][d] = q]]
      BY <2>1
    <3>2. q \in Seq(PairEvent(p, d))
      BY <3>1, TruncatedType DEF PairNet
    <3> DEFINE ss == [n.sess EXCEPT ![d] = @ \cup {p}, ![p] = @ \cup {d}]
    <3>3. /\ ss \in [Device -> SUBSET Device] /\ \A x \in Device : x \notin ss[x]
          /\ ss[d] = n.sess[d] \cup {p} /\ ss[p] = n.sess[p] \cup {d}
          /\ \A x \in Device \ {d, p} : ss[x] = n.sess[x]
      BY <1>3 DEF NetOK, PairNet
    <3>4. o.net = [n EXCEPT !.sess = ss, !.box[p][d] = q] /\ o.ok
      BY <3>1 DEF NetOK
    <3> HIDE DEF ss
    <3>5. PairNet(o.net)
      <4>1. PairNet([n EXCEPT !.sess = ss, !.box[p][d] = q])
        BY <3>2, <3>3, PairLane
      <4> QED BY <3>4, <4>1
    <3>6. /\ o.net.sess = ss /\ o.net.faults = n.faults
          /\ \A x, y \in Device : x # p \/ y # d => o.net.box[x][y] = n.box[x][y]
      BY <1>3, <3>4 DEF NetOK
    <3>7. Aside(n, o.net, d) /\ \A x \in Device \ {d, p} : SamePair(n, o.net, x, d)
      <4>1. ASSUME NEW x \in Device \ {d}, NEW y \in Device, x = p => y # d
            PROVE  /\ y \in o.net.sess[x] <=> y \in n.sess[x]
                   /\ o.net.box[x][x] = n.box[x][x] /\ o.net.box[x][y] = n.box[x][y]
        BY <1>3, <3>3, <3>6, <4>1
      <4>2. ASSUME NEW x \in Device \ {d, p}
            PROVE  /\ x \in o.net.sess[d] <=> x \in n.sess[d]
                   /\ o.net.box[d][x] = n.box[d][x]
        BY <1>3, <3>3, <3>6, <4>2
      <4>3. Aside(n, o.net, d)
        BY <4>1 DEF Aside, SamePair
      <4>4. \A x \in Device \ {d, p} : SamePair(n, o.net, x, d)
        BY <4>1, <4>2 DEF SamePair
      <4> QED BY <4>3, <4>4
    <3> QED BY <1>1, <1>3, <3>3, <3>4, <3>5, <3>6, <3>7
  <2>2. CASE n.faults < MaxFaults /\ o = [ok |-> FALSE, net |-> Fault(n)]
    <3>1. PairNet(Fault(n)) /\ Fault(n).faults # 0
      BY DEF Fault, PairNet, NetOK
    <3> QED BY <1>1, <2>2, <3>1
  <2>3. QED
    BY <1>3, <2>1, <2>2 DEF OpenSession
<1>4. QED
  BY <1>2, <1>3

LEMMA ShutdownPair ==
    ASSUME NEW n, NetOK(n), PairNet(n), NEW d \in Device, NEW p \in Device, d # p,
           NEW m \in Shutdown(n, d, p)
    PROVE  /\ PairNet(m) /\ m.faults = n.faults /\ m.box[d][p] # <<>>
           /\ \A x \in Device \ {d} : m.sess[x] = n.sess[x] /\ m.box[x] = n.box[x]
           /\ \A x \in Device \ {p} : /\ x \in m.sess[d] <=> x \in n.sess[d]
                                     /\ m.box[d][x] = n.box[d][x]
<1>1. PICK q \in Truncated(n.box[d][p]) :
        m = [n EXCEPT !.sess[d] = @ \ {p}, !.box[d][p] = Append(q, SessionClosedEvent(p))]
  BY DEF Shutdown
<1> DEFINE ss == [n.sess EXCEPT ![d] = @ \ {p}]
           b == Append(q, SessionClosedEvent(p))
<1>2. q \in Seq(PairEvent(d, p)) /\ SessionClosedEvent(p) \in PairEvent(d, p)
  BY <1>1, TruncatedType, PairEvents DEF PairNet
<1>3. b \in Seq(PairEvent(d, p)) /\ b # <<>>
  <2>1. \A e \in PairEvent(d, p) : Append(q, e) \in Seq(PairEvent(d, p)) /\ Append(q, e) # <<>>
    BY <1>2
  <2> QED BY <1>2, <2>1
<1>4. ss \in [Device -> SUBSET Device] /\ \A x \in Device : x \notin ss[x]
  BY DEF NetOK, PairNet
<1>5. /\ \A x \in Device \ {d} : ss[x] = n.sess[x]
      /\ \A x \in Device \ {p} : x \in ss[d] <=> x \in n.sess[d]
  BY DEF NetOK
<1>6. m = [n EXCEPT !.sess = ss, !.box[d][p] = b]
  BY <1>1
<1> HIDE DEF ss, b
<1>7. PairNet(m)
  BY <1>3, <1>4, <1>6, PairLane
<1>8. /\ m.sess = ss /\ m.faults = n.faults /\ m.box[d][p] = b
      /\ \A x \in Device \ {d} : m.box[x] = n.box[x]
      /\ \A x \in Device \ {p} : m.box[d][x] = n.box[d][x]
  BY <1>6 DEF NetOK
<1>9. QED
  BY <1>3, <1>5, <1>7, <1>8

-----------------------------------------------------------------------------
(* What a device does to its peer d, which is OUT                          *)

LEMMA SendTells ==
    ASSUME NEW n, NetOK(n), PairNet(n), NEW p \in Device, NEW d \in Device, d # p,
           NEW e \in PairEvent(d, p), NEW r \in SendPacket(n, p, d, e), r.net.faults = 0,
           Hears(n, d, p)
    PROVE  Freed(r.net, d, p)
<1>1. SessionClosedEvent(d) \in PairEvent(p, p)
  BY PairEvents
<1>2. CASE d \in n.sess[p] /\ p \in n.sess[d]
  <2>1. r.net = Posted(n, d, p, e)
    BY <1>2, SendPacketPair
  <2> QED BY <2>1, PostedFields DEF Freed, Called
<1>3. CASE d \in n.sess[p] /\ p \notin n.sess[d]
  <2>1. r.net = n
    BY <1>3, SendPacketPair
  <2> QED BY <1>3, <2>1 DEF Freed, Hears
<1>4. CASE d \notin n.sess[p]
  <2>1. r.net = Posted(n, p, p, SessionClosedEvent(d))
    BY <1>4, SendPacketPair
  <2>2. r.net.sess = n.sess /\ r.net.box[d][p] = n.box[d][p] /\ r.net.box[d][d] = n.box[d][d]
    BY <1>1, <2>1, PostedFields
  <2> QED BY <1>4, <2>2 DEF Freed, Hears, Called, HalfOpen
<1>5. QED
  BY <1>2, <1>3, <1>4

LEMMA CloseAllTells ==
    ASSUME NEW n, NetOK(n), PairNet(n), NEW p \in Device, NEW d \in Device, d # p,
           NEW m \in CloseAllSessions(n, p), Hears(n, d, p)
    PROVE  Freed(m, d, p)
<1>1. m.sess[p] = {} /\ m.sess[d] = n.sess[d] /\ m.box[d] = n.box[d]
  BY CloseAllSessionsPair
<1>2. QED
  BY <1>1 DEF Freed, Hears, Called, HalfOpen

\* A device that is not FREE sends STOP to its peer, and nobody else notices.
LEMMA StopTells ==
    ASSUME NEW n, NetOK(n), PairNet(n), NEW p \in Device, NEW c, ContextOK(p, c),
           NEW m \in SendStop(n, p, c)
    PROVE  /\ NetOK(m) /\ PairNet(m)
           /\ c.state = "FREE" => m = n
           /\ m.faults = 0 =>
                /\ n.faults = 0 /\ Aside(n, m, p)
                /\ \A d \in Device \ {p} :
                      IF c.state # "FREE" /\ c.peer = d THEN Hears(n, d, p) => Freed(m, d, p)
                                                        ELSE SamePair(n, m, d, p)
                /\ \A d \in Device \ {p} : /\ Hears(n, d, p) => Hears(m, d, p)
                                           /\ Freed(n, d, p) => Freed(m, d, p)
<1>1. NetOK(m)
  BY SendStopOK
<1>2. CASE c.state = "FREE"
  <2>1. m = n
    BY <1>2 DEF SendStop
  <2>2. Aside(n, n, p) /\ \A d \in Device : SamePair(n, n, d, p)
    BY SameNet
  <2> QED BY <1>1, <1>2, <2>1, <2>2
<1>3. CASE c.state # "FREE"
  <2>1. c.peer \in Device \ {p}
    BY <1>3 DEF ContextOK, RoleOK
  <2>2. PICK r \in SendPacket(n, p, c.peer, StopCooperateMsg(p)) : m = r.net
    BY <1>3 DEF SendStop
  <2>3. StopCooperateMsg(p) \in PairEvent(c.peer, p)
    BY <2>1, PairEvents
  <2>4. PairNet(m) /\ (m.faults = 0 => n.faults = 0)
    BY <2>1, <2>2, <2>3, SendPacketPair
  <2>5. ASSUME m.faults = 0
        PROVE  Aside(n, m, p) /\ \A d \in Device \ {p, c.peer} : SamePair(n, m, d, p)
    BY <2>1, <2>2, <2>3, <2>5, SendApart
  <2>6. ASSUME m.faults = 0, Hears(n, c.peer, p) PROVE Freed(m, c.peer, p)
    BY <2>1, <2>2, <2>3, <2>6, SendTells
  <2>7. ASSUME m.faults = 0, NEW d \in Device \ {p}
        PROVE  /\ Hears(n, d, p) => Hears(m, d, p)
               /\ Freed(n, d, p) => Freed(m, d, p)
    <3>1. CASE c.peer = d
      BY <2>6, <2>7, <3>1, AwaitsHears
    <3>2. CASE c.peer # d
      BY <2>5, <2>7, <3>2, SamePairKeeps
    <3> QED BY <3>1, <3>2
  <2> QED BY <1>1, <1>3, <2>4, <2>5, <2>6, <2>7
<1>4. QED
  BY <1>2, <1>3

-----------------------------------------------------------------------------
(* Steps of one device *)

\* What is left to show of a step of p: of those who wait for p, and of whom p
\* waits for.
PairStep(p) ==
    /\ dev' = [dev EXCEPT ![p] = dev'[p]]
    /\ UNCHANGED timers
    /\ PairNet(net')
    /\ net'.faults = 0 =>
         /\ net.faults = 0
         /\ Aside(net, net', p)
         /\ \A d \in Device \ {p} :
              /\ dev[d].state = "OUT" /\ Awaits(net, dev[p], d, p) => Awaits(net', dev'[p], d, p)
              /\ dev'[p].state = "OUT" /\ dev'[p].peer = d => Awaits(net', dev[d], p, d)

LEMMA PairStepOK ==
    ASSUME IInv, IInv', NobodyRelays', PairInv, NEW p \in Device, PairStep(p) PROVE PairInv'
<1>1. /\ PairNet(net') /\ UNCHANGED timers /\ dev \in [Device -> Context]
      /\ \A x \in Device \ {p} : dev'[x] = dev[x]
  BY DEF PairStep, IInv
<1>2. NoRelay'
  BY <1>1 DEF PairInv, NoRelay, NobodyRelays
<1>3. ASSUME net'.faults = 0 PROVE OutAwaits'
  <2> SUFFICES ASSUME NEW d \in Device, dev'[d].state = "OUT"
               PROVE  Awaits(net', dev'[dev'[d].peer], d, dev'[d].peer)
    BY DEF OutAwaits
  <2> DEFINE q == dev'[d].peer
  <2>1. q \in Device \ {d}
    BY DEF IInv, ContextOK, RoleOK
  <2>2. CASE d = p
    BY <1>1, <1>3, <2>1, <2>2 DEF PairStep
  <2>3. CASE d # p
    <3>1. dev'[d] = dev[d]
      BY <1>1, <2>3
    <3>2. Awaits(net, dev[q], d, q)
      BY <1>3, <3>1 DEF PairInv, OutAwaits, PairStep
    <3>3. CASE q = p
      BY <1>3, <2>3, <3>1, <3>2, <3>3 DEF PairStep
    <3>4. CASE q # p
      <4>1. SamePair(net, net', d, q) /\ dev'[q] = dev[q]
        BY <1>1, <1>3, <2>1, <2>3, <3>4 DEF PairStep, Aside
      <4> HIDE DEF q
      <4>2. Awaits(net', dev'[q], d, q)
        BY <3>2, <4>1, SamePairKeeps
      <4> QED BY <4>2 DEF q
    <3> QED BY <3>3, <3>4
  <2> QED BY <2>2, <2>3
<1>4. QED
  BY <1>1, <1>2, <1>3 DEF PairInv, PairNet

\* p leaves its role: d will be released, or has nothing to do with it.
Leaves(p, n) ==
    /\ PairNet(net')
    /\ net'.faults = 0 =>
         /\ n.faults = 0 /\ Aside(n, net', p)
         /\ \A d \in Device \ {p} : \/ Hears(n, d, p) => Freed(net', d, p)
                                    \/ SamePair(n, net', d, p) /\ ~Joined(dev[p], d)

LEMMA LeavesStep ==
    ASSUME NEW p \in Device, DevStep(p), Leaves(p, net), dev'[p].state # "OUT", UNCHANGED timers
    PROVE  PairStep(p)
<1>1. dev' = [dev EXCEPT ![p] = dev'[p]]
  BY DEF DevStep
<1>2. ASSUME net'.faults = 0, NEW d \in Device \ {p}, Awaits(net, dev[p], d, p)
      PROVE  Awaits(net', dev'[p], d, p)
  <2>1. CASE Hears(net, d, p) => Freed(net', d, p)
    BY <1>2, <2>1, AwaitsHears
  <2>2. CASE SamePair(net, net', d, p) /\ ~Joined(dev[p], d)
    <3>1. Awaits(net, dev'[p], d, p)
      BY <1>2, <2>2, AwaitsHears
    <3> QED BY <2>2, <3>1, SamePairKeeps
  <2> QED BY <1>2, <2>1, <2>2 DEF Leaves
<1>3. QED
  BY <1>1, <1>2 DEF PairStep, Leaves

\* p stays where it is, or comes to rest.
LEMMA StaysStep ==
    ASSUME IInv, PairInv, NEW p \in Device, DevStep(p), UNCHANGED <<net, timers>>,
           dev'[p].state = dev[p].state, dev[p].state # "FREE" => dev'[p].peer = dev[p].peer
    PROVE  PairStep(p)
<1>1. dev' = [dev EXCEPT ![p] = dev'[p]] /\ PairNet(net') /\ Aside(net, net', p)
  BY SameNet DEF DevStep, PairInv, PairNet
<1>2. ASSUME NEW d \in Device \ {p}, Awaits(net, dev[p], d, p)
      PROVE  Awaits(net', dev'[p], d, p)
  <2>1. Joined(dev[p], d) => Joined(dev'[p], d)
    BY DEF Joined
  <2> QED BY <1>2, <2>1, AwaitsHears
<1>3. ASSUME net.faults = 0, NEW d \in Device \ {p}, dev'[p].state = "OUT", dev'[p].peer = d
      PROVE  Awaits(net', dev[d], p, d)
  BY <1>3 DEF PairInv, OutAwaits
<1>4. QED
  BY <1>1, <1>2, <1>3 DEF PairStep

\* A failure spoils what OutReaches is about.
LEMMA FaultStep ==
    ASSUME NEW p \in Device, DevStep(p), UNCHANGED timers, PairNet(net'), net'.faults # 0
    PROVE  PairStep(p)
BY DEF PairStep, DevStep

LEMMA StopNowLeaves ==
    ASSUME IInv, NEW p \in Device, NEW n, NetOK(n), PairNet(n), net' \in SendStop(n, p, dev[p])
    PROVE  Leaves(p, n)
<1>1. ContextOK(p, dev[p])
  BY DEF IInv
<1>2. \A d \in Device : Joined(dev[p], d) => dev[p].state # "FREE" /\ dev[p].peer = d
  BY DEF Joined
<1>3. QED
  BY <1>1, <1>2, StopTells DEF Leaves

LEMMA StoppedFields ==
    ASSUME IInv, PairInv, NEW p \in Device
    PROVE  /\ dev[p].step = "INITIAL" /\ ContextOK(p, dev[p])
           /\ StopCooperate(p, dev[p]).state = "FREE" /\ StopCooperate(p, dev[p]).step = "INITIAL"
           /\ OnReset(StopCooperate(p, dev[p])).state = "FREE"
           /\ OnReset(StopCooperate(p, dev[p])).step = "INITIAL"
           /\ OnReset(StopCooperate(p, dev[p])) = StopCooperate(p, dev[p])
<1>1. dev[p].step = "INITIAL" /\ ContextOK(p, dev[p])
  BY DEF IInv, PairInv, NoRelay
<1>2. /\ StopCooperate(p, dev[p]).state = "FREE" /\ StopCooperate(p, dev[p]).step = "INITIAL"
      /\ StopCooperate(p, dev[p]) \in Context
  BY <1>1, StopCooperateReleases DEF Released
<1>3. OnReset(StopCooperate(p, dev[p])) = StopCooperate(p, dev[p])
  BY <1>2 DEF OnReset, Context
<1>4. QED
  BY <1>1, <1>2, <1>3

LEMMA BecomeFields == ASSUME IInv, NEW p \in Device, NEW k, Become(p, k) PROVE dev'[p] = k
BY DEF IInv, Become

LEMMA OnStopPair ==
    ASSUME IInv, PairInv, NEW p \in Device, NEW n, NetOK(n), PairNet(n),
           NEW unchained \in BOOLEAN, NEW caller \in BOOLEAN, OnStop(p, n, unchained, caller)
    PROVE  /\ Leaves(p, n) /\ dev'[p].state = "FREE" /\ UNCHANGED timers
           /\ unchained /\ net'.faults = 0 =>
                 \A d \in Device \ {p} : Hears(n, d, p) => Freed(net', d, p)
<1>1. dev[p].step = "INITIAL" /\ ContextOK(p, dev[p]) /\ OnReset(StopCooperate(p, dev[p])).state = "FREE"
  BY StoppedFields
<1>2. dev'[p].state = "FREE" /\ UNCHANGED timers
  <2>1. Become(p, OnReset(StopCooperate(p, dev[p]))) /\ UNCHANGED timers
    BY <1>1 DEF OnStop
  <2> QED BY <1>1, <2>1, BecomeFields
<1>3. PICK m \in SendStop(n, p, dev[p]) : net' \in IF unchained THEN CloseAllSessions(m, p) ELSE {m}
  BY DEF OnStop
<1>4. /\ NetOK(m) /\ PairNet(m)
      /\ m.faults = 0 =>
           /\ n.faults = 0 /\ Aside(n, m, p)
           /\ \A d \in Device \ {p} : Hears(n, d, p) => Hears(m, d, p)
  BY <1>1, <1>3, StopTells
<1>5. CASE unchained
  <2>1. net' \in CloseAllSessions(m, p)
    BY <1>3, <1>5
  <2>2. PairNet(net') /\ net'.faults = m.faults /\ Aside(m, net', p)
    BY <1>4, <2>1, CloseAllSessionsPair
  <2>3. ASSUME net'.faults = 0, NEW d \in Device \ {p}, Hears(n, d, p) PROVE Freed(net', d, p)
    <3>1. Hears(m, d, p)
      BY <1>4, <2>2, <2>3
    <3> QED BY <1>4, <2>1, <3>1, CloseAllTells
  <2>4. net'.faults = 0 => Aside(n, net', p)
    BY <1>4, <2>2, AsideTransitive
  <2> QED BY <1>2, <1>4, <2>2, <2>3, <2>4 DEF Leaves
<1>6. CASE ~unchained
  <2>1. net' = m
    BY <1>3, <1>6
  <2> QED BY <1>2, <1>3, <1>6, <2>1, StopNowLeaves
<1>7. QED
  BY <1>5, <1>6

-----------------------------------------------------------------------------
(* Start *)

LEMMA StartOut ==
    ASSUME NEW p \in Device, NEW c \in Context, c.state = "FREE", NEW k \in {c, InterceptorEnable(c)}
    PROVE  LET o == OnTransitionOut(TransiteTo(p, StartCooperateFinish(k), "OUT")) IN
           o.state = "OUT" /\ o.peer = c.peer
<1> DEFINE f == StartCooperateFinish(k)
           t == TransiteTo(p, f, "OUT")
<1>1. f \in Context /\ f.state = "FREE" /\ f.peer = c.peer
  BY DEF StartCooperateFinish, InterceptorEnable, Context
<1> HIDE DEF f
<1>2. t \in Context /\ t.state = "OUT" /\ t.peer = c.peer
  BY <1>1, TransiteToFields
<1> HIDE DEF t
<1>3. OnTransitionOut(t).state = "OUT" /\ OnTransitionOut(t).peer = c.peer
  BY <1>2 DEF OnTransitionOut, Context
<1>4. QED
  BY <1>3 DEF f, t

LEMMA FreeOnStartPair ==
    ASSUME IInv, IInv', PairInv, NEW p \in Device, DevStep(p),
           NEW r \in Device, NEW opt \in BOOLEAN, FreeOnStart(p, r, opt)
    PROVE  PairStep(p)
<1> DEFINE b == [dev[p] EXCEPT !.peer = r]
           c == StartCooperateCall(b)
           gaveUp == [c EXCEPT !.visible = TRUE]
           Out(k) == OnTransitionOut(TransiteTo(p, StartCooperateFinish(k), "OUT"))
           msg == StartCooperateMsg(p, p, c.speed, opt)
<1>1. dev[p] \in Context /\ dev[p].state = "FREE" /\ NetOK(net) /\ PairNet(net) /\ UNCHANGED timers
  BY DEF IInv, PairInv, FreeOnStart
<1>2. c \in Context /\ c.state = "FREE" /\ c.peer = r
  <2>1. b \in Context /\ b.state = "FREE" /\ b.peer = r
    BY <1>1 DEF Context
  <2> HIDE DEF b
  <2> QED BY <2>1 DEF StartCooperateCall, Context
<1>3. c.speed \in Speed
  BY <1>2 DEF Context
<1> HIDE DEF c
<1>4. /\ ErrorNotAllowWhenMotionDragging(c).state = "FREE"
      /\ StartCooperateFinish(c).state = "FREE" /\ gaveUp.state = "FREE"
      /\ ErrorNotAllowWhenMotionDragging(c) \in Context
  BY <1>2 DEF ErrorNotAllowWhenMotionDragging, StartCooperateFinish, Context
<1>5. \A k \in {c, InterceptorEnable(c)} : Out(k).state = "OUT" /\ Out(k).peer = r
  BY <1>2, StartOut
<1> HIDE DEF gaveUp, Out
<1>6. CASE Become(p, ErrorNotAllowWhenMotionDragging(c)) /\ UNCHANGED net
  <2>1. dev'[p].state = "FREE"
    BY <1>4, <1>6, BecomeFields
  <2> QED BY <1>1, <1>6, <2>1, StaysStep
<1>7. ASSUME NEW o \in OpenSession(net, p, r), ~o.ok, Become(p, StartCooperateFinish(c)), net' = o.net
      PROVE  PairStep(p)
  <2>1. dev'[p].state = "FREE"
    BY <1>4, <1>7, BecomeFields
  <2>2. \A d \in Device : SamePair(net, net, d, p)
    BY SameNet
  <2>3. ~Joined(dev[p], r) /\ \A d \in Device : ~Joined(dev[p], d)
    BY <1>1 DEF Joined
  <2>4. Leaves(p, net)
    BY <1>1, <1>7, <2>2, <2>3, OpenSessionPair DEF Leaves
  <2> QED BY <1>1, <2>1, <2>4, LeavesStep
<1>8. ASSUME NEW n, NetOK(n), PairNet(n), net' = Fault(n)
      PROVE  net'.faults # 0 /\ PairNet(net')
  BY <1>8 DEF Fault, PairNet, NetOK
<1>9. ASSUME NEW o \in OpenSession(net, p, r), Become(p, gaveUp), net' = Fault(o.net)
       PROVE  PairStep(p)
  <2>1. NetOK(o.net) /\ PairNet(o.net)
    BY <1>1, OpenSessionPair
  <2> QED BY <1>1, <1>8, <1>9, <2>1, FaultStep
<1>10. ASSUME NEW o \in OpenSession(net, p, r), o.ok, NEW s \in SendPacket(o.net, p, r, msg),
              \/ ~s.ok /\ Become(p, gaveUp) /\ net' = s.net
              \/ Become(p, Out(InterceptorEnable(c))) /\ net' = s.net
              \/ Become(p, IF opt THEN Out(c) ELSE gaveUp) /\ net' = Fault(s.net)
       PROVE  PairStep(p)
  <2>1. r # p /\ NetOK(o.net) /\ PairNet(o.net)
    BY <1>1, <1>10, OpenSessionPair
  <2>2. msg \in PairEvent(r, p)
    BY <1>3, <2>1, PairEvents
  <2> HIDE DEF msg
  <2>3. NetOK(s.net) /\ PairNet(s.net)
    BY <2>1, <2>2, SendPacketPair
  <2>4. CASE ~s.ok /\ Become(p, gaveUp) /\ net' = s.net
    <3>1. s.net.faults # 0
      <4> SUFFICES ASSUME s.net.faults = 0 PROVE FALSE
        OBVIOUS
      <4>1. o.net.faults = 0 /\ r \notin o.net.sess[p]
        BY <2>1, <2>2, <2>4, SendPacketPair
      <4> QED BY <1>1, <1>10, <4>1, OpenSessionPair
    <3> QED BY <1>1, <2>3, <2>4, <3>1, FaultStep
  <2>5. CASE Become(p, Out(InterceptorEnable(c))) /\ net' = s.net
    <3>1. dev'[p].state = "OUT" /\ dev'[p].peer = r
      BY <1>5, <2>5, BecomeFields
    <3>2. ASSUME net'.faults = 0 PROVE net.faults = 0 /\ o.net.faults = 0 /\ r \in o.net.sess[p]
      BY <1>1, <1>10, <2>1, <2>2, <2>5, <3>2, SendPacketPair, OpenSessionPair
    <3>3. ASSUME net'.faults = 0
          PROVE  Aside(net, net', p) /\ \A d \in Device \ {p, r} : SamePair(net, net', d, p)
      <4>1. Aside(net, o.net, p) /\ \A d \in Device \ {p, r} : SamePair(net, o.net, d, p)
        BY <1>1, <1>10, <3>3, <3>2, OpenSessionPair
      <4>2. Aside(o.net, net', p) /\ \A d \in Device \ {p, r} : SamePair(o.net, net', d, p)
        BY <2>1, <2>2, <2>5, <3>3, SendApart
      <4> QED BY <4>1, <4>2, AsideTransitive, SamePairTransitive
    <3>4. ASSUME net'.faults = 0, NEW d \in Device \ {p}, Awaits(net, dev[p], d, p)
          PROVE  Awaits(net', dev'[p], d, p)
      <4>1. ~Joined(dev[p], d)
        BY <1>1 DEF Joined
      <4>2. Hears(net, d, p) /\ Awaits(net, dev'[p], d, p)
        BY <3>4, <4>1, AwaitsHears
      <4>3. CASE d = r
        <5>1. o.net = net \/ p \in o.net.sess[r]
          BY <1>1, <1>10, <3>2, <3>4, OpenSessionPair
        <5>2. Hears(o.net, r, p)
          BY <4>2, <4>3, <5>1 DEF Hears
        <5>3. Freed(net', r, p)
          BY <2>1, <2>2, <2>5, <3>4, <5>2, SendTells
        <5> QED BY <4>3, <5>3, AwaitsHears
      <4>4. CASE d # r
        BY <3>3, <3>4, <4>2, <4>4, SamePairKeeps
      <4> QED BY <4>3, <4>4
    <3>5. ASSUME net'.faults = 0 PROVE Awaits(net', dev[r], p, r)
      <4>1. CASE p \in o.net.sess[r]
        <5>1. net' = Posted(o.net, r, p, msg)
          BY <2>1, <2>2, <2>5, <3>2, <3>5, <4>1, SendPacketPair
        <5>2. msg.type = "START_COOPERATE"
          BY DEF msg, StartCooperateMsg
        <5>3. Asked(net', p, r) /\ Linked(net', p, r)
          BY <2>1, <2>2, <3>2, <3>5, <4>1, <5>1, <5>2, PostedFields DEF Asked, Linked
        <5> QED BY <5>3 DEF Awaits
      <4>2. CASE p \notin o.net.sess[r]
        <5>1. net' = o.net
          BY <2>1, <2>2, <2>5, <3>2, <3>5, <4>2, SendPacketPair
        <5> QED BY <3>2, <3>5, <4>2, <5>1 DEF Awaits, HalfOpen
      <4> QED BY <4>1, <4>2
    <3> QED BY <1>1, <2>3, <2>5, <3>1, <3>2, <3>3, <3>4, <3>5 DEF PairStep, DevStep
  <2>6. CASE Become(p, IF opt THEN Out(c) ELSE gaveUp) /\ net' = Fault(s.net)
    BY <1>1, <1>8, <2>3, <2>6, FaultStep
  <2> QED BY <1>10, <2>4, <2>5, <2>6
<1>11. QED
  BY <1>6, <1>7, <1>9, <1>10 DEF FreeOnStart, c, b, gaveUp, Out

LEMMA CallsStay ==
    ASSUME NEW c \in Context
    PROVE  LET k == StartCooperateFinish(StartCooperateCall(c))
               m == NeverAnswered(StartCooperateFinish(c), "start")
           IN  /\ k.state = c.state /\ k.step = c.step /\ k.peer = c.peer
               /\ m.state = c.state /\ m.step = c.step /\ m.peer = c.peer
BY DEF StartCooperateFinish, StartCooperateCall, NeverAnswered, Context

LEMMA InOnComeBackPair ==
    ASSUME IInv, IInv', PairInv, NEW p \in Device, DevStep(p),
           NEW r \in Device, InOnComeBack(p, r)
    PROVE  PairStep(p)
<1> DEFINE b == StartCooperateFinish(BuilderDisable(StartCooperateCall(dev[p])))
           k == ResetSpeed(TransiteTo(p, b, "FREE"))
<1>1. NetOK(net) /\ PairNet(net) /\ dev[p] \in Context
  BY DEF IInv, PairInv
<1>2. /\ r \in Device \ {p} /\ UNCHANGED timers /\ Become(p, k)
      /\ dev[p].state = "IN"
  BY DEF InOnComeBack
<1>3. k.state = "FREE"
  <2>1. b \in Context /\ b.state = "IN"
    BY <1>1, <1>2 DEF StartCooperateFinish, BuilderDisable, StartCooperateCall, Context
  <2> HIDE DEF b
  <2>2. TransiteTo(p, b, "FREE") \in Context /\ TransiteTo(p, b, "FREE").state = "FREE"
    BY <2>1, TransiteToFields
  <2> QED BY <2>2 DEF ResetSpeed, Context
<1> HIDE DEF k
<1>4. dev'[p].state = "FREE"
  BY <1>2, <1>3, BecomeFields
<1>5. PICK s \in SendPacket(net, p, r, ComeBackMsg(p)) : net' = s.net
  BY DEF InOnComeBack
<1>6. ComeBackMsg(p) \in PairEvent(r, p)
  BY <1>2, PairEvents
<1>7. PairNet(net') /\ (net'.faults = 0 => net.faults = 0)
  BY <1>1, <1>2, <1>5, <1>6, SendPacketPair
<1>8. ASSUME net'.faults = 0
      PROVE  Aside(net, net', p) /\ \A d \in Device \ {p, r} : SamePair(net, net', d, p)
  BY <1>1, <1>2, <1>5, <1>6, <1>8, SendApart
<1>9. net'.faults = 0 /\ Hears(net, r, p) => Freed(net', r, p)
  BY <1>1, <1>2, <1>5, <1>6, SendTells
<1>10. \A d \in Device \ {p, r} : ~Joined(dev[p], d)
  BY DEF Joined, InOnComeBack
<1>11. Leaves(p, net)
  BY <1>7, <1>8, <1>9, <1>10 DEF Leaves
<1>12. QED
  BY <1>2, <1>4, <1>11, LeavesStep

\* The relay is given up because there is no session with the third device.
LEMMA InOnRelayPair ==
    ASSUME IInv, IInv', NobodyRelays', PairInv, NEW p \in Device, DevStep(p),
           NEW r \in Device, InOnRelay(p, r)
    PROVE  PairStep(p)
<1> DEFINE c == [StartCooperateCall(dev[p]) EXCEPT !.target = r, !.step = "RELAY"]
           k == [c EXCEPT !.timerId = TakeNextTimerId(timers[p])]
<1>1. NetOK(net) /\ PairNet(net) /\ r # p
  BY DEF IInv, PairInv, InOnRelay
<1>2. k.step = "RELAY"
  <2>1. c.step = "RELAY" /\ DOMAIN c = DOMAIN dev[p] /\ "timerId" \in DOMAIN c
    BY DEF StartCooperateCall, IInv, Context
  <2> HIDE DEF c
  <2> QED BY <2>1
<1> HIDE DEF k
<1>3. ~Become(p, k)
  BY <1>2, BecomeFields DEF NobodyRelays
<1>4. PICK o \in OpenSession(net, p, r) : ~o.ok /\ net' = o.net /\ UNCHANGED timers
  BY <1>3 DEF InOnRelay, k
<1>5. PairNet(net') /\ net'.faults # 0
  BY <1>1, <1>4, OpenSessionPair
<1>6. QED
  BY <1>4, <1>5, FaultStep

LEMMA StartPair ==
    ASSUME IInv, IInv', NobodyRelays', PairInv, NEW p \in Device, DevStep(p),
           NEW r \in Device, NEW opt \in BOOLEAN, Start(p, r, opt)
    PROVE  PairStep(p)
<1>1. /\ dev \in [Device -> Context] /\ dev[p] \in Context /\ dev[p].step = "INITIAL"
      /\ dev[p].state # "FREE" => dev[p].peer \in Device \ {p}
  BY DEF IInv, PairInv, NoRelay, ContextOK, RoleOK
<1>2. CASE OutOnStart(p) \/ InOnStartRefused(p, r)
  <2>1. UNCHANGED <<net, timers>>
    BY <1>2 DEF OutOnStart, InOnStartRefused
  <2>2. dev'[p].state = dev[p].state /\ dev'[p].step = dev[p].step /\ dev'[p].peer = dev[p].peer
    BY <1>1, <1>2, CallsStay, BecomeFields DEF OutOnStart, InOnStartRefused
  <2> QED BY <1>1, <2>1, <2>2, StaysStep
<1>3. CASE InOnRelay(p, r)
  BY <1>3, InOnRelayPair
<1>4. CASE RelayOnStart(p)
  BY <1>1, <1>4 DEF RelayOnStart
<1>5. QED
  BY <1>2, <1>3, <1>4, FreeOnStartPair, InOnComeBackPair DEF Start

-----------------------------------------------------------------------------
(* The other calls and local events                                        *)

LEMMA StopNowPair ==
    ASSUME IInv, IInv', PairInv, NEW p \in Device, DevStep(p), StopNow(p, net)
    PROVE  PairStep(p)
<1>1. NetOK(net) /\ PairNet(net) /\ UNCHANGED timers
  BY DEF IInv, PairInv, StopNow
<1>2. dev'[p].state = "FREE"
  BY StoppedFields, BecomeFields DEF StopNow
<1>3. Leaves(p, net)
  BY <1>1, StopNowLeaves DEF StopNow
<1>4. QED
  BY <1>1, <1>2, <1>3, LeavesStep

LEMMA StopPair ==
    ASSUME IInv, IInv', PairInv, NEW p \in Device, DevStep(p),
           NEW unchained \in BOOLEAN, NEW caller \in BOOLEAN, Stop(p, unchained, caller)
    PROVE  PairStep(p)
<1>1. NetOK(net) /\ PairNet(net) /\ OnStop(p, net, unchained, caller)
  BY DEF IInv, PairInv, Stop
<1>2. Leaves(p, net) /\ dev'[p].state = "FREE" /\ UNCHANGED timers
  BY <1>1, OnStopPair
<1>3. QED
  BY <1>2, LeavesStep

LEMMA EnablePair ==
    ASSUME IInv, IInv', PairInv, NEW p \in Device, DevStep(p), Enable(p)
    PROVE  PairStep(p)
<1>1. dev[p] \in Context /\ dev[p].step = "INITIAL"
  BY DEF IInv, PairInv, NoRelay
<1>2. /\ dev'[p] = [dev[p] EXCEPT !.enabled = TRUE] /\ UNCHANGED <<net, timers>>
  BY BecomeFields DEF Enable
<1>3. dev'[p].state = dev[p].state /\ dev'[p].step = "INITIAL" /\ dev'[p].peer = dev[p].peer
  BY <1>1, <1>2 DEF Context
<1>4. QED
  BY <1>2, <1>3, StaysStep

LEMMA DisablePair ==
    ASSUME IInv, IInv', PairInv, NEW p \in Device, DevStep(p), Disable(p)
    PROVE  PairStep(p)
<1> DEFINE off == [dev[p] EXCEPT !.enabled = FALSE]
           shown == [off EXCEPT !.visible = p \in PointerDevice]
<1>1. dev[p] \in Context /\ dev[p].step = "INITIAL" /\ ContextOK(p, dev[p]) /\ UNCHANGED timers
      /\ NetOK(net) /\ PairNet(net)
  BY DEF IInv, PairInv, NoRelay, Disable
<1>2. /\ off.state = dev[p].state /\ off.step = "INITIAL"
      /\ shown.state = dev[p].state /\ shown.step = "INITIAL"
      /\ ResetSpeed(shown).state = dev[p].state /\ ResetSpeed(shown).step = "INITIAL"
  BY <1>1 DEF Context, ResetSpeed
<1>3. CASE /\ dev[p].state = "FREE" /\ UNCHANGED net
           /\ Become(p, off) \/ Become(p, shown) \/ Become(p, ResetSpeed(shown))
  <2>1. dev'[p].state = dev[p].state /\ dev'[p].step = "INITIAL"
    BY <1>2, <1>3, BecomeFields
  <2> QED BY <1>1, <1>3, <2>1, StaysStep
<1>4. CASE /\ Become(p, OnReset(StopCooperate(p, off)))
           /\ net' \in SendStop(net, p, dev[p])
  <2>1. off \in Context /\ off.capture = dev[p].capture /\ off.inject = dev[p].inject
    BY <1>1 DEF Context
  <2>2. ContextOK(p, off)
    <3>1. Agree(dev[p], off)
      BY <1>1 DEF Agree, Context
    <3> QED BY <1>1, <2>1, <3>1, AgreeOK
  <2> HIDE DEF off
  <2>3. OnReset(StopCooperate(p, off)).state = "FREE"
    BY <1>2, <2>2, StopCooperateReleases DEF Released, OnReset, Context
  <2>4. dev'[p].state = "FREE"
    BY <1>4, <2>3, BecomeFields
  <2>5. Leaves(p, net)
    BY <1>1, <1>4, StopNowLeaves
  <2> QED BY <1>1, <2>4, <2>5, LeavesStep
<1>5. QED
  BY <1>3, <1>4 DEF Disable

LEMMA AppClosedPair ==
    ASSUME IInv, IInv', PairInv, NEW p \in Device, DevStep(p), AppClosed(p)
    PROVE  PairStep(p)
<1>1. /\ NetOK(net) /\ PairNet(net) /\ UNCHANGED timers /\ dev[p].step = "INITIAL"
      /\ ContextOK(p, dev[p])
  BY DEF IInv, PairInv, NoRelay, AppClosed
<1>2. dev'[p].state = "FREE"
  BY <1>1, StoppedFields, BecomeFields DEF AppClosed
<1>3. PICK m \in CloseAllSessions(net, p) : net' \in SendStop(m, p, dev[p])
  BY DEF AppClosed
<1>4. NetOK(m) /\ PairNet(m) /\ m.faults = net.faults /\ Aside(net, m, p)
  BY <1>1, <1>3, CloseAllSessionsPair
<1>5. /\ PairNet(net')
      /\ net'.faults = 0 =>
           /\ net.faults = 0 /\ Aside(m, net', p)
           /\ \A d \in Device \ {p} : Freed(m, d, p) => Freed(net', d, p)
  BY <1>1, <1>3, <1>4, StopTells
<1>6. ASSUME net'.faults = 0, NEW d \in Device \ {p}, Hears(net, d, p)
      PROVE  Freed(net', d, p)
  <2>1. Freed(m, d, p)
    BY <1>1, <1>3, <1>6, CloseAllTells
  <2> QED BY <1>5, <1>6, <2>1
<1>7. net'.faults = 0 => Aside(net, net', p)
  BY <1>4, <1>5, AsideTransitive
<1>8. Leaves(p, net)
  BY <1>5, <1>6, <1>7 DEF Leaves
<1>9. QED
  BY <1>1, <1>2, <1>8, LeavesStep

LEMMA HotplugPair ==
    ASSUME IInv, IInv', PairInv, NEW p \in Device, DevStep(p), Hotplug(p)
    PROVE  PairStep(p)
<1>1. /\ NetOK(net) /\ PairNet(net) /\ UNCHANGED timers /\ dev[p].state = "OUT"
      /\ ContextOK(p, dev[p])
  BY DEF IInv, PairInv, Hotplug
<1>2. dev'[p].state = "FREE"
  BY StoppedFields, BecomeFields DEF Hotplug
<1>3. PICK m \in SendStop(net, p, dev[p]) :
         net' \in IF p \in PointerDevice THEN {m} ELSE SendStop(m, p, dev[p])
  BY DEF Hotplug
<1>4. /\ NetOK(m) /\ PairNet(m)
      /\ m.faults = 0 =>
           /\ net.faults = 0 /\ Aside(net, m, p)
           /\ Hears(net, dev[p].peer, p) => Freed(m, dev[p].peer, p)
           /\ \A d \in Device \ {p, dev[p].peer} : SamePair(net, m, d, p)
  BY <1>1, <1>3, StopTells DEF ContextOK, RoleOK
<1>5. ASSUME net' \in SendStop(m, p, dev[p]) PROVE Leaves(p, net)
  <2>1. /\ PairNet(net')
        /\ net'.faults = 0 =>
             /\ m.faults = 0 /\ Aside(m, net', p)
             /\ Freed(m, dev[p].peer, p) => Freed(net', dev[p].peer, p)
             /\ \A d \in Device \ {p, dev[p].peer} : SamePair(m, net', d, p)
    BY <1>1, <1>4, <1>5, StopTells DEF ContextOK, RoleOK
  <2>2. net'.faults = 0 => Aside(net, net', p)
    BY <1>4, <2>1, AsideTransitive
  <2>3. ASSUME net'.faults = 0, NEW d \in Device \ {p, dev[p].peer}
        PROVE  SamePair(net, net', d, p)
    BY <1>4, <2>1, <2>3, SamePairTransitive
  <2>4. \A d \in Device : ~Joined(dev[p], d)
    BY <1>1 DEF Joined
  <2>5. ASSUME net'.faults = 0
        PROVE  net.faults = 0 /\ (Hears(net, dev[p].peer, p) => Freed(net', dev[p].peer, p))
    BY <1>4, <2>1, <2>5
  <2>6. ASSUME net'.faults = 0, NEW d \in Device \ {p}
        PROVE  \/ Hears(net, d, p) => Freed(net', d, p)
               \/ SamePair(net, net', d, p) /\ ~Joined(dev[p], d)
    BY <2>3, <2>4, <2>5, <2>6
  <2> QED BY <2>1, <2>2, <2>5, <2>6 DEF Leaves
<1>6. ASSUME net' = m PROVE Leaves(p, net)
  <2>1. net' \in SendStop(net, p, dev[p])
    BY <1>3, <1>6
  <2> QED BY <1>1, <2>1, StopNowLeaves
<1>7. Leaves(p, net)
  BY <1>3, <1>5, <1>6
<1>8. QED
  BY <1>1, <1>2, <1>7, LeavesStep

LEMMA PeerGonePair ==
    ASSUME IInv, PairInv, NEW p \in Device, NEW n, NetOK(n), PairNet(n),
           NEW r \in Device, OnPeerGone(p, n, r)
    PROVE  /\ Leaves(p, n) /\ dev'[p].state = "FREE" /\ UNCHANGED timers
           /\ dev[p].state # "FREE" /\ dev[p].peer = r
<1>1. r = dev[p].peer /\ dev[p].state # "FREE"
  BY StoppedFields DEF OnPeerGone, Concerns
<1>2. dev'[p].state = "FREE" /\ UNCHANGED timers
  BY <1>1, StoppedFields, BecomeFields DEF OnPeerGone
<1>3. Leaves(p, n)
  BY <1>1, StopNowLeaves DEF OnPeerGone
<1>4. QED
  BY <1>1, <1>2, <1>3

LEMMA LocalPointerPair ==
    ASSUME IInv, IInv', PairInv, NEW p \in Device, DevStep(p), LocalPointer(p)
    PROVE  PairStep(p)
<1>1. dev[p] \in Context /\ dev[p].step = "INITIAL"
  BY DEF IInv, PairInv, NoRelay
<1>2. CASE /\ Become(p, [dev[p] EXCEPT !.hide = FALSE, !.visible = TRUE])
           /\ UNCHANGED <<net, timers>>
  <2>1. dev'[p] = [dev[p] EXCEPT !.hide = FALSE, !.visible = TRUE]
    BY <1>2, BecomeFields
  <2>2. dev'[p].state = dev[p].state /\ dev'[p].step = "INITIAL" /\ dev'[p].peer = dev[p].peer
    BY <1>1, <2>1 DEF Context
  <2> QED BY <1>2, <2>2, StaysStep
<1>3. QED
  BY <1>2, StopNowPair DEF LocalPointer

LEMMA UserPair ==
    ASSUME IInv, IInv', NobodyRelays', PairInv, NEW p \in Device, User(p)
    PROVE  PairStep(p)
<1>1. DevStep(p)
  BY UserOK DEF HandlerStep
<1>2. NetOK(net) /\ PairNet(net)
  BY DEF IInv, PairInv
<1>3. CASE \E r \in Device : PeerGone(p, r)
  <2>1. PICK r \in Device : OnPeerGone(p, net, r)
    BY <1>3 DEF PeerGone
  <2> QED BY <1>1, <1>2, <2>1, PeerGonePair, LeavesStep
<1>4. CASE \E r \in Device, opt \in BOOLEAN : Start(p, r, opt)
  BY <1>1, <1>4, StartPair
<1>5. CASE \E unchained, caller \in BOOLEAN : Stop(p, unchained, caller)
  BY <1>1, <1>5, StopPair
<1>6. CASE VirtualTrackpadGone(p)
  BY <1>1, <1>6, StopNowPair DEF VirtualTrackpadGone
<1>7. QED
  BY <1>1, <1>3, <1>4, <1>5, <1>6, EnablePair, DisablePair, AppClosedPair, LocalPointerPair,
     HotplugPair DEF User

-----------------------------------------------------------------------------
(* Packets and posted events                                               *)

\* e is the head of the lane of p from s, and n the network without it.
Takes(p, s, e, n) ==
    /\ net.box[p][s] # <<>>
    /\ e = Head(net.box[p][s])
    /\ n = [net EXCEPT !.box[p][s] = Tail(@)]

LEMMA TakesFields ==
    ASSUME IInv, PairInv, NEW p \in Device, NEW s \in Device, NEW e, NEW n, Takes(p, s, e, n)
    PROVE  /\ NetOK(n) /\ PairNet(n) /\ n.sess = net.sess /\ n.faults = net.faults
           /\ e \in PairEvent(p, s)
           /\ n.box[p][s] = Tail(net.box[p][s])
           /\ \A x, y \in Device : x # p \/ y # s => n.box[x][y] = net.box[x][y]
           /\ Aside(net, n, p)
<1> DEFINE q == net.box[p][s]
           t == Tail(q)
<1>1. /\ NetOK(net) /\ PairNet(net) /\ q \in Seq(EventFor(p)) /\ q \in Seq(PairEvent(p, s))
      /\ q # <<>>
  BY DEF IInv, PairInv, NetOK, PairNet, Takes
<1>2. e = Head(q) /\ n = [net EXCEPT !.box[p][s] = t]
  BY DEF Takes
<1>3. Head(q) \in PairEvent(p, s) /\ t \in Seq(PairEvent(p, s)) /\ t \in Seq(EventFor(p))
  <2> HIDE DEF q
  <2> QED BY <1>1, HeadTailProperties
<1>4. n.sess = net.sess /\ n.faults = net.faults
  BY <1>1, <1>2 DEF NetOK
<1>5. n.box[p][s] = t /\ \A x, y \in Device : x # p \/ y # s => n.box[x][y] = net.box[x][y]
  BY <1>1, <1>2 DEF NetOK
<1> HIDE DEF t
<1>6. NetOK(n)
  BY <1>1, <1>2, <1>3, LaneOK
<1>7. \A x, y \in Device : n.box[x][y] \in Seq(PairEvent(x, y))
  BY <1>1, <1>3, <1>5 DEF PairNet
<1>8. PairNet(n)
  BY <1>1, <1>4, <1>7 DEF PairNet
<1>9. Aside(net, n, p)
  BY <1>4, <1>5 DEF Aside, SamePair
<1>10. QED
  BY <1>2, <1>3, <1>4, <1>5, <1>6, <1>8, <1>9 DEF t

\* What d waits for when p has taken an event: as before, but a START of d
\* that was taken must have been followed.
LEMMA TakesAwaits ==
    ASSUME IInv, PairInv, NEW p \in Device, NEW s \in Device, NEW e, NEW n, Takes(p, s, e, n),
           NEW d \in Device, d # p
    PROVE  /\ Hears(net, d, p) => Hears(n, d, p)
           /\ \A c : s # d /\ Awaits(net, c, d, p) => Awaits(n, c, d, p)
           /\ \A c, k : /\ s = d /\ Awaits(net, c, d, p)
                        /\ e.type = "START_COOPERATE" => Joined(k, d)
                        => Awaits(n, k, d, p)
<1> DEFINE q == net.box[p][s]
           t == Tail(q)
<1>1. /\ n.sess = net.sess /\ n.box[d][d] = net.box[d][d] /\ n.box[d][p] = net.box[d][p]
      /\ s # d => n.box[p][d] = net.box[p][d]
      /\ n.box[p][s] = t
  BY TakesFields
<1>2. /\ Called(n, d, p) <=> Called(net, d, p)
      /\ HalfOpen(n, d, p) <=> HalfOpen(net, d, p)
      /\ Linked(n, d, p) <=> Linked(net, d, p)
  BY <1>1 DEF Called, HalfOpen, Linked
<1>3. q \in Seq(Event) /\ q # <<>> /\ e = Head(q)
  BY DEF IInv, NetOK, Takes
<1>4. IF t = <<>> THEN q[Len(q)] = e ELSE t[Len(t)] = q[Len(q)]
  <2> HIDE DEF q
  <2>1. /\ t \in Seq(Event) /\ Len(q) \in Nat \ {0} /\ Len(t) = Len(q) - 1
        /\ \A i \in 1..Len(t) : t[i] = q[i + 1]
        /\ e = q[1]
    BY <1>3, HeadTailProperties
  <2> HIDE DEF t
  <2>2. t = <<>> <=> Len(t) = 0
    BY <2>1
  <2> QED BY <2>1, <2>2
<1>5. ASSUME s # d, NEW c, Awaits(net, c, d, p)
      PROVE  Awaits(n, c, d, p)
  BY <1>1, <1>2, <1>5 DEF Awaits, Asked
<1>6. ASSUME s = d, NEW c, NEW k, Awaits(net, c, d, p),
             e.type = "START_COOPERATE" => Joined(k, d)
      PROVE  Awaits(n, k, d, p)
  <2>1. CASE Called(net, d, p) \/ HalfOpen(net, d, p)
    BY <1>2, <2>1 DEF Awaits
  <2>2. CASE Linked(net, d, p) /\ Asked(net, d, p)
    <3>1. q[Len(q)].type = "START_COOPERATE"
      BY <1>6, <2>2 DEF Asked
    <3>2. CASE t = <<>>
      <4>1. n.box[p][d] = <<>> /\ Joined(k, d)
        BY <1>1, <1>4, <1>6, <3>1, <3>2
      <4> QED BY <1>2, <2>2, <4>1 DEF Awaits
    <3>3. CASE t # <<>>
      <4>1. n.box[p][d] = t
        BY <1>1, <1>6
      <4>2. Asked(n, d, p)
        BY <1>4, <3>1, <3>3, <4>1 DEF Asked
      <4> QED BY <1>2, <2>2, <4>2 DEF Awaits
    <3> QED BY <3>2, <3>3
  <2> QED BY <1>3, <1>6, <2>1, <2>2 DEF Awaits
<1>7. Hears(net, d, p) => Hears(n, d, p)
  BY <1>1, <1>2 DEF Hears
<1>8. QED
  BY <1>5, <1>6, <1>7

\* What p, which is OUT, waits for when it has taken an event that is not from
\* its peer d.
LEMMA TakesOwn ==
    ASSUME IInv, PairInv, NEW p \in Device, NEW s \in Device, NEW e, NEW n, Takes(p, s, e, n),
           NEW d \in Device, d # p, e.from # d, NEW c, Awaits(net, c, p, d)
    PROVE  Awaits(n, c, p, d)
<1> DEFINE q == net.box[p][s]
           t == Tail(q)
<1>1. /\ n.sess = net.sess /\ n.box[p][s] = t /\ e \in PairEvent(p, s)
      /\ \A x, y \in Device : x # p \/ y # s => n.box[x][y] = net.box[x][y]
  BY TakesFields
<1>2. s # d
  BY <1>1 DEF PairEvent
<1>3. n.box[d][p] = net.box[d][p] /\ n.box[p][d] = net.box[p][d]
  BY <1>1, <1>2
<1>4. /\ HalfOpen(n, p, d) <=> HalfOpen(net, p, d)
      /\ Linked(n, p, d) <=> Linked(net, p, d)
      /\ Asked(n, p, d) <=> Asked(net, p, d)
  BY <1>1, <1>3 DEF HalfOpen, Linked, Asked
<1>5. ASSUME Called(net, p, d) PROVE Called(n, p, d)
  <2>1. CASE net.box[p][d] # <<>>
    BY <1>3, <2>1 DEF Called
  <2>2. CASE s # p
    <3>1. n.box[p][p] = net.box[p][p]
      BY <1>1, <2>2
    <3> QED BY <1>3, <1>5, <3>1 DEF Called
  <2>3. CASE s = p /\ \E k \in DOMAIN q : q[k].from = d
    <3>1. PICK k \in DOMAIN q : q[k].from = d
      BY <2>3
    <3>2. q \in Seq(Event) /\ q # <<>> /\ e = Head(q)
      BY DEF IInv, NetOK, Takes
    <3>3. \E j \in DOMAIN t : t[j].from = d
      <4> HIDE DEF q
      <4>1. Len(q) \in Nat \ {0} /\ k \in 1..Len(q) /\ e = q[1]
        BY <3>1, <3>2, HeadTailProperties
      <4>2. t \in Seq(Event) /\ Len(t) = Len(q) - 1 /\ \A i \in 1..Len(t) : t[i] = q[i + 1]
        BY <3>2, HeadTailProperties
      <4>3. k # 1
        BY <3>1, <4>1
      <4> HIDE DEF t
      <4>4. k - 1 \in DOMAIN t /\ t[k - 1] = q[k]
        BY <4>1, <4>2, <4>3
      <4> QED BY <3>1, <4>4
    <3> HIDE DEF q, t
    <3> QED BY <1>1, <2>3, <3>3 DEF Called
  <2> QED BY <1>5, <2>1, <2>2, <2>3 DEF Called
<1>6. QED
  BY <1>3, <1>4, <1>5 DEF Awaits

\* What p has to do when it has taken e, for each d that waits for it: release
\* d, or leave d as it was and follow its START, if e is one.
Served(p, s, e, n) ==
    \A d \in Device \ {p} :
        \/ Hears(n, d, p) => Freed(net', d, p)
        \/ /\ SamePair(n, net', d, p)
           /\ s = d /\ e.type = "START_COOPERATE" => Joined(dev'[p], d)
           /\ s # d /\ Joined(dev[p], d) => Joined(dev'[p], d)

LEMMA TakesStep ==
    ASSUME IInv, PairInv, NEW p \in Device, DevStep(p), NEW s \in Device,
           NEW e, NEW n, Takes(p, s, e, n), PairNet(net'), UNCHANGED timers,
           net'.faults = 0 => n.faults = 0 /\ Aside(n, net', p) /\ Served(p, s, e, n),
           dev'[p].state = "OUT" => net' = n /\ dev'[p] = dev[p] /\ e.from # dev[p].peer
    PROVE  PairStep(p)
<1>1. n.faults = net.faults /\ Aside(net, n, p) /\ e \in PairEvent(p, s)
  BY TakesFields
<1>2. net'.faults = 0 => net.faults = 0 /\ Aside(net, net', p)
  BY <1>1, AsideTransitive
<1>3. ASSUME net'.faults = 0, NEW d \in Device \ {p}, Awaits(net, dev[p], d, p)
      PROVE  Awaits(net', dev'[p], d, p)
  <2>1. Hears(n, d, p)
    BY <1>3, AwaitsHears, TakesAwaits
  <2>2. CASE Hears(n, d, p) => Freed(net', d, p)
    BY <2>1, <2>2, AwaitsHears
  <2>3. CASE /\ SamePair(n, net', d, p)
             /\ s = d /\ e.type = "START_COOPERATE" => Joined(dev'[p], d)
             /\ s # d /\ Joined(dev[p], d) => Joined(dev'[p], d)
    <3>1. CASE s = d
      <4>1. Awaits(n, dev'[p], d, p)
        BY <1>3, <2>3, <3>1, TakesAwaits
      <4> QED BY <2>3, <4>1, SamePairKeeps
    <3>2. CASE s # d
      <4>1. Awaits(n, dev[p], d, p)
        BY <1>3, <3>2, TakesAwaits
      <4>2. Awaits(n, dev'[p], d, p)
        BY <2>3, <3>2, <4>1, AwaitsHears
      <4> QED BY <2>3, <4>2, SamePairKeeps
    <3> QED BY <3>1, <3>2
  <2> QED BY <1>3, <2>2, <2>3 DEF Served
<1>4. ASSUME net'.faults = 0, NEW d \in Device \ {p}, dev'[p].state = "OUT", dev'[p].peer = d
      PROVE  Awaits(net', dev[d], p, d)
  <2>1. Awaits(net, dev[d], p, d) /\ e.from # d
    BY <1>2, <1>4 DEF PairInv, OutAwaits
  <2> QED BY <1>4, <2>1, TakesOwn
<1>5. QED
  BY <1>2, <1>3, <1>4 DEF PairStep, DevStep

\* p comes to rest after an event that is no START.
LEMMA LeavesTakes ==
    ASSUME IInv, PairInv, NEW p \in Device, DevStep(p), NEW s \in Device,
           NEW e, NEW n, Takes(p, s, e, n), e.type # "START_COOPERATE",
           Leaves(p, n), UNCHANGED timers, dev'[p].state # "OUT"
    PROVE  PairStep(p)
<1>1. net'.faults = 0 => Served(p, s, e, n)
  BY DEF Leaves, Served
<1>2. QED
  BY <1>1, TakesStep DEF Leaves

\* p answers nobody, and goes on with its peer unless the event is from it.
LEMMA QuietTakes ==
    ASSUME IInv, PairInv, NEW p \in Device, DevStep(p), NEW s \in Device,
           NEW e, NEW n, Takes(p, s, e, n), net' = n, UNCHANGED timers,
           dev'[p].state = "OUT" => dev'[p] = dev[p] /\ e.from # dev[p].peer,
           e.type = "START_COOPERATE" => Joined(dev'[p], s),
           \A d \in Device \ {p, s} : Joined(dev[p], d) => Joined(dev'[p], d)
    PROVE  PairStep(p)
<1>1. PairNet(n) /\ Aside(n, n, p) /\ \A d \in Device : SamePair(n, n, d, p)
  BY TakesFields, SameNet
<1>2. Served(p, s, e, n)
  BY <1>1 DEF Served
<1>3. QED
  BY <1>1, <1>2, TakesStep

\* Going IN keeps the step and the peer.
LEMMA EnterInPair ==
    ASSUME NEW p \in Device, NEW k \in Context, k.state # "IN"
    PROVE  LET r == OnTransitionIn(TransiteTo(p, k, "IN")) IN
           r.state = "IN" /\ r.step = k.step /\ r.peer = k.peer
<1> DEFINE t == TransiteTo(p, k, "IN")
<1>1. t \in Context /\ t.state = "IN" /\ t.step = k.step /\ t.peer = k.peer
  BY TransiteToFields
<1> HIDE DEF t
<1>2. /\ OnTransitionIn(t).state = "IN" /\ OnTransitionIn(t).step = k.step
      /\ OnTransitionIn(t).peer = k.peer
  BY <1>1 DEF OnTransitionIn, Context
<1>3. QED
  BY <1>2 DEF t

\* A START in a lane is from the device that has sent it, which is its origin.
LEMMA StartPairFields ==
    ASSUME NEW p \in Device, NEW s \in Device, NEW e \in PairEvent(p, s), e.type = "START_COOPERATE"
    PROVE  e.from = s /\ e.origin = s /\ s # p /\ e.speed \in Speed
<1>1. e \in EventFor(p)
  BY DEF PairEvent
<1>2. QED
  BY <1>1, StartFields DEF PairEvent

\* A device that is FREE joins the sender of a START; one that is IN and gets
\* another START of its peer stays with it.
LEMMA StartedPair ==
    ASSUME IInv, PairInv, NEW p \in Device, DevStep(p), NEW s \in Device,
           NEW e, NEW n, Takes(p, s, e, n), e.type = "START_COOPERATE",
           FreeOnRemoteStart(p, n, e) \/ (InOnRemoteStart(p, n, e) /\ e.from = dev[p].peer)
    PROVE  PairStep(p)
<1>1. dev[p] \in Context /\ e \in PairEvent(p, s)
  BY TakesFields DEF IInv
<1>2. e.from = s /\ e.origin = s /\ s # p /\ e.speed \in Speed
  BY <1>1, StartPairFields
<1>3. CASE FreeOnRemoteStart(p, n, e)
  <2> DEFINE c == BuilderEnable(RemoteStartSuccess(StorePeerSpeed(dev[p], e.speed), e.origin))
  <2>1. dev[p].state = "FREE"
    BY <1>3 DEF FreeOnRemoteStart
  <2>2. c \in Context /\ c.state = "FREE" /\ c.peer = e.origin
    BY <1>1, <1>2, <2>1 DEF BuilderEnable, RemoteStartSuccess, StorePeerSpeed, Context
  <2>3. Become(p, OnTransitionIn(TransiteTo(p, c, "IN"))) /\ net' = n /\ UNCHANGED timers
    BY <1>3 DEF FreeOnRemoteStart
  <2> HIDE DEF c
  <2>4. dev'[p].state = "IN" /\ Joined(dev'[p], s)
    BY <1>2, <2>2, <2>3, EnterInPair, BecomeFields DEF Joined
  <2>5. \A d \in Device : ~Joined(dev[p], d)
    BY <2>1 DEF Joined
  <2> QED BY <2>3, <2>4, <2>5, QuietTakes
<1>4. CASE InOnRemoteStart(p, n, e) /\ e.from = dev[p].peer
  <2>1. dev[p].state = "IN"
    BY <1>4 DEF InOnRemoteStart
  <2>2. Become(p, StorePeerSpeed(dev[p], e.speed)) /\ net' = n /\ UNCHANGED timers
    BY <1>4 DEF InOnRemoteStart
  <2>3. LET k == StorePeerSpeed(dev[p], e.speed) IN k.state = "IN" /\ k.peer = dev[p].peer
    BY <1>1, <2>1 DEF StorePeerSpeed, Context
  <2>4. dev'[p].state = "IN" /\ dev'[p].peer = dev[p].peer
    BY <2>2, <2>3, BecomeFields
  <2> QED BY <1>2, <1>4, <2>1, <2>2, <2>4, QuietTakes DEF Joined
<1>5. QED
  BY <1>3, <1>4

\* p turns from its peer to the device that has sent a START, and tells the peer.
LEMMA TurnsStep ==
    ASSUME IInv, PairInv, NEW p \in Device, DevStep(p), NEW s \in Device,
           NEW e, NEW n, Takes(p, s, e, n), UNCHANGED timers,
           net' \in SendStop(n, p, dev[p]), Joined(dev'[p], s), dev[p].peer # s
    PROVE  PairStep(p)
<1>1. NetOK(n) /\ PairNet(n) /\ dev'[p].state = "IN"
  BY TakesFields DEF Joined
<1>2. Leaves(p, n)
  BY <1>1, StopNowLeaves
<1>3. net'.faults = 0 => Served(p, s, e, n)
  BY <1>2 DEF Leaves, Served
<1>4. QED
  BY <1>1, <1>2, <1>3, TakesStep DEF Leaves

LEMMA TurnedPair ==
    ASSUME IInv, PairInv, NEW p \in Device, DevStep(p), NEW s \in Device,
           NEW e, NEW n, Takes(p, s, e, n), e.type = "START_COOPERATE", e.from # dev[p].peer,
           InOnRemoteStart(p, n, e) \/ OutOnRemoteStart(p, n, e)
    PROVE  PairStep(p)
<1>1. dev[p] \in Context /\ e \in PairEvent(p, s)
  BY TakesFields DEF IInv
<1>2. e.from = s /\ e.origin = s /\ s # p /\ e.speed \in Speed
  BY <1>1, StartPairFields
<1>3. CASE InOnRemoteStart(p, n, e)
  <2> DEFINE c == StorePeerSpeed(dev[p], e.speed)
             b == RemoteStartSuccess(ResetSpeed(c), e.origin)
             k == OnTransitionIn(BuilderUpdate(b))
  <2>1. Become(p, k) /\ net' \in SendStop(n, p, dev[p]) /\ UNCHANGED timers /\ dev[p].state = "IN"
    BY <1>3 DEF InOnRemoteStart
  <2>2. c \in Context /\ c.state = "IN"
    BY <1>1, <1>2, <2>1 DEF StorePeerSpeed, Context
  <2> HIDE DEF c
  <2>3. b \in Context /\ b.state = "IN" /\ b.peer = s
    BY <1>2, <2>2 DEF RemoteStartSuccess, ResetSpeed, Context, Speed
  <2> HIDE DEF b
  <2>4. k.state = "IN" /\ k.peer = s
    BY <2>3 DEF OnTransitionIn, BuilderUpdate, Context
  <2> HIDE DEF k
  <2>5. Joined(dev'[p], s)
    BY <2>1, <2>4, BecomeFields DEF Joined
  <2> QED BY <1>2, <2>1, <2>5, TurnsStep
<1>4. CASE OutOnRemoteStart(p, n, e)
  <2> DEFINE c == InterceptorDisable(ResetSpeed(dev[p]))
             b == BuilderEnable(RemoteStartSuccess(c, e.origin))
  <2>1. /\ Become(p, OnTransitionIn(TransiteTo(p, b, "IN")))
        /\ net' \in SendStop(n, p, dev[p]) /\ UNCHANGED timers /\ dev[p].state = "OUT"
    BY <1>4 DEF OutOnRemoteStart
  <2>2. c \in Context /\ c.state = "OUT"
    BY <1>1, <2>1 DEF InterceptorDisable, ResetSpeed, Context, Speed
  <2> HIDE DEF c
  <2>3. b \in Context /\ b.state = "OUT" /\ b.peer = s
    BY <1>2, <2>2 DEF BuilderEnable, RemoteStartSuccess, Context
  <2> HIDE DEF b
  <2>4. Joined(dev'[p], s)
    BY <2>1, <2>3, EnterInPair, BecomeFields DEF Joined
  <2> QED BY <1>2, <2>1, <2>4, TurnsStep
<1>5. QED
  BY <1>3, <1>4

LEMMA RefusedPair ==
    ASSUME IInv, PairInv, NEW p \in Device, DevStep(p), NEW s \in Device,
           NEW e, NEW n, Takes(p, s, e, n), RemoteStartRefused(p, n)
    PROVE  PairStep(p)
<1>1. NetOK(n) /\ PairNet(n)
  BY TakesFields
<1>2. CASE OnStop(p, n, TRUE, FALSE)
  <2>1. /\ Leaves(p, n) /\ dev'[p].state = "FREE" /\ UNCHANGED timers
        /\ net'.faults = 0 => \A d \in Device \ {p} : Hears(n, d, p) => Freed(net', d, p)
    BY <1>1, <1>2, OnStopPair
  <2>2. net'.faults = 0 => Served(p, s, e, n)
    BY <2>1 DEF Served
  <2> QED BY <2>1, <2>2, TakesStep DEF Leaves
<1>3. CASE MayFail(n) /\ OnStop(p, Fault(n), TRUE, FALSE)
  <2> DEFINE f == Fault(n)
  <2>1. NetOK(f)
    BY <1>1, <1>3, FaultOK DEF MayFail
  <2>2. PairNet(f) /\ f.faults # 0
    BY <1>1 DEF Fault, PairNet, NetOK
  <2> HIDE DEF f
  <2>3. OnStop(p, f, TRUE, FALSE)
    BY <1>3 DEF f
  <2>4. Leaves(p, f) /\ dev'[p].state = "FREE" /\ UNCHANGED timers
    BY <2>1, <2>2, <2>3, OnStopPair
  <2> QED BY <2>2, <2>4, FaultStep DEF Leaves
<1>4. QED
  BY <1>2, <1>3 DEF RemoteStartRefused

\* A START of the peer of a device that is OUT releases both.
LEMMA OutStartedPair ==
    ASSUME IInv, PairInv, NEW p \in Device, DevStep(p), NEW s \in Device,
           NEW e, NEW n, Takes(p, s, e, n), e.type = "START_COOPERATE",
           OutOnRemoteStart(p, n, e), e.from = dev[p].peer
    PROVE  PairStep(p)
<1>1. /\ NetOK(n) /\ PairNet(n) /\ dev[p].state = "OUT" /\ StopNow(p, n) /\ e \in PairEvent(p, s)
      /\ ContextOK(p, dev[p])
  BY TakesFields DEF OutOnRemoteStart, IInv
<1>2. Leaves(p, n)
  BY <1>1, StopNowLeaves DEF StopNow
<1>3. dev'[p].state = "FREE" /\ UNCHANGED timers
  BY <1>1, StoppedFields, BecomeFields DEF StopNow
<1>4. dev[p].peer = s
  BY <1>1, StartPairFields
<1>5. net'.faults = 0 => \A d \in Device \ {p} : d = s => (Hears(n, d, p) => Freed(net', d, p))
  BY <1>1, <1>4, StopTells DEF StopNow
<1>6. net'.faults = 0 => Served(p, s, e, n)
  BY <1>2, <1>5 DEF Leaves, Served
<1>7. QED
  BY <1>2, <1>3, <1>6, TakesStep DEF Leaves

\* STOP and COME_BACK release p without an answer.
LEMMA StoppedPair ==
    ASSUME IInv, PairInv, NEW p \in Device, DevStep(p), NEW s \in Device,
           NEW e, NEW n, Takes(p, s, e, n), OnRemoteStop(p, n, e) \/ OnComeBack(p, n, e)
    PROVE  PairStep(p)
<1>1. /\ dev[p] \in Context /\ ContextOK(p, dev[p]) /\ dev[p].step = "INITIAL"
      /\ e \in PairEvent(p, s)
  BY TakesFields DEF IInv, PairInv, NoRelay
<1>2. /\ net' = n /\ UNCHANGED timers /\ s = dev[p].peer /\ e.type # "START_COOPERATE"
      /\ dev[p].state # "FREE"
  BY <1>1 DEF OnRemoteStop, OnComeBack, PairEvent
<1>3. ASSUME NEW k \in Context, k.state # "FREE"
      PROVE  ResetSpeed(TransiteTo(p, k, "FREE")).state = "FREE"
  <2>1. TransiteTo(p, k, "FREE") \in Context /\ TransiteTo(p, k, "FREE").state = "FREE"
    BY <1>3, TransiteToFields
  <2> QED BY <2>1 DEF ResetSpeed, Context
<1>4. dev'[p].state = "FREE"
  <2>1. CASE OnRemoteStop(p, n, e)
    <3> DEFINE off == IF dev[p].state = "OUT" THEN InterceptorDisable(dev[p]) ELSE BuilderDisable(dev[p])
    <3>1. off \in Context /\ off.state # "FREE"
      BY <1>1, <1>2 DEF InterceptorDisable, BuilderDisable, Context
    <3>2. Become(p, ResetSpeed(TransiteTo(p, off, "FREE")))
      BY <1>1, <2>1 DEF OnRemoteStop
    <3> HIDE DEF off
    <3> QED BY <1>3, <3>1, <3>2, BecomeFields
  <2>2. CASE OnComeBack(p, n, e)
    <3> DEFINE c == RemoteStartSuccess(InterceptorDisable(dev[p]), e.from)
    <3>1. c \in Context /\ c.state # "FREE"
      <4>1. e.from \in Device
        BY <1>1 DEF PairEvent, EventFor, Event
      <4> QED BY <1>1, <1>2, <4>1 DEF RemoteStartSuccess, InterceptorDisable, Context
    <3>2. Become(p, ResetSpeed(TransiteTo(p, c, "FREE")))
      BY <2>2 DEF OnComeBack
    <3> HIDE DEF c
    <3> QED BY <1>3, <3>1, <3>2, BecomeFields
  <2> QED BY <2>1, <2>2
<1>5. \A d \in Device \ {p, s} : ~Joined(dev[p], d)
  BY <1>2 DEF Joined
<1>6. QED
  BY <1>2, <1>4, <1>5, QuietTakes

LEMMA ClosedPair ==
    ASSUME IInv, PairInv, NEW p \in Device, DevStep(p), NEW s \in Device,
           NEW e, NEW n, Takes(p, s, e, n), OnSoftbusSessionClosed(p, n, e)
    PROVE  PairStep(p)
<1>1. NetOK(n) /\ PairNet(n) /\ e \in PairEvent(p, s)
  BY TakesFields
<1>2. e.from \in Device /\ OnPeerGone(p, n, e.from) /\ e.type = "SESSION_CLOSED"
  BY <1>1 DEF OnSoftbusSessionClosed, PairEvent, EventFor, Event
<1>3. Leaves(p, n) /\ dev'[p].state = "FREE" /\ UNCHANGED timers
  BY <1>1, <1>2, PeerGonePair
<1>4. QED
  BY <1>2, <1>3, LeavesTakes

LEMMA UnhandledPair ==
    ASSUME IInv, PairInv, NEW p \in Device, DevStep(p), NEW s \in Device,
           NEW e, NEW n, Takes(p, s, e, n), Unhandled(p, n, e)
    PROVE  PairStep(p)
<1>1. e \in PairEvent(p, s)
  BY TakesFields
<1>2. /\ e.type # "START_COOPERATE"
      /\ dev[p].state = "OUT" => e.from # dev[p].peer
  BY <1>1 DEF Unhandled, PairEvent, Concerns
<1>3. net' = n /\ UNCHANGED <<dev, timers>>
  BY DEF Unhandled
<1>4. QED
  BY <1>2, <1>3, QuietTakes

LEMMA DispatchPair ==
    ASSUME IInv, PairInv, NEW p \in Device, NEW s \in Device, Dispatch(p, s)
    PROVE  PairStep(p)
<1> DEFINE e == Head(net.box[p][s])
           n == [net EXCEPT !.box[p][s] = Tail(@)]
<1>1. DevStep(p)
  BY DispatchOK DEF HandlerStep
<1>2. Takes(p, s, e, n)
  BY DEF Takes, Dispatch
<1>3. \/ OnRemoteStart(p, n, e) \/ OnRemoteStop(p, n, e) \/ OnComeBack(p, n, e)
      \/ OnRelay(p, n, e) \/ OnResponse(p, n, e)
      \/ OnSoftbusSessionClosed(p, n, e) \/ Unhandled(p, n, e)
  BY DEF Dispatch
<1> HIDE DEF e, n
<1>4. e \in PairEvent(p, s) /\ dev[p].step = "INITIAL"
  BY <1>2, TakesFields DEF PairInv, NoRelay
<1>5. CASE OnRemoteStart(p, n, e)
  <2>1. e.type = "START_COOPERATE" /\ ~RelayOnRemoteStart(p, n, e)
    BY <1>4, <1>5 DEF OnRemoteStart, RelayOnRemoteStart
  <2> QED BY <1>1, <1>2, <1>5, <2>1, RefusedPair, StartedPair, TurnedPair, OutStartedPair
          DEF OnRemoteStart
<1>6. ~OnRelay(p, n, e) /\ ~OnResponse(p, n, e)
  BY <1>4 DEF OnRelay, OnResponse, PairEvent
<1>7. QED
  BY <1>1, <1>2, <1>3, <1>5, <1>6, StoppedPair, ClosedPair, UnhandledPair

-----------------------------------------------------------------------------
(* The soft bus and the timers; the theorems                               *)

\* p finds the session with s closed: that is an event for p itself.
LEMMA ShutdownStep ==
    ASSUME IInv, PairInv, NEW p \in Device, NEW s \in Device,
           OnShutdown(p, s) \/ LinkDown(p, s)
    PROVE  PairInv'
<1>1. /\ NetOK(net) /\ PairNet(net) /\ dev \in [Device -> Context] /\ UNCHANGED <<dev, timers>>
      /\ s # p
  BY DEF IInv, PairInv, PairNet, OnShutdown, LinkDown
<1>2. NoRelay'
  BY <1>1 DEF PairInv, NoRelay
<1>3. CASE OnShutdown(p, s)
  <2>1. /\ PairNet(net') /\ net'.faults = net.faults /\ net'.box[p][s] # <<>>
        /\ \A x \in Device \ {p} : net'.sess[x] = net.sess[x] /\ net'.box[x] = net.box[x]
        /\ \A x \in Device \ {s} : /\ x \in net'.sess[p] <=> x \in net.sess[p]
                                  /\ net'.box[p][x] = net.box[p][x]
        /\ p \notin net.sess[s]
    BY <1>1, <1>3, ShutdownPair DEF OnShutdown
  <2>2. ASSUME net'.faults = 0, NEW d \in Device, dev[d].state = "OUT"
        PROVE  Awaits(net', dev[dev[d].peer], d, dev[d].peer)
    <3> DEFINE q == dev[d].peer
    <3>1. q \in Device \ {d}
      BY <2>2 DEF IInv, ContextOK, RoleOK
    <3>2. Awaits(net, dev[q], d, q)
      BY <2>1, <2>2 DEF PairInv, OutAwaits
    <3> HIDE DEF q
    <3>3. CASE d = p /\ q = s
      BY <2>1, <3>3 DEF Awaits, Called, q
    <3>4. CASE d = s /\ q = p
      <4>1. Called(net, d, q)
        BY <2>1, <3>2, <3>4 DEF Awaits, HalfOpen, Linked
      <4>2. Called(net', d, q)
        BY <1>1, <2>1, <3>4, <4>1 DEF Called
      <4> QED BY <4>2 DEF Awaits, q
    <3>5. CASE ~(d = p /\ q = s) /\ ~(d = s /\ q = p)
      <4>1. SamePair(net, net', d, q)
        BY <1>1, <2>1, <3>1, <3>5 DEF SamePair
      <4>2. Awaits(net', dev[q], d, q)
        BY <3>2, <4>1, SamePairKeeps
      <4> QED BY <4>2 DEF q
    <3> QED BY <3>3, <3>4, <3>5
  <2>3. net'.faults = 0 => OutAwaits'
    BY <1>1, <2>2 DEF OutAwaits
  <2> QED BY <1>2, <2>1, <2>3 DEF PairInv, PairNet
<1>4. CASE LinkDown(p, s)
  <2> DEFINE f == Fault(net)
  <2>1. NetOK(f)
    BY <1>1, <1>4, FaultOK DEF LinkDown, MayFail
  <2>2. PairNet(f) /\ f.faults # 0
    BY <1>1 DEF Fault, PairNet, NetOK
  <2>3. net' \in Shutdown(f, p, s)
    BY <1>4 DEF LinkDown
  <2> HIDE DEF f
  <2>4. PairNet(net') /\ net'.faults # 0
    BY <1>1, <2>1, <2>2, <2>3, ShutdownPair
  <2> QED BY <1>2, <2>4 DEF PairInv, PairNet
<1>5. QED
  BY <1>3, <1>4

LEMMA InitPairInv == Init => PairInv
<1> SUFFICES ASSUME Init PROVE PairInv
  OBVIOUS
<1>1. \A d \in Device : dev[d].state = "FREE" /\ dev[d].step = "INITIAL"
  BY DEF Init, InitContext
<1>2. \A S : <<>> \in Seq(S)
  OBVIOUS
<1>3. PairNet(net)
  BY <1>2 DEF Init, PairNet
<1>4. \A d \in Device, i \in TimerId : timers[d][i] = None
  BY DEF Init
<1>5. QED
  BY <1>1, <1>3, <1>4 DEF PairInv, NoRelay, OutAwaits

LEMMA NextPairInv ==
    ASSUME IInv, IInv', NobodyRelays', PairInv, [Next]_vars
    PROVE  PairInv'
<1>1. ASSUME NEW p \in Device, User(p) PROVE PairInv'
  BY <1>1, UserPair, PairStepOK
<1>2. ASSUME NEW p \in Device, NEW s \in Device, Dispatch(p, s) PROVE PairInv'
  BY <1>2, DispatchPair, PairStepOK
<1>3. ASSUME NEW p \in Device, NEW i \in TimerId, FireTimer(p, i) PROVE PairInv'
  BY <1>3 DEF PairInv, NoRelay, FireTimer
<1>4. CASE UNCHANGED vars
  BY <1>4 DEF vars, PairInv, PairNet, NoRelay, OutAwaits, Awaits, Called, HalfOpen, Linked, Asked,
              Joined
<1>5. QED
  BY <1>1, <1>2, <1>3, <1>4, ShutdownStep DEF Next, System

\* As long as nobody relays, every lane holds only what its sender says of
\* itself, and as long as no call has failed a device that is OUT still has its
\* release or its peer to come, whatever calls, refusals and closed sessions of
\* any number of devices there are.
THEOREM PairInvariance == Spec /\ []NobodyRelays => []PairInv
<1>1. IInv /\ IInv' /\ NobodyRelays' /\ PairInv /\ [Next]_vars => PairInv'
  BY NextPairInv
<1>2. QED
  BY <1>1, InitPairInv, Invariance, PTL DEF Spec

LEMMA AwaitsReaches == IInv /\ PairInv => OutReaches
<1> SUFFICES ASSUME IInv, PairInv, Quiet, net.faults = 0, NEW d \in Device, dev[d].state = "OUT"
             PROVE  Matched(d)
  BY DEF OutReaches
<1> DEFINE p == dev[d].peer
<1>1. p \in Device
  BY DEF IInv, ContextOK, RoleOK
<1>2. Awaits(net, dev[p], d, p)
  BY DEF PairInv, OutAwaits
<1> HIDE DEF p
<1>3. net.box[d][d] = <<>> /\ net.box[d][p] = <<>> /\ net.box[p][d] = <<>>
  BY <1>1 DEF Quiet
<1>4. ~Called(net, d, p) /\ ~HalfOpen(net, d, p) /\ ~Asked(net, d, p)
  BY <1>1, <1>3 DEF Called, HalfOpen, Asked, Quiet
<1>5. Joined(dev[p], d)
  BY <1>2, <1>4 DEF Awaits
<1>6. QED
  BY <1>5 DEF Joined, Matched, p

\* As long as nobody relays and no call has failed, crossed Starts, Stops,
\* refusals, a peer that turns to another device and closed sessions never leave
\* a device at rest in OUT with nobody at the other end to inject its input,
\* however many devices there are.
THEOREM OutReachesUnrelayed == Spec /\ []NobodyRelays => []OutReaches
<1>1. QED
  BY AwaitsReaches, Invariance, PairInvariance, PTL

\* Between two devices there is nobody to relay to, so OutReaches holds without
\* a condition on the behaviour.
THEOREM OutReachesHolds == ASSUME TwoDevices PROVE Spec => []OutReaches
<1>1. IInv => NobodyRelays
  BY DEF TwoDevices, IInv, NobodyRelays, ContextOK, RoleOK, Context
<1>2. QED
  BY <1>1, Invariance, OutReachesUnrelayed, PTL

=============================================================================
