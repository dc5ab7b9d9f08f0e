-------------------------- MODULE TimerManagerProofs --------------------------
(***************************************************************************)
(* Proofs about TimerManager, for any users, intervals, lags and limits.   *)
(*                                                                         *)
(* Ordered rests on what InsertTimerInternal and Erase do to an ordered    *)
(* list; the types need besides that the count of calls that are left of a *)
(* repeated timer never reaches zero in the list, and WakesUp needs the    *)
(* types only.  That TimerManager implements Alarms needs both: the list   *)
(* as a set, and its head as the timer that has been due for longest.      *)
(***************************************************************************)
EXTENDS TimerManager, SequenceTheorems, WellFoundedInduction, TLAPS

\* A timer of the list: a repeated one has a call left.
Live == {t \in Timer : IF t.repeat = 0 THEN t.left = 0 ELSE t.left \in 1..t.repeat}

Task ==
    {t \in [does : {"add", "remove", "reset", "process"}, by : User \cup {NONEXISTENT_ID},
            id : NONEXISTENT_ID..(MaxTimers - 1), interval : 0..MaxInterval, repeat : 0..MaxRepeat] :
        /\ t.does = "add" => t.by \in User /\ t.interval # 0}

OrderedSeq(ts) ==
    \A i, j \in DOMAIN ts : i < j => ts[i].next <= ts[j].next /\ ts[i].id # ts[j].id

IInv ==
    /\ TypeOK
    /\ timers \in Seq(Live)
    /\ queue \in Seq(Task)
    /\ Ordered
    /\ WakesUp

-----------------------------------------------------------------------------
(* The list of timers *)

LEMMA LowestNat ==
  ASSUME NEW T, T \subseteq Nat, T # {}
  PROVE  First(T) \in T /\ \A j \in T : First(T) <= j
<1> DEFINE R == OpToRel(<, Nat)
<1>1. IsWellFoundedOn(R, Nat)
  BY NatLessThanWellFounded
<1>2. \A i, j \in Nat : i < j => <<i, j>> \in R
  BY DEF OpToRel
<1> HIDE DEF R
<1>3. PICK i \in T : \A j \in T : ~(<<j, i>> \in R)
  BY <1>1, WFMin
<1>4. \A j \in T : ~(j < i)
  BY <1>2, <1>3
<1>5. \A j \in T : i <= j
  BY <1>4
<1> QED BY <1>5 DEF First

LEMMA NextIdIsFree ==
  ASSUME NEW ts \in Seq(Timer)
  PROVE  /\ TakeNextTimerId(ts) \in NONEXISTENT_ID..(MaxTimers - 1)
         /\ TakeNextTimerId(ts) # NONEXISTENT_ID =>
               TakeNextTimerId(ts) \in 0..(MaxTimers - 1) /\ \A i \in DOMAIN ts : ts[i].id # TakeNextTimerId(ts)
<1> DEFINE free == 0..(MaxTimers - 1) \ {ts[i].id : i \in DOMAIN ts}
<1>1. CASE free = {}
  BY <1>1, BoundAssumption DEF TakeNextTimerId, NONEXISTENT_ID
<1>2. CASE free # {}
  <2>1. free \subseteq Nat
    BY BoundAssumption
  <2>2. First(free) \in free
    BY <1>2, <2>1, LowestNat
  <2>3. TakeNextTimerId(ts) = First(free)
    BY <1>2 DEF TakeNextTimerId
  <2>4. First(free) \in 0..(MaxTimers - 1) /\ First(free) # NONEXISTENT_ID
    BY <2>2, BoundAssumption DEF NONEXISTENT_ID
  <2>5. \A i \in DOMAIN ts : ts[i].id # First(free)
    BY <2>2
  <2> HIDE DEF free
  <2> QED BY <2>3, <2>4, <2>5, BoundAssumption DEF NONEXISTENT_ID
<1> QED BY <1>1, <1>2

LEMMA TimerFields ==
  ASSUME NEW t \in Timer
  PROVE  t.next \in Int /\ t.id \in Int
BY BoundAssumption DEF Timer

\* The timers of a list
Elements(ts) == {ts[i] : i \in DOMAIN ts}

\* InsertTimerInternal keeps an ordered list ordered, and adds one timer.
LEMMA InsertKeeps ==
  ASSUME NEW S, S \subseteq Timer, NEW ts \in Seq(S), NEW t \in S, OrderedSeq(ts),
         \A i \in DOMAIN ts : ts[i].id # t.id
  PROVE  /\ InsertTimerInternal(ts, t) \in Seq(S)
         /\ OrderedSeq(InsertTimerInternal(ts, t))
         /\ Elements(InsertTimerInternal(ts, t)) = Elements(ts) \cup {t}
<1> DEFINE later == {i \in DOMAIN ts : ts[i].next > t.next}
           at == First(later \cup {Len(ts) + 1})
           r == InsertTimerInternal(ts, t)
<1>0. /\ Len(ts) \in Nat /\ DOMAIN ts = 1..Len(ts)
      /\ \A i \in DOMAIN ts : ts[i] \in S /\ ts[i].next \in Int
  <2>1. Len(ts) \in Nat /\ DOMAIN ts = 1..Len(ts) /\ \A i \in DOMAIN ts : ts[i] \in S
    OBVIOUS
  <2> QED BY <2>1, TimerFields
<1>1. at \in later \cup {Len(ts) + 1} /\ \A j \in later \cup {Len(ts) + 1} : at <= j
  <2>1. later \cup {Len(ts) + 1} \subseteq Nat /\ later \cup {Len(ts) + 1} # {}
    BY <1>0
  <2> HIDE DEF later
  <2> QED BY <2>1, LowestNat
<1>2. at \in 1..(Len(ts) + 1)
  BY <1>0, <1>1
<1>3. t.next \in Int
  BY TimerFields
<1>4. \A i \in DOMAIN ts : i < at => ts[i].next <= t.next
  <2> SUFFICES ASSUME NEW i \in DOMAIN ts, i < at PROVE ts[i].next <= t.next
    OBVIOUS
  <2>1. i \notin later
    <3> HIDE DEF at
    <3> QED BY <1>0, <1>1, <1>2
  <2> QED BY <1>0, <1>3, <2>1
<1>5. \A i \in DOMAIN ts : i >= at => t.next <= ts[i].next
  <2> SUFFICES ASSUME NEW i \in DOMAIN ts, i >= at PROVE t.next <= ts[i].next
    OBVIOUS
  <2>1. at \in DOMAIN ts /\ ts[at].next > t.next
    BY <1>0, <1>1, <1>2
  <2>2. ts[at].next <= ts[i].next
    BY <1>0, <1>2, <2>1 DEF OrderedSeq
  <2> QED BY <1>0, <1>3, <2>1, <2>2
<1>6. r = SubSeq(ts, 1, at - 1) \o <<t>> \o SubSeq(ts, at, Len(ts))
  BY DEF InsertTimerInternal
<1> HIDE DEF at, r
<1>7. /\ r \in Seq(S) /\ Len(r) = Len(ts) + 1
      /\ \A k \in 1..(Len(ts) + 1) :
            /\ k < at => r[k] = ts[k]
            /\ k = at => r[k] = t
            /\ k > at => r[k] = ts[k - 1]
  <2> DEFINE a == SubSeq(ts, 1, at - 1)
             z == SubSeq(ts, at, Len(ts))
  <2>1. a \in Seq(S) /\ Len(a) = at - 1 /\ \A k \in 1..(at - 1) : a[k] = ts[k]
    BY <1>0, <1>2
  <2>2. z \in Seq(S) /\ Len(z) = Len(ts) - at + 1 /\ \A k \in 1..(Len(ts) - at + 1) : z[k] = ts[at + k - 1]
    BY <1>0, <1>2
  <2>3. <<t>> \in Seq(S) /\ Len(<<t>>) = 1 /\ <<t>>[1] = t
    OBVIOUS
  <2> HIDE DEF a, z
  <2>4. a \o <<t>> \in Seq(S) /\ Len(a \o <<t>>) = at
        /\ (\A k \in 1..(at - 1) : (a \o <<t>>)[k] = ts[k]) /\ (a \o <<t>>)[at] = t
    BY <1>2, <2>1, <2>3
  <2>5. r = (a \o <<t>>) \o z
    BY <1>6 DEF a, z
  <2>6. r \in Seq(S) /\ Len(r) = Len(ts) + 1
    BY <1>0, <1>2, <2>2, <2>4, <2>5
  <2>7. ASSUME NEW k \in 1..(Len(ts) + 1)
        PROVE  r[k] = IF k <= at THEN (a \o <<t>>)[k] ELSE z[k - at]
    BY <1>0, <1>2, <2>2, <2>4, <2>5
  <2>8. ASSUME NEW k \in 1..(Len(ts) + 1), k > at
        PROVE  r[k] = ts[k - 1]
    <3>1. k - at \in 1..(Len(ts) - at + 1) /\ at + (k - at) - 1 = k - 1
      BY <1>0, <1>2, <2>8
    <3>2. z[k - at] = ts[k - 1]
      BY <2>2, <3>1
    <3>3. r[k] = z[k - at]
      BY <1>2, <2>7, <2>8
    <3> QED BY <3>2, <3>3
  <2>9. ASSUME NEW k \in 1..(Len(ts) + 1), k <= at
        PROVE  r[k] = (a \o <<t>>)[k]
    BY <2>7, <2>9
  <2>10. ASSUME NEW k \in 1..(Len(ts) + 1), k < at
         PROVE  r[k] = ts[k]
    BY <1>0, <1>2, <2>4, <2>9, <2>10
  <2>11. ASSUME NEW k \in 1..(Len(ts) + 1), k = at
         PROVE  r[k] = t
    BY <1>0, <1>2, <2>4, <2>9, <2>11
  <2> QED BY <2>6, <2>8, <2>10, <2>11
<1>8. OrderedSeq(r)
  <2> SUFFICES ASSUME NEW i \in 1..(Len(ts) + 1), NEW j \in 1..(Len(ts) + 1), i < j
               PROVE  r[i].next <= r[j].next /\ r[i].id # r[j].id
    BY <1>0, <1>7 DEF OrderedSeq
  <2>1. CASE j < at
    <3>1. i \in DOMAIN ts /\ j \in DOMAIN ts /\ r[i] = ts[i] /\ r[j] = ts[j]
      BY <1>0, <1>2, <1>7, <2>1
    <3> QED BY <3>1 DEF OrderedSeq
  <2>2. CASE j = at
    <3>1. i \in DOMAIN ts /\ i < at /\ r[i] = ts[i] /\ r[j] = t
      BY <1>0, <1>2, <1>7, <2>2
    <3> QED BY <1>4, <3>1
  <2>3. CASE j > at /\ i < at
    <3>1. i \in DOMAIN ts /\ j - 1 \in DOMAIN ts /\ i < j - 1 /\ r[i] = ts[i] /\ r[j] = ts[j - 1]
      BY <1>0, <1>2, <1>7, <2>3
    <3> QED BY <3>1 DEF OrderedSeq
  <2>4. CASE j > at /\ i = at
    <3>1. j - 1 \in DOMAIN ts /\ j - 1 >= at /\ r[i] = t /\ r[j] = ts[j - 1]
      BY <1>0, <1>2, <1>7, <2>4
    <3> QED BY <1>5, <3>1
  <2>5. CASE j > at /\ i > at
    <3>1. i - 1 \in DOMAIN ts /\ j - 1 \in DOMAIN ts /\ i - 1 < j - 1 /\ r[i] = ts[i - 1] /\ r[j] = ts[j - 1]
      BY <1>0, <1>2, <1>7, <2>5
    <3> QED BY <3>1 DEF OrderedSeq
  <2> QED BY <1>2, <2>1, <2>2, <2>3, <2>4, <2>5
<1>9. Elements(r) = Elements(ts) \cup {t}
  <2>1. ASSUME NEW k \in 1..(Len(ts) + 1) PROVE r[k] = t \/ \E i \in DOMAIN ts : r[k] = ts[i]
    <3>1. CASE k < at
      BY <1>0, <1>2, <1>7, <3>1
    <3>2. CASE k = at
      BY <1>7, <3>2
    <3>3. CASE k > at
      <4>1. k - 1 \in DOMAIN ts /\ r[k] = ts[k - 1]
        BY <1>0, <1>2, <1>7, <3>3
      <4> QED BY <4>1
    <3> QED BY <1>2, <3>1, <3>2, <3>3
  <2>2. \E k \in 1..(Len(ts) + 1) : r[k] = t
    BY <1>2, <1>7
  <2>3. ASSUME NEW i \in DOMAIN ts PROVE \E k \in 1..(Len(ts) + 1) : r[k] = ts[i]
    <3>1. CASE i < at
      <4>1. i \in 1..(Len(ts) + 1)
        BY <1>0
      <4> QED BY <1>7, <3>1, <4>1
    <3>2. CASE i >= at
      <4>1. i + 1 \in 1..(Len(ts) + 1) /\ i + 1 > at /\ (i + 1) - 1 = i
        BY <1>0, <1>2, <3>2
      <4>2. r[i + 1] = ts[(i + 1) - 1]
        BY <1>7, <4>1
      <4> QED BY <4>1, <4>2
    <3> QED BY <1>0, <1>2, <3>1, <3>2
  <2>4. DOMAIN r = 1..(Len(ts) + 1)
    BY <1>0, <1>7
  <2>5. Elements(r) \subseteq Elements(ts) \cup {t}
    BY <2>1, <2>4 DEF Elements
  <2>6. t \in Elements(r) /\ Elements(ts) \subseteq Elements(r)
    BY <2>2, <2>3, <2>4 DEF Elements
  <2> QED BY <2>5, <2>6
<1> QED BY <1>7, <1>8, <1>9 DEF r

\* A list without one of its elements: still ordered, and without its id.
LEMMA EraseKeeps ==
  ASSUME NEW S, S \subseteq Timer, NEW ts \in Seq(S), NEW n \in DOMAIN ts, OrderedSeq(ts)
  PROVE  /\ Erase(ts, n) \in Seq(S)
         /\ OrderedSeq(Erase(ts, n))
         /\ \A k \in DOMAIN Erase(ts, n) : Erase(ts, n)[k].id # ts[n].id
         /\ Elements(Erase(ts, n)) = Elements(ts) \ {ts[n]}
<1> DEFINE a == SubSeq(ts, 1, n - 1)
           z == SubSeq(ts, n + 1, Len(ts))
           r == Erase(ts, n)
<1>0. Len(ts) \in Nat /\ DOMAIN ts = 1..Len(ts) /\ n \in 1..Len(ts) /\ \A i \in 1..Len(ts) : ts[i] \in S
  OBVIOUS
<1>1. a \in Seq(S) /\ Len(a) = n - 1 /\ \A k \in 1..(n - 1) : a[k] = ts[k]
  BY <1>0
<1>2. z \in Seq(S) /\ Len(z) = Len(ts) - n /\ \A k \in 1..(Len(ts) - n) : z[k] = ts[n + k]
  BY <1>0
<1>3. r = a \o z
  BY DEF Erase
<1> HIDE DEF a, z, r
<1>4. r \in Seq(S) /\ Len(r) = Len(ts) - 1 /\ DOMAIN r = 1..(Len(ts) - 1)
  <2>1. r \in Seq(S) /\ Len(r) = (n - 1) + (Len(ts) - n)
    <3>1. a \o z \in Seq(S) /\ Len(a \o z) = Len(a) + Len(z)
      BY <1>1, <1>2, ConcatProperties
    <3> QED BY <1>1, <1>2, <1>3, <3>1
  <2>2. Len(r) = Len(ts) - 1
    BY <1>0, <2>1
  <2> QED BY <2>1, <2>2
<1>5. ASSUME NEW k \in 1..(Len(ts) - 1)
      PROVE  r[k] = IF k < n THEN ts[k] ELSE ts[k + 1]
  <2>1. CASE k < n
    BY <1>0, <1>1, <1>2, <1>3, <2>1
  <2>2. CASE k >= n
    <3>1. k - (n - 1) \in 1..(Len(ts) - n) /\ n + (k - (n - 1)) = k + 1
      BY <1>0, <2>2
    <3>2. r[k] = z[k - (n - 1)]
      BY <1>0, <1>1, <1>2, <1>3, <2>2
    <3>3. z[k - (n - 1)] = ts[k + 1]
      BY <1>2, <3>1
    <3>4. ~(k < n)
      BY <1>0, <2>2
    <3> QED BY <3>2, <3>3, <3>4
  <2> QED BY <1>0, <2>1, <2>2
<1>6. ASSUME NEW i \in 1..(Len(ts) - 1), NEW j \in 1..(Len(ts) - 1), i < j
      PROVE  r[i].next <= r[j].next /\ r[i].id # r[j].id
  <2>1. PICK x \in {i, i + 1} : r[i] = ts[x] /\ (x = i + 1 => i >= n)
    BY <1>0, <1>5
  <2>2. PICK y \in {j, j + 1} : r[j] = ts[y] /\ (y = j => j < n)
    BY <1>0, <1>5
  <2>3. x \in DOMAIN ts /\ y \in DOMAIN ts /\ x < y
    BY <1>0, <1>6, <2>1, <2>2
  <2> QED BY <2>1, <2>2, <2>3 DEF OrderedSeq
<1>7. ASSUME NEW k \in 1..(Len(ts) - 1)
      PROVE  r[k].id # ts[n].id
  <2>1. CASE k < n
    BY <1>0, <1>5, <2>1 DEF OrderedSeq
  <2>2. CASE k >= n
    <3>1. k + 1 \in DOMAIN ts /\ n < k + 1 /\ r[k] = ts[k + 1]
      BY <1>0, <1>5, <2>2
    <3> QED BY <1>0, <3>1 DEF OrderedSeq
  <2> QED BY <1>0, <2>1, <2>2
<1>8. Elements(r) = Elements(ts) \ {ts[n]}
  <2>1. ASSUME NEW k \in 1..(Len(ts) - 1) PROVE r[k] # ts[n] /\ \E i \in DOMAIN ts : r[k] = ts[i]
    <3>1. k \in DOMAIN ts /\ k + 1 \in DOMAIN ts
      BY <1>0
    <3> QED BY <1>5, <1>7, <3>1
  <2>2. ASSUME NEW i \in DOMAIN ts, ts[i] # ts[n] PROVE \E k \in 1..(Len(ts) - 1) : r[k] = ts[i]
    <3>1. CASE i < n
      <4>1. i \in 1..(Len(ts) - 1)
        BY <1>0, <3>1
      <4> QED BY <1>5, <3>1, <4>1
    <3>2. CASE i > n
      <4>1. i - 1 \in 1..(Len(ts) - 1) /\ ~(i - 1 < n) /\ (i - 1) + 1 = i
        BY <1>0, <3>2
      <4>2. r[i - 1] = ts[(i - 1) + 1]
        BY <1>5, <4>1
      <4> QED BY <4>1, <4>2
    <3> QED BY <1>0, <2>2, <3>1, <3>2
  <2>3. Elements(r) \subseteq Elements(ts) \ {ts[n]}
    BY <1>4, <2>1 DEF Elements
  <2>4. Elements(ts) \ {ts[n]} \subseteq Elements(r)
    BY <1>4, <2>2 DEF Elements
  <2> QED BY <2>3, <2>4
<1> QED BY <1>4, <1>6, <1>7, <1>8 DEF OrderedSeq, r

LEMMA PositionIs ==
  ASSUME NEW S, S \subseteq Timer, NEW ts \in Seq(S), NEW id, HasTimer(ts, id)
  PROVE  Position(ts, id) \in DOMAIN ts /\ ts[Position(ts, id)].id = id
<1> DEFINE T == {i \in DOMAIN ts : ts[i].id = id}
<1>1. T \subseteq Nat /\ T # {}
  BY DEF HasTimer
<1>2. First(T) \in T
  <2> HIDE DEF T
  <2> QED BY <1>1, LowestNat
<1> QED BY <1>2 DEF Position

LEMMA LiveIsTimer == Live \subseteq Timer
BY DEF Live

LEMMA AddKeeps ==
  ASSUME NEW ts \in Seq(Live), OrderedSeq(ts), NEW u \in User, NEW interval \in 1..MaxInterval,
         NEW repeat \in 0..MaxRepeat
  PROVE  AddTimerInternal(ts, u, interval, repeat) \in Seq(Live)
         /\ OrderedSeq(AddTimerInternal(ts, u, interval, repeat))
<1> DEFINE id == TakeNextTimerId(ts)
           t == [id |-> id, owner |-> u, interval |-> interval, repeat |-> repeat, left |-> repeat,
                 next |-> interval]
<1>0. ts \in Seq(Timer)
  BY LiveIsTimer
<1>1. CASE id = NONEXISTENT_ID
  BY <1>1 DEF AddTimerInternal
<1>2. CASE id # NONEXISTENT_ID
  <2>1. id \in 0..(MaxTimers - 1) /\ \A i \in DOMAIN ts : ts[i].id # id
    BY <1>0, <1>2, NextIdIsFree
  <2>2. AddTimerInternal(ts, u, interval, repeat) = InsertTimerInternal(ts, t)
    BY <1>2 DEF AddTimerInternal
  <2> HIDE DEF id
  <2>3. interval \in (-MaxLag)..MaxInterval
    BY BoundAssumption
  <2>4. t \in Timer
    BY <2>1, <2>3 DEF Timer
  <2>5. t \in Live /\ t.id = id
    BY <2>4 DEF Live
  <2> HIDE DEF t
  <2> QED BY <2>1, <2>2, <2>5, InsertKeeps, LiveIsTimer
<1> QED BY <1>1, <1>2

LEMMA RemoveKeeps ==
  ASSUME NEW ts \in Seq(Live), OrderedSeq(ts), NEW id
  PROVE  RemoveTimerInternal(ts, id) \in Seq(Live) /\ OrderedSeq(RemoveTimerInternal(ts, id))
<1>1. CASE HasTimer(ts, id)
  BY <1>1, PositionIs, EraseKeeps, LiveIsTimer DEF RemoveTimerInternal
<1>2. CASE ~HasTimer(ts, id)
  BY <1>2 DEF RemoveTimerInternal
<1> QED BY <1>1, <1>2

LEMMA ResetKeeps ==
  ASSUME NEW ts \in Seq(Live), OrderedSeq(ts), NEW id
  PROVE  ResetTimerInternal(ts, id) \in Seq(Live) /\ OrderedSeq(ResetTimerInternal(ts, id))
<1>1. CASE HasTimer(ts, id)
  <2> DEFINE n == Position(ts, id)
             t == [ts[n] EXCEPT !.next = ts[n].interval, !.left = ts[n].repeat]
  <2>1. n \in DOMAIN ts /\ ts[n] \in Live
    BY <1>1, PositionIs, LiveIsTimer
  <2>2. ResetTimerInternal(ts, id) = InsertTimerInternal(Erase(ts, n), t)
    BY <1>1 DEF ResetTimerInternal
  <2> HIDE DEF n
  <2>3. ts[n].interval \in (-MaxLag)..MaxInterval
    BY <2>1, BoundAssumption DEF Live, Timer
  <2>4. t \in Timer /\ t.id = ts[n].id /\ t.left = ts[n].repeat /\ t.repeat = ts[n].repeat
    BY <2>1, <2>3 DEF Live, Timer
  <2>5. t \in Live
    <3>1. ts[n].repeat \in Nat
      BY <2>1 DEF Live, Timer
    <3> HIDE DEF t
    <3> QED BY <2>4, <3>1 DEF Live
  <2> HIDE DEF t
  <2>6. Erase(ts, n) \in Seq(Live) /\ OrderedSeq(Erase(ts, n)) /\ \A k \in DOMAIN Erase(ts, n) : Erase(ts, n)[k].id # t.id
    BY <2>1, <2>4, EraseKeeps, LiveIsTimer
  <2> QED BY <2>2, <2>5, <2>6, InsertKeeps, LiveIsTimer
<1>2. CASE ~HasTimer(ts, id)
  BY <1>2 DEF ResetTimerInternal
<1> QED BY <1>1, <1>2

LEMMA TailKeeps ==
  ASSUME NEW ts \in Seq(Live), OrderedSeq(ts), ts # <<>>
  PROVE  /\ Head(ts) \in Live /\ Tail(ts) \in Seq(Live) /\ OrderedSeq(Tail(ts))
         /\ \A k \in DOMAIN Tail(ts) : Tail(ts)[k].id # Head(ts).id
         /\ Elements(Tail(ts)) = Elements(ts) \ {Head(ts)}
<1>1. /\ Head(ts) = ts[1] /\ Head(ts) \in Live /\ Tail(ts) \in Seq(Live) /\ Len(Tail(ts)) = Len(ts) - 1
      /\ \A i \in 1..(Len(ts) - 1) : Tail(ts)[i] = ts[i + 1]
      /\ Len(ts) \in Nat \ {0} /\ DOMAIN ts = 1..Len(ts) /\ DOMAIN Tail(ts) = 1..(Len(ts) - 1)
  OBVIOUS
<1>2. \A i \in DOMAIN Tail(ts) : i + 1 \in DOMAIN ts /\ 1 < i + 1
  BY <1>1
<1>3. 1 \in DOMAIN ts
  BY <1>1
<1>4. \A k \in DOMAIN Tail(ts) : Tail(ts)[k].id # Head(ts).id
  BY <1>1, <1>2, <1>3 DEF OrderedSeq
<1>5. OrderedSeq(Tail(ts))
  <2> SUFFICES ASSUME NEW i \in DOMAIN Tail(ts), NEW j \in DOMAIN Tail(ts), i < j
               PROVE  Tail(ts)[i].next <= Tail(ts)[j].next /\ Tail(ts)[i].id # Tail(ts)[j].id
    BY DEF OrderedSeq
  <2>1. i + 1 \in DOMAIN ts /\ j + 1 \in DOMAIN ts /\ i + 1 < j + 1
    BY <1>1, <1>2
  <2>2. Tail(ts)[i] = ts[i + 1] /\ Tail(ts)[j] = ts[j + 1]
    BY <1>1
  <2> QED BY <2>1, <2>2 DEF OrderedSeq
<1>6. Elements(Tail(ts)) = Elements(ts) \ {Head(ts)}
  <2>1. Elements(Tail(ts)) \subseteq Elements(ts) \ {Head(ts)}
    BY <1>1, <1>2, <1>4 DEF Elements
  <2>2. ASSUME NEW i \in DOMAIN ts, ts[i] # Head(ts) PROVE ts[i] \in Elements(Tail(ts))
    <3>1. i - 1 \in 1..(Len(ts) - 1) /\ (i - 1) + 1 = i
      BY <1>1, <2>2
    <3>2. Tail(ts)[i - 1] = ts[(i - 1) + 1] /\ i - 1 \in DOMAIN Tail(ts)
      BY <1>1, <3>1
    <3> QED BY <3>1, <3>2 DEF Elements
  <2>3. Elements(ts) \ {Head(ts)} \subseteq Elements(Tail(ts))
    BY <2>2 DEF Elements
  <2> QED BY <2>1, <2>3
<1> QED BY <1>1, <1>4, <1>5, <1>6

-----------------------------------------------------------------------------
(* The invariant *)

LEMMA InitIInv == Init => IInv
<1> SUFFICES ASSUME Init PROVE IInv
  OBVIOUS
<1>1. timers \in Seq(Live) /\ timers \in Seq(Timer) /\ queue \in Seq(Task) /\ Len(queue) = 0 /\ DOMAIN timers = {}
  BY DEF Init
<1>2. TypeOK
  <2>1. 0 <= TasksLimit + 1 /\ Off \in Off..MaxInterval /\ NONEXISTENT_ID \in NONEXISTENT_ID..(MaxTimers - 1)
        /\ 0 \in 0..MaxLag
    BY BoundAssumption DEF Off, NONEXISTENT_ID
  <2> QED BY <1>1, <2>1 DEF Init, TypeOK
<1>3. Ordered
  BY <1>1 DEF Ordered
<1>4. WakesUp
  BY DEF Init, WakesUp
<1> QED BY <1>1, <1>2, <1>3, <1>4 DEF IInv

\* The list after a step is well-formed.
LEMMA ListTypes ==
  ASSUME NEW ts \in Seq(Live)
  PROVE  /\ ts \in Seq(Timer)
         /\ ArmTimer(ts) \in Off..MaxInterval
         /\ ts # <<>> => ArmTimer(ts) \in 0..(IF ts[1].next <= 0 THEN 1 ELSE ts[1].next)
<1>1. ts \in Seq(Timer)
  BY LiveIsTimer
<1>2. CASE ts = <<>>
  BY <1>1, <1>2, BoundAssumption DEF ArmTimer, Off
<1>3. CASE ts # <<>>
  <2>1. ts[1] \in Timer
    BY <1>1, <1>3
  <2>2. ts[1].next \in (-MaxLag)..MaxInterval /\ ts[1].next \in Int
    BY <2>1, BoundAssumption DEF Timer
  <2> QED BY <1>1, <1>3, <2>2, BoundAssumption DEF ArmTimer, Off
<1> QED BY <1>2, <1>3

\* What posting a task does to the queue.
LEMMA PostKeeps ==
  ASSUME IInv, NEW task \in Task, Post(task)
  PROVE  /\ queue' \in Seq(Task) /\ Len(queue') <= TasksLimit + 1
         /\ Len(queue) <= Len(queue')
         /\ \A i \in DOMAIN queue : i \in DOMAIN queue' /\ queue'[i] = queue[i]
         /\ Posted => \E i \in DOMAIN queue' : queue'[i] = task
<1>0. queue \in Seq(Task) /\ Len(queue) \in Nat /\ Len(queue) <= TasksLimit + 1
  BY DEF IInv, TypeOK
<1>1. CASE Len(queue) > TasksLimit
  BY <1>0, <1>1 DEF Post, Posted
<1>2. CASE ~(Len(queue) > TasksLimit)
  <2>1. queue' = Append(queue, task)
    BY <1>2 DEF Post
  <2>2. queue' \in Seq(Task) /\ Len(queue') = Len(queue) + 1
    BY <1>0, <2>1
  <2>3. \A i \in DOMAIN queue : i \in DOMAIN queue' /\ queue'[i] = queue[i]
    BY <1>0, <2>1
  <2>4. queue'[Len(queue) + 1] = task /\ Len(queue) + 1 \in DOMAIN queue'
    BY <1>0, <2>1, <2>2
  <2> QED BY <1>0, <1>2, <2>2, <2>3, <2>4, BoundAssumption
<1> QED BY <1>1, <1>2

\* Operate leaves the list alone, and the tasks that wait go on waiting.
LEMMA OperateKeeps ==
  ASSUME IInv, NEW u \in User, NEW task \in Task, Operate(u, task),
         held' \in [User -> NONEXISTENT_ID..(MaxTimers - 1)]
  PROVE  IInv'
<1>1. /\ UNCHANGED <<timers, fd, service, refused>>
      /\ waiting' \subseteq User \ AsyncUser
      /\ queue' \in Seq(Task) /\ Len(queue') <= TasksLimit + 1
      /\ \A i \in DOMAIN queue : i \in DOMAIN queue' /\ queue'[i] = queue[i]
  BY PostKeeps DEF Operate, IInv, TypeOK
<1>2. TypeOK'
  BY <1>1 DEF IInv, TypeOK
<1>3. Ordered'
  BY <1>1 DEF IInv, Ordered
<1>4. WakesUp'
  BY <1>1 DEF IInv, WakesUp
<1> QED BY <1>1, <1>2, <1>3, <1>4 DEF IInv

LEMMA UsersKeep ==
  ASSUME IInv, NEW u \in User,
         \/ \E interval \in 1..MaxInterval, repeat \in 0..MaxRepeat : AddTimer(u, interval, repeat)
         \/ RemoveTimer(u)
         \/ ResetTimer(u)
  PROVE  IInv'
<1>0. /\ held \in [User -> NONEXISTENT_ID..(MaxTimers - 1)]
      /\ 0 \in NONEXISTENT_ID..(MaxTimers - 1) /\ NONEXISTENT_ID \in NONEXISTENT_ID..(MaxTimers - 1)
      /\ 0 \in 0..MaxInterval /\ 0 \in 0..MaxRepeat /\ 1..MaxInterval \subseteq 0..MaxInterval
  BY BoundAssumption DEF IInv, TypeOK, NONEXISTENT_ID
<1>1. ASSUME NEW interval \in 1..MaxInterval, NEW repeat \in 0..MaxRepeat, AddTimer(u, interval, repeat)
      PROVE  IInv'
  <2>1. [does |-> "add", by |-> u, id |-> NONEXISTENT_ID, interval |-> interval, repeat |-> repeat] \in Task
    <3>1. interval \in 0..MaxInterval /\ interval # 0
      BY <1>0
    <3> QED BY <1>0, <3>1 DEF Task
  <2>2. held' \in [User -> NONEXISTENT_ID..(MaxTimers - 1)]
    BY <1>0, <1>1 DEF AddTimer
  <2> QED BY <1>1, <2>1, <2>2, OperateKeeps DEF AddTimer
<1>2. CASE RemoveTimer(u)
  <2>1. [NoTask EXCEPT !.does = "remove", !.by = u, !.id = held[u]] \in Task
    BY <1>0 DEF NoTask, Task
  <2>2. held' \in [User -> NONEXISTENT_ID..(MaxTimers - 1)]
    BY <1>0, <1>2 DEF RemoveTimer
  <2> QED BY <1>2, <2>1, <2>2, OperateKeeps DEF RemoveTimer
<1>3. CASE ResetTimer(u)
  <2>1. [NoTask EXCEPT !.does = "reset", !.by = u, !.id = held[u]] \in Task
    BY <1>0 DEF NoTask, Task
  <2> QED BY <1>0, <1>3, <2>1, OperateKeeps DEF ResetTimer
<1> QED BY <1>1, <1>2, <1>3

LEMMA OnTimeoutKeeps ==
  ASSUME IInv, OnTimeout
  PROVE  IInv'
<1>1. NoTask \in Task /\ NoTask.does = "process"
  <2>1. 0 \in 0..MaxInterval /\ 0 \in 0..MaxRepeat /\ NONEXISTENT_ID \in NONEXISTENT_ID..(MaxTimers - 1)
    BY BoundAssumption DEF NONEXISTENT_ID
  <2> QED BY <2>1 DEF NoTask, Task
<1>2. /\ queue' \in Seq(Task) /\ Len(queue') <= TasksLimit + 1
      /\ \A i \in DOMAIN queue : i \in DOMAIN queue' /\ queue'[i] = queue[i]
      /\ Posted => \E i \in DOMAIN queue' : queue'[i] = NoTask
  BY <1>1, PostKeeps DEF OnTimeout
<1>3. TypeOK'
  <2>1. fd' \in Off..MaxInterval
    BY BoundAssumption DEF IInv, TypeOK, OnTimeout, Off
  <2>2. service' \in [todo : SUBSET {"task", "timer"}, processing : BOOLEAN, late : 0..MaxLag]
    BY DEF IInv, TypeOK, OnTimeout
  <2>3. refused' \in BOOLEAN
    BY Zenon DEF OnTimeout
  <2> QED BY <1>2, <2>1, <2>2, <2>3 DEF IInv, TypeOK, OnTimeout
<1>4. timers' = timers /\ timers' \in Seq(Live) /\ Ordered'
  BY DEF IInv, Ordered, OnTimeout
<1>5. WakesUp'
  <2>1. Posted \/ refused'
    BY DEF OnTimeout
  <2>2. CASE Posted
    BY <1>1, <1>2, <2>2 DEF WakesUp
  <2>3. CASE refused'
    BY <2>3 DEF WakesUp
  <2> QED BY <2>1, <2>2, <2>3
<1> QED BY <1>2, <1>3, <1>4, <1>5 DEF IInv

\* A step that arms the timerfd for the list it leaves.
LEMMA ArmedKeeps ==
  ASSUME timers' \in Seq(Live), fd' = ArmTimer(timers')
  PROVE  fd' \in Off..MaxInterval /\ WakesUp'
<1>1. fd' \in Off..MaxInterval
      /\ (timers' # <<>> => fd' \in 0..(IF timers'[1].next <= 0 THEN 1 ELSE timers'[1].next))
  BY ListTypes
<1> QED BY <1>1 DEF WakesUp

LEMMA RunTaskKeeps ==
  ASSUME IInv, RunTask
  PROVE  IInv'
<1> DEFINE t == Head(queue)
           arms == t.does \in {"add", "reset"} \/ (t.does = "remove" /\ HasTimer(timers, t.id))
<1>0. /\ TypeOK /\ timers \in Seq(Live) /\ OrderedSeq(timers) /\ queue \in Seq(Task) /\ queue # <<>>
      /\ queue' = Tail(queue)
  BY DEF IInv, Ordered, OrderedSeq, RunTask
<1>1. /\ t \in Task /\ queue' \in Seq(Task) /\ Len(queue) \in Nat \ {0} /\ Len(queue') = Len(queue) - 1 /\ t = queue[1]
      /\ \A i \in 2..Len(queue) : i - 1 \in DOMAIN queue' /\ queue'[i - 1] = queue[i]
  BY <1>0
<1>2. timers' \in Seq(Live) /\ OrderedSeq(timers')
  <2>1. CASE t.does = "add"
    <3>1. timers' = AddTimerInternal(timers, t.by, t.interval, t.repeat)
      BY <2>1 DEF RunTask
    <3>2. t.by \in User /\ t.interval \in 1..MaxInterval /\ t.repeat \in 0..MaxRepeat
      BY <1>1, <2>1, BoundAssumption DEF Task
    <3> HIDE DEF t
    <3> QED BY <1>0, <3>1, <3>2, AddKeeps
  <2>2. CASE t.does = "remove"
    BY <1>0, <2>2, RemoveKeeps DEF RunTask
  <2>3. CASE t.does = "reset"
    BY <1>0, <2>3, ResetKeeps DEF RunTask
  <2>4. CASE t.does = "process"
    BY <1>0, <2>4 DEF RunTask
  <2> QED BY <1>1, <2>1, <2>2, <2>3, <2>4 DEF Task
<1>3. /\ fd' = IF arms THEN ArmTimer(timers') ELSE fd
      /\ refused' = (refused /\ ~arms)
      /\ service' = [service EXCEPT !.todo = @ \ {"task"}, !.processing = t.does = "process", !.late = 0]
      /\ waiting' = waiting \ {t.by}
  BY DEF RunTask
<1>4. held' \in [User -> NONEXISTENT_ID..(MaxTimers - 1)]
  <2>1. TakeNextTimerId(timers) \in NONEXISTENT_ID..(MaxTimers - 1)
        /\ NONEXISTENT_ID \in NONEXISTENT_ID..(MaxTimers - 1)
    BY <1>0, NextIdIsFree, ListTypes, BoundAssumption DEF NONEXISTENT_ID
  <2>2. held \in [User -> NONEXISTENT_ID..(MaxTimers - 1)]
    BY <1>0 DEF TypeOK
  <2>3. \/ held' = held
        \/ held' = [held EXCEPT ![t.by] = TakeNextTimerId(timers)]
        \/ held' = [held EXCEPT ![t.by] = NONEXISTENT_ID]
    BY DEF RunTask
  <2> HIDE DEF t
  <2> QED BY <2>1, <2>2, <2>3
<1>5. fd' \in Off..MaxInterval /\ WakesUp'
  <2>1. CASE arms
    BY <1>2, <1>3, <2>1, ArmedKeeps
  <2>2. CASE ~arms /\ t.does = "process"
    <3>1. service'.processing
      BY <1>0, <1>3, <2>2 DEF TypeOK
    <3> QED BY <1>0, <1>3, <2>2, <3>1 DEF TypeOK, WakesUp
  <2>3. CASE ~arms /\ t.does # "process"
    <3>1. t.does = "remove" /\ ~HasTimer(timers, t.id)
      BY <1>1, <2>3 DEF Task
    <3>2. timers' = timers /\ fd' = fd /\ refused' = refused
      BY <1>0, <1>3, <2>3, <3>1 DEF RunTask, RemoveTimerInternal, TypeOK
    <3>3. ASSUME NEW i \in DOMAIN queue, queue[i].does = "process"
          PROVE  \E j \in DOMAIN queue' : queue'[j].does = "process"
      <4>1. i \in 2..Len(queue)
        BY <1>0, <1>1, <2>3, <3>3
      <4>2. i - 1 \in DOMAIN queue' /\ queue'[i - 1].does = "process"
        BY <1>1, <3>3, <4>1
      <4> QED BY <4>2
    <3>4. ~service.processing
      BY DEF RunTask
    <3> QED BY <1>0, <3>2, <3>3, <3>4 DEF IInv, TypeOK, WakesUp
  <2> QED BY <2>1, <2>2, <2>3
<1>6. TypeOK'
  <2>1. timers' \in Seq(Timer)
    BY <1>2, ListTypes
  <2>2. service' \in [todo : SUBSET {"task", "timer"}, processing : BOOLEAN, late : 0..MaxLag]
    <3>1. (t.does = "process") \in BOOLEAN /\ 0 \in 0..MaxLag /\ service.todo \ {"task"} \in SUBSET {"task", "timer"}
      BY <1>0, BoundAssumption DEF TypeOK
    <3> DEFINE p == t.does = "process"
    <3>2. service' = [service EXCEPT !.todo = @ \ {"task"}, !.processing = p, !.late = 0] /\ p \in BOOLEAN
      BY <1>3, <3>1
    <3> HIDE DEF p
    <3> QED BY <1>0, <3>1, <3>2 DEF TypeOK
  <2>3. Len(queue') <= TasksLimit + 1
    BY <1>0, <1>1, BoundAssumption DEF TypeOK
  <2>4. refused' \in BOOLEAN
    BY <1>3, Zenon
  <2>5. waiting' \subseteq User \ AsyncUser
    BY <1>0, <1>3 DEF TypeOK
  <2> QED BY <1>4, <1>5, <2>1, <2>2, <2>3, <2>4, <2>5 DEF TypeOK
<1> QED BY <1>1, <1>2, <1>5, <1>6 DEF IInv, Ordered, OrderedSeq

\* The list once its first timer has been called
Kept(ts) ==
  IF Head(ts).left = 1 THEN Tail(ts) ELSE InsertTimerInternal(Tail(ts), Clock!Again(Head(ts)))

LEMMA CallKeeps ==
  ASSUME NEW ts \in Seq(Live), OrderedSeq(ts), ts # <<>>, Head(ts).next <= 0
  PROVE  /\ Kept(ts) \in Seq(Live) /\ OrderedSeq(Kept(ts))
         /\ Elements(Kept(ts)) = (Elements(ts) \ {Head(ts)})
                                   \cup (IF Head(ts).left = 1 THEN {} ELSE {Clock!Again(Head(ts))})
<1> DEFINE t == Head(ts)
           rest == Tail(ts)
           again == Clock!Again(t)
<1>1. /\ t \in Live /\ rest \in Seq(Live) /\ OrderedSeq(rest)
      /\ \A k \in DOMAIN rest : rest[k].id # t.id
      /\ Elements(rest) = Elements(ts) \ {t}
  BY TailKeeps
<1>2. t.left # 1 => again \in Live /\ again.id = t.id
  <2> HAVE t.left # 1
  <2>1. t \in Timer /\ (IF t.repeat = 0 THEN t.left = 0 ELSE t.left \in 1..t.repeat) /\ t.next <= 0
    BY <1>1 DEF Live
  <2> HIDE DEF t
  <2>2. t.next \in (-MaxLag)..MaxInterval /\ t.interval \in 1..MaxInterval /\ t.repeat \in 0..MaxRepeat
    BY <2>1 DEF Timer
  <2>3. t.next + t.interval \in (-MaxLag)..MaxInterval
    BY <2>1, <2>2, BoundAssumption
  <2> DEFINE l == IF t.repeat = 0 THEN 0 ELSE t.left - 1
  <2>4. l \in 0..MaxRepeat /\ (IF t.repeat = 0 THEN l = 0 ELSE l \in 1..t.repeat)
    BY <2>1, <2>2, BoundAssumption
  <2>5. again = [t EXCEPT !.next = t.next + t.interval, !.left = l]
    BY DEF Clock!Again
  <2> HIDE DEF l, again
  <2>6. again \in Timer /\ again.id = t.id /\ again.left = l /\ again.repeat = t.repeat
    BY <2>1, <2>3, <2>4, <2>5 DEF Timer
  <2> QED BY <2>4, <2>6 DEF Live
<1>3. CASE t.left = 1
  BY <1>1, <1>3 DEF Kept
<1>4. CASE t.left # 1
  <2>1. Kept(ts) = InsertTimerInternal(rest, again)
    BY <1>4 DEF Kept
  <2> HIDE DEF t, rest, again
  <2>2. /\ InsertTimerInternal(rest, again) \in Seq(Live) /\ OrderedSeq(InsertTimerInternal(rest, again))
        /\ Elements(InsertTimerInternal(rest, again)) = Elements(rest) \cup {again}
    BY <1>1, <1>2, <1>4, InsertKeeps, LiveIsTimer
  <2> QED BY <1>1, <1>4, <2>1, <2>2 DEF t, again
<1> QED BY <1>3, <1>4

\* What an iteration of ProcessTimersInternal does to the list
LEMMA ProcessTimerCalls ==
  ASSUME IInv, ProcessTimer
  PROVE  /\ timers \in Seq(Live) /\ OrderedSeq(timers) /\ timers # <<>> /\ Head(timers).next <= 0
         /\ timers' \in {Kept(timers), RemoveTimerInternal(Kept(timers), held[Head(timers).owner])}
<1>1. timers \in Seq(Live) /\ OrderedSeq(timers) /\ timers # <<>> /\ Head(timers).next <= -service.late
  BY DEF IInv, Ordered, OrderedSeq, ProcessTimer, Due
<1>2. service.late \in 0..MaxLag
  BY DEF IInv, TypeOK
<1>3. Head(timers).next \in Int
  BY <1>1, LiveIsTimer, TimerFields
<1>4. Head(timers).next <= 0
  BY <1>1, <1>2, <1>3, BoundAssumption
<1>5. timers' \in {Kept(timers), RemoveTimerInternal(Kept(timers), held[Head(timers).owner])}
  BY DEF ProcessTimer, Kept, Clock!Again
<1> QED BY <1>1, <1>4, <1>5

LEMMA ProcessTimerKeeps ==
  ASSUME IInv, ProcessTimer
  PROVE  IInv'
<1>0. TypeOK /\ service.processing /\ UNCHANGED <<fd, queue, service, waiting, refused, ops>>
  BY DEF IInv, ProcessTimer
<1>1. timers' \in Seq(Live) /\ OrderedSeq(timers')
  BY ProcessTimerCalls, CallKeeps, RemoveKeeps
<1>2. held' \in [User -> NONEXISTENT_ID..(MaxTimers - 1)]
  <2>1. NONEXISTENT_ID \in NONEXISTENT_ID..(MaxTimers - 1)
    BY BoundAssumption DEF NONEXISTENT_ID
  <2>2. held' \in {held, [held EXCEPT ![Head(timers).owner] = NONEXISTENT_ID]}
    BY DEF ProcessTimer
  <2> QED BY <1>0, <2>1, <2>2 DEF TypeOK
<1>3. TypeOK'
  <2>1. timers' \in Seq(Timer)
    BY <1>1, ListTypes
  <2> QED BY <1>0, <1>2, <2>1 DEF TypeOK
<1>4. WakesUp'
  BY <1>0 DEF WakesUp
<1>5. queue' \in Seq(Task)
  BY <1>0 DEF IInv
<1> QED BY <1>1, <1>3, <1>4, <1>5 DEF IInv, Ordered, OrderedSeq

LEMMA EpollKeeps ==
  ASSUME IInv, EpollWait \/ ProcessTimersDone
  PROVE  IInv'
<1>1. /\ timers' = timers /\ timers \in Seq(Live) /\ queue' = queue /\ queue \in Seq(Task)
      /\ UNCHANGED <<held, waiting>>
  BY DEF IInv, EpollWait, ProcessTimersDone
<1>2. service' \in [todo : SUBSET {"task", "timer"}, processing : BOOLEAN, late : 0..MaxLag]
  BY DEF IInv, TypeOK, EpollWait, ProcessTimersDone
<1>3. fd' \in Off..MaxInterval /\ WakesUp' /\ refused' \in BOOLEAN
  <2>1. CASE EpollWait
    <3>1. service'.processing = service.processing /\ UNCHANGED <<fd, refused>>
      BY <2>1 DEF IInv, TypeOK, EpollWait
    <3> QED BY <1>1, <3>1 DEF IInv, TypeOK, WakesUp
  <2>2. CASE ProcessTimersDone
    BY <1>1, <2>2, ArmedKeeps DEF ProcessTimersDone
  <2> QED BY <2>1, <2>2
<1>4. TypeOK'
  BY <1>1, <1>2, <1>3 DEF IInv, TypeOK
<1> QED BY <1>1, <1>3, <1>4 DEF IInv, Ordered

\* Time takes the same from all the timers, but for those that are very late.
LEMMA TickKeeps ==
  ASSUME IInv, Tick
  PROVE  IInv'
<1> DEFINE later(t) == [t EXCEPT !.next = IF @ > -MaxLag THEN @ - 1 ELSE @]
<1>0. /\ TypeOK /\ timers \in Seq(Live) /\ OrderedSeq(timers) /\ queue \in Seq(Task)
      /\ timers # <<>> /\ Len(timers) \in Nat \ {0} /\ DOMAIN timers = 1..Len(timers)
      /\ \A i \in 1..Len(timers) : timers[i] \in Live
  BY DEF IInv, Ordered, OrderedSeq, Tick
<1>1. timers' = [i \in 1..Len(timers) |-> later(timers[i])]
  BY <1>0 DEF Tick
<1>2. ASSUME NEW t \in Live
      PROVE  /\ later(t) \in Live /\ later(t).id = t.id
             /\ t.next \in Int /\ t.next \in (-MaxLag)..MaxInterval
             /\ later(t).next = IF t.next > -MaxLag THEN t.next - 1 ELSE t.next
  <2>1. t \in Timer /\ t.next \in (-MaxLag)..MaxInterval /\ t.next \in Int
    BY BoundAssumption DEF Live, Timer
  <2> DEFINE n == IF t.next > -MaxLag THEN t.next - 1 ELSE t.next
  <2>2. n \in (-MaxLag)..MaxInterval
    BY <2>1, BoundAssumption
  <2>3. later(t) = [t EXCEPT !.next = n]
    OBVIOUS
  <2> HIDE DEF later, n
  <2>4. later(t) \in Timer /\ later(t).id = t.id /\ later(t).next = n /\ later(t).left = t.left
        /\ later(t).repeat = t.repeat
    BY <2>1, <2>2, <2>3 DEF Timer
  <2>5. later(t) \in Live
    BY <2>4 DEF Live
  <2> QED BY <2>1, <2>4, <2>5 DEF n
<1> HIDE DEF later
<1>3. timers' \in Seq(Live) /\ Len(timers') = Len(timers) /\ DOMAIN timers' = 1..Len(timers)
      /\ \A i \in 1..Len(timers) : timers'[i] = later(timers[i])
  BY <1>0, <1>1, <1>2
<1>4. OrderedSeq(timers')
  <2> SUFFICES ASSUME NEW i \in 1..Len(timers), NEW j \in 1..Len(timers), i < j
               PROVE  timers'[i].next <= timers'[j].next /\ timers'[i].id # timers'[j].id
    BY <1>3 DEF OrderedSeq
  <2>1. timers[i].next <= timers[j].next /\ timers[i].id # timers[j].id
    BY <1>0 DEF OrderedSeq
  <2>2. timers[i] \in Live /\ timers[j] \in Live
    BY <1>0
  <2>3. later(timers[i]).next <= later(timers[j]).next
    BY <1>2, <2>1, <2>2, BoundAssumption
  <2>4. later(timers[i]).id # later(timers[j]).id
    BY <1>2, <2>1, <2>2
  <2> QED BY <1>3, <2>3, <2>4
<1>5. TypeOK'
  <2>1. timers' \in Seq(Timer)
    BY <1>3, ListTypes
  <2>2. service' \in [todo : SUBSET {"task", "timer"}, processing : BOOLEAN, late : 0..MaxLag]
    <3> DEFINE l == IF service.processing THEN service.late + 1 ELSE service.late
    <3>1. l \in 0..MaxLag
      BY <1>0, BoundAssumption DEF TypeOK, Tick
    <3>2. service' = [service EXCEPT !.late = l]
      BY DEF Tick
    <3> HIDE DEF l
    <3> QED BY <1>0, <3>1, <3>2 DEF TypeOK
  <2>3. fd' \in Off..MaxInterval
    BY <1>0, BoundAssumption DEF TypeOK, Tick, Off
  <2> QED BY <1>0, <2>1, <2>2, <2>3 DEF TypeOK, Tick
<1>6. WakesUp'
  <2>1. service'.processing = service.processing /\ UNCHANGED <<queue, refused>>
        /\ fd' = (IF fd > 0 THEN fd - 1 ELSE fd)
    BY <1>0 DEF TypeOK, Tick
  <2>2. CASE fd \in 0..(IF timers[1].next <= 0 THEN 1 ELSE timers[1].next)
    <3>1. timers[1] \in Live /\ timers'[1] = later(timers[1])
      BY <1>0, <1>3
    <3>2. timers[1].next \in Int
          /\ timers'[1].next = IF timers[1].next > -MaxLag THEN timers[1].next - 1 ELSE timers[1].next
      BY <1>2, <3>1
    <3>3. fd' \in 0..(IF timers'[1].next <= 0 THEN 1 ELSE timers'[1].next)
      BY <2>1, <2>2, <3>2, BoundAssumption
    <3> QED BY <3>3 DEF WakesUp
  <2>3. CASE ~(fd \in 0..(IF timers[1].next <= 0 THEN 1 ELSE timers[1].next))
    BY <1>0, <2>1, <2>3 DEF IInv, WakesUp
  <2> QED BY <2>2, <2>3
<1>7. queue' \in Seq(Task)
  BY <1>0 DEF Tick
<1> QED BY <1>3, <1>4, <1>5, <1>6, <1>7 DEF IInv, Ordered, OrderedSeq

LEMMA NextIInv == IInv /\ [Next]_vars => IInv'
<1> SUFFICES ASSUME IInv, [Next]_vars PROVE IInv'
  OBVIOUS
<1>1. CASE UNCHANGED vars
  BY <1>1 DEF vars, IInv, TypeOK, Ordered, WakesUp
<1> QED BY <1>1, UsersKeep, OnTimeoutKeeps, RunTaskKeeps, ProcessTimerKeeps, EpollKeeps, TickKeeps DEF Next, Service

-----------------------------------------------------------------------------
(* The timers of the list are what Alarms promises. *)

LEMMA AlarmsAreElements == alarms = Elements(timers) /\ alarms' = Elements(timers')
BY DEF alarms, Elements

LEMMA AddIsSet ==
  ASSUME IInv, NEW u \in User, NEW interval \in 1..MaxInterval, NEW repeat \in 0..MaxRepeat,
         timers' = AddTimerInternal(timers, u, interval, repeat)
  PROVE  [Clock!Next]_alarms
<1> DEFINE id == TakeNextTimerId(timers)
           t == [id |-> id, owner |-> u, interval |-> interval, repeat |-> repeat, left |-> repeat,
                 next |-> interval]
<1>0. timers \in Seq(Timer) /\ OrderedSeq(timers)
  BY DEF IInv, TypeOK, Ordered, OrderedSeq
<1>1. CASE id = NONEXISTENT_ID
  BY <1>1 DEF AddTimerInternal, alarms
<1>2. CASE id # NONEXISTENT_ID
  <2>1. id \in 0..(MaxTimers - 1) /\ \A i \in DOMAIN timers : timers[i].id # id
    BY <1>0, <1>2, NextIdIsFree
  <2>2. timers' = InsertTimerInternal(timers, t)
    BY <1>2 DEF AddTimerInternal
  <2> HIDE DEF id
  <2>3. interval \in (-MaxLag)..MaxInterval
    BY BoundAssumption
  <2>4. t \in Timer /\ t.id = id /\ t.next = t.interval /\ t.left = t.repeat
    BY <2>1, <2>3 DEF Timer
  <2> HIDE DEF t
  <2>5. Elements(timers') = Elements(timers) \cup {t}
    BY <1>0, <2>1, <2>2, <2>4, InsertKeeps
  <2>6. Clock!Set(t)
    BY <2>1, <2>4, <2>5, AlarmsAreElements DEF Clock!Set, Elements
  <2> QED BY <2>4, <2>6 DEF Clock!Next
<1> QED BY <1>1, <1>2

\* The timer with an id, and the list without it
LEMMA EraseIsCancel ==
  ASSUME NEW ts \in Seq(Timer), OrderedSeq(ts), NEW id, HasTimer(ts, id)
  PROVE  /\ Position(ts, id) \in DOMAIN ts /\ ts[Position(ts, id)] \in Elements(ts)
         /\ Elements(Erase(ts, Position(ts, id))) = Elements(ts) \ {ts[Position(ts, id)]}
<1>1. Position(ts, id) \in DOMAIN ts
  BY PositionIs
<1> QED BY <1>1, EraseKeeps DEF Elements

LEMMA RemoveIsCancel ==
  ASSUME NEW ts \in Seq(Timer), OrderedSeq(ts), NEW id
  PROVE  \/ RemoveTimerInternal(ts, id) = ts
         \/ \E o \in Elements(ts) : Elements(RemoveTimerInternal(ts, id)) = Elements(ts) \ {o}
BY EraseIsCancel DEF RemoveTimerInternal

LEMMA ResetIsRestart ==
  ASSUME IInv, NEW id, timers' = ResetTimerInternal(timers, id)
  PROVE  [Clock!Next]_alarms
<1>0. timers \in Seq(Timer) /\ timers \in Seq(Live) /\ OrderedSeq(timers)
  BY DEF IInv, TypeOK, Ordered, OrderedSeq
<1>1. CASE ~HasTimer(timers, id)
  BY <1>1 DEF ResetTimerInternal, alarms
<1>2. CASE HasTimer(timers, id)
  <2> DEFINE n == Position(timers, id)
             rest == Erase(timers, n)
             t == [timers[n] EXCEPT !.next = timers[n].interval, !.left = timers[n].repeat]
  <2>1. n \in DOMAIN timers /\ timers[n] \in Timer /\ timers[n] \in Elements(timers)
    BY <1>0, <1>2, EraseIsCancel
  <2>2. timers' = InsertTimerInternal(rest, t)
    BY <1>2 DEF ResetTimerInternal
  <2>3. /\ rest \in Seq(Timer) /\ OrderedSeq(rest) /\ Elements(rest) = Elements(timers) \ {timers[n]}
        /\ \A k \in DOMAIN rest : rest[k].id # timers[n].id
    BY <1>0, <2>1, EraseKeeps
  <2> HIDE DEF n, rest
  <2>4. timers[n].interval \in (-MaxLag)..MaxInterval
    BY <2>1, BoundAssumption DEF Timer
  <2>5. t \in Timer /\ t.id = timers[n].id
    BY <2>1, <2>4 DEF Timer
  <2>6. Elements(timers') = Elements(rest) \cup {t}
    <3> HIDE DEF t
    <3> QED BY <2>2, <2>3, <2>5, InsertKeeps
  <2>7. Clock!Restart(timers[n])
    BY <2>3, <2>6, AlarmsAreElements DEF Clock!Restart
  <2> QED BY <2>1, <2>7, AlarmsAreElements DEF Clock!Next
<1> QED BY <1>1, <1>2

LEMMA ProcessTimerIsCall ==
  ASSUME IInv, ProcessTimer
  PROVE  [Clock!Next]_alarms
<1> DEFINE t == Head(timers)
           id == held[t.owner]
<1>1. /\ timers \in Seq(Live) /\ OrderedSeq(timers) /\ timers # <<>> /\ t.next <= 0
      /\ timers' \in {Kept(timers), RemoveTimerInternal(Kept(timers), id)}
  BY ProcessTimerCalls
<1>2. Kept(timers) \in Seq(Timer) /\ OrderedSeq(Kept(timers)) /\ Elements(Kept(timers)) = Clock!After(t)
  BY <1>1, CallKeeps, LiveIsTimer, AlarmsAreElements DEF Clock!After
<1>3. t \in alarms /\ \A o \in alarms : t.next <= o.next
  <2>1. /\ t = timers[1] /\ DOMAIN timers = 1..Len(timers) /\ Len(timers) \in Nat \ {0}
        /\ \A i \in DOMAIN timers : timers[i] \in Timer
    BY <1>1, LiveIsTimer
  <2>2. ASSUME NEW i \in DOMAIN timers PROVE timers[1].next <= timers[i].next
    <3>1. CASE i = 1
      BY <2>1, <3>1, TimerFields
    <3>2. CASE i # 1
      <4>1. 1 \in DOMAIN timers /\ 1 < i
        BY <2>1, <3>2
      <4> QED BY <1>1, <4>1 DEF OrderedSeq
    <3> QED BY <3>1, <3>2
  <2> QED BY <2>1, <2>2 DEF alarms
<1> HIDE DEF t, id
<1>4. \/ Elements(timers') = Clock!After(t)
      \/ \E o \in Clock!After(t) : Elements(timers') = Clock!After(t) \ {o}
  BY <1>1, <1>2, RemoveIsCancel
<1>5. Clock!Call(t)
  BY <1>1, <1>3, <1>4, AlarmsAreElements DEF Clock!Call
<1> QED BY <1>3, <1>5 DEF Clock!Next

LEMMA TickIsPass ==
  ASSUME IInv, Tick
  PROVE  Clock!Pass
<1>1. timers \in Seq(Live)
  BY DEF IInv
<1>2. timers' = [i \in DOMAIN timers |-> Clock!Later(timers[i])]
  BY DEF Tick, Clock!Later
<1>3. alarms' = {timers'[i] : i \in DOMAIN timers'}
  BY DEF alarms
<1>4. {timers'[i] : i \in DOMAIN timers'} = {Clock!Later(t) : t \in alarms}
  BY <1>2 DEF alarms
<1> QED BY <1>3, <1>4 DEF Clock!Pass

LEMMA RunTaskIsAlarms ==
  ASSUME IInv, RunTask
  PROVE  [Clock!Next]_alarms
<1> DEFINE t == Head(queue)
<1>0. timers \in Seq(Timer) /\ OrderedSeq(timers)
  BY DEF IInv, TypeOK, Ordered, OrderedSeq
<1>1. t \in Task
  BY DEF IInv, RunTask
<1>2. CASE t.does = "add"
  <2>1. timers' = AddTimerInternal(timers, t.by, t.interval, t.repeat)
    BY <1>2 DEF RunTask
  <2>2. t.by \in User /\ t.interval \in 1..MaxInterval /\ t.repeat \in 0..MaxRepeat
    BY <1>1, <1>2, BoundAssumption DEF Task
  <2> HIDE DEF t
  <2> QED BY <2>1, <2>2, AddIsSet
<1>3. CASE t.does = "remove"
  <2>1. timers' = RemoveTimerInternal(timers, t.id)
    BY <1>3 DEF RunTask
  <2>2. CASE timers' = timers
    BY <2>2 DEF alarms
  <2>3. CASE \E o \in alarms : alarms' = alarms \ {o}
    BY <2>3 DEF Clock!Next, Clock!Cancel
  <2> QED BY <1>0, <2>1, <2>2, <2>3, RemoveIsCancel, AlarmsAreElements
<1>4. CASE t.does = "reset"
  <2>1. timers' = ResetTimerInternal(timers, t.id)
    BY <1>4 DEF RunTask
  <2> HIDE DEF t
  <2> QED BY <2>1, ResetIsRestart
<1>5. CASE t.does = "process"
  <2>1. timers' = timers
    BY <1>5 DEF RunTask
  <2> QED BY <2>1 DEF alarms
<1> QED BY <1>1, <1>2, <1>3, <1>4, <1>5 DEF Task

LEMMA NextIsAlarms == IInv /\ [Next]_vars => [Clock!Next]_alarms
<1> SUFFICES ASSUME IInv, [Next]_vars PROVE [Clock!Next]_alarms
  OBVIOUS
<1>1. CASE timers' = timers
  BY <1>1 DEF alarms
<1>2. CASE RunTask
  BY <1>2, RunTaskIsAlarms
<1>3. CASE ProcessTimer
  BY <1>3, ProcessTimerIsCall
<1>4. CASE Tick
  BY <1>4, TickIsPass DEF Clock!Next
<1>5. RunTask \/ ProcessTimer \/ Tick \/ timers' = timers
  BY DEF Next, vars, Service, AddTimer, RemoveTimer, ResetTimer, Operate, EpollWait, OnTimeout, ProcessTimersDone
<1> QED BY <1>1, <1>2, <1>3, <1>4, <1>5

-----------------------------------------------------------------------------
(* Theorems *)

\* The inductive invariant holds in every state of the timer manager.
THEOREM Invariance == Spec => []IInv
<1> QED BY InitIInv, NextIInv, PTL DEF Spec

\* Timers, tasks and the ids that are handed out keep their types, and the queue
\* keeps to its limit.
THEOREM TypeCorrect == Spec => []TypeOK
<1>1. IInv => TypeOK
  BY DEF IInv
<1> QED BY <1>1, Invariance, PTL

\* timers_ stays ordered by the time of the next call, with one timer per id.
THEOREM OrderedHolds == Spec => []Ordered
<1>1. IInv => Ordered
  BY DEF IInv
<1> QED BY <1>1, Invariance, PTL

\* The timerfd is armed early enough for the first timer, or its processing is
\* under way.
THEOREM WakesUpHolds == Spec => []WakesUp
<1>1. IInv => WakesUp
  BY DEF IInv
<1> QED BY <1>1, Invariance, PTL
\* For any users, ids, intervals and limits, the list, the timerfd and the tasks
\* implement Alarms: timers are called when due, in order, as often as asked, and
\* a repeated one keeps its rhythm.
THEOREM Refinement == Spec => ImplementsAlarms
<1>1. Init => Clock!Init
  BY DEF Init, Clock!Init, alarms
<1>2. IInv /\ [Next]_vars => [Clock!Next]_alarms
  BY NextIsAlarms
<1> QED BY <1>1, <1>2, Invariance, PTL DEF Spec, ImplementsAlarms, Clock!Spec
=============================================================================
