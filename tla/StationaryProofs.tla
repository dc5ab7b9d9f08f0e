--------------------------- MODULE StationaryProofs ---------------------------
(***************************************************************************)
(* Proofs about Stationary, for any types, callbacks and binder threads.   *)
(*                                                                         *)
(* Between two calls the source serves exactly the listeners there are.    *)
(* The invariant says what is true instead while a thread holds the lock   *)
(* of DeviceStatusManager: until MockHandle has run, the source serves the *)
(* listeners there were before the one that is being enabled.              *)
(***************************************************************************)
EXTENDS Stationary, TLAPS

\* Where a call holds the lock of the manager
Enabling == {"loadAlgo", "startAlgo", "algoInst", "loadMock", "startMock", "mockHandle"}
Inner == Enabling \cup {"registerImpl", "mockDisable", "join"}

\* The source runs and is counted for the listeners ls.
Served(ls) ==
    /\ alive <=> ~NoListeners(ls)
    /\ \A type \in Type : ls[type] # {} => iMock /\ mockCallCounts[type] > 0

\* One thread at a time is inside of Subscribe or Unsubscribe.
Locked ==
    /\ managerMutex \in Binder \cup {Free}
    /\ \A b \in Binder : call[b].at \in Inner <=> managerMutex = b

IdleServed == managerMutex = Free => Served(listeners)

CallOK(b) ==
    /\ call[b].at \in Enabling =>
          /\ call[b].callback \in listeners[call[b].type]
          /\ Served(Remaining(call[b].type, call[b].callback))
    /\ call[b].at \in {"mockHandle", "registerImpl"} => iMock
    /\ call[b].at = "registerImpl" => Served(listeners)
    /\ call[b].at \in {"mockDisable", "join"} =>
          NoListeners(listeners) /\ iMock /\ mockCallCounts[call[b].type] > 0
    /\ call[b].at = "join" => ~alive

CallServed == \A b \in Binder : CallOK(b)

ThreadJoined == ~alive => mock.at = "none" \/ \E b \in Binder : call[b].at = "join"

IInv == TypeOK /\ Locked /\ IdleServed /\ CallServed /\ ThreadJoined

-----------------------------------------------------------------------------

LEMMA LenEnabled == Len(EnabledType) \in Nat \ {0}
BY StationaryAssumption

LEMMA InitIInv == Init => IInv
<1> SUFFICES ASSUME Init PROVE IInv
  OBVIOUS
<1>1. \A b \in Binder : call[b].at = "idle"
  BY DEF Init
<1>2. TypeOK
  <2>1. call \in [Binder -> Call]
    BY DEF Init, Call, Place
  <2>2. calls \in 0..MaxCalls /\ 1 \in 1..Len(EnabledType)
    BY LenEnabled, StationaryAssumption DEF Init
  <2> QED BY <2>1, <2>2 DEF Init, TypeOK
<1>3. Locked
  BY <1>1, StationaryAssumption DEF Init, Locked, Inner, Enabling
<1>4. IdleServed
  BY DEF Init, IdleServed, Served, NoListeners
<1>5. CallServed
  BY <1>1 DEF CallServed, CallOK, Enabling
<1>6. ThreadJoined
  BY DEF Init, ThreadJoined
<1> QED BY <1>2, <1>3, <1>4, <1>5, <1>6 DEF IInv

\* What a call that moves on changes
LEMMA GoesOn ==
  ASSUME TypeOK, NEW b \in Binder, NEW place \in Place, Goes(b, place)
  PROVE  /\ call' \in [Binder -> Call]
         /\ call'[b].at = place /\ call'[b].type = call[b].type /\ call'[b].callback = call[b].callback
         /\ \A other \in Binder \ {b} : call'[other] = call[other]
BY DEF TypeOK, Goes, Call

LEMMA RemainingType ==
  ASSUME TypeOK, NEW type \in Type, NEW callback \in Callback
  PROVE  Remaining(type, callback) \in [Type -> SUBSET Callback]
BY DEF TypeOK, Remaining

\* A step of a thread outside of the lock disturbs nothing.
LEMMA OutsideKeeps ==
  ASSUME IInv, NEW b \in Binder, call[b].at \notin Inner, call'[b].at \notin Inner,
         \A other \in Binder \ {b} : call'[other] = call[other],
         UNCHANGED <<listeners, managerMutex, iMock, mockCallCounts, alive, mock>>
  PROVE  (Locked /\ IdleServed /\ CallServed /\ ThreadJoined)'
<1>1. Locked'
  BY DEF IInv, Locked
<1>2. IdleServed'
  BY DEF IInv, IdleServed, Served, NoListeners
<1>3. CallServed'
  BY DEF IInv, CallServed, CallOK, Served, NoListeners, Remaining, Inner, Enabling
<1>4. ThreadJoined'
  BY DEF IInv, ThreadJoined, Inner
<1> QED BY <1>1, <1>2, <1>3, <1>4

LEMMA Outside ==
  ASSUME NEW b \in Binder, call[b].at \notin Inner
  PROVE  CallOK(b)
BY DEF CallOK, Inner, Enabling

\* A thread takes the lock.
LEMMA EnterKeeps ==
  ASSUME IInv, NEW b \in Binder, managerMutex = Free, managerMutex' = b, call'[b].at \in Inner,
         \A other \in Binder \ {b} : call'[other] = call[other],
         CallOK(b)'
  PROVE  (Locked /\ IdleServed /\ CallServed)'
<1>1. Free \notin Binder
  BY StationaryAssumption
<1>2. \A other \in Binder \ {b} : call'[other].at \notin Inner
  BY <1>1 DEF IInv, Locked
<1>3. \A other \in Binder \ {b} : CallOK(other)'
  BY <1>2, Outside DEF CallOK, Inner, Enabling
<1> QED BY <1>1, <1>2, <1>3 DEF Locked, IdleServed, CallServed

\* The thread that has the lock takes a step.
LEMMA InsideKeeps ==
  ASSUME IInv, NEW b \in Binder, call[b].at \in Inner, UNCHANGED managerMutex, call'[b].at \in Inner,
         \A other \in Binder \ {b} : call'[other] = call[other],
         CallOK(b)'
  PROVE  (Locked /\ IdleServed /\ CallServed)'
<1>1. Free \notin Binder /\ managerMutex = b
  BY StationaryAssumption DEF IInv, Locked
<1>2. \A other \in Binder \ {b} : call'[other].at \notin Inner
  BY <1>1 DEF IInv, Locked
<1>3. \A other \in Binder \ {b} : CallOK(other)'
  BY <1>2 DEF CallOK, Inner, Enabling
<1> QED BY <1>1, <1>2, <1>3 DEF Locked, IdleServed, CallServed

\* It releases the lock.
LEMMA LeaveKeeps ==
  ASSUME IInv, NEW b \in Binder, call[b].at \in Inner, managerMutex' = Free, call'[b].at \notin Inner,
         \A other \in Binder \ {b} : call'[other] = call[other],
         Served(listeners)'
  PROVE  (Locked /\ IdleServed /\ CallServed)'
<1>1. Free \notin Binder /\ managerMutex = b
  BY StationaryAssumption DEF IInv, Locked
<1>2. \A other \in Binder : call'[other].at \notin Inner
  BY <1>1 DEF IInv, Locked
<1>3. \A other \in Binder : CallOK(other)'
  BY <1>2 DEF CallOK, Inner, Enabling
<1> QED BY <1>1, <1>2, <1>3 DEF Locked, IdleServed, CallServed

-----------------------------------------------------------------------------
(* Every step *)

LEMMA SubscribeKeeps ==
  ASSUME IInv, NEW b \in Binder, Subscribe(b)
  PROVE  IInv'
<1> DEFINE type == call[b].type
           callback == call[b].callback
<1>0. TypeOK /\ type \in Type /\ callback \in Callback /\ call[b].at \notin Inner
  BY DEF IInv, TypeOK, Call, Subscribe, At, Inner, Enabling
<1>1. listeners' = [listeners EXCEPT ![type] = @ \cup {callback}]
      /\ UNCHANGED <<algoLib, calls, implMutex, iMock, mockCallCounts, callBacksMgr, alive, mock>>
  BY DEF Subscribe, source
<1>2. listeners' \in [Type -> SUBSET Callback]
  BY <1>0, <1>1 DEF TypeOK
<1>3. CASE callback \in listeners[type]
  <2>1. Goes(b, "idle") /\ UNCHANGED managerMutex
    BY <1>3 DEF Subscribe
  <2>2. listeners' = listeners
    BY <1>0, <1>1, <1>3 DEF TypeOK
  <2>3. call' \in [Binder -> Call] /\ call'[b].at = "idle" /\ \A other \in Binder \ {b} : call'[other] = call[other]
    BY <1>0, <2>1, GoesOn DEF Place
  <2>4. (Locked /\ IdleServed /\ CallServed /\ ThreadJoined)'
    <3>1. call'[b].at \notin Inner
      BY <2>3 DEF Inner, Enabling
    <3> QED BY <1>0, <1>1, <2>1, <2>2, <2>3, <3>1, OutsideKeeps
  <2>5. TypeOK'
    BY <1>0, <1>1, <1>2, <2>1, <2>3 DEF TypeOK
  <2> QED BY <2>4, <2>5 DEF IInv
<1>4. CASE callback \notin listeners[type]
  <2>1. managerMutex = Free /\ managerMutex' = b
    BY <1>4 DEF Subscribe
  <2>2. PICK place \in {"loadAlgo", "loadMock"} : Goes(b, place)
    BY <1>4 DEF Subscribe
  <2>3. /\ call' \in [Binder -> Call] /\ call'[b].at = place
        /\ call'[b].type = type /\ call'[b].callback = callback
        /\ \A other \in Binder \ {b} : call'[other] = call[other]
    BY <1>0, <2>2, GoesOn DEF Place
  <2>4. [listeners' EXCEPT ![type] = @ \ {callback}] = listeners
    <3>1. listeners \in [Type -> SUBSET Callback] /\ callback \in Callback \ listeners[type]
      BY <1>0, <1>4 DEF TypeOK
    <3> DEFINE again == [listeners' EXCEPT ![type] = @ \ {callback}]
    <3>2. again \in [Type -> SUBSET Callback]
      BY <1>0, <1>2
    <3>3. \A t \in Type : again[t] = listeners[t]
      BY <1>0, <1>1, <3>1
    <3> QED BY <3>1, <3>2, <3>3
  <2>5. Served(listeners)
    BY <2>1 DEF IInv, IdleServed
  <2>6. CallOK(b)'
    <3>1. Remaining(call[b].type, call[b].callback)' = listeners
      BY <2>3, <2>4 DEF Remaining
    <3>2. Served(Remaining(call[b].type, call[b].callback))'
      BY <1>1, <2>5, <3>1 DEF Served, NoListeners
    <3>3. (call[b].callback \in listeners[call[b].type])'
      BY <1>0, <1>1, <2>3 DEF TypeOK
    <3> QED BY <2>2, <2>3, <3>2, <3>3 DEF CallOK, Enabling
  <2>7. (Locked /\ IdleServed /\ CallServed)'
    BY <2>1, <2>2, <2>3, <2>6, EnterKeeps DEF Inner, Enabling
  <2>8. ThreadJoined'
    <3>1. \A other \in Binder : call[other].at # "join"
      BY <2>1, StationaryAssumption DEF IInv, Locked, Inner
    <3> QED BY <1>1, <3>1 DEF IInv, ThreadJoined
  <2>9. TypeOK'
    BY <1>0, <1>1, <1>2, <2>1, <2>3 DEF TypeOK
  <2> QED BY <2>7, <2>8, <2>9 DEF IInv
<1> QED BY <1>3, <1>4

\* LoadAlgoLibrary, StartAlgo and LoadMockLibrary leave the source alone.
LEMMA LoadKeeps ==
  ASSUME IInv, NEW b \in Binder, LoadAlgoLibrary(b) \/ StartAlgo(b) \/ LoadMockLibrary(b)
  PROVE  IInv'
<1>0. TypeOK /\ call[b].at \in Enabling /\ implMutex' \in {b, implMutex}
      /\ UNCHANGED <<manager, managerMutex, source>>
  BY DEF IInv, LoadAlgoLibrary, StartAlgo, LoadMockLibrary, At, Enabling
<1>1. PICK place \in Enabling \ {"mockHandle"} : Goes(b, place)
  BY DEF LoadAlgoLibrary, StartAlgo, LoadMockLibrary, Enabling
<1>2. /\ call' \in [Binder -> Call] /\ call'[b].at = place
      /\ call'[b].type = call[b].type /\ call'[b].callback = call[b].callback
      /\ \A other \in Binder \ {b} : call'[other] = call[other]
  BY <1>0, <1>1, GoesOn DEF Place, Enabling
<1>3. TypeOK'
  BY <1>0, <1>2 DEF TypeOK, manager, source
<1>4. CallOK(b)'
  <2>1. CallOK(b)
    BY DEF IInv, CallServed
  <2>2. Served(Remaining(call[b].type, call[b].callback))'
    BY <1>0, <1>2, <2>1 DEF CallOK, Served, NoListeners, Remaining, manager, source
  <2>3. (call[b].callback \in listeners[call[b].type])'
    BY <1>0, <1>2, <2>1 DEF CallOK, manager
  <2> QED BY <1>1, <1>2, <2>2, <2>3 DEF CallOK, Enabling
<1>5. (Locked /\ IdleServed /\ CallServed)'
  BY <1>0, <1>1, <1>2, <1>4, InsideKeeps DEF Inner
<1>6. ThreadJoined'
  BY <1>0, <1>2 DEF IInv, ThreadJoined, source, Enabling
<1> QED BY <1>3, <1>5, <1>6 DEF IInv

LEMMA StartMockKeeps ==
  ASSUME IInv, NEW b \in Binder, StartMock(b)
  PROVE  IInv'
<1>0. TypeOK /\ call[b].at = "startMock" /\ Goes(b, "mockHandle") /\ call[b].type \in Type
      /\ call[b].callback \in Callback
  BY DEF IInv, TypeOK, Call, StartMock, At
<1>1. /\ call' \in [Binder -> Call] /\ call'[b].at = "mockHandle"
      /\ call'[b].type = call[b].type /\ call'[b].callback = call[b].callback
      /\ \A other \in Binder \ {b} : call'[other] = call[other]
  BY <1>0, GoesOn DEF Place
<1>2. /\ iMock' = TRUE
      /\ mockCallCounts' = IF iMock THEN mockCallCounts ELSE [mockCallCounts EXCEPT ![call[b].type] = 0]
      /\ UNCHANGED <<algoLib, listeners, calls, managerMutex, implMutex, callBacksMgr, alive, mock>>
  BY DEF StartMock, manager
<1>3. TypeOK'
  BY <1>0, <1>1, <1>2 DEF TypeOK
<1>4. CallOK(b)'
  <2> DEFINE ls == Remaining(call[b].type, call[b].callback)
  <2>1. Served(ls)
    BY <1>0 DEF IInv, CallServed, CallOK, Enabling
  <2>2. ls' = ls
    BY <1>1, <1>2 DEF Remaining
  <2> HIDE DEF ls
  <2>3. (alive <=> ~NoListeners(ls))'
    BY <1>2, <2>1, <2>2 DEF Served, NoListeners
  <2>4. \A type \in Type : ls[type] # {} => iMock' /\ mockCallCounts'[type] > 0
    BY <1>2, <2>1 DEF Served
  <2>5. Served(ls)'
    BY <2>2, <2>3, <2>4 DEF Served
  <2>6. (call[b].callback \in listeners[call[b].type])'
    BY <1>0, <1>1, <1>2 DEF IInv, CallServed, CallOK, Enabling
  <2> QED BY <1>1, <1>2, <2>5, <2>6 DEF CallOK, Enabling, ls
<1>5. (Locked /\ IdleServed /\ CallServed)'
  BY <1>0, <1>1, <1>2, <1>4, InsideKeeps DEF Inner, Enabling
<1>6. ThreadJoined'
  BY <1>0, <1>1, <1>2 DEF IInv, ThreadJoined
<1> QED BY <1>3, <1>5, <1>6 DEF IInv

\* Once MockHandle has counted the type, the source serves the new listener too.
LEMMA MockHandleKeeps ==
  ASSUME IInv, NEW b \in Binder, MockHandle(b)
  PROVE  IInv'
<1> DEFINE type == call[b].type
<1>0. TypeOK /\ call[b].at = "mockHandle" /\ Goes(b, "registerImpl") /\ type \in Type
      /\ call[b].callback \in Callback
  BY DEF IInv, TypeOK, Call, MockHandle, At
<1>1. /\ call' \in [Binder -> Call] /\ call'[b].at = "registerImpl"
      /\ \A other \in Binder \ {b} : call'[other] = call[other]
  BY <1>0, GoesOn DEF Place
<1>2. /\ alive' = TRUE
      /\ mock' = IF alive THEN mock ELSE [at |-> "epoll", next |-> 1]
      /\ mockCallCounts' = [mockCallCounts EXCEPT ![type] = @ + 1]
      /\ UNCHANGED <<algoLib, listeners, calls, managerMutex, implMutex, iMock, callBacksMgr>>
  BY DEF MockHandle, Counted, manager
<1>3. TypeOK'
  <2>1. mockCallCounts' \in [Type -> Nat]
    BY <1>0, <1>2 DEF TypeOK
  <2>2. mock' \in [at : {"none", "epoll", "parse", "impl", "manager"}, next : 1..Len(EnabledType)]
    BY <1>0, <1>2, LenEnabled DEF TypeOK
  <2> QED BY <1>0, <1>1, <1>2, <2>1, <2>2 DEF TypeOK
<1>4. CallOK(b)'
  <2> DEFINE ls == Remaining(type, call[b].callback)
  <2>1. Served(ls) /\ iMock
    BY <1>0 DEF IInv, CallServed, CallOK, Enabling
  <2>2. \A t \in Type \ {type} : listeners[t] = ls[t]
    BY <1>0 DEF Remaining, TypeOK
  <2>3. mockCallCounts'[type] > 0 /\ \A t \in Type \ {type} : mockCallCounts'[t] = mockCallCounts[t]
    BY <1>0, <1>2 DEF TypeOK
  <2>4. \A t \in Type : listeners[t] # {} => iMock /\ mockCallCounts'[t] > 0
    BY <2>1, <2>2, <2>3 DEF Served
  <2>5. ~NoListeners(listeners)
    BY <1>0 DEF IInv, CallServed, CallOK, Enabling, NoListeners
  <2>6. Served(listeners)'
    BY <1>2, <2>4, <2>5 DEF Served, NoListeners
  <2> QED BY <1>1, <1>2, <2>1, <2>6 DEF CallOK, Enabling
<1>5. (Locked /\ IdleServed /\ CallServed)'
  BY <1>0, <1>1, <1>2, <1>4, InsideKeeps DEF Inner, Enabling
<1>6. ThreadJoined'
  BY <1>2 DEF ThreadJoined
<1> QED BY <1>3, <1>5, <1>6 DEF IInv

LEMMA RegisterImplKeeps ==
  ASSUME IInv, NEW b \in Binder, RegisterImpl(b)
  PROVE  IInv'
<1>0. TypeOK /\ call[b].at = "registerImpl" /\ Goes(b, "idle") /\ managerMutex' = Free /\ callBacksMgr' = TRUE
      /\ UNCHANGED <<algoLib, listeners, calls, implMutex, iMock, mockCallCounts, alive, mock>>
  BY DEF IInv, RegisterImpl, At, manager
<1>1. call' \in [Binder -> Call] /\ call'[b].at = "idle" /\ \A other \in Binder \ {b} : call'[other] = call[other]
  BY <1>0, GoesOn DEF Place
<1>2. TypeOK'
  BY <1>0, <1>1 DEF TypeOK
<1>3. Served(listeners)'
  BY <1>0 DEF IInv, CallServed, CallOK, Served, NoListeners
<1>4. (Locked /\ IdleServed /\ CallServed)'
  BY <1>0, <1>1, <1>3, LeaveKeeps DEF Inner, Enabling
<1>5. ThreadJoined'
  BY <1>0, <1>1 DEF IInv, ThreadJoined
<1> QED BY <1>2, <1>4, <1>5 DEF IInv

\* A listener that goes and is not the last one leaves the source running; the
\* last one finds its type counted.
LEMMA UnsubscribeKeeps ==
  ASSUME IInv, NEW b \in Binder, Unsubscribe(b)
  PROVE  IInv'
<1> DEFINE type == call[b].type
           left == Remaining(type, call[b].callback)
<1>0. TypeOK /\ type \in Type /\ call[b].callback \in Callback /\ call[b].at = "unsubscribe" /\ managerMutex = Free
      /\ listeners' = left
      /\ UNCHANGED <<algoLib, calls, implMutex, iMock, mockCallCounts, callBacksMgr, alive, mock>>
  BY DEF IInv, TypeOK, Call, Unsubscribe, At, source
<1>1. left \in [Type -> SUBSET Callback]
  BY <1>0, RemainingType
<1>2. Served(listeners)
  BY <1>0 DEF IInv, IdleServed
<1>3. \A t \in Type : left[t] \subseteq listeners[t] /\ (t # type => left[t] = listeners[t])
  BY <1>0 DEF Remaining, TypeOK
<1>4. \A other \in Binder : call[other].at \notin Inner
  BY <1>0, StationaryAssumption DEF IInv, Locked
<1>5. ThreadJoined'
  BY <1>0, <1>4 DEF IInv, ThreadJoined, Inner
<1>6. CASE listeners[type] # {} /\ IsLast(left, type)
  <2>1. managerMutex' = b /\ Goes(b, "mockDisable")
    BY <1>6 DEF Unsubscribe
  <2>2. /\ call' \in [Binder -> Call] /\ call'[b].at = "mockDisable" /\ call'[b].type = type
        /\ \A other \in Binder \ {b} : call'[other] = call[other]
    BY <1>0, <2>1, GoesOn DEF Place
  <2>3. CallOK(b)'
    <3>1. NoListeners(listeners)'
      BY <1>0, <1>6 DEF IsLast, NoListeners
    <3>2. iMock' /\ mockCallCounts'[type] > 0
      BY <1>0, <1>2, <1>6 DEF Served
    <3> QED BY <2>2, <3>1, <3>2 DEF CallOK, Enabling
  <2>4. (Locked /\ IdleServed /\ CallServed)'
    BY <1>0, <2>1, <2>2, <2>3, EnterKeeps DEF Inner
  <2>5. TypeOK'
    BY <1>0, <1>1, <2>1, <2>2 DEF TypeOK
  <2> QED BY <1>5, <2>4, <2>5 DEF IInv
<1>7. CASE listeners[type] = {} \/ ~IsLast(left, type)
  <2>1. Goes(b, "idle") /\ UNCHANGED managerMutex
    <3>1. ~(listeners[type] # {} /\ IsLast(left, type))
      BY <1>7
    <3> QED BY <3>1 DEF Unsubscribe
  <2>2. call' \in [Binder -> Call] /\ call'[b].at = "idle" /\ \A other \in Binder \ {b} : call'[other] = call[other]
    BY <1>0, <2>1, GoesOn DEF Place
  <2>3. Served(listeners)'
    <3>1. NoListeners(left) <=> NoListeners(listeners)
      BY <1>3, <1>7 DEF IsLast, NoListeners
    <3> QED BY <1>0, <1>2, <1>3, <3>1 DEF Served, NoListeners
  <2>4. \A other \in Binder : call'[other].at \notin Inner
    BY <1>4, <2>2 DEF Inner, Enabling
  <2>5. Locked'
    BY <1>0, <2>1, <2>4, StationaryAssumption DEF Locked
  <2>6. CallServed'
    BY <2>4 DEF CallServed, CallOK, Inner, Enabling
  <2>7. TypeOK'
    BY <1>0, <1>1, <2>1, <2>2 DEF TypeOK
  <2> QED BY <1>5, <2>3, <2>5, <2>6, <2>7 DEF IInv, IdleServed
<1> QED BY <1>6, <1>7

LEMMA DisableKeeps ==
  ASSUME IInv, NEW b \in Binder, MockDisable(b) \/ MockDisabled(b)
  PROVE  IInv'
<1>0. TypeOK /\ call[b].type \in Type /\ CallOK(b)
  BY DEF IInv, TypeOK, Call, CallServed
<1>1. CASE MockDisable(b)
  <2>1. call[b].at = "mockDisable" /\ Goes(b, "join") /\ implMutex' = b /\ alive' = FALSE
        /\ UNCHANGED <<algoLib, listeners, calls, managerMutex, iMock, mockCallCounts, callBacksMgr, mock>>
    BY <1>1 DEF MockDisable, At, manager
  <2>2. /\ call' \in [Binder -> Call] /\ call'[b].at = "join" /\ call'[b].type = call[b].type
        /\ \A other \in Binder \ {b} : call'[other] = call[other]
    BY <1>0, <2>1, GoesOn DEF Place
  <2>3. CallOK(b)'
    BY <1>0, <2>1, <2>2 DEF CallOK, NoListeners, Enabling
  <2>4. (Locked /\ IdleServed /\ CallServed)'
    BY <2>1, <2>2, <2>3, InsideKeeps DEF Inner
  <2>5. ThreadJoined'
    BY <2>2 DEF ThreadJoined
  <2>6. TypeOK'
    BY <1>0, <2>1, <2>2 DEF TypeOK
  <2> QED BY <2>4, <2>5, <2>6 DEF IInv
<1>2. CASE MockDisabled(b)
  <2>1. /\ call[b].at = "join" /\ mock.at = "none" /\ Goes(b, "idle") /\ implMutex' = Free /\ managerMutex' = Free
        /\ mockCallCounts' = [mockCallCounts EXCEPT ![call[b].type] = @ - 1]
        /\ UNCHANGED <<algoLib, listeners, calls, iMock, callBacksMgr, alive, mock>>
    BY <1>2 DEF MockDisabled, At, Joined, manager
  <2>2. call' \in [Binder -> Call] /\ call'[b].at = "idle" /\ \A other \in Binder \ {b} : call'[other] = call[other]
    BY <1>0, <2>1, GoesOn DEF Place
  <2>3. ~alive' /\ NoListeners(listeners)'
    BY <1>0, <2>1 DEF CallOK, NoListeners
  <2>4. Served(listeners)'
    BY <2>3 DEF Served, NoListeners
  <2>5. (Locked /\ IdleServed /\ CallServed)'
    BY <2>1, <2>2, <2>4, LeaveKeeps DEF Inner, Enabling
  <2>6. mockCallCounts' \in [Type -> Nat]
    BY <1>0, <2>1 DEF TypeOK, CallOK
  <2>7. TypeOK'
    BY <1>0, <2>1, <2>2, <2>6 DEF TypeOK
  <2> QED BY <2>1, <2>5, <2>7 DEF IInv, ThreadJoined
<1> QED BY <1>1, <1>2

LEMMA CallKeeps ==
  ASSUME IInv, NEW b \in Binder,
         \/ GetLatestDeviceStatusData(b)
         \/ \E place \in {"get", "subscribe", "unsubscribe"}, type \in Type, callback \in Callback :
               Begin(b, place, type, callback)
  PROVE  IInv'
<1>0. TypeOK
  BY DEF IInv
<1>1. /\ UNCHANGED <<algoLib, listeners, managerMutex, implMutex, source>>
      /\ call[b].at \in {"get", "idle"} /\ calls' \in 0..MaxCalls
  BY <1>0, StationaryAssumption DEF GetLatestDeviceStatusData, Begin, At, manager, TypeOK
<1>2. /\ call' \in [Binder -> Call] /\ call'[b].at \in {"idle", "get", "subscribe", "unsubscribe"}
      /\ \A other \in Binder \ {b} : call'[other] = call[other]
  <2>1. CASE GetLatestDeviceStatusData(b)
    BY <1>0, <2>1, GoesOn DEF GetLatestDeviceStatusData, Place
  <2>2. ASSUME NEW place \in {"get", "subscribe", "unsubscribe"}, NEW type \in Type, NEW callback \in Callback,
               Begin(b, place, type, callback)
        PROVE  /\ call' \in [Binder -> Call] /\ call'[b].at \in {"idle", "get", "subscribe", "unsubscribe"}
               /\ \A other \in Binder \ {b} : call'[other] = call[other]
    BY <1>0, <2>2 DEF Begin, TypeOK, Call, Place
  <2> QED BY <2>1, <2>2
<1>3. TypeOK'
  BY <1>0, <1>1, <1>2 DEF TypeOK, source
<1>4. (Locked /\ IdleServed /\ CallServed /\ ThreadJoined)'
  BY <1>1, <1>2, OutsideKeeps DEF source, Inner, Enabling
<1> QED BY <1>3, <1>4 DEF IInv

\* The mock thread changes no listener and no count; while it runs, alive is
\* true or a call waits for it.
LEMMA MockKeeps ==
  ASSUME IInv, MockStep
  PROVE  IInv'
<1>0. TypeOK /\ MockThread \in {MockThread}
  BY DEF IInv
<1>1. /\ UNCHANGED <<algoLib, listeners, calls, managerMutex, call, iMock, mockCallCounts, callBacksMgr, alive>>
      /\ implMutex' \in {MockThread, Free, implMutex}
      /\ mock.at # "none"
      /\ \/ mock' \in {[at |-> "parse", next |-> 1], [mock EXCEPT !.at = "none"], [mock EXCEPT !.at = "impl"],
                       [mock EXCEPT !.at = "manager"]}
         \/ mock' = NextType
  BY DEF MockStep, TimerCallback, ThreadExits, MsdpCallback, ImplCallback, NotifyDeviceStatusChange, manager
<1>2. mock' \in [at : {"none", "epoll", "parse", "impl", "manager"}, next : 1..Len(EnabledType)]
  BY <1>0, <1>1, LenEnabled DEF TypeOK, NextType
<1>3. TypeOK'
  BY <1>0, <1>1, <1>2 DEF TypeOK
<1>4. (Locked /\ IdleServed /\ CallServed)'
  BY <1>1 DEF IInv, Locked, IdleServed, CallServed, CallOK, Served, NoListeners, Remaining
<1>5. ThreadJoined'
  BY <1>1 DEF IInv, ThreadJoined
<1> QED BY <1>3, <1>4, <1>5 DEF IInv

LEMMA NextIInv == IInv /\ [Next]_vars => IInv'
<1> SUFFICES ASSUME IInv, [Next]_vars PROVE IInv'
  OBVIOUS
<1>1. CASE UNCHANGED vars
  BY <1>1 DEF vars, IInv, TypeOK, Locked, IdleServed, CallServed, CallOK, Served, NoListeners, Remaining, ThreadJoined
<1>2. ASSUME NEW b \in Binder, BinderStep(b)
      PROVE  IInv'
  BY <1>2, SubscribeKeeps, LoadKeeps, StartMockKeeps, MockHandleKeeps, RegisterImplKeeps, UnsubscribeKeeps,
     DisableKeeps, CallKeeps DEF BinderStep
<1> QED BY <1>1, <1>2, CallKeeps, MockKeeps DEF Next

-----------------------------------------------------------------------------
(* Theorems *)

\* The inductive invariant holds in every state.
THEOREM Invariance == Spec => []IInv
<1> QED BY InitIInv, NextIInv, PTL DEF Spec

\* Every variable of the manager, the client and the mock thread keeps its type.
THEOREM TypeCorrect == Spec => []TypeOK
<1>1. IInv => TypeOK
  BY DEF IInv
<1> QED BY <1>1, Invariance, PTL

\* MockDisable never decrements through the iterator of an erased entry.
THEOREM DisableFindsCountHolds == Spec => []DisableFindsCount
<1>1. IInv => DisableFindsCount
  BY DEF IInv, CallServed, CallOK, DisableFindsCount, At
<1> QED BY <1>1, Invariance, PTL

\* Between calls the mock thread is meant to run exactly when somebody listens.
THEOREM SourceFollowsListenersHolds == Spec => []SourceFollowsListeners
<1>1. IInv => SourceFollowsListeners
  BY DEF IInv, IdleServed, Served, SourceFollowsListeners
<1> QED BY <1>1, Invariance, PTL

\* StartThread never overwrites a thread that is running.
THEOREM ThreadNotOverwrittenHolds == Spec => []ThreadNotOverwritten
<1>1. IInv => ThreadNotOverwritten
  BY StationaryAssumption DEF IInv, Locked, ThreadJoined, ThreadNotOverwritten, Inner
<1> QED BY <1>1, Invariance, PTL
=============================================================================
