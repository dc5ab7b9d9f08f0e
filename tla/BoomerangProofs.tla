--------------------------- MODULE BoomerangProofs ---------------------------
(***************************************************************************)
(* Proofs about Boomerang, for any bundles, callbacks and links.           *)
(*                                                                         *)
(* AnsweredOnce and OpenIsTimed rest on what hasSubmitted_ means: while it *)
(* is false the current request has no answer and its timer thread is on   *)
(* its way; once it is true the current request has its answer.  For the   *)
(* same reason an answer is a step of MetadataRequests.                    *)
(***************************************************************************)
EXTENDS Boomerang, SequenceTheorems, TLAPS

\* hasSubmitted_ tells whether the current request has its answer.
SubmittedMeansAnswered ==
    notifyListener \in Request => (hasSubmitted <=> answers[notifyListener] # <<>>)

\* A callback that has not been used is not the listener and has no answer.
UnusedIsFresh ==
    \A callback \in Request :
        asked[callback] = "none" =>
            notifyListener # callback /\ answers[callback] = <<>> /\ bundleNameCache[callback] = "none"

\* The cache holds the bundle that was asked for.
CacheIsAsked ==
    \A callback \in Request :
        bundleNameCache[callback] # "none" => bundleNameCache[callback] = asked[callback]

IInv ==
    /\ TypeOK
    /\ SubmittedMeansAnswered
    /\ UnusedIsFresh
    /\ CacheIsAsked
    /\ AnsweredOnce
    /\ LinkOfAsked
    /\ OpenIsTimed

LEMMA InitIInv == Init => IInv
<1> SUFFICES ASSUME Init PROVE IInv
  OBVIOUS
<1>1. <<>> \in Seq(Answer)
  OBVIOUS
<1>2. TypeOK
  BY <1>1, CallbackAssumption DEF Init, TypeOK
<1> QED
  BY <1>2, CallbackAssumption
  DEF Init, IInv, SubmittedMeansAnswered, UnusedIsFresh, CacheIsAsked, AnsweredOnce, LinkOfAsked, OpenIsTimed

\* What one message to a callback does to the answers.
LEMMA OneMessage ==
    ASSUME TypeOK, NEW callback \in Request \cup Decoder, NEW metadata \in Answer,
           OnNotifyMetadata(callback, metadata)
    PROVE  /\ answers' \in [Request \cup Decoder -> Seq(Answer)]
           /\ answers'[callback] # <<>>
           /\ Len(answers'[callback]) = Len(answers[callback]) + 1
           /\ answers'[callback] = Append(answers[callback], metadata)
           /\ \A other \in Request \cup Decoder : other # callback => answers'[other] = answers[other]
<1>1. answers[callback] \in Seq(Answer)
  BY DEF TypeOK
<1>2. Append(answers[callback], metadata) \in Seq(Answer)
  BY <1>1
<1>3. answers'[callback] = Append(answers[callback], metadata)
  BY DEF OnNotifyMetadata, TypeOK
<1>4. Len(Append(answers[callback], metadata)) = Len(answers[callback]) + 1 /\ Len(answers[callback]) \in Nat
  BY <1>1
<1>6. answers'[callback] # <<>>
  BY <1>1, <1>3, AppendProperties
<1> QED BY <1>2, <1>3, <1>4, <1>6 DEF OnNotifyMetadata, TypeOK

LEMMA MatchingType ==
    ASSUME NEW bundleName, NEW metadata \in Answer
    PROVE  /\ Matching(bundleName, metadata) \in Answer
           /\ Matching(bundleName, metadata) \in Metadata =>
                 Applink[Matching(bundleName, metadata)] = bundleName
  BY CallbackAssumption DEF Matching, Answer, emptyMetadata

\* The invariant's conjuncts but the one about timers, after an answer has been
\* given to the current listener and nothing but the timers has changed besides.
LEMMA AnsweredKeeps ==
    ASSUME IInv, ~hasSubmitted, NEW metadata \in Answer, Answered(metadata),
           UNCHANGED <<boomerangListeners, notifyListener, dead, asked>>,
           timers' \in [Request -> {"none", "started", "asleep"}]
    PROVE  IInv'
<1> USE CallbackAssumption
<1>0. hasSubmitted' = TRUE
  BY DEF Answered
<1>1. CASE notifyListener = None /\ UNCHANGED <<answers, bundleNameCache>>
  BY <1>0, <1>1
  DEF IInv, TypeOK, SubmittedMeansAnswered, UnusedIsFresh, CacheIsAsked, AnsweredOnce, LinkOfAsked, OpenIsTimed
<1>2. ASSUME NEW answer \in Answer, notifyListener # None, OnNotifyMetadata(notifyListener, answer),
             answer \in Metadata /\ notifyListener \in Request => Applink[answer] = asked[notifyListener],
             bundleNameCache' \in [Request -> Bundle \cup {"none"}],
             \A callback \in Request : bundleNameCache'[callback] \in {"none", bundleNameCache[callback]}
      PROVE  IInv'
  <2>0. notifyListener \in Request \cup Decoder
    BY <1>2 DEF IInv, TypeOK
  <2>1. /\ answers' \in [Request \cup Decoder -> Seq(Answer)]
        /\ answers'[notifyListener] # <<>>
        /\ Len(answers'[notifyListener]) = Len(answers[notifyListener]) + 1
        /\ answers'[notifyListener] = Append(answers[notifyListener], answer)
        /\ \A other \in Request \cup Decoder : other # notifyListener => answers'[other] = answers[other]
    BY <1>2, <2>0, OneMessage DEF IInv
  <2>2. notifyListener \in Request => answers[notifyListener] = <<>>
    BY DEF IInv, SubmittedMeansAnswered
  <2>3. TypeOK'
    BY <1>0, <1>2, <2>1 DEF IInv, TypeOK
  <2>4. SubmittedMeansAnswered' /\ OpenIsTimed'
    BY <1>0, <2>1 DEF SubmittedMeansAnswered, OpenIsTimed
  <2>5. UnusedIsFresh' /\ CacheIsAsked'
    BY <1>2, <2>1 DEF IInv, TypeOK, UnusedIsFresh, CacheIsAsked
  <2>6. AnsweredOnce'
    <3>1. notifyListener \in Request => Len(answers'[notifyListener]) = 1
      BY <2>1, <2>2
    <3> QED BY <2>1, <3>1 DEF IInv, AnsweredOnce
  <2>7. LinkOfAsked'
    <3> SUFFICES ASSUME NEW callback \in Request, NEW i \in DOMAIN answers'[callback],
                        answers'[callback][i] \in Metadata
                 PROVE  Applink[answers'[callback][i]] = asked[callback]
      BY DEF LinkOfAsked
    <3>1. CASE callback = notifyListener
      <4>1. answers'[callback] = Append(<<>>, answer)
        BY <2>1, <2>2, <3>1
      <4>2. answers'[callback][i] = answer
        BY <4>1
      <4> QED BY <1>2, <3>1, <4>2
    <3>2. CASE callback # notifyListener
      BY <2>1, <3>2 DEF IInv, LinkOfAsked
    <3> QED BY <3>1, <3>2
  <2> QED BY <2>3, <2>4, <2>5, <2>6, <2>7 DEF IInv
<1>3. CASE /\ Cached(notifyListener)
           /\ OnNotifyMetadata(notifyListener, Matching(bundleNameCache[notifyListener], metadata))
           /\ bundleNameCache' = [bundleNameCache EXCEPT ![notifyListener] = "none"]
  <2>1. notifyListener \in Request /\ bundleNameCache[notifyListener] = asked[notifyListener]
    BY <1>3 DEF Cached, IInv, CacheIsAsked
  <2>2. bundleNameCache' \in [Request -> Bundle \cup {"none"}]
        /\ \A callback \in Request : bundleNameCache'[callback] \in {"none", bundleNameCache[callback]}
    BY <1>3, <2>1 DEF IInv, TypeOK
  <2> QED BY <1>2, <1>3, <2>1, <2>2, MatchingType
<1>4. CASE /\ notifyListener # None /\ ~Cached(notifyListener)
           /\ OnNotifyMetadata(notifyListener, emptyMetadata)
           /\ UNCHANGED bundleNameCache
  <2>1. emptyMetadata \in Answer /\ emptyMetadata \notin Metadata
    BY DEF Answer, emptyMetadata
  <2> QED BY <1>2, <1>4, <2>1 DEF IInv, TypeOK
<1> QED BY <1>1, <1>3, <1>4 DEF Answered

LEMMA NextIInv == IInv /\ [Next]_vars => IInv'
<1> SUFFICES ASSUME IInv, [Next]_vars PROVE IInv'
  OBVIOUS
<1> USE CallbackAssumption
<1>1. CASE UNCHANGED vars
  BY <1>1 DEF vars, IInv, TypeOK, SubmittedMeansAnswered, UnusedIsFresh, CacheIsAsked, AnsweredOnce,
              LinkOfAsked, OpenIsTimed
<1>2. ASSUME NEW bundleName \in Bundle, NEW callback \in Subscriber,
             Subscribe(bundleName, callback) \/ Unsubscribe(bundleName, callback)
      PROVE  IInv'
  <2>1. UNCHANGED <<notifyListener, bundleNameCache, hasSubmitted, timers, dead, asked, answers>>
    BY <1>2 DEF Subscribe, Unsubscribe
  <2>2. boomerangListeners' \in [Bundle -> SUBSET Subscriber]
    <3>0. boomerangListeners \in [Bundle -> SUBSET Subscriber]
      BY DEF IInv, TypeOK
    <3>1. boomerangListeners[bundleName] \cup {callback} \in SUBSET Subscriber
          /\ boomerangListeners[bundleName] \ {callback} \in SUBSET Subscriber
      BY <3>0
    <3>2. \/ boomerangListeners' = boomerangListeners
          \/ boomerangListeners' = [boomerangListeners EXCEPT ![bundleName] = @ \cup {callback}]
          \/ boomerangListeners' = [boomerangListeners EXCEPT ![bundleName] = @ \ {callback}]
      BY <1>2 DEF Subscribe, Unsubscribe
    <3> QED BY <3>0, <3>1, <3>2
  <2> QED BY <2>1, <2>2 DEF IInv, TypeOK, SubmittedMeansAnswered, UnusedIsFresh, CacheIsAsked, AnsweredOnce,
                            LinkOfAsked, OpenIsTimed
<1>3. ASSUME NEW bundleName \in Bundle, NEW callback \in Request, NotifyMetadata(bundleName, callback)
      PROVE  IInv'
  <2>1. answers[callback] = <<>> /\ bundleNameCache[callback] = "none" /\ notifyListener' = callback
    BY <1>3 DEF NotifyMetadata, IInv, UnusedIsFresh
  <2>2. TypeOK'
    BY <1>3 DEF NotifyMetadata, IInv, TypeOK
  <2>3. SubmittedMeansAnswered'
    BY <1>3, <2>1 DEF NotifyMetadata, SubmittedMeansAnswered
  <2>4. UnusedIsFresh' /\ CacheIsAsked'
    BY <1>3, <2>1 DEF NotifyMetadata, IInv, TypeOK, UnusedIsFresh, CacheIsAsked
  <2>5. AnsweredOnce'
    BY <1>3 DEF NotifyMetadata, IInv, AnsweredOnce
  <2>6. LinkOfAsked'
    BY <1>3, <2>1 DEF NotifyMetadata, IInv, TypeOK, LinkOfAsked
  <2>7. OpenIsTimed'
    BY <1>3 DEF NotifyMetadata, IInv, TypeOK, OpenIsTimed
  <2> QED BY <2>2, <2>3, <2>4, <2>5, <2>6, <2>7 DEF IInv
<1>4. ASSUME NEW metadata \in Answer, SubmitMetadata(metadata)
      PROVE  IInv'
  BY <1>4, AnsweredKeeps DEF SubmitMetadata, IInv, TypeOK
<1>5. ASSUME NEW callback \in Request, TimerTask(callback)
      PROVE  IInv'
  BY <1>5 DEF TimerTask, IInv, TypeOK, SubmittedMeansAnswered, UnusedIsFresh, CacheIsAsked, AnsweredOnce,
              LinkOfAsked, OpenIsTimed
<1>6. ASSUME NEW callback \in Request, TimerWakes(callback)
      PROVE  IInv'
  <2>1. timers' \in [Request -> {"none", "started", "asleep"}]
    BY <1>6 DEF TimerWakes, IInv, TypeOK
  <2>2. CASE hasSubmitted /\ UNCHANGED <<hasSubmitted, answers, bundleNameCache>>
    BY <1>6, <2>1, <2>2 DEF TimerWakes, IInv, TypeOK, SubmittedMeansAnswered, UnusedIsFresh, CacheIsAsked,
                            AnsweredOnce, LinkOfAsked, OpenIsTimed
  <2>3. CASE ~hasSubmitted /\ Answered(emptyMetadata)
    BY <1>6, <2>1, <2>3, AnsweredKeeps DEF TimerWakes, Answer
  <2> QED BY <1>6, <2>2, <2>3 DEF TimerWakes
<1>7. ASSUME NEW callback \in Decoder, NEW metadata \in Answer, BoomerangDecodeImage(callback, metadata)
      PROVE  IInv'
  <2>0. callback \notin Request
    OBVIOUS
  <2>1. /\ answers' \in [Request \cup Decoder -> Seq(Answer)]
        /\ \A other \in Request : answers'[other] = answers[other]
    BY <1>7, <2>0, OneMessage DEF BoomerangDecodeImage, IInv
  <2>2. TypeOK'
    BY <1>7, <2>1 DEF BoomerangDecodeImage, IInv, TypeOK
  <2> QED BY <1>7, <2>0, <2>1, <2>2
          DEF BoomerangDecodeImage, IInv, SubmittedMeansAnswered, UnusedIsFresh, CacheIsAsked, AnsweredOnce,
              LinkOfAsked, OpenIsTimed
<1>8. ASSUME NEW callback \in Subscriber \cup Request \cup Decoder, OnRemoteDied(callback)
      PROVE  IInv'
  <2>1. notifyListener' \in {notifyListener, None}
    BY <1>8 DEF OnRemoteDied, ListenerAfterDeath
  <2>2. TypeOK'
    BY <1>8, <2>1 DEF OnRemoteDied, IInv, TypeOK
  <2> QED BY <1>8, <2>1, <2>2
          DEF OnRemoteDied, IInv, SubmittedMeansAnswered, UnusedIsFresh, CacheIsAsked, AnsweredOnce,
              LinkOfAsked, OpenIsTimed
<1> QED BY <1>1, <1>2, <1>3, <1>4, <1>5, <1>6, <1>7, <1>8 DEF Next

THEOREM Invariance == Spec => []IInv
  BY InitIInv, NextIInv, PTL DEF Spec

\* Every variable keeps its type: in particular only requests and decoders are
\* ever answered, with links or with the empty string.
THEOREM TypeCorrect == Spec => []TypeOK
<1>1. IInv => TypeOK
  BY DEF IInv
<1> QED BY <1>1, Invariance, PTL

\* No request is answered twice, for any number of requests, timers and links.
THEOREM AnsweredOnceHolds == Spec => []AnsweredOnce
<1>1. IInv => AnsweredOnce
  BY DEF IInv
<1> QED BY <1>1, Invariance, PTL

\* A link reaches only who asked about the application it belongs to.
THEOREM LinkOfAskedHolds == Spec => []LinkOfAsked
<1>1. IInv => LinkOfAsked
  BY DEF IInv
<1> QED BY <1>1, Invariance, PTL

\* An open request never depends on the application alone: a timer is under way.
THEOREM OpenIsTimedHolds == Spec => []OpenIsTimed
<1>1. IInv => OpenIsTimed
  BY DEF IInv
<1> QED BY <1>1, Invariance, PTL

-----------------------------------------------------------------------------
(* ImplementsRequests                                                      *)

Seen == <<current, asked, given>>

\* A step that touches neither the listener nor an answer is not seen.
LEMMA Unseen ==
    ASSUME UNCHANGED <<notifyListener, asked, answers>>
    PROVE  UNCHANGED Seen
BY DEF Seen, current, given

\* What SubmitMetadata does while hasSubmitted_ is false answers the current
\* request, if there is one.
LEMMA AnsweredIsGive ==
    ASSUME IInv, ~hasSubmitted, NEW metadata \in Answer, Answered(metadata), UNCHANGED <<notifyListener, asked>>
    PROVE  [Requests!Next]_Seen
<1> USE CallbackAssumption
<1>1. CASE UNCHANGED answers
  BY <1>1, Unseen
<1>2. ASSUME NEW answer \in Answer, notifyListener # None, OnNotifyMetadata(notifyListener, answer),
             answer \in Metadata /\ notifyListener \in Request => Applink[answer] = asked[notifyListener]
      PROVE  [Requests!Next]_Seen
  <2>1. notifyListener \in Request \cup Decoder
    BY <1>2 DEF IInv, TypeOK
  <2>2. /\ answers'[notifyListener] = Append(answers[notifyListener], answer)
        /\ \A other \in Request \cup Decoder : other # notifyListener => answers'[other] = answers[other]
    BY <1>2, <2>1, OneMessage DEF IInv
  <2>3. current' = current
    BY DEF current
  <2>4. CASE notifyListener \in Request
    <3>1. answers[notifyListener] = <<>>
      BY <2>4 DEF IInv, SubmittedMeansAnswered
    <3>2. answers'[notifyListener] = <<answer>>
      BY <2>2, <3>1
    <3>3. given' = [given EXCEPT ![notifyListener] = <<answer>>]
      BY <2>2, <2>4, <3>2 DEF given
    <3>4. current = notifyListener /\ given[notifyListener] = <<>>
      BY <2>4, <3>1 DEF current, given
    <3>5. Requests!Give(notifyListener, answer)
      BY <1>2, <2>3, <2>4, <3>3, <3>4 DEF Requests!Give
    <3> QED BY <2>4, <3>5 DEF Requests!Next, Answer
  <2>5. CASE notifyListener \notin Request
    <3>1. given' = given
      BY <2>2, <2>5 DEF given
    <3> QED BY <2>3, <3>1 DEF Seen
  <2> QED BY <2>4, <2>5
<1>3. CASE /\ Cached(notifyListener)
           /\ OnNotifyMetadata(notifyListener, Matching(bundleNameCache[notifyListener], metadata))
  <2>1. notifyListener \in Request /\ bundleNameCache[notifyListener] = asked[notifyListener]
    BY <1>3 DEF Cached, IInv, CacheIsAsked
  <2> QED BY <1>2, <1>3, <2>1, MatchingType
<1>4. CASE notifyListener # None /\ OnNotifyMetadata(notifyListener, emptyMetadata)
  BY <1>2, <1>4 DEF Answer, emptyMetadata
<1> QED BY <1>1, <1>3, <1>4 DEF Answered

LEMMA NextIsRequests == IInv /\ [Next]_vars => [Requests!Next]_Seen
<1> SUFFICES ASSUME IInv, [Next]_vars PROVE [Requests!Next]_Seen
  OBVIOUS
<1> USE CallbackAssumption
<1>1. CASE UNCHANGED vars
  BY <1>1, Unseen DEF vars
<1>2. ASSUME NEW bundleName \in Bundle, NEW callback \in Subscriber,
             Subscribe(bundleName, callback) \/ Unsubscribe(bundleName, callback)
      PROVE  [Requests!Next]_Seen
  BY <1>2, Unseen DEF Subscribe, Unsubscribe
<1>3. ASSUME NEW bundleName \in Bundle, NEW callback \in Request, NotifyMetadata(bundleName, callback)
      PROVE  [Requests!Next]_Seen
  <2>1. Requests!Ask(callback, bundleName)
    BY <1>3 DEF NotifyMetadata, Requests!Ask, current, given
  <2> QED BY <2>1 DEF Requests!Next
<1>4. ASSUME NEW metadata \in Answer, SubmitMetadata(metadata)
      PROVE  [Requests!Next]_Seen
  BY <1>4, AnsweredIsGive DEF SubmitMetadata
<1>5. ASSUME NEW callback \in Request, TimerTask(callback)
      PROVE  [Requests!Next]_Seen
  BY <1>5, Unseen DEF TimerTask
<1>6. ASSUME NEW callback \in Request, TimerWakes(callback)
      PROVE  [Requests!Next]_Seen
  BY <1>6, Unseen, AnsweredIsGive DEF TimerWakes, Answer
<1>7. ASSUME NEW callback \in Decoder, NEW metadata \in Answer, BoomerangDecodeImage(callback, metadata)
      PROVE  [Requests!Next]_Seen
  <2>1. callback \notin Request
    OBVIOUS
  <2>2. \A other \in Request : answers'[other] = answers[other]
    BY <1>7, <2>1, OneMessage DEF BoomerangDecodeImage, IInv
  <2>3. Requests!GiveUp
    BY <1>7, <2>1, <2>2 DEF BoomerangDecodeImage, Requests!GiveUp, current, given
  <2> QED BY <2>3 DEF Requests!Next
<1>8. ASSUME NEW callback \in Subscriber \cup Request \cup Decoder, OnRemoteDied(callback)
      PROVE  [Requests!Next]_Seen
  <2>1. UNCHANGED <<asked, answers>> /\ notifyListener' \in {notifyListener, None}
    BY <1>8 DEF OnRemoteDied, ListenerAfterDeath
  <2>2. CASE notifyListener' = notifyListener
    BY <2>1, <2>2, Unseen
  <2>3. CASE notifyListener' = None
    <3>1. Requests!GiveUp
      BY <2>1, <2>3 DEF Requests!GiveUp, current, given
    <3> QED BY <3>1 DEF Requests!Next
  <2> QED BY <2>1, <2>2, <2>3
<1> QED BY <1>1, <1>2, <1>3, <1>4, <1>5, <1>6, <1>7, <1>8 DEF Next

\* For any bundles, callbacks and links, only the last request is answered, once,
\* with no link or a link of the application it asked about, whichever threads of
\* earlier requests are still asleep (NotifyMetadata, SubmitMetadata, TimerTask).
THEOREM Refinement == Spec => ImplementsRequests
<1>1. Init => Requests!Init
  BY CallbackAssumption DEF Init, Requests!Init, current, given
<1>2. IInv /\ [Next]_vars => [Requests!Next]_Seen
  BY NextIsRequests
<1> QED BY <1>1, <1>2, Invariance, PTL DEF Spec, ImplementsRequests, Requests!Spec, Seen
=============================================================================
