------------------------------ MODULE Boomerang ------------------------------
(***************************************************************************)
(* Metadata binding ("boomerang"): a system application asks which link    *)
(* the application on the screen stands for.  DeviceStatusManager tells    *)
(* the subscribers of that bundle to take a screenshot, keeps the callback *)
(* of the caller in notifyListener_, and answers it from SubmitMetadata or *)
(* from a detached thread that sleeps 150 ms (TimerTask).                  *)
(*                                                                         *)
(* Everything below runs under mutex_, except the first test of TimerTask  *)
(* and the sleep.  The callback of a request is made for that request      *)
(* (boomerang_napi.cpp), so that a request and its callback are one thing. *)
(* Encoding images and unloading the algorithm library are left out.       *)
(***************************************************************************)
EXTENDS Naturals, Sequences

CONSTANTS
    Bundle,         \* applications, by bundle name
    Subscriber,     \* callbacks given to Subscribe
    Request,        \* callbacks given to NotifyMetadata
    Decoder,        \* callbacks given to BoomerangDecodeImage
    Metadata,       \* links an application may submit, but the empty one
    Applink,        \* the bundle that the bundle manager finds for a link
    None            \* no callback

ASSUME CallbackAssumption ==
    /\ None \notin Request \cup Decoder \cup Subscriber
    /\ Request \cap (Decoder \cup Subscriber) = {}
    /\ Applink \in [Metadata -> Bundle]
    /\ "empty" \notin Metadata /\ "none" \notin Bundle

VARIABLES
    boomerangListeners, \* bundle |-> its subscribers
    notifyListener,     \* the callback that the next answer goes to
    bundleNameCache,    \* request |-> the bundle it asked for, or "none"
    hasSubmitted,       \* the current request has been answered
    timers,             \* state of the timer thread of each request
    dead,               \* callbacks whose process has died
    asked,              \* history: request |-> the bundle it was made for, or "none"
    answers             \* history: callback |-> the answers it was given

vars == <<boomerangListeners, notifyListener, bundleNameCache, hasSubmitted,
          timers, dead, asked, answers>>

\* The empty string: an answer without a link.
emptyMetadata == "empty"

Answer == Metadata \cup {emptyMetadata}

\* The types of the variables.  A callback is answered at most once by each of
\* the calls of the interface, hence the bound on the answers of a decoder.
TypeOK ==
    /\ boomerangListeners \in [Bundle -> SUBSET Subscriber]
    /\ notifyListener \in Request \cup Decoder \cup {None}
    /\ bundleNameCache \in [Request -> Bundle \cup {"none"}]
    /\ hasSubmitted \in BOOLEAN
    /\ timers \in [Request -> {"none", "started", "asleep"}]
    /\ dead \in SUBSET (Subscriber \cup Request \cup Decoder)
    /\ asked \in [Request -> Bundle \cup {"none"}]
    /\ answers \in [Request \cup Decoder -> Seq(Answer)]

Init ==
    /\ boomerangListeners = [bundleName \in Bundle |-> {}]
    /\ notifyListener = None
    /\ bundleNameCache = [callback \in Request |-> "none"]
    /\ hasSubmitted = FALSE
    /\ timers = [callback \in Request |-> "none"]
    /\ dead = {}
    /\ asked = [callback \in Request |-> "none"]
    /\ answers = [callback \in Request \cup Decoder |-> <<>>]

-----------------------------------------------------------------------------
\* Subscriptions.

Subscribe(bundleName, callback) ==
    /\ callback \notin dead
    /\ boomerangListeners' = [boomerangListeners EXCEPT ![bundleName] = @ \cup {callback}]
    /\ UNCHANGED <<notifyListener, bundleNameCache, hasSubmitted, timers, dead, asked, answers>>

\* An entry without subscribers and no entry are one: NotifyMetadata refuses both.
Unsubscribe(bundleName, callback) ==
    /\ callback \in boomerangListeners[bundleName] \ dead
    /\ boomerangListeners' = [boomerangListeners EXCEPT ![bundleName] = @ \ {callback}]
    /\ UNCHANGED <<notifyListener, bundleNameCache, hasSubmitted, timers, dead, asked, answers>>

-----------------------------------------------------------------------------
\* Requests and answers.

\* Seeded fault: the timer is only started for the first request.
NotifyMetadataTimedOnce(bundleName, callback) ==
    /\ asked[callback] = "none"
    /\ boomerangListeners[bundleName] # {}
    /\ asked' = [asked EXCEPT ![callback] = bundleName]
    /\ notifyListener' = callback
    /\ bundleNameCache' = [bundleNameCache EXCEPT ![callback] = bundleName]
    /\ hasSubmitted' = FALSE
    /\ timers' = [timers EXCEPT ![callback] = IF notifyListener = None THEN "started" ELSE @]
    /\ UNCHANGED <<boomerangListeners, dead, answers>>

\* The screenshot messages to the subscribers change nothing here.
NotifyMetadata(bundleName, callback) ==
    /\ asked[callback] = "none" /\ callback \notin dead
    /\ boomerangListeners[bundleName] # {}
    /\ asked' = [asked EXCEPT ![callback] = bundleName]
    /\ notifyListener' = callback
    /\ bundleNameCache' = [bundleNameCache EXCEPT ![callback] = IF @ = "none" THEN bundleName ELSE @]
    /\ hasSubmitted' = FALSE
    /\ timers' = [timers EXCEPT ![callback] = "started"]
    /\ UNCHANGED <<boomerangListeners, dead, answers>>

\* OnNotifyMetadata, one way: what a dead process is sent is lost.
OnNotifyMetadata(callback, metadata) ==
    answers' = [answers EXCEPT ![callback] = Append(@, metadata)]

\* The link goes to a request only if the bundle manager finds the requested
\* bundle for it; it finds none for the empty string.
Matching(callbackBundleName, metadata) ==
    IF metadata \in Metadata /\ Applink[metadata] = callbackBundleName
    THEN metadata ELSE emptyMetadata

\* GetBundleNameByCallback finds the callback.
Cached(callback) == callback \in Request /\ bundleNameCache[callback] # "none"

\* Seeded fault: an answered request is not marked.
AnsweredUnmarked(metadata) ==
    /\ UNCHANGED <<hasSubmitted, bundleNameCache>>
    /\ \/ notifyListener = None /\ UNCHANGED answers
       \/ /\ Cached(notifyListener)
          /\ OnNotifyMetadata(notifyListener, Matching(bundleNameCache[notifyListener], metadata))
       \/ /\ notifyListener # None /\ ~Cached(notifyListener)
          /\ OnNotifyMetadata(notifyListener, emptyMetadata)

\* SubmitMetadata once it holds the lock and hasSubmitted_ is false.  A callback
\* that is not in the cache (of BoomerangDecodeImage) gets the empty answer.
Answered(metadata) ==
    /\ hasSubmitted' = TRUE
    /\ \/ notifyListener = None /\ UNCHANGED <<answers, bundleNameCache>>
       \/ /\ Cached(notifyListener)
          /\ OnNotifyMetadata(notifyListener, Matching(bundleNameCache[notifyListener], metadata))
          /\ bundleNameCache' = [bundleNameCache EXCEPT ![notifyListener] = "none"]
       \/ /\ notifyListener # None /\ ~Cached(notifyListener)
          /\ OnNotifyMetadata(notifyListener, emptyMetadata)
          /\ UNCHANGED bundleNameCache

\* An application submits its link.
SubmitMetadata(metadata) ==
    /\ ~hasSubmitted
    /\ Answered(metadata)
    /\ UNCHANGED <<boomerangListeners, notifyListener, timers, dead, asked>>

\* The thread of a request begins: it goes to sleep, or ends if the request
\* was answered before it ran.
TimerTask(callback) ==
    /\ timers[callback] = "started"
    /\ timers' = [timers EXCEPT ![callback] = IF hasSubmitted THEN "none" ELSE "asleep"]
    /\ UNCHANGED <<boomerangListeners, notifyListener, bundleNameCache, hasSubmitted, dead, asked, answers>>

\* Seeded fault: a thread that wakes up waits once more for the application.
TimerWakesAgain(callback) ==
    /\ timers[callback] = "asleep"
    /\ timers' = [timers EXCEPT ![callback] = "started"]
    /\ UNCHANGED <<boomerangListeners, notifyListener, bundleNameCache, hasSubmitted, dead, asked, answers>>

\* ... and wakes up after SLEEP_TIME: SubmitMetadata("").
TimerWakes(callback) ==
    /\ timers[callback] = "asleep"
    /\ timers' = [timers EXCEPT ![callback] = "none"]
    /\ \/ hasSubmitted /\ UNCHANGED <<hasSubmitted, answers, bundleNameCache>>
       \/ ~hasSubmitted /\ Answered(emptyMetadata)
    /\ UNCHANGED <<boomerangListeners, notifyListener, dead, asked>>

\* The caller of BoomerangDecodeImage becomes the listener and is answered at once.
BoomerangDecodeImage(callback, metadata) ==
    /\ answers[callback] = <<>> /\ callback \notin dead
    /\ notifyListener' = callback
    /\ OnNotifyMetadata(callback, metadata)
    /\ UNCHANGED <<boomerangListeners, bundleNameCache, hasSubmitted, timers, dead, asked>>

ListenerAfterDeath(callback) ==
    IF notifyListener = callback THEN None ELSE notifyListener

\* A process dies and OnRemoteDied runs.
OnRemoteDied(callback) ==
    /\ callback \notin dead
    /\ \/ callback \in Subscriber
       \/ callback \in Request /\ asked[callback] # "none"
       \/ callback \in Decoder /\ answers[callback] # <<>>
    /\ dead' = dead \cup {callback}
    /\ boomerangListeners' = [bundleName \in Bundle |-> boomerangListeners[bundleName] \ {callback}]
    /\ notifyListener' = ListenerAfterDeath(callback)
    /\ UNCHANGED <<bundleNameCache, hasSubmitted, timers, asked, answers>>

-----------------------------------------------------------------------------

Next ==
    \/ \E bundleName \in Bundle, callback \in Subscriber :
          Subscribe(bundleName, callback) \/ Unsubscribe(bundleName, callback)
    \/ \E bundleName \in Bundle, callback \in Request : NotifyMetadata(bundleName, callback)
    \/ \E metadata \in Answer : SubmitMetadata(metadata)
    \/ \E callback \in Request : TimerTask(callback) \/ TimerWakes(callback)
    \/ \E callback \in Decoder, metadata \in Answer : BoomerangDecodeImage(callback, metadata)
    \/ \E callback \in Subscriber \cup Request \cup Decoder : OnRemoteDied(callback)

Spec == Init /\ [][Next]_vars

\* A thread that was started runs, and a sleep ends.
FairSpec ==
    Spec /\ \A callback \in Request : WF_vars(TimerTask(callback) \/ TimerWakes(callback))

-----------------------------------------------------------------------------
\* Properties.

\* A request is answered at most once, whatever links are submitted and however
\* many timers of earlier requests are still asleep: its promise in the caller
\* can be resolved only once (boomerang_napi.cpp, EmitOnMetadata).
AnsweredOnce == \A callback \in Request : Len(answers[callback]) <= 1

\* A link that reaches a caller belongs to the application it asked about, also
\* when another application answers late, after a second request has taken the
\* place of the first (SubmitMetadata, GetBundleNameByCallback).
LinkOfAsked ==
    \A callback \in Request : \A i \in DOMAIN answers[callback] :
        answers[callback][i] \in Metadata => Applink[answers[callback][i]] = asked[callback]

\* While a request is open its own timer thread is under way, whatever the threads
\* of earlier requests found and did, so that it depends neither on the application
\* nor on them (NotifyMetadata, TimerTask).
OpenIsTimed ==
    notifyListener \in Request /\ answers[notifyListener] = <<>> => timers[notifyListener] # "none"

\* Whoever submits links, decodes images or dies, and whichever timers wake up, the
\* requests see what MetadataRequests promises: only the last is answered, once,
\* with a link of the application it asked about (NotifyMetadata, SubmitMetadata).
current == IF notifyListener \in Request THEN notifyListener ELSE None
given == [callback \in Request |-> answers[callback]]
Requests == INSTANCE MetadataRequests
ImplementsRequests == Requests!Spec

\* A request ends: it is answered, unless its process dies, or another request or
\* a decoding takes its place (the code answers only the last one).
RequestEnds ==
    \A callback \in Request :
        asked[callback] # "none" ~> (answers[callback] # <<>> \/ notifyListener # callback)
=============================================================================
