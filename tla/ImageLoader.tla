----------------------------- MODULE ImageLoader -----------------------------
(***************************************************************************)
(* The image loader (aarcadecore/ImageLoader.cpp), the page it drives      *)
(* (ui/image-loader.html) and its two customers: the objects in the map    *)
(* (InstanceManager.cpp) and the promises of the other pages               *)
(* (UltralightInstance.cpp).                                               *)
(*                                                                         *)
(* A request is registered on the C++ side and turned into a job of the    *)
(* page, which downloads all jobs in parallel and queues what has loaded.  *)
(* One image at a time is shown, given time to paint, captured into the    *)
(* cache and answered through the completion queue.  All of it runs on the *)
(* engine thread: a step is one handler, one callback of the page or one   *)
(* call of update.                                                         *)
(*                                                                         *)
(* An object has one image here: screen and marquee are separate requests  *)
(* of the same form.  A url stands for its cache key and its cache file;   *)
(* a snapshot is one more url, the last candidate of its item.             *)
(***************************************************************************)
EXTENDS Integers, Sequences, FiniteSets, Functions, SequencesExt

CONSTANTS
  Things,       \* thing indices; a request of an object is known by its thing
  Items,        \* items of the library
  Urls,         \* what an image can be loaded from and cached under
  LocalUrls,    \* those that are paths of local files
  NoUrl,        \* the empty string
  Candidates,   \* buildCandidateList: what an item's image is looked for in, in order
  MaxObjects,   \* bound of the model: objects in the map
  MaxPromises,  \* bound of the model: promises waiting for one url
  MaxAnswers    \* bound of the model: no request is made while so many answers wait

ASSUME UrlsAssumption == NoUrl \notin Urls /\ LocalUrls \subseteq Urls
ASSUME CandidatesAssumption ==
  \* The snapshot of the item is always a candidate.
  Candidates \in [Items -> Seq(Urls)] /\ \A it \in Items : Candidates[it] # <<>>
ASSUME BoundsAssumption == MaxObjects \in Nat /\ MaxPromises \in Nat /\ MaxAnswers \in Nat

VARIABLES
  ready,         \* isInitialized_
  objects,       \* objects_: thing, item, image requested, path of the image
  disk,          \* urls with a cache file
  pixels,        \* pixelCache_: urls whose pixels are in memory
  promises,      \* g_pendingImages: how many promises wait for each url
  pendingImages, \* pendingImages_: how many callbacks wait for each url
  pendingItem,   \* pendingItemChannels_: for each thing the index of the object the
                 \* callback is for; 0 is no request
  answers,       \* completionQueue_
  loading,       \* the page's jobs for a url
  walk,          \* the page's job for a thing: the candidates not yet tried
  readyQueue,    \* the page's readyQueue
  displayed,     \* the page's currentDisplayed
  settling,      \* images shown whose CAPTURE_SETTLE_MS have not passed
  capture        \* captureIdentifier_ and captureSourceUrl_; captureReady_ is set
                 \* and cleared with them

pageVars == <<loading, walk, readyQueue, displayed, settling>>
cacheVars == <<disk, pixels>>
urlVars == <<promises, pendingImages>>
vars == <<ready, objects, cacheVars, urlVars, pendingItem, answers, pageVars, capture>>

\* What the page loads: a url, the cache file of a url, or the image of a thing from
\* one of its candidates.  Its identifier is the url, the file or the request.
UrlShot(kind, u) == [kind |-> kind, url |-> u]
ItemShot(t, u) == [kind |-> "item", thing |-> t, url |-> u]
NoShot == [kind |-> "none"]
UrlShots == [kind : {"url", "file"}, url : Urls]
ItemShots == [kind : {"item"}, thing : Things, url : Urls]
Shots == UrlShots \cup ItemShots

UrlAnswer(ok, u) == [to |-> "promise", ok |-> ok, url |-> u]
ItemAnswer(ok, t, u) == [to |-> "object", ok |-> ok, thing |-> t,
                         index |-> pendingItem[t], url |-> u]
Answers == [to : {"promise"}, ok : BOOLEAN, url : Urls]
             \cup [to : {"object"}, ok : BOOLEAN, thing : Things, index : Nat \ {0},
                   url : Urls \cup {NoUrl}]

Object == [thing : Things, item : Items, requested : BOOLEAN, path : Urls \cup {NoUrl}]

\* Every field keeps its type.
TypeOK ==
  /\ ready \in BOOLEAN
  /\ objects \in Seq(Object)
  /\ disk \subseteq Urls /\ pixels \subseteq Urls
  /\ promises \in [Urls -> Nat] /\ pendingImages \in [Urls -> Nat]
  /\ pendingItem \in [Things -> Nat]
  /\ answers \in Seq(Answers)
  /\ loading \subseteq UrlShots
  /\ walk \in [Things -> Seq(Urls)]
  /\ readyQueue \in Seq(Shots)
  /\ displayed \in Shots \cup {NoShot}
  /\ settling \subseteq Shots
  /\ capture \in Shots \cup {NoShot}

\* Nothing is requested, and nothing is in memory; the files are those of earlier runs.
Init ==
  /\ ready = FALSE
  /\ objects = <<>>
  /\ disk \in SUBSET (Urls \ LocalUrls) /\ pixels = {}
  /\ promises = [u \in Urls |-> 0] /\ pendingImages = [u \in Urls |-> 0]
  /\ pendingItem = [t \in Things |-> 0]
  /\ answers = <<>>
  /\ loading = {} /\ walk = [t \in Things |-> <<>>] /\ readyQueue = <<>>
  /\ displayed = NoShot /\ settling = {} /\ capture = NoShot

\* The page reports that it can be called.
OnImageLoaderReady ==
  /\ ~ready
  /\ ready' = TRUE
  /\ UNCHANGED <<objects, cacheVars, urlVars, pendingItem, answers, pageVars, capture>>

-----------------------------------------------------------------------------
(* Promises: getCacheImage and loadAndCacheImage.                          *)

Cached(u) == u \in disk /\ u \notin LocalUrls

\* Mutant: every request is sent.
SendEveryUrl(u) ==
  IF ready THEN loading \cup {UrlShot(IF Cached(u) THEN "file" ELSE "url", u)} ELSE loading

\* The cache file is sent to the page when there is one, else the url, by the first
\* of the requests only, and by none of them before the page is ready.
SendUrl(u) ==
  IF pendingImages[u] = 0 /\ ready
  THEN loading \cup {UrlShot(IF Cached(u) THEN "file" ELSE "url", u)}
  ELSE loading

\* Mutant: a request that finds one pending takes its place.
GetCacheImageInstead(u) ==
  /\ promises[u] < MaxPromises /\ Len(answers) < MaxAnswers
  /\ promises' = [promises EXCEPT ![u] = @ + 1]
  /\ IF Cached(u) /\ u \in pixels
     THEN /\ answers' = Append(answers, UrlAnswer(TRUE, u))
          /\ UNCHANGED <<pendingImages, loading>>
     ELSE /\ pendingImages' = [pendingImages EXCEPT ![u] = 1]
          /\ loading' = SendUrl(u)
          /\ UNCHANGED answers
  /\ UNCHANGED <<ready, objects, cacheVars, pendingItem, walk, readyQueue, displayed,
                 settling, capture>>

\* Another page asks for a url.  A cached image with its pixels in memory answers at
\* once.  (A url that cannot be an image fails at once: UrlFails, sooner or later.)
GetCacheImage(u) ==
  /\ promises[u] < MaxPromises /\ Len(answers) < MaxAnswers
  /\ promises' = [promises EXCEPT ![u] = @ + 1]
  /\ IF Cached(u) /\ u \in pixels
     THEN /\ answers' = Append(answers, UrlAnswer(TRUE, u))
          /\ UNCHANGED <<pendingImages, loading>>
     ELSE /\ pendingImages' = [pendingImages EXCEPT ![u] = @ + 1]
          /\ loading' = SendUrl(u)
          /\ UNCHANGED answers
  /\ UNCHANGED <<ready, objects, cacheVars, pendingItem, walk, readyQueue, displayed,
                 settling, capture>>

-----------------------------------------------------------------------------
(* Objects: requestChannelImage and requestItemChannel.                    *)

\* Mutant: a request that replaces a callback is sent as well.
ResendChannelImages(objs, asked) ==
  LET Asking(t) == {i \in asked : objs[i].thing = t} IN
  IF ready
  THEN /\ objects' = [i \in DOMAIN objs |->
                        IF i \in asked THEN [objs[i] EXCEPT !.requested = TRUE]
                                       ELSE objs[i]]
       /\ pendingItem' = [t \in Things |-> IF Asking(t) # {} THEN CHOOSE i \in Asking(t) : TRUE
                                                             ELSE pendingItem[t]]
       /\ walk' = [t \in Things |->
                     IF Asking(t) # {}
                     THEN Candidates[objs[CHOOSE i \in Asking(t) : TRUE].item]
                     ELSE walk[t]]
  ELSE objects' = objs /\ UNCHANGED <<pendingItem, walk>>

\* Request the image of objs[i] for every i in asked.  While a request of the same
\* thing is pending only its callback is replaced.
RequestChannelImages(objs, asked) ==
  LET Asking(t) == {i \in asked : objs[i].thing = t} IN
  IF ready
  THEN /\ objects' = [i \in DOMAIN objs |->
                        IF i \in asked THEN [objs[i] EXCEPT !.requested = TRUE]
                                       ELSE objs[i]]
       /\ pendingItem' = [t \in Things |-> IF Asking(t) # {} THEN CHOOSE i \in Asking(t) : TRUE
                                                             ELSE pendingItem[t]]
       /\ walk' = [t \in Things |->
                     IF Asking(t) # {} /\ pendingItem[t] = 0
                     THEN Candidates[objs[CHOOSE i \in Asking(t) : TRUE].item]
                     ELSE walk[t]]
  ELSE objects' = objs /\ UNCHANGED <<pendingItem, walk>>

FreeThings == Things \ {objects[i].thing : i \in DOMAIN objects}
MayRequest == Len(answers) < MaxAnswers

NewObject(t, it) == [thing |-> t, item |-> it, requested |-> FALSE, path |-> NoUrl]

\* initSpawnedObject: the thing may have been another object's before.
InitSpawnedObject(t, it) ==
  /\ MayRequest /\ t \in FreeThings /\ Len(objects) < MaxObjects
  /\ RequestChannelImages(Append(objects, NewObject(t, it)), {Len(objects) + 1})
  /\ UNCHANGED <<ready, cacheVars, urlVars, answers, loading, readyQueue, displayed,
                 settling, capture>>

\* A model change: updateThingIdx, then reloadImagesForThing.
ChangeModel(i, t) ==
  /\ MayRequest /\ t \in FreeThings
  /\ RequestChannelImages([objects EXCEPT ![i] = NewObject(t, objects[i].item)], {i})
  /\ UNCHANGED <<ready, cacheVars, urlVars, answers, loading, readyQueue, displayed,
                 settling, capture>>

\* Mutant: files are deleted and their pixels stay.
RefreshKeepingPixels(it, wipe) ==
  LET mine == {i \in DOMAIN objects : objects[i].item = it}
      paths == {objects[i].path : i \in mine} IN
  /\ MayRequest
  /\ pixels' = pixels \ paths
  /\ disk' = IF wipe THEN disk \ (paths \cup Range(Candidates[it])) ELSE disk
  /\ RequestChannelImages([i \in DOMAIN objects |->
                             IF i \in mine THEN [objects[i] EXCEPT !.path = NoUrl]
                                           ELSE objects[i]], mine)
  /\ UNCHANGED <<ready, urlVars, answers, loading, readyQueue, displayed, settling, capture>>

\* refreshItemTextures; wipe is deleteDiskCache.
RefreshItemTextures(it, wipe) ==
  LET mine == {i \in DOMAIN objects : objects[i].item = it}
      gone == {objects[i].path : i \in mine}
                \cup (IF wipe THEN Range(Candidates[it]) ELSE {}) IN
  /\ MayRequest
  /\ pixels' = pixels \ gone
  /\ disk' = IF wipe THEN disk \ gone ELSE disk
  /\ RequestChannelImages([i \in DOMAIN objects |->
                             IF i \in mine THEN [objects[i] EXCEPT !.path = NoUrl]
                                           ELSE objects[i]], mine)
  /\ UNCHANGED <<ready, urlVars, answers, loading, readyQueue, displayed, settling, capture>>

\* destroyObject and removeSpawnedByThingIdx: the objects behind it move up.
RemoveObject(i) ==
  /\ objects' = RemoveAt(objects, i)
  /\ UNCHANGED <<ready, cacheVars, urlVars, pendingItem, answers, pageVars, capture>>

\* onMapLoaded and onMapUnloaded.
ClearObjects ==
  /\ objects # <<>>
  /\ objects' = <<>>
  /\ UNCHANGED <<ready, cacheVars, urlVars, pendingItem, answers, pageVars, capture>>

\* deactivateInstance keeps the last frame of an instance as the snapshot of its item,
\* unless there is one.
SaveSnapshot(it) ==
  LET key == Last(Candidates[it]) IN
  /\ ready /\ key \notin disk
  /\ disk' = disk \cup {key} /\ pixels' = pixels \cup {key}
  /\ UNCHANGED <<ready, objects, urlVars, pendingItem, answers, pageVars, capture>>

-----------------------------------------------------------------------------
(* The page: jobs run in parallel; what has loaded is queued.  Whether a   *)
(* candidate or a url loads is left open: the network, a file that is not  *)
(* there or is no image, a placeholder.                                    *)

UrlLoads(s) ==
  /\ s \in loading
  /\ loading' = loading \ {s}
  /\ readyQueue' = Append(readyQueue, s)
  /\ UNCHANGED <<ready, objects, cacheVars, urlVars, pendingItem, answers, walk, displayed,
                 settling, capture>>

AnswerAll(ok, u) == answers \o [k \in 1 .. pendingImages[u] |-> UrlAnswer(ok, u)]

\* onImageLoaded(false) looks for a pending request with this url: the cache file of
\* a url is none.
UrlFails(s) ==
  /\ s \in loading
  /\ loading' = loading \ {s}
  /\ IF s.kind = "url"
     THEN /\ answers' = AnswerAll(FALSE, s.url)
          /\ pendingImages' = [pendingImages EXCEPT ![s.url] = 0]
     ELSE UNCHANGED <<answers, pendingImages>>
  /\ UNCHANGED <<ready, objects, cacheVars, promises, pendingItem, walk, readyQueue,
                 displayed, settling, capture>>

\* tryNextCandidate, onload.
CandidateLoads(t) ==
  /\ walk[t] # <<>>
  /\ readyQueue' = Append(readyQueue, ItemShot(t, Head(walk[t])))
  /\ walk' = [walk EXCEPT ![t] = <<>>]
  /\ UNCHANGED <<ready, objects, cacheVars, urlVars, pendingItem, answers, loading, displayed,
                 settling, capture>>

\* The request of a thing is over: its callback, if there is one, goes to the queue.
AnswerItem(ok, t, u) ==
  IF pendingItem[t] # 0
  THEN /\ answers' = Append(answers, ItemAnswer(ok, t, u))
       /\ pendingItem' = [pendingItem EXCEPT ![t] = 0]
  ELSE UNCHANGED <<answers, pendingItem>>

\* tryNextCandidate, onerror; the last one fails the request.
CandidateFails(t) ==
  /\ walk[t] # <<>>
  /\ walk' = [walk EXCEPT ![t] = Tail(@)]
  /\ IF Len(walk[t]) = 1 THEN AnswerItem(FALSE, t, NoUrl) ELSE UNCHANGED <<answers, pendingItem>>
  /\ UNCHANGED <<ready, objects, cacheVars, urlVars, loading, readyQueue, displayed, settling,
                 capture>>

\* An image shown has had its time to paint: onImageLoaded(true).
Settled(s) ==
  /\ s \in settling
  /\ settling' = settling \ {s}
  /\ capture' = s
  /\ UNCHANGED <<ready, objects, cacheVars, urlVars, pendingItem, answers, loading, walk,
                 readyQueue, displayed>>

-----------------------------------------------------------------------------
(* update: capture what is shown, and show the next image.                 *)

\* Mutant: the next image is shown while one is on display.
ShowNextAnyway(shown) ==
  IF readyQueue # <<>>
  THEN /\ displayed' = Head(readyQueue)
       /\ readyQueue' = Tail(readyQueue)
       /\ settling' = settling \cup {Head(readyQueue)}
  ELSE displayed' = shown /\ UNCHANGED <<readyQueue, settling>>

\* showNextReady, where shown is what the page displays.
ShowNextReady(shown) ==
  IF shown = NoShot /\ readyQueue # <<>>
  THEN /\ displayed' = Head(readyQueue)
       /\ readyQueue' = Tail(readyQueue)
       /\ settling' = settling \cup {Head(readyQueue)}
  ELSE displayed' = shown /\ UNCHANGED <<readyQueue, settling>>

Save(u) == disk' = disk \cup {u} /\ pixels' = pixels \cup {u}

\* renderAndSave, by what was captured.  A cache file is recognised by looking the
\* file up again: if it has been deleted since, the capture is saved under a name
\* nobody asks for, and no request is answered.
RenderAndSave ==
  \/ /\ capture.kind = "item"
     /\ Save(capture.url)
     /\ AnswerItem(TRUE, capture.thing, capture.url)
     /\ UNCHANGED pendingImages
  \/ /\ capture.kind \in {"url", "file"}
     /\ IF capture.kind = "file" /\ capture.url \notin disk
        THEN UNCHANGED <<cacheVars, answers, pendingImages>>
        ELSE /\ Save(capture.url)
             /\ answers' = AnswerAll(TRUE, capture.url)
             /\ pendingImages' = [pendingImages EXCEPT ![capture.url] = 0]
     /\ UNCHANGED pendingItem

\* Mutant: captureComplete is not called.
CaptureStaysShown ==
  /\ capture # NoShot
  /\ RenderAndSave
  /\ capture' = NoShot
  /\ ShowNextReady(displayed)
  /\ UNCHANGED <<ready, objects, promises, loading, walk>>

\* captureReady_: save what is shown, captureComplete, and the next one at once.
Capture ==
  /\ capture # NoShot
  /\ RenderAndSave
  /\ capture' = NoShot
  /\ ShowNextReady(NoShot)
  /\ UNCHANGED <<ready, objects, promises, loading, walk>>

\* Nothing is being captured: showNextReady, which does nothing while an image settles.
Show ==
  /\ capture = NoShot /\ ready
  /\ ShowNextReady(displayed)
  /\ UNCHANGED <<ready, objects, cacheVars, urlVars, pendingItem, answers, loading, walk, capture>>

Update == Capture \/ Show

-----------------------------------------------------------------------------
(* processCompletions: drain the queue, call the callbacks.                *)

\* The answers that reach objects[i]: the index is the callback's, and the thing is
\* asked for again, since objects may have moved.
AnswersTo(i) ==
  {k \in DOMAIN answers : /\ answers[k].to = "object"
                          /\ answers[k].index = i /\ answers[k].thing = objects[i].thing}

\* A success sets the path, a failure takes the request back.
Delivered(i) ==
  LET good == {k \in AnswersTo(i) : answers[k].ok} IN
  [objects[i] EXCEPT
     !.path = IF good = {} THEN @
                           ELSE answers[CHOOSE k \in good : \A j \in good : j <= k].url,
     !.requested = @ /\ AnswersTo(i) = good]

PromiseAnswers(u) == {k \in DOMAIN answers : answers[k].to = "promise" /\ answers[k].url = u}

\* Mutant: the queue is not drained.
CompleteAgain ==
  /\ answers # <<>>
  /\ objects' = [i \in DOMAIN objects |-> Delivered(i)]
  /\ promises' = [u \in Urls |-> promises[u] - Cardinality(PromiseAnswers(u))]
  /\ UNCHANGED <<ready, cacheVars, pendingImages, pendingItem, answers, pageVars, capture>>

ProcessCompletions ==
  /\ answers # <<>>
  /\ answers' = <<>>
  /\ objects' = [i \in DOMAIN objects |-> Delivered(i)]
  /\ promises' = [u \in Urls |-> promises[u] - Cardinality(PromiseAnswers(u))]
  /\ UNCHANGED <<ready, cacheVars, pendingImages, pendingItem, pageVars, capture>>

-----------------------------------------------------------------------------

UrlEnds(s) == UrlLoads(s) \/ UrlFails(s)
CandidateEnds(t) == CandidateLoads(t) \/ CandidateFails(t)

Snapshots == {Last(Candidates[it]) : it \in Items}

Customer ==
  \/ \E u \in Urls \ Snapshots : GetCacheImage(u)
  \/ \E t \in Things, it \in Items : InitSpawnedObject(t, it)
  \/ \E i \in DOMAIN objects, t \in Things : ChangeModel(i, t)
  \/ \E it \in Items, wipe \in BOOLEAN : RefreshItemTextures(it, wipe)
  \/ \E i \in DOMAIN objects : RemoveObject(i)
  \/ ClearObjects
  \/ \E it \in Items : SaveSnapshot(it)

Page ==
  \/ OnImageLoaderReady
  \/ \E s \in UrlShots : UrlEnds(s)
  \/ \E t \in Things : CandidateEnds(t)
  \/ \E s \in Shots : Settled(s)

Next == Customer \/ Page \/ Update \/ ProcessCompletions

Spec == Init /\ [][Next]_vars

\* The engine calls update and processCompletions in every frame, downloads end, and
\* timers fire.  No customer is obliged to ask.
FairSpec ==
  /\ Spec
  /\ WF_vars(OnImageLoaderReady)
  /\ \A s \in UrlShots : WF_vars(UrlEnds(s))
  /\ \A t \in Things : WF_vars(CandidateEnds(t))
  /\ \A s \in Shots : WF_vars(Settled(s))
  /\ WF_vars(Update) /\ WF_vars(ProcessCompletions)

-----------------------------------------------------------------------------
(* Safety.                                                                 *)

\* What is being captured is what the page shows, so the picture saved under an
\* identifier is that identifier's.  showNextReady: "Don't pop/swap the image out from
\* under it".
CaptureIsShown == capture # NoShot => displayed = capture

\* What has loaded, in the order it will be captured; 0 is the image on display.
Hand(k) == IF k = 0 THEN displayed ELSE readyQueue[k]
Positions == 0 .. Len(readyQueue)
ForThing(s, t) == s.kind = "item" /\ s.thing = t
ForUrl(s, u) == s.kind \in {"url", "file"} /\ s.url = u

\* A request of a thing is pending exactly while the page has a job for it, and it has
\* one: still walking the candidates, or loaded and not yet captured.  So a request is
\* sent once, and answered when its job ends and not before.
OneItemJob ==
  \A t \in Things :
    LET walking == walk[t] # <<>>
        waiting == \E k \in Positions : ForThing(Hand(k), t) IN
    /\ pendingItem[t] # 0 <=> walking \/ waiting
    /\ ~(walking /\ waiting)
    /\ \A j, k \in Positions : ForThing(Hand(j), t) /\ ForThing(Hand(k), t) => j = k

\* The page never works twice for one url, nor for a url nobody waits for.
OneUrlJob ==
  \A u \in Urls :
    LET walking == \E s \in loading : s.url = u
        waiting == \E k \in Positions : ForUrl(Hand(k), u) IN
    /\ walking \/ waiting => pendingImages[u] # 0
    /\ ~(walking /\ waiting)
    /\ \A r, s \in loading : r.url = u /\ s.url = u => r = s
    /\ \A j, k \in Positions : ForUrl(Hand(j), u) /\ ForUrl(Hand(k), u) => j = k

\* No promise is forgotten or answered twice: each waits in a pending request or in an
\* answer on its way, whatever requests of the same url it was joined with.
PromisesKept ==
  \A u \in Urls : promises[u] = pendingImages[u] + Cardinality(PromiseAnswers(u))

\* Pixels in memory have their cache file: an image answered from memory is named by
\* the path of a file that is there.
PixelsHaveFile == pixels \subseteq disk

-----------------------------------------------------------------------------
(* What documents and comments say.                                        *)

InFlight(t) ==
  pendingItem[t] # 0 \/ \E k \in DOMAIN answers : answers[k].to = "object" /\ answers[k].thing = t

\* getScreenImageStatus.
Status(i) == IF objects[i].path # NoUrl THEN 1 ELSE IF objects[i].requested THEN 0 ELSE -1

\* aarcadecore_api.h on the status: "0 = pending (a load is still in flight)".
PendingIsInFlight == \A i \in DOMAIN objects : Status(i) = 0 => InFlight(objects[i].thing)

(* Liveness.                                                               *)

\* A request of a thing does not pend for ever.
ItemRequestsEnd == \A t \in Things : pendingItem[t] # 0 ~> pendingItem[t] = 0

\* The same file: "Returns Promise-like object. Resolved when image is cached. Rejected
\* on failure": no promise waits for ever.
PromisesSettle == \A u \in Urls : promises[u] > 0 ~> promises[u] = 0
=============================================================================
