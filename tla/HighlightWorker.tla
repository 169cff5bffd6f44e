--------------------------- MODULE HighlightWorker ---------------------------
(***************************************************************************)
(* Syntax highlighting off the terminal's event loop:                      *)
(* packages/hunk/src/ui/diff/worker, the client's queue of requests        *)
(* (highlightWorkerClient.ts) and the worker with its cache of results     *)
(* (highlightWorkerRuntime.ts, highlightWorkerCache.ts).                   *)
(*                                                                         *)
(* A request is an identity with a kind and the key of its result; a       *)
(* result is its size.  A worker's answer travels as a message, and may    *)
(* arrive after its request was aborted or its worker replaced.            *)
(***************************************************************************)
EXTENDS Integers, Sequences, FiniteSets, SequencesExt, Reservations, Filtering

CONSTANTS
    HRequest, HWorker, NoHRequest, NoHWorker,
    Preload,                \* the requests that only warm a grammar
    ResultKey,              \* [HRequest -> highlightWorkerCacheKey of it]
    ResultBytes,            \* [key -> payloadByteLength of its result]
    maxCacheBytes, maxCacheEntries

ASSUME HighlightAssumption ==
    /\ NoHRequest \notin HRequest
    /\ NoHWorker \notin HWorker
    /\ Preload \subseteq HRequest
    /\ ResultBytes \in [DOMAIN ResultBytes -> Nat]
    /\ ResultKey \in [HRequest -> DOMAIN ResultBytes]
    /\ maxCacheBytes \in Nat \ {0}
    /\ maxCacheEntries \in Nat \ {0}

VARIABLES
    worker,            \* the worker in use
    activeRequest,
    queuedRequests,
    aborted,           \* requests whose signal fired
    settled,           \* [HRequest -> what became of its promise]
    posted,            \* [HWorker -> the request it works on]
    replies,           \* [HWorker -> its messages that are on the way]
    cached,            \* [HWorker -> keys of its cache, least recently used first]
    cachedBytes        \* [HWorker -> the cache's own count]

clientVars == <<worker, activeRequest, queuedRequests, aborted, settled>>
workerVars == <<posted, replies, cached, cachedBytes>>
highlightVars == <<clientVars, workerVars>>

HighlightInit ==
    /\ worker = NoHWorker
    /\ activeRequest = NoHRequest
    /\ queuedRequests = <<>>
    /\ aborted = {}
    /\ settled = [r \in HRequest |-> "unasked"]
    /\ posted = [w \in HWorker |-> NoHRequest]
    /\ replies = [w \in HWorker |-> <<>>]
    /\ cached = [w \in HWorker |-> <<>>]
    /\ cachedBytes = [w \in HWorker |-> 0]

-----------------------------------------------------------------------------
(***************************************************************************)
(* The client.                                                             *)
(***************************************************************************)

(* The promises of these requests, unless aborted, end this way. *)
Settling(requests, how) ==
    [r \in HRequest |-> IF r \in requests \ aborted THEN how ELSE settled[r]]

(* A worker that nothing is heard of any more. *)
Spare(w) == posted[w] = NoHRequest /\ replies[w] = <<>>

(* getHighlightWorker(): the worker in use, or a new one. *)
Serves(w) == IF worker = NoHWorker THEN Spare(w) ELSE w = worker

(* resetWorker(): the worker goes, and everything pending fails. *)
ResetWorker(pending, promises) ==
    /\ worker' = NoHWorker
    /\ activeRequest' = NoHRequest
    /\ queuedRequests' = <<>>
    /\ settled' = [r \in HRequest |-> IF r \in pending \ aborted THEN "rejected" ELSE promises[r]]
    /\ UNCHANGED <<posted, cached, cachedBytes>>

(* runNextRequest() with this queue and no request active: the next job is *)
(* posted, or the worker cannot be made or written to.                     *)
RunNextRequest(queue, promises) ==
    \/ /\ queue = <<>>
       /\ activeRequest' = NoHRequest
       /\ queuedRequests' = <<>>
       /\ settled' = promises
       /\ UNCHANGED <<worker, posted, cached, cachedBytes>>
    \/ \E w \in HWorker :
          /\ queue # <<>>
          /\ Serves(w)
          /\ worker' = w
          /\ activeRequest' = Head(queue)
          /\ queuedRequests' = Tail(queue)
          /\ settled' = promises
          /\ posted' = [posted EXCEPT ![w] = Head(queue)]
          /\ cached' = IF worker = w THEN cached ELSE [cached EXCEPT ![w] = <<>>]
          /\ cachedBytes' = IF worker = w THEN cachedBytes ELSE [cachedBytes EXCEPT ![w] = 0]
    \/ /\ queue # <<>>
       /\ ResetWorker(ToSet(queue), promises)

(* A render request goes ahead of every waiting preload. *)
Inserted(r) ==
    LET warming == SelectInSeq(queuedRequests, LAMBDA q : q \in Preload)
    IN  IF r \in Preload \/ warming = 0 THEN Append(queuedRequests, r)
        ELSE InsertAt(queuedRequests, warming, r)

(* enqueueHighlightRequest() *)
EnqueueHighlightRequest(r) ==
    /\ settled[r] = "unasked"
    /\ LET promises == [settled EXCEPT ![r] = "pending"]
       IN  IF activeRequest # NoHRequest
           THEN /\ queuedRequests' = Inserted(r)
                /\ settled' = promises
                /\ UNCHANGED <<worker, activeRequest, posted, cached, cachedBytes>>
           ELSE RunNextRequest(Inserted(r), promises)
    /\ UNCHANGED <<aborted, replies>>

(* enqueueHighlightRequest() with a signal that has already fired. *)
AbortedBeforehand(r) ==
    /\ r \notin Preload
    /\ settled[r] = "unasked"
    /\ settled' = [settled EXCEPT ![r] = "rejected"]
    /\ UNCHANGED <<worker, activeRequest, queuedRequests, aborted, workerVars>>

(* The abort handler: the caller is told at once and a queued request is   *)
(* withdrawn; an active one keeps its turn until the worker replies.       *)
Abort(r) ==
    /\ r \notin Preload
    /\ settled[r] = "pending"
    /\ aborted' = aborted \cup {r}
    /\ queuedRequests' = Filtered(queuedRequests, HRequest \ {r})
    /\ settled' = [settled EXCEPT ![r] = "rejected"]
    /\ UNCHANGED <<worker, activeRequest, workerVars>>

EndsTurn_UnlessAborted(id) == id = activeRequest /\ activeRequest \notin aborted

(* The reply that ends the turn of the active request, aborted or not. *)
EndsTurn(id) == id = activeRequest

(* handleWorkerMessage(): the next message of w is ignored, ends the turn  *)
(* of the active request, or shows that the worker cannot be trusted.      *)
WorkerMessage(w) ==
    /\ replies[w] # <<>>
    /\ LET reply == Head(replies[w])
           heard == w = worker /\ activeRequest # NoHRequest
       IN  \/ /\ ~heard \/ (reply.id # NoHRequest /\ ~EndsTurn(reply.id))
              /\ UNCHANGED <<clientVars, posted, cached, cachedBytes>>
           \/ /\ heard /\ EndsTurn(reply.id)
              /\ activeRequest \in aborted \/ reply.body # "malformed"
              /\ RunNextRequest(queuedRequests,
                     Settling({activeRequest},
                              IF reply.body = "ok" THEN "resolved" ELSE "rejected"))
              /\ UNCHANGED aborted
           \/ /\ heard
              /\ \/ reply.id = NoHRequest
                 \/ EndsTurn(reply.id) /\ activeRequest \notin aborted /\ reply.body = "malformed"
              /\ ResetWorker({activeRequest} \cup ToSet(queuedRequests), settled)
              /\ UNCHANGED aborted
    /\ replies' = [replies EXCEPT ![w] = Tail(@)]

(* handleWorkerError() and disposeHighlightWorker(): the worker is gone. *)
WorkerGivenUp ==
    /\ worker # NoHWorker
    /\ ResetWorker({activeRequest} \cup ToSet(queuedRequests), settled)
    /\ UNCHANGED <<aborted, replies>>

(* registerHighlightWorker(): another worker takes its place at once. *)
RegisterHighlightWorker(w) ==
    /\ w # worker
    /\ Spare(w)
    /\ worker' = w
    /\ activeRequest' = NoHRequest
    /\ queuedRequests' = <<>>
    /\ settled' = Settling({activeRequest} \cup ToSet(queuedRequests), "rejected")
    /\ cached' = [cached EXCEPT ![w] = <<>>]
    /\ cachedBytes' = [cachedBytes EXCEPT ![w] = 0]
    /\ UNCHANGED <<aborted, posted, replies>>

-----------------------------------------------------------------------------
(***************************************************************************)
(* The worker.                                                             *)
(***************************************************************************)

(* The bytes of the results with these keys. *)
SizeOf(keys) == Weight(ResultBytes, keys)

Evicted_OverBytesOnly(keys, bytes) ==
    LET over(i) == bytes - SizeOf(SubSeq(keys, 1, i)) > maxCacheBytes
    IN  CHOOSE i \in 0..Len(keys) : ~over(i) /\ \A j \in 0..(i - 1) : over(j)

(* How many of the least recently used keys the loop of set() evicts. *)
Evicted(keys, bytes) ==
    LET over(i) == \/ bytes - SizeOf(SubSeq(keys, 1, i)) > maxCacheBytes
                   \/ Len(keys) - i > maxCacheEntries
    IN  CHOOSE i \in 0..Len(keys) : ~over(i) /\ \A j \in 0..(i - 1) : over(j)

(* HighlightWorkerCache.set() of a key that get() did not find; a result   *)
(* larger than the cache is not kept.                                      *)
CacheSet(w, k) ==
    LET keys == Append(cached[w], k)
        bytes == cachedBytes[w] + ResultBytes[k]
        n == Evicted(keys, bytes)
    IN  IF ResultBytes[k] > maxCacheBytes THEN UNCHANGED <<cached, cachedBytes>>
        ELSE /\ cached' = [cached EXCEPT ![w] = SubSeq(keys, n + 1, Len(keys))]
             /\ cachedBytes' = [cachedBytes EXCEPT ![w] = bytes - SizeOf(SubSeq(keys, 1, n))]

(* HighlightWorkerCache.get(): the key becomes the most recently used. *)
CacheGet(w, k) ==
    /\ cached' = [cached EXCEPT ![w] = Append(Filtered(@, DOMAIN ResultBytes \ {k}), k)]
    /\ UNCHANGED cachedBytes

(* processHighlightWorkerRequest() and the reply.  What comes out of the   *)
(* highlighter, and of the structured clone, is a choice.                  *)
ProcessRequest(w, id, body) ==
    /\ posted[w] # NoHRequest
    /\ id \in {posted[w], NoHRequest}
    /\ id = NoHRequest => body = "malformed"
    /\ posted' = [posted EXCEPT ![w] = NoHRequest]
    /\ replies' = [replies EXCEPT ![w] = Append(@, [id |-> id, body |-> body])]
    /\ LET k == ResultKey[posted[w]]
       IN  IF posted[w] \in Preload \/ body = "failed" THEN UNCHANGED <<cached, cachedBytes>>
           ELSE IF k \in ToSet(cached[w]) THEN CacheGet(w, k)
           ELSE CacheSet(w, k)
    /\ UNCHANGED clientVars

(* What happens by itself: the worker's jobs and its messages. *)
HighlightProgress ==
    \E w \in HWorker :
        \/ WorkerMessage(w)
        \/ \E id \in HRequest \cup {NoHRequest}, body \in {"ok", "failed", "malformed"} :
              ProcessRequest(w, id, body)

HighlightNext ==
    \/ HighlightProgress
    \/ WorkerGivenUp
    \/ \E w \in HWorker : RegisterHighlightWorker(w)
    \/ \E r \in HRequest :
          EnqueueHighlightRequest(r) \/ AbortedBeforehand(r) \/ Abort(r)

HighlightSpec == HighlightInit /\ [][HighlightNext]_highlightVars

(* Fairness: the worker ends every job, well or badly, and its messages    *)
(* are delivered.                                                          *)
HighlightFairSpec == HighlightSpec /\ WF_highlightVars(HighlightProgress)

-----------------------------------------------------------------------------
(***************************************************************************)
(* Properties.                                                             *)
(***************************************************************************)

(* Whatever aborts, replaced workers and bad replies interleave: a promise *)
(* is pending exactly while its request is active or queued once, nothing  *)
(* waits while no request is active, and the visible rows never wait       *)
(* behind a warm-up that was asked for earlier (enqueueHighlightRequest).  *)
QueueSound ==
    LET waiting == ToSet(queuedRequests)
    IN  /\ {r \in HRequest : settled[r] = "pending"}
               = (waiting \cup {activeRequest}) \ ({NoHRequest} \cup aborted)
        /\ Len(queuedRequests) = Cardinality(waiting \ {activeRequest})
        /\ activeRequest = NoHRequest => waiting = {}
        /\ \A i, j \in 1..Len(queuedRequests) :
              i < j /\ queuedRequests[i] \in Preload => queuedRequests[j] \in Preload

(* The cache of a worker knows its own size, respects both limits and      *)
(* holds a key once, whatever sizes the results have (set, get).           *)
ResultCacheExact ==
    \A w \in HWorker :
        /\ cachedBytes[w] = SizeOf(cached[w])
        /\ cachedBytes[w] <= maxCacheBytes
        /\ Len(cached[w]) <= maxCacheEntries
        /\ Cardinality(ToSet(cached[w])) = Len(cached[w])

(* The client's queue and the workers' caches, at every step.              *)
HighlightSound == QueueSound /\ ResultCacheExact

(* Every request settles: an aborted one that keeps the turn, a worker     *)
(* that is given up or a reply that is ignored never leaves the rest of    *)
(* the queue waiting (settleActiveRequest, resetWorker).                   *)
HighlightsSettle ==
    []<>(\A r \in HRequest : settled[r] # "pending")
==============================================================================
