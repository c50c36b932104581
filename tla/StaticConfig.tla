----------------------------- MODULE StaticConfig -----------------------------
(***************************************************************************)
(* The published marketing content of one locale as each isolate keeps it: *)
(* a bundle built from the newest versions in the database, one load at a  *)
(* time, a bundle made of the built-in messages when the database cannot   *)
(* be had, and the clearing of all of it after a publish, a change of the  *)
(* site settings or a call of the revalidation route                       *)
(* (lib/static-config/index.ts, app/(dynamic)/api/admin/cache/revalidate). *)
(*                                                                         *)
(* What runs between two awaits of the database is one action: the         *)
(* continuations of a load follow it without another event in between.     *)
(* Content is abstracted to the number of publishes it reflects, 0 for the *)
(* built-in messages.  What Next's "use cache" keeps above these functions *)
(* is not modelled: a request is one that reaches them.                    *)
(***************************************************************************)
EXTENDS Integers, FiniteSets

CONSTANTS
  Isolates,
  Requests,     \* requests that can wait together
  Loads,        \* loads that can be in flight together
  MaxPublished  \* bound: publishes

ASSUME StaticConfigAssumption == MaxPublished \in Nat

VARIABLES
  published, \* newest version in marketing_content_versions
  bundle,    \* isolate -> bundleCache: {} or {content}
  fallback,  \* isolate -> fallbackCache: {} or {version its object shows}
  promise,   \* isolate -> bundlePromises: {} or {load}
  load,      \* per load: its state
  request,   \* per request: {} or {what it waits for}
  cleared,   \* isolate -> history: newest version when its caches were last cleared
  answers    \* history: the answers given by the last step

caches == <<bundle, fallback, promise>>
vars == <<published, caches, load, request, cleared, answers>>

\* Content and (history) whether it may be older than the last clearing: it was loaded
\* across it, or is what is left without the database.
Content(v, e) == [version |-> v, excused |-> e]

NoLoad == [at |-> "idle", isolate |-> {}, rows |-> 0, missed |-> FALSE, orphaned |-> FALSE]

Init ==
  /\ published = 0
  /\ bundle = [i \in Isolates |-> {}]
  /\ fallback = [i \in Isolates |-> {}]
  /\ promise = [i \in Isolates |-> {}]
  /\ load = [l \in Loads |-> NoLoad]
  /\ request = [r \in Requests |-> {}]
  /\ cleared = [i \in Isolates |-> 0]
  /\ answers = {}

-----------------------------------------------------------------------------
(* ensureBundleLoaded.                                                     *)

Answer(c, needs) == [version |-> c.version, needs |-> needs, excused |-> c.excused]

\* buildFallbackBundle: the cached object, or a new one with the built-in messages.
Fallback(i) == IF fallback[i] = {} THEN 0 ELSE CHOOSE v \in fallback[i] : TRUE

AnswerFromBundle(i) ==
  /\ bundle[i] # {}
  /\ answers' = {Answer(c, cleared[i]) : c \in bundle[i]}
  /\ UNCHANGED <<published, caches, load, request, cleared>>

Wait(r, l, i) ==
  /\ request[r] = {}
  /\ request' = [request EXCEPT ![r] = {[load |-> l, needs |-> cleared[i]]}]
  /\ answers' = {}

Join(r, i) ==
  /\ bundle[i] = {}
  /\ \E l \in promise[i] : Wait(r, l, i)
  /\ UNCHANGED <<published, caches, load, cleared>>

\* Mutant: the load is not entered in bundlePromises.
MutantRegistered(l) == {}

Registered(l) == {l}

StartLoad(r, l, i) ==
  /\ bundle[i] = {} /\ promise[i] = {} /\ load[l].at = "idle"
  /\ Wait(r, l, i)
  /\ fallback' = [fallback EXCEPT ![i] = {Fallback(i)}]
  /\ promise' = [promise EXCEPT ![i] = Registered(l)]
  /\ load' = [load EXCEPT ![l] = [NoLoad EXCEPT !.at = "query", !.isolate = {i}]]
  /\ UNCHANGED <<published, bundle, cleared>>

\* fetchMarketingContentRows: the newest version of each section.
Query(l) ==
  /\ load[l].at = "query"
  /\ load' = [load EXCEPT ![l].at = "rows", ![l].rows = published]
  /\ answers' = {}
  /\ UNCHANGED <<published, caches, request, cleared>>

Waiting(l) == {r \in Requests : \E w \in request[r] : w.load = l}

\* Mutant: nothing deletes the promise of a load that has ended.
MutantPromiseAfter(p) == p

PromiseAfter(p) == {}

\* The requests that waited go on, and the first of them deletes the locale's promise,
\* be it theirs or not.
Settle(l, i, content) ==
  /\ answers' = {Answer(c, w.needs) : c \in content, w \in UNION {request[r] : r \in Waiting(l)}}
  /\ request' = [r \in Requests |-> IF r \in Waiting(l) THEN {} ELSE request[r]]
  /\ promise' = [promise EXCEPT ![i] = PromiseAfter(@)]
  /\ load' = [k \in Loads |->
       IF k = l THEN NoLoad
       ELSE [load[k] EXCEPT !.orphaned = @ \/ k \in promise[i]]]
  /\ UNCHANGED <<published, cleared>>

\* The version shown by the fallback object the load began with: loads write into it,
\* and after a clearing those that began before share it unseen.
Began(l, i) == IF load[l].missed THEN 0..published ELSE {Fallback(i)}

\* applyRowsToBundle writes into that object; cacheBundle.  Without rows it stays as it is.
Complete(l) ==
  /\ load[l].at = "rows"
  /\ \E i \in load[l].isolate : \E v \in IF load[l].rows = 0 THEN Began(l, i) ELSE {load[l].rows} :
       /\ bundle' = [bundle EXCEPT ![i] = {Content(v, load[l].missed)}]
       /\ fallback' = IF load[l].missed THEN fallback ELSE [fallback EXCEPT ![i] = {v}]
       /\ Settle(l, i, {Content(v, FALSE)})

\* tryGetDb has no database: the object becomes the bundle as it is.
CompleteWithoutDb(l) ==
  /\ load[l].at = "query"
  /\ \E i \in load[l].isolate : \E v \in Began(l, i) :
       /\ bundle' = [bundle EXCEPT ![i] = {Content(v, TRUE)}]
       /\ Settle(l, i, {Content(v, TRUE)})
  /\ UNCHANGED fallback

\* The query rejects, and with it every request that waits.
Reject(l) ==
  /\ load[l].at = "query"
  /\ \E i \in load[l].isolate : Settle(l, i, {})
  /\ UNCHANGED <<bundle, fallback>>

\* createFallbackConfig and createFallbackMarketingSection, whatever is cached.
UseFallback(i) ==
  /\ fallback' = [fallback EXCEPT ![i] = {Fallback(i)}]
  /\ bundle' = [bundle EXCEPT ![i] = {Content(Fallback(i), TRUE)}]
  /\ answers' = {Answer(Content(Fallback(i), TRUE), cleared[i])}
  /\ UNCHANGED <<published, promise, load, request, cleared>>

\* loadStaticConfigSync, loadMarketingSectionSync.
LoadSync(i) == IF bundle[i] = {} THEN UseFallback(i) ELSE AnswerFromBundle(i)

-----------------------------------------------------------------------------
(* publishMarketingContent, updateSiteSettings, the revalidation route.    *)

Publish ==
  /\ published < MaxPublished
  /\ published' = published + 1
  /\ answers' = {}
  /\ UNCHANGED <<caches, load, request, cleared>>

\* Mutant: loads in flight can still be joined.
MutantPromisesLeft(p) == p

PromisesLeft(p) == {}

\* revalidateTag and clearStaticConfigCache, in the isolate that runs the handler.  A
\* publish that fails or dies after its INSERT does not get here.
Clear(i) ==
  /\ bundle' = [bundle EXCEPT ![i] = {}]
  /\ fallback' = [fallback EXCEPT ![i] = {}]
  /\ promise' = [promise EXCEPT ![i] = PromisesLeft(@)]
  /\ load' = [l \in Loads |-> IF load[l].isolate = {i}
                              THEN [load[l] EXCEPT !.missed = TRUE]
                              ELSE load[l]]
  /\ cleared' = [cleared EXCEPT ![i] = published]
  /\ answers' = {}
  /\ UNCHANGED <<published, request>>

\* The isolate is replaced by a new one: its loads and requests end with it.
Restart(i) ==
  /\ bundle' = [bundle EXCEPT ![i] = {}]
  /\ fallback' = [fallback EXCEPT ![i] = {}]
  /\ promise' = [promise EXCEPT ![i] = {}]
  /\ load' = [l \in Loads |-> IF load[l].isolate = {i} THEN NoLoad ELSE load[l]]
  /\ request' = [r \in Requests |-> {w \in request[r] : load[w.load].isolate # {i}}]
  /\ answers' = {}
  /\ UNCHANGED <<published, cleared>>

Next ==
  \/ Publish
  \/ \E i \in Isolates : \/ AnswerFromBundle(i) \/ UseFallback(i) \/ LoadSync(i)
                         \/ Clear(i) \/ Restart(i)
  \/ \E r \in Requests, i \in Isolates : Join(r, i) \/ \E l \in Loads : StartLoad(r, l, i)
  \/ \E l \in Loads : Query(l) \/ Complete(l) \/ CompleteWithoutDb(l) \/ Reject(l)

Spec == Init /\ [][Next]_vars

-----------------------------------------------------------------------------
(* Properties.                                                             *)

Contents == [version: 0..published, excused: BOOLEAN]
LoadStates == [at: {"idle", "query", "rows"}, isolate: SUBSET Isolates, rows: 0..published,
               missed: BOOLEAN, orphaned: BOOLEAN]
InFlight(i) == {l \in Loads : load[l].isolate = {i}}

\* Caches hold at most one bundle of content that was published; a promise and a
\* request belong to a load that is in flight.
TypeOK ==
  /\ published \in Nat
  /\ cleared \in [Isolates -> 0..published]
  /\ \A i \in Isolates : /\ bundle[i] \subseteq Contents /\ Cardinality(bundle[i]) <= 1
                         /\ fallback[i] \subseteq 0..published /\ Cardinality(fallback[i]) <= 1
                         /\ promise[i] \subseteq InFlight(i) /\ Cardinality(promise[i]) <= 1
  /\ load \in [Loads -> LoadStates]
  /\ \A l \in Loads : load[l].at # "idle" => Cardinality(load[l].isolate) = 1
  /\ \A r \in Requests : request[r] \subseteq [load: UNION {InFlight(i) : i \in Isolates}, needs: 0..published]

\* Who asks an isolate after it was cleared gets content at least as new as that
\* clearing, except from a bundle that was loaded across it or without the database:
\* nobody is attached to a load that began before (ensureBundleLoaded,
\* clearStaticConfigCache).
FreshAfterClear ==
  \A a \in answers : a.version < a.needs => a.excused

\* The requests of an isolate share one load: a second one starts only when a clearing
\* made the first one obsolete, or when the end of an older load deleted its promise.
LoadsAreShared ==
  \A i \in Isolates :
    Cardinality({l \in InFlight(i) : ~load[l].missed /\ ~load[l].orphaned}) <= 1
=============================================================================
