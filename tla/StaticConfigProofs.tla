--------------------------- MODULE StaticConfigProofs ---------------------------
(***************************************************************************)
(* Proofs about StaticConfig, for any isolates, requests, overlapping      *)
(* loads and publishes.                                                    *)
(***************************************************************************)
EXTENDS StaticConfig, FiniteSetTheorems, TLAPS

AtMostOne(S) == \A x, y \in S : x = y

States == [at: {"idle", "query", "rows"}, isolate: SUBSET Isolates, rows: Nat,
           missed: BOOLEAN, orphaned: BOOLEAN]

Typed ==
  /\ published \in Nat
  /\ cleared \in [Isolates -> 0..published]
  /\ bundle \in [Isolates -> SUBSET Contents]
  /\ fallback \in [Isolates -> SUBSET (0..published)]
  /\ promise \in [Isolates -> SUBSET Loads]
  /\ load \in [Loads -> States]
  /\ request \in [Requests -> SUBSET [load: Loads, needs: 0..published]]
  /\ \A i \in Isolates : AtMostOne(bundle[i]) /\ AtMostOne(fallback[i]) /\ AtMostOne(promise[i])
  /\ \A r \in Requests : AtMostOne(request[r])

\* A load belongs to one isolate; one that no clearing missed has rows at least as new
\* as the last clearing.
LoadsFit ==
  \A l \in Loads :
    /\ load[l].at = "idle" => load[l] = NoLoad
    /\ load[l].at # "idle" => \E i \in Isolates : load[l].isolate = {i}
    /\ load[l].rows <= published
    /\ load[l].at = "rows" /\ ~load[l].missed =>
         \A i \in load[l].isolate : cleared[i] <= load[l].rows

\* The promise of an isolate is its one load that was neither missed nor orphaned.
PromisesFit ==
  \A i \in Isolates, l \in Loads :
    l \in promise[i] <=> load[l].isolate = {i} /\ ~load[l].missed /\ ~load[l].orphaned

\* A cached bundle is as new as the last clearing or excused.
BundlesFit == \A i \in Isolates : \A c \in bundle[i] : c.excused \/ cleared[i] <= c.version

\* A request waits for a load in flight, whose rows are as new as what it needs.
RequestsFit ==
  \A r \in Requests : \A w \in request[r] :
    /\ load[w.load].at # "idle"
    /\ load[w.load].at = "rows" => w.needs <= load[w.load].rows

\* The inductive invariant.
IInv == Typed /\ LoadsFit /\ PromisesFit /\ BundlesFit /\ RequestsFit /\ FreshAfterClear

-----------------------------------------------------------------------------
(* The values of the state.                                                *)

\* The built-in object or the cached one: a version that was published.
LEMMA FallbackType ==
  ASSUME Typed, NEW i \in Isolates
  PROVE  Fallback(i) \in 0..published
<1>1. published \in Nat /\ fallback[i] \in SUBSET (0..published)
  BY DEF Typed
<1> QED
  BY <1>1 DEF Fallback

\* What a load began with was published, too.
LEMMA BeganType ==
  ASSUME Typed, NEW i \in Isolates, NEW l \in Loads
  PROVE  Began(l, i) \subseteq 0..published
BY FallbackType DEF Began

\* The records of loads and contents have their fields.
LEMMA Fields ==
  /\ NoLoad \in States
  /\ NoLoad.at = "idle" /\ NoLoad.isolate = {} /\ NoLoad.rows = 0
  /\ NoLoad.missed = FALSE /\ NoLoad.orphaned = FALSE
  /\ \A v, e : Content(v, e).version = v /\ Content(v, e).excused = e
  /\ \A v \in 0..published, e \in BOOLEAN : Content(v, e) \in Contents
  /\ \A c, needs : Answer(c, needs) = [version |-> c.version, needs |-> needs, excused |-> c.excused]
BY DEF NoLoad, States, Content, Contents, Answer

\* A load that is in flight has the isolate of its promise, an idle one has none.
LEMMA IsolateOfLoad ==
  ASSUME IInv, NEW l \in Loads
  PROVE  /\ load[l].isolate = {} <=> load[l].at = "idle"
         /\ \A i \in load[l].isolate : i \in Isolates /\ load[l].isolate = {i} /\ load[l].at # "idle"
<1>1. CASE load[l].at = "idle"
  BY <1>1, Fields DEF IInv, LoadsFit
<1>2. CASE load[l].at # "idle"
  BY <1>2 DEF IInv, LoadsFit
<1> QED
  BY <1>1, <1>2

-----------------------------------------------------------------------------
(* The steps.                                                              *)

\* An isolate starts with nothing.
LEMMA InitFits == Init => IInv
<1> SUFFICES ASSUME Init
             PROVE  IInv
  OBVIOUS
<1>1. Typed
  BY Fields DEF Init, Typed, AtMostOne, Contents
<1>2. LoadsFit /\ PromisesFit /\ BundlesFit /\ RequestsFit
  <2>1. /\ \A l \in Loads : load[l] = NoLoad
        /\ \A i \in Isolates : promise[i] = {} /\ bundle[i] = {}
        /\ \A r \in Requests : request[r] = {}
        /\ published = 0
    BY DEF Init
  <2>2. LoadsFit
    BY <2>1, Fields DEF LoadsFit
  <2>3. PromisesFit
    BY <2>1, Fields DEF PromisesFit
  <2> QED
    BY <2>1, <2>2, <2>3 DEF BundlesFit, RequestsFit
<1> QED
  BY <1>1, <1>2 DEF Init, IInv, FreshAfterClear

\* An answer from the bundle.
LEMMA AnswerFits ==
  ASSUME IInv, NEW i \in Isolates, AnswerFromBundle(i)
  PROVE  IInv'
<1>1. UNCHANGED <<published, bundle, fallback, promise, load, request, cleared>>
  BY DEF AnswerFromBundle, caches
<1>2. ASSUME NEW a \in answers', a.version < a.needs
      PROVE  a.excused
  <2>1. PICK c \in bundle[i] : a = Answer(c, cleared[i])
    BY DEF AnswerFromBundle
  <2>2. c.version \in Int /\ cleared[i] \in Int
    BY DEF IInv, Typed, Contents
  <2>3. a.version = c.version /\ a.needs = cleared[i] /\ a.excused = c.excused
    BY <2>1 DEF Answer
  <2> QED
    BY <1>2, <2>2, <2>3 DEF IInv, BundlesFit
<1>3. FreshAfterClear'
  BY <1>2 DEF FreshAfterClear
<1>4. Typed' /\ LoadsFit' /\ PromisesFit' /\ BundlesFit' /\ RequestsFit'
  BY <1>1 DEF IInv, Typed, LoadsFit, PromisesFit, BundlesFit, RequestsFit, Contents
<1> QED
  BY <1>3, <1>4 DEF IInv

\* An answer from the fallback.
LEMMA UseFallbackFits ==
  ASSUME IInv, NEW i \in Isolates, UseFallback(i)
  PROVE  IInv'
<1> DEFINE v == Fallback(i)
<1>1. UNCHANGED <<published, promise, load, request, cleared>>
  BY DEF UseFallback
<1>2. v \in 0..published
  BY FallbackType DEF IInv
<1>3. /\ fallback' = [fallback EXCEPT ![i] = {v}]
      /\ bundle' = [bundle EXCEPT ![i] = {Content(v, TRUE)}]
      /\ answers' = {Answer(Content(v, TRUE), cleared[i])}
  BY DEF UseFallback
<1> HIDE DEF v
<1>4. FreshAfterClear'
  <2>1. Answer(Content(v, TRUE), cleared[i]).excused
    BY Fields
  <2> QED
    BY <1>3, <2>1 DEF FreshAfterClear
<1>5. Content(v, TRUE) \in Contents /\ Content(v, TRUE).excused
  BY <1>2, Fields
<1>6. /\ fallback' \in [Isolates -> SUBSET (0..published)]
      /\ bundle' \in [Isolates -> SUBSET Contents]
      /\ \A j \in Isolates : AtMostOne(bundle'[j]) /\ AtMostOne(fallback'[j])
  <2>1. /\ fallback \in [Isolates -> SUBSET (0..published)]
        /\ bundle \in [Isolates -> SUBSET Contents]
        /\ \A j \in Isolates : AtMostOne(bundle[j]) /\ AtMostOne(fallback[j])
    BY DEF IInv, Typed
  <2>2. {v} \in SUBSET (0..published) /\ {Content(v, TRUE)} \in SUBSET Contents
    BY <1>2, <1>5
  <2>3. \A j \in Isolates : /\ bundle'[j] = IF j = i THEN {Content(v, TRUE)} ELSE bundle[j]
                            /\ fallback'[j] = IF j = i THEN {v} ELSE fallback[j]
    BY <1>3, <2>1
  <2>4. \A x : AtMostOne({x})
    BY DEF AtMostOne
  <2> QED
    BY <1>3, <2>1, <2>2, <2>3, <2>4
<1>7. Typed'
  BY <1>1, <1>6 DEF IInv, Typed, Contents
<1>8. BundlesFit'
  BY <1>1, <1>3, <1>5 DEF IInv, Typed, BundlesFit
<1>9. LoadsFit' /\ PromisesFit' /\ RequestsFit'
  BY <1>1 DEF IInv, LoadsFit, PromisesFit, RequestsFit
<1> QED
  BY <1>4, <1>7, <1>8, <1>9 DEF IInv

\* A publish: what was not newer than the newest version still is not.
LEMMA PublishFits == IInv /\ Publish => IInv'
<1> SUFFICES ASSUME IInv, Publish
             PROVE  IInv'
  OBVIOUS
<1>1. /\ UNCHANGED <<bundle, fallback, promise, load, request, cleared>>
      /\ published' = published + 1 /\ answers' = {}
  BY DEF Publish, caches
<1>2. published' \in Nat /\ 0..published \subseteq 0..(published') /\ published <= published'
  BY <1>1 DEF IInv, Typed
<1>3. Contents \subseteq Contents'
  BY <1>2 DEF Contents
<1>4. Typed'
  <2>1. cleared' \in [Isolates -> 0..(published')]
    BY <1>1, <1>2 DEF IInv, Typed
  <2>2. bundle' \in [Isolates -> SUBSET (Contents')]
    BY <1>1, <1>3 DEF IInv, Typed
  <2>3. fallback' \in [Isolates -> SUBSET (0..(published'))]
    BY <1>1, <1>2 DEF IInv, Typed
  <2>4. request' \in [Requests -> SUBSET [load: Loads, needs: 0..(published')]]
    <3>1. [load: Loads, needs: 0..published] \subseteq [load: Loads, needs: 0..(published')]
      BY <1>2
    <3> QED
      BY <1>1, <3>1 DEF IInv, Typed
  <2> QED
    BY <1>1, <1>2, <2>1, <2>2, <2>3, <2>4 DEF IInv, Typed
<1>5. LoadsFit'
  <2>1. \A l \in Loads : load[l].rows \in Nat
    BY DEF IInv, Typed, States
  <2> QED
    BY <1>1, <1>2, <2>1 DEF IInv, Typed, LoadsFit
<1>6. PromisesFit' /\ BundlesFit' /\ RequestsFit' /\ FreshAfterClear'
  BY <1>1 DEF IInv, PromisesFit, BundlesFit, RequestsFit, FreshAfterClear
<1> QED
  BY <1>4, <1>5, <1>6 DEF IInv

\* A request is attached to a load: what it needs, an answer of that load provides.
LEMMA WaitFits ==
  ASSUME IInv, NEW r \in Requests, NEW l \in Loads, NEW i \in Isolates, Wait(r, l, i)
  PROVE  /\ request' \in [Requests -> SUBSET [load: Loads, needs: 0..published]]
         /\ \A q \in Requests : \A w \in request'[q] :
              w \in request[q] \/ w = [load |-> l, needs |-> cleared[i]]
         /\ \A q \in Requests : AtMostOne(request'[q])
         /\ FreshAfterClear'
<1>1. /\ request \in [Requests -> SUBSET [load: Loads, needs: 0..published]]
      /\ cleared[i] \in 0..published
  BY DEF IInv, Typed
<1>2. [load |-> l, needs |-> cleared[i]] \in [load: Loads, needs: 0..published]
  BY <1>1
<1>3. request' = [request EXCEPT ![r] = {[load |-> l, needs |-> cleared[i]]}] /\ answers' = {}
  BY DEF Wait
<1>4. \A q \in Requests : AtMostOne(request'[q])
  BY <1>1, <1>3 DEF IInv, Typed, AtMostOne
<1> QED
  BY <1>1, <1>2, <1>3, <1>4 DEF FreshAfterClear

\* A request joins the load of the promise.
LEMMA JoinFits ==
  ASSUME IInv, NEW r \in Requests, NEW i \in Isolates, Join(r, i)
  PROVE  IInv'
<1>1. PICK l \in promise[i] : Wait(r, l, i)
  BY DEF Join
<1>2. UNCHANGED <<published, bundle, fallback, promise, load, cleared>>
  BY DEF Join, caches
<1>3. l \in Loads
  BY <1>1 DEF IInv, Typed
<1>4. load[l].isolate = {i} /\ ~load[l].missed /\ ~load[l].orphaned
  BY <1>1, <1>3 DEF IInv, PromisesFit
<1>5. load[l].at # "idle" /\ (load[l].at = "rows" => cleared[i] <= load[l].rows)
  BY <1>3, <1>4, IsolateOfLoad DEF IInv, LoadsFit
<1>6. /\ request' \in [Requests -> SUBSET [load: Loads, needs: 0..published]]
      /\ \A q \in Requests : \A w \in request'[q] :
           w \in request[q] \/ w = [load |-> l, needs |-> cleared[i]]
      /\ \A q \in Requests : AtMostOne(request'[q])
      /\ FreshAfterClear'
  BY <1>1, <1>3, WaitFits
<1>7. RequestsFit'
  BY <1>2, <1>5, <1>6 DEF IInv, RequestsFit
<1>8. Typed'
  BY <1>2, <1>6 DEF IInv, Typed, Contents
<1>9. LoadsFit' /\ PromisesFit' /\ BundlesFit'
  BY <1>2 DEF IInv, LoadsFit, PromisesFit, BundlesFit
<1> QED
  BY <1>6, <1>7, <1>8, <1>9 DEF IInv

\* A load begins.
LEMMA StartLoadFits ==
  ASSUME IInv, NEW r \in Requests, NEW l \in Loads, NEW i \in Isolates, StartLoad(r, l, i)
  PROVE  IInv'
<1> DEFINE new == [NoLoad EXCEPT !.at = "query", !.isolate = {i}]
<1>1. /\ load' = [load EXCEPT ![l] = new]
      /\ promise' = [promise EXCEPT ![i] = {l}]
      /\ fallback' = [fallback EXCEPT ![i] = {Fallback(i)}]
      /\ promise[i] = {} /\ load[l].at = "idle"
      /\ Wait(r, l, i)
      /\ UNCHANGED <<published, bundle, cleared>>
  BY DEF StartLoad, Registered
<1>2. /\ new \in States /\ new.at = "query" /\ new.isolate = {i} /\ new.rows = 0
      /\ ~new.missed /\ ~new.orphaned
  BY DEF NoLoad, States
<1> HIDE DEF new
<1>3. /\ load \in [Loads -> States] /\ promise \in [Isolates -> SUBSET Loads]
      /\ fallback \in [Isolates -> SUBSET (0..published)] /\ published \in Nat
      /\ \A j \in Isolates : AtMostOne(fallback[j]) /\ AtMostOne(promise[j])
  BY DEF IInv, Typed
<1>4. /\ \A k \in Loads : load'[k] = IF k = l THEN new ELSE load[k]
      /\ \A j \in Isolates : promise'[j] = IF j = i THEN {l} ELSE promise[j]
      /\ \A j \in Isolates : fallback'[j] = IF j = i THEN {Fallback(i)} ELSE fallback[j]
  BY <1>1, <1>3
<1>5. Fallback(i) \in 0..published
  BY FallbackType DEF IInv
<1>6. /\ load' \in [Loads -> States] /\ promise' \in [Isolates -> SUBSET Loads]
      /\ fallback' \in [Isolates -> SUBSET (0..published)]
      /\ \A j \in Isolates : AtMostOne(fallback'[j]) /\ AtMostOne(promise'[j])
  <2>1. \A x : AtMostOne({x})
    BY DEF AtMostOne
  <2> QED
    BY <1>1, <1>2, <1>3, <1>4, <1>5, <2>1
<1>7. /\ request' \in [Requests -> SUBSET [load: Loads, needs: 0..published]]
      /\ \A q \in Requests : \A w \in request'[q] :
           w \in request[q] \/ w = [load |-> l, needs |-> cleared[i]]
      /\ \A q \in Requests : AtMostOne(request'[q])
      /\ FreshAfterClear'
  BY <1>1, WaitFits
<1>8. Typed'
  BY <1>1, <1>6, <1>7 DEF IInv, Typed, Contents
<1>9. LoadsFit'
  BY <1>1, <1>2, <1>3, <1>4 DEF IInv, LoadsFit
<1>10. PromisesFit'
  <2>1. load[l].isolate = {}
    BY <1>1, IsolateOfLoad
  <2>2. \A j \in Isolates : l \notin promise[j]
    BY <2>1 DEF IInv, PromisesFit
  <2> SUFFICES ASSUME NEW j \in Isolates, NEW k \in Loads
               PROVE  k \in promise'[j] <=>
                      load'[k].isolate = {j} /\ ~load'[k].missed /\ ~load'[k].orphaned
    BY DEF PromisesFit
  <2>3. CASE k = l
    BY <1>2, <1>4, <2>2, <2>3
  <2>4. CASE k # l /\ j # i
    BY <1>4, <2>4 DEF IInv, PromisesFit
  <2>5. CASE k # l /\ j = i
    <3>1. k \notin promise[i] /\ k \notin promise'[j] /\ load'[k] = load[k]
      BY <1>1, <1>4, <2>5
    <3> QED
      BY <2>5, <3>1 DEF IInv, PromisesFit
  <2> QED
    BY <2>3, <2>4, <2>5
<1>11. RequestsFit'
  <2> SUFFICES ASSUME NEW q \in Requests, NEW w \in request'[q]
               PROVE  /\ load'[w.load].at # "idle"
                      /\ load'[w.load].at = "rows" => w.needs <= load'[w.load].rows
    BY DEF RequestsFit
  <2>1. CASE w \in request[q]
    <3>1. w.load \in Loads /\ load[w.load].at # "idle"
      BY <2>1 DEF IInv, Typed, RequestsFit
    <3>2. load'[w.load] = load[w.load]
      BY <1>1, <1>4, <3>1
    <3> QED
      BY <2>1, <3>2 DEF IInv, RequestsFit
  <2>2. CASE w = [load |-> l, needs |-> cleared[i]]
    BY <1>2, <1>4, <2>2
  <2> QED
    BY <1>7, <2>1, <2>2
<1>12. BundlesFit'
  BY <1>1 DEF IInv, BundlesFit
<1> QED
  BY <1>7, <1>8, <1>9, <1>10, <1>11, <1>12 DEF IInv

\* A load reads the newest version.
LEMMA QueryFits ==
  ASSUME IInv, NEW l \in Loads, Query(l)
  PROVE  IInv'
<1>1. /\ load[l].at = "query" /\ answers' = {}
      /\ load' = [load EXCEPT ![l].at = "rows", ![l].rows = published]
      /\ UNCHANGED <<published, bundle, fallback, promise, request, cleared>>
  BY DEF Query, caches
<1>2. load \in [Loads -> States] /\ published \in Nat
  BY DEF IInv, Typed
<1>3. /\ \A k \in Loads : k # l => load'[k] = load[k]
      /\ load'[l].at = "rows" /\ load'[l].rows = published
      /\ load'[l].isolate = load[l].isolate /\ load'[l].missed = load[l].missed
      /\ load'[l].orphaned = load[l].orphaned
      /\ load' \in [Loads -> States]
  <2> DEFINE new == [load[l] EXCEPT !.at = "rows", !.rows = published]
  <2>1. load' = [load EXCEPT ![l] = new]
    BY <1>1
  <2>2. /\ new.at = "rows" /\ new.rows = published /\ new.isolate = load[l].isolate
        /\ new.missed = load[l].missed /\ new.orphaned = load[l].orphaned /\ new \in States
    BY <1>2 DEF States
  <2> HIDE DEF new
  <2> QED
    BY <1>2, <2>1, <2>2
<1>4. Typed'
  BY <1>1, <1>3 DEF IInv, Typed, Contents
<1>5. LoadsFit'
  <2>1. \A i \in load[l].isolate : i \in Isolates /\ cleared[i] <= published
    BY IsolateOfLoad DEF IInv, Typed
  <2>2. load[l].at # "idle" => \E i \in Isolates : load[l].isolate = {i}
    BY DEF IInv, LoadsFit
  <2> QED
    BY <1>1, <1>2, <1>3, <2>1, <2>2 DEF IInv, LoadsFit
<1>6. PromisesFit'
  BY <1>1, <1>3 DEF IInv, PromisesFit
<1>7. RequestsFit'
  <2>1. \A r \in Requests : \A w \in request[r] : w.load \in Loads /\ w.needs <= published
    BY DEF IInv, Typed
  <2> QED
    BY <1>1, <1>3, <2>1 DEF IInv, RequestsFit
<1>8. BundlesFit' /\ FreshAfterClear'
  BY <1>1 DEF IInv, BundlesFit, FreshAfterClear
<1> QED
  BY <1>4, <1>5, <1>6, <1>7, <1>8 DEF IInv

\* A load ends: its requests are answered or rejected, and the promise of the isolate
\* is gone, whosever it was.
LEMMA SettleFits ==
  ASSUME IInv, NEW l \in Loads, NEW i \in load[l].isolate, NEW content, Settle(l, i, content),
         \A c \in content : c.excused \/ \A r \in Requests : \A w \in request[r] :
                              w.load = l => c.version \in Nat /\ w.needs <= c.version,
         bundle' \in [Isolates -> SUBSET Contents], BundlesFit',
         fallback' \in [Isolates -> SUBSET (0..published)],
         \A j \in Isolates : AtMostOne(bundle'[j]) /\ AtMostOne(fallback'[j])
  PROVE  IInv'
<1>1. i \in Isolates /\ load[l].isolate = {i} /\ load[l].at # "idle"
  BY IsolateOfLoad
<1>2. /\ load \in [Loads -> States] /\ promise \in [Isolates -> SUBSET Loads]
      /\ request \in [Requests -> SUBSET [load: Loads, needs: 0..published]]
      /\ published \in Nat
      /\ \A r \in Requests : AtMostOne(request[r])
      /\ \A j \in Isolates : AtMostOne(promise[j])
  BY DEF IInv, Typed
<1>3. published' = published /\ cleared' = cleared
  BY DEF Settle
<1>4. \A j \in Isolates : promise'[j] = IF j = i THEN {} ELSE promise[j]
  BY <1>2 DEF Settle, PromiseAfter
<1>5. \A r \in Requests : request'[r] = IF r \in Waiting(l) THEN {} ELSE request[r]
  BY DEF Settle
<1>6. \A k \in Loads : /\ k = l => load'[k] = NoLoad
                       /\ k # l => /\ load'[k].at = load[k].at /\ load'[k].isolate = load[k].isolate
                                   /\ load'[k].rows = load[k].rows /\ load'[k].missed = load[k].missed
                                   /\ load'[k].orphaned = (load[k].orphaned \/ k \in promise[i])
                                   /\ load'[k] \in States
  <2> SUFFICES ASSUME NEW k \in Loads
               PROVE  /\ k = l => load'[k] = NoLoad
                      /\ k # l => /\ load'[k].at = load[k].at /\ load'[k].isolate = load[k].isolate
                                  /\ load'[k].rows = load[k].rows /\ load'[k].missed = load[k].missed
                                  /\ load'[k].orphaned = (load[k].orphaned \/ k \in promise[i])
                                  /\ load'[k] \in States
    OBVIOUS
  <2> DEFINE o == load[k].orphaned \/ k \in promise[i]
             new == [load[k] EXCEPT !.orphaned = o]
  <2>1. k # l => load'[k] = new
    BY DEF Settle
  <2>2. k = l => load'[k] = NoLoad
    BY DEF Settle
  <2>3. load[k] \in States
    BY <1>2
  <2>4. o \in BOOLEAN
    BY <2>3 DEF States
  <2> HIDE DEF o
  <2>5. /\ new.at = load[k].at /\ new.isolate = load[k].isolate /\ new.rows = load[k].rows
        /\ new.missed = load[k].missed /\ new.orphaned = o /\ new \in States
    BY <2>3, <2>4 DEF States
  <2> HIDE DEF new
  <2>6. k # l => load'[k].orphaned = o
    BY <2>1, <2>5
  <2> QED
    BY <2>1, <2>2, <2>5, <2>6 DEF o
<1>7. load' \in [Loads -> States]
  <2>1. load' = [k \in Loads |-> load'[k]]
    BY DEF Settle
  <2>2. \A k \in Loads : load'[k] \in States
    BY <1>6, Fields
  <2> QED
    BY <2>1, <2>2
<1>8. promise' \in [Isolates -> SUBSET Loads] /\ \A j \in Isolates : AtMostOne(promise'[j])
  <2>1. promise' = [promise EXCEPT ![i] = {}]
    BY DEF Settle, PromiseAfter
  <2>2. promise' \in [Isolates -> SUBSET Loads]
    BY <1>2, <2>1
  <2>3. AtMostOne({})
    BY DEF AtMostOne
  <2> QED
    BY <1>2, <1>4, <2>2, <2>3
<1>9. /\ request' \in [Requests -> SUBSET [load: Loads, needs: 0..published]]
      /\ \A r \in Requests : AtMostOne(request'[r])
  BY <1>2 DEF Settle, AtMostOne
<1>10. Typed'
  BY <1>2, <1>3, <1>7, <1>8, <1>9 DEF IInv, Typed, Contents
<1>11. LoadsFit'
  <2> SUFFICES ASSUME NEW k \in Loads
               PROVE  /\ load'[k].at = "idle" => load'[k] = NoLoad
                      /\ load'[k].at # "idle" => \E j \in Isolates : load'[k].isolate = {j}
                      /\ load'[k].rows <= published
                      /\ load'[k].at = "rows" /\ ~load'[k].missed =>
                           \A j \in load'[k].isolate : cleared[j] <= load'[k].rows
    BY <1>3 DEF LoadsFit
  <2>1. CASE k = l
    BY <1>2, <1>6, <2>1, Fields
  <2>2. CASE k # l /\ load[k].at = "idle"
    <3>1. load[k] = NoLoad /\ k \notin promise[i]
      BY <1>1, <2>2, Fields DEF IInv, LoadsFit, PromisesFit
    <3>2. load'[k] = NoLoad
      <4>1. load'[k] \in States /\ NoLoad \in States
        BY <1>6, <2>2, Fields
      <4>2. /\ load'[k].at = NoLoad.at /\ load'[k].isolate = NoLoad.isolate
            /\ load'[k].rows = NoLoad.rows /\ load'[k].missed = NoLoad.missed
            /\ load'[k].orphaned = NoLoad.orphaned
        BY <1>6, <2>2, <3>1, Fields
      <4> QED
        BY <4>1, <4>2 DEF States
    <3> QED
      BY <1>2, <3>2, Fields
  <2>3. CASE k # l /\ load[k].at # "idle"
    BY <1>6, <2>3 DEF IInv, LoadsFit
  <2> QED
    BY <2>1, <2>2, <2>3
<1>12. PromisesFit'
  <2> SUFFICES ASSUME NEW j \in Isolates, NEW k \in Loads
               PROVE  k \in promise'[j] <=>
                      load'[k].isolate = {j} /\ ~load'[k].missed /\ ~load'[k].orphaned
    BY DEF PromisesFit
  <2>0. k \in promise[j] <=> load[k].isolate = {j} /\ ~load[k].missed /\ ~load[k].orphaned
    BY DEF IInv, PromisesFit
  <2>1. CASE k = l
    <3>1. load'[k].isolate = {}
      BY <1>6, <2>1, Fields
    <3>2. j # i => k \notin promise[j]
      BY <1>1, <2>0, <2>1
    <3> QED
      BY <1>4, <3>1, <3>2
  <2>2. CASE k # l /\ j = i
    <3>1. k \notin promise'[j]
      BY <1>4, <2>2
    <3>2. /\ load'[k].isolate = load[k].isolate /\ load'[k].missed = load[k].missed
          /\ load'[k].orphaned = (load[k].orphaned \/ k \in promise[i])
      BY <1>6, <2>2
    <3> QED
      BY <2>0, <2>2, <3>1, <3>2
  <2>3. CASE k # l /\ j # i
    <3>1. promise'[j] = promise[j]
      BY <1>4, <2>3
    <3>2. /\ load'[k].isolate = load[k].isolate /\ load'[k].missed = load[k].missed
          /\ load'[k].orphaned = (load[k].orphaned \/ k \in promise[i])
      BY <1>6, <2>3
    <3>3. load[k].isolate = {j} => k \notin promise[i]
      BY <1>1, <2>3 DEF IInv, PromisesFit
    <3> QED
      BY <2>0, <3>1, <3>2, <3>3
  <2> QED
    BY <2>1, <2>2, <2>3
<1>13. RequestsFit'
  <2> SUFFICES ASSUME NEW r \in Requests, NEW w \in request'[r]
               PROVE  /\ load'[w.load].at # "idle"
                      /\ load'[w.load].at = "rows" => w.needs <= load'[w.load].rows
    BY DEF RequestsFit
  <2>1. w \in request[r] /\ r \notin Waiting(l) /\ w.load \in Loads
    BY <1>2, <1>5
  <2>2. w.load # l
    BY <2>1 DEF Waiting
  <2>3. /\ load[w.load].at # "idle"
        /\ load[w.load].at = "rows" => w.needs <= load[w.load].rows
    BY <2>1 DEF IInv, RequestsFit
  <2> QED
    BY <1>6, <2>1, <2>2, <2>3
<1>14. FreshAfterClear'
  <2> SUFFICES ASSUME NEW a \in answers', a.version < a.needs
               PROVE  a.excused
    BY DEF FreshAfterClear
  <2>1. PICK c \in content, w \in UNION {request[r] : r \in Waiting(l)} : a = Answer(c, w.needs)
    BY DEF Settle
  <2>2. PICK r \in Waiting(l) : w \in request[r]
    BY <2>1
  <2>3. r \in Requests /\ w.load = l /\ w.needs \in 0..published
    BY <1>2, <2>2 DEF Waiting, AtMostOne
  <2>4. a.version = c.version /\ a.needs = w.needs /\ a.excused = c.excused
    BY <2>1 DEF Answer
  <2>5. c.excused \/ (c.version \in Nat /\ w.needs <= c.version)
    BY <2>2, <2>3
  <2>6. ~(c.version \in Nat /\ w.needs <= c.version)
    BY <2>3, <2>4
  <2> QED
    BY <2>4, <2>5, <2>6
<1> QED
  BY <1>10, <1>11, <1>12, <1>13, <1>14 DEF IInv

\* One isolate's bundle is replaced by content that is fresh or excused.
LEMMA BundleReplaced ==
  ASSUME IInv, NEW i \in Isolates, NEW v \in 0..published, NEW e \in BOOLEAN,
         bundle' = [bundle EXCEPT ![i] = {Content(v, e)}], cleared' = cleared,
         e \/ cleared[i] <= v
  PROVE  /\ bundle' \in [Isolates -> SUBSET Contents]
         /\ BundlesFit'
         /\ \A j \in Isolates : AtMostOne(bundle'[j])
<1>1. /\ bundle \in [Isolates -> SUBSET Contents]
      /\ \A j \in Isolates : AtMostOne(bundle[j])
  BY DEF IInv, Typed
<1>2. Content(v, e) \in Contents /\ Content(v, e).version = v /\ Content(v, e).excused = e
  BY Fields
<1>3. \A j \in Isolates : bundle'[j] = IF j = i THEN {Content(v, e)} ELSE bundle[j]
  BY <1>1
<1>4. \A j \in Isolates : AtMostOne(bundle'[j])
  BY <1>1, <1>3 DEF AtMostOne
<1>5. BundlesFit'
  BY <1>2, <1>3 DEF IInv, BundlesFit
<1> QED
  BY <1>1, <1>2, <1>4, <1>5

\* A load completes: its content is as new as its rows.
LEMMA CompleteFits ==
  ASSUME IInv, NEW l \in Loads, Complete(l)
  PROVE  IInv'
<1>1. load[l].at = "rows"
  BY DEF Complete
<1>0. PICK i \in load[l].isolate :
        \E v \in IF load[l].rows = 0 THEN Began(l, i) ELSE {load[l].rows} :
          /\ bundle' = [bundle EXCEPT ![i] = {Content(v, load[l].missed)}]
          /\ fallback' = IF load[l].missed THEN fallback ELSE [fallback EXCEPT ![i] = {v}]
          /\ Settle(l, i, {Content(v, FALSE)})
  BY DEF Complete
<1>2. PICK v \in IF load[l].rows = 0 THEN Began(l, i) ELSE {load[l].rows} :
        /\ bundle' = [bundle EXCEPT ![i] = {Content(v, load[l].missed)}]
        /\ fallback' = IF load[l].missed THEN fallback ELSE [fallback EXCEPT ![i] = {v}]
        /\ Settle(l, i, {Content(v, FALSE)})
  BY <1>0
<1>3. i \in Isolates /\ cleared' = cleared
  BY <1>2, IsolateOfLoad DEF Settle
<1>4. /\ load[l].rows \in Nat /\ load[l].missed \in BOOLEAN /\ load[l].rows <= published
      /\ published \in Nat /\ cleared[i] \in 0..published
      /\ fallback \in [Isolates -> SUBSET (0..published)]
      /\ \A j \in Isolates : AtMostOne(fallback[j])
  BY <1>3 DEF IInv, Typed, States, LoadsFit
<1>5. v \in 0..published /\ load[l].rows <= v
  <2>1. CASE load[l].rows = 0
    <3>1. v \in 0..published
      BY <1>2, <1>3, <2>1, BeganType DEF IInv
    <3> QED
      BY <2>1, <3>1
  <2>2. CASE load[l].rows # 0
    BY <1>2, <1>4, <2>2
  <2> QED
    BY <2>1, <2>2
<1>6. load[l].missed \/ cleared[i] <= v
  <2>1. load[l].missed \/ cleared[i] <= load[l].rows
    BY <1>1, <1>2 DEF IInv, LoadsFit
  <2> QED
    BY <1>4, <1>5, <2>1
<1>7. /\ bundle' \in [Isolates -> SUBSET Contents]
      /\ BundlesFit'
      /\ \A j \in Isolates : AtMostOne(bundle'[j])
  BY <1>2, <1>3, <1>4, <1>5, <1>6, BundleReplaced
<1>8. /\ fallback' \in [Isolates -> SUBSET (0..published)]
      /\ \A j \in Isolates : AtMostOne(fallback'[j])
  <2>1. CASE load[l].missed
    BY <1>2, <1>4, <2>1
  <2>2. CASE ~load[l].missed
    <3>1. fallback' = [fallback EXCEPT ![i] = {v}]
      BY <1>2, <2>2
    <3>2. \A j \in Isolates : fallback'[j] = IF j = i THEN {v} ELSE fallback[j]
      BY <1>4, <3>1
    <3>3. AtMostOne({v}) /\ {v} \in SUBSET (0..published)
      BY <1>5 DEF AtMostOne
    <3> QED
      BY <1>4, <3>1, <3>2, <3>3
  <2> QED
    BY <2>1, <2>2
<1>9. \A c \in {Content(v, FALSE)} : c.excused \/ \A r \in Requests : \A w \in request[r] :
        w.load = l => c.version \in Nat /\ w.needs <= c.version
  <2> SUFFICES ASSUME NEW r \in Requests, NEW w \in request[r], w.load = l
               PROVE  Content(v, FALSE).version \in Nat /\ w.needs <= Content(v, FALSE).version
    OBVIOUS
  <2>1. w.needs <= load[l].rows /\ w.needs \in 0..published
    BY <1>1 DEF IInv, Typed, RequestsFit
  <2>2. Content(v, FALSE).version = v
    BY Fields
  <2>3. v \in Nat /\ w.needs <= v
    BY <1>4, <1>5, <2>1
  <2> QED
    BY <2>2, <2>3
<1>10. Settle(l, i, {Content(v, FALSE)})
  BY <1>2
<1>11. \A j \in Isolates : AtMostOne(bundle'[j]) /\ AtMostOne(fallback'[j])
  BY <1>7, <1>8
<1> DEFINE content == {Content(v, FALSE)}
<1>12. /\ Settle(l, i, content)
       /\ \A c \in content : c.excused \/ \A r \in Requests : \A w \in request[r] :
            w.load = l => c.version \in Nat /\ w.needs <= c.version
  BY <1>9, <1>10
<1> HIDE DEF content
<1> QED
  BY <1>7, <1>8, <1>11, <1>12, SettleFits

\* A load ends without the database.
LEMMA WithoutDbFits ==
  ASSUME IInv, NEW l \in Loads, CompleteWithoutDb(l)
  PROVE  IInv'
<1>0. PICK i \in load[l].isolate :
        \E v \in Began(l, i) : /\ bundle' = [bundle EXCEPT ![i] = {Content(v, TRUE)}]
                               /\ Settle(l, i, {Content(v, TRUE)})
  BY DEF CompleteWithoutDb
<1>1. PICK v \in Began(l, i) : /\ bundle' = [bundle EXCEPT ![i] = {Content(v, TRUE)}]
                               /\ Settle(l, i, {Content(v, TRUE)})
  BY <1>0
<1>2. i \in Isolates /\ cleared' = cleared /\ fallback' = fallback
  BY <1>1, IsolateOfLoad DEF CompleteWithoutDb, Settle
<1>3. v \in 0..published
  BY <1>1, <1>2, BeganType DEF IInv
<1>4. /\ bundle' \in [Isolates -> SUBSET Contents]
      /\ BundlesFit'
      /\ \A j \in Isolates : AtMostOne(bundle'[j])
  BY <1>1, <1>2, <1>3, BundleReplaced
<1>5. /\ fallback' \in [Isolates -> SUBSET (0..published)]
      /\ \A j \in Isolates : AtMostOne(bundle'[j]) /\ AtMostOne(fallback'[j])
  BY <1>2, <1>4 DEF IInv, Typed
<1>6. \A c \in {Content(v, TRUE)} : c.excused
  BY Fields
<1> DEFINE content == {Content(v, TRUE)}
<1>7. Settle(l, i, content) /\ \A c \in content : c.excused
  BY <1>1, <1>6
<1> HIDE DEF content
<1> QED
  BY <1>4, <1>5, <1>7, SettleFits

\* A load is rejected.
LEMMA RejectFits ==
  ASSUME IInv, NEW l \in Loads, Reject(l)
  PROVE  IInv'
<1>1. PICK i \in load[l].isolate : Settle(l, i, {})
  BY DEF Reject
<1>2. bundle' = bundle /\ fallback' = fallback /\ cleared' = cleared
  BY <1>1 DEF Reject, Settle
<1>3. /\ bundle' \in [Isolates -> SUBSET Contents] /\ BundlesFit'
      /\ fallback' \in [Isolates -> SUBSET (0..published)]
      /\ \A j \in Isolates : AtMostOne(bundle'[j]) /\ AtMostOne(fallback'[j])
  BY <1>2 DEF IInv, Typed, BundlesFit
<1> QED
  BY <1>1, <1>3, SettleFits

\* The caches of an isolate are emptied; what its loads become is up to the caller.
LEMMA Emptied ==
  ASSUME Typed, NEW i \in Isolates,
         bundle' = [bundle EXCEPT ![i] = {}], fallback' = [fallback EXCEPT ![i] = {}],
         promise' = [promise EXCEPT ![i] = {}]
  PROVE  /\ bundle' \in [Isolates -> SUBSET Contents]
         /\ fallback' \in [Isolates -> SUBSET (0..published)]
         /\ promise' \in [Isolates -> SUBSET Loads]
         /\ \A j \in Isolates : AtMostOne(bundle'[j]) /\ AtMostOne(fallback'[j]) /\ AtMostOne(promise'[j])
         /\ \A j \in Isolates : /\ bundle'[j] = IF j = i THEN {} ELSE bundle[j]
                                /\ promise'[j] = IF j = i THEN {} ELSE promise[j]
<1>1. /\ bundle \in [Isolates -> SUBSET Contents]
      /\ fallback \in [Isolates -> SUBSET (0..published)]
      /\ promise \in [Isolates -> SUBSET Loads]
      /\ \A j \in Isolates : AtMostOne(bundle[j]) /\ AtMostOne(fallback[j]) /\ AtMostOne(promise[j])
  BY DEF Typed
<1>2. \A j \in Isolates : bundle'[j] = IF j = i THEN {} ELSE bundle[j]
  BY <1>1
<1>3. \A j \in Isolates : fallback'[j] = IF j = i THEN {} ELSE fallback[j]
  BY <1>1
<1>4. \A j \in Isolates : promise'[j] = IF j = i THEN {} ELSE promise[j]
  BY <1>1
<1>5. AtMostOne({})
  BY DEF AtMostOne
<1>6. \A j \in Isolates : AtMostOne(bundle'[j]) /\ AtMostOne(fallback'[j]) /\ AtMostOne(promise'[j])
  BY <1>1, <1>2, <1>3, <1>4, <1>5
<1> QED
  BY <1>1, <1>2, <1>4, <1>6

\* The caches of an isolate are cleared: its loads in flight have missed it.
LEMMA ClearFits ==
  ASSUME IInv, NEW i \in Isolates, Clear(i)
  PROVE  IInv'
<1>1. /\ bundle' = [bundle EXCEPT ![i] = {}] /\ fallback' = [fallback EXCEPT ![i] = {}]
      /\ promise' = [promise EXCEPT ![i] = {}]
      /\ published' = published /\ request' = request /\ answers' = {}
      /\ cleared' = [cleared EXCEPT ![i] = published]
  BY DEF Clear, PromisesLeft
<1>2. /\ load \in [Loads -> States] /\ published \in Nat /\ cleared \in [Isolates -> 0..published]
      /\ Typed
  BY DEF IInv, Typed
<1>3. /\ bundle' \in [Isolates -> SUBSET Contents]
      /\ fallback' \in [Isolates -> SUBSET (0..published)]
      /\ promise' \in [Isolates -> SUBSET Loads]
      /\ \A j \in Isolates : AtMostOne(bundle'[j]) /\ AtMostOne(fallback'[j]) /\ AtMostOne(promise'[j])
      /\ \A j \in Isolates : /\ bundle'[j] = IF j = i THEN {} ELSE bundle[j]
                             /\ promise'[j] = IF j = i THEN {} ELSE promise[j]
  BY <1>1, <1>2, Emptied
<1>4. /\ cleared' \in [Isolates -> 0..published]
      /\ \A j \in Isolates : cleared'[j] = IF j = i THEN published ELSE cleared[j]
  BY <1>1, <1>2
<1>5. \A k \in Loads : /\ load[k].isolate # {i} => load'[k] = load[k]
                       /\ load[k].isolate = {i} => load'[k].missed
                       /\ load'[k].at = load[k].at /\ load'[k].isolate = load[k].isolate
                       /\ load'[k].rows = load[k].rows /\ load'[k].orphaned = load[k].orphaned
                       /\ load'[k] \in States
  <2> SUFFICES ASSUME NEW k \in Loads
               PROVE  /\ load[k].isolate # {i} => load'[k] = load[k]
                      /\ load[k].isolate = {i} => load'[k].missed
                      /\ load'[k].at = load[k].at /\ load'[k].isolate = load[k].isolate
                      /\ load'[k].rows = load[k].rows /\ load'[k].orphaned = load[k].orphaned
                      /\ load'[k] \in States
    OBVIOUS
  <2> DEFINE new == [load[k] EXCEPT !.missed = TRUE]
  <2>1. load'[k] = IF load[k].isolate = {i} THEN new ELSE load[k]
    BY DEF Clear
  <2>2. /\ new.missed /\ new.at = load[k].at /\ new.isolate = load[k].isolate
        /\ new.rows = load[k].rows /\ new.orphaned = load[k].orphaned /\ new \in States
    BY <1>2 DEF States
  <2> HIDE DEF new
  <2> QED
    BY <1>2, <2>1, <2>2
<1>6. load' \in [Loads -> States]
  <2>1. load' = [k \in Loads |-> load'[k]]
    BY DEF Clear
  <2> QED
    BY <1>5, <2>1
<1>7. Typed'
  BY <1>1, <1>2, <1>3, <1>4, <1>6 DEF Typed, Contents
<1>8. LoadsFit'
  <2> SUFFICES ASSUME NEW k \in Loads
               PROVE  /\ load'[k].at = "idle" => load'[k] = NoLoad
                      /\ load'[k].at # "idle" => \E j \in Isolates : load'[k].isolate = {j}
                      /\ load'[k].rows <= published
                      /\ load'[k].at = "rows" /\ ~load'[k].missed =>
                           \A j \in load'[k].isolate : cleared'[j] <= load'[k].rows
    BY <1>1 DEF LoadsFit
  <2>1. CASE load[k].isolate # {i}
    <3>1. load'[k] = load[k]
      BY <1>5, <2>1
    <3>2. \A j \in load[k].isolate : j \in Isolates /\ j # i
      BY <2>1, IsolateOfLoad
    <3> QED
      BY <1>4, <3>1, <3>2 DEF IInv, LoadsFit
  <2>2. CASE load[k].isolate = {i}
    <3>1. load[k].at # "idle"
      BY <2>2, IsolateOfLoad
    <3> QED
      BY <1>5, <2>2, <3>1 DEF IInv, LoadsFit
  <2> QED
    BY <2>1, <2>2
<1>9. PromisesFit'
  <2> SUFFICES ASSUME NEW j \in Isolates, NEW k \in Loads
               PROVE  k \in promise'[j] <=>
                      load'[k].isolate = {j} /\ ~load'[k].missed /\ ~load'[k].orphaned
    BY DEF PromisesFit
  <2>1. CASE j = i
    BY <1>3, <1>5, <2>1
  <2>2. CASE j # i
    <3>1. load[k].isolate = {j} => load[k].isolate # {i}
      BY <2>2
    <3>2. promise'[j] = promise[j]
      BY <1>3, <2>2
    <3> QED
      BY <1>5, <3>1, <3>2 DEF IInv, PromisesFit
  <2> QED
    BY <2>1, <2>2
<1>10. BundlesFit'
  BY <1>3, <1>4 DEF IInv, BundlesFit
<1>11. RequestsFit'
  <2>1. \A r \in Requests : \A w \in request[r] : w.load \in Loads
    BY DEF IInv, Typed
  <2> QED
    BY <1>1, <1>5, <2>1 DEF IInv, RequestsFit
<1>12. FreshAfterClear'
  BY <1>1 DEF FreshAfterClear
<1> QED
  BY <1>7, <1>8, <1>9, <1>10, <1>11, <1>12 DEF IInv

\* An isolate is replaced: its loads end with it.
LEMMA RestartFits ==
  ASSUME IInv, NEW i \in Isolates, Restart(i)
  PROVE  IInv'
<1>1. /\ bundle' = [bundle EXCEPT ![i] = {}] /\ fallback' = [fallback EXCEPT ![i] = {}]
      /\ promise' = [promise EXCEPT ![i] = {}]
      /\ published' = published /\ cleared' = cleared /\ answers' = {}
      /\ load' = [l \in Loads |-> IF load[l].isolate = {i} THEN NoLoad ELSE load[l]]
      /\ request' = [r \in Requests |-> {w \in request[r] : load[w.load].isolate # {i}}]
  BY DEF Restart
<1>2. /\ load \in [Loads -> States] /\ published \in Nat /\ Typed
      /\ request \in [Requests -> SUBSET [load: Loads, needs: 0..published]]
      /\ \A r \in Requests : AtMostOne(request[r])
  BY DEF IInv, Typed
<1>3. /\ bundle' \in [Isolates -> SUBSET Contents]
      /\ fallback' \in [Isolates -> SUBSET (0..published)]
      /\ promise' \in [Isolates -> SUBSET Loads]
      /\ \A j \in Isolates : AtMostOne(bundle'[j]) /\ AtMostOne(fallback'[j]) /\ AtMostOne(promise'[j])
      /\ \A j \in Isolates : /\ bundle'[j] = IF j = i THEN {} ELSE bundle[j]
                             /\ promise'[j] = IF j = i THEN {} ELSE promise[j]
  BY <1>1, <1>2, Emptied
<1>4. \A k \in Loads : load'[k] = IF load[k].isolate = {i} THEN NoLoad ELSE load[k]
  BY <1>1
<1>5. load' \in [Loads -> States]
  BY <1>1, <1>2, Fields
<1>6. /\ \A r \in Requests : \A w \in request'[r] : w \in request[r] /\ load[w.load].isolate # {i}
      /\ request' \in [Requests -> SUBSET [load: Loads, needs: 0..published]]
      /\ \A r \in Requests : AtMostOne(request'[r])
  BY <1>1, <1>2 DEF AtMostOne
<1>7. Typed'
  BY <1>1, <1>2, <1>3, <1>5, <1>6 DEF Typed, Contents
<1>8. LoadsFit'
  BY <1>1, <1>2, <1>4, Fields DEF IInv, LoadsFit
<1>9. PromisesFit'
  <2> SUFFICES ASSUME NEW j \in Isolates, NEW k \in Loads
               PROVE  k \in promise'[j] <=>
                      load'[k].isolate = {j} /\ ~load'[k].missed /\ ~load'[k].orphaned
    BY DEF PromisesFit
  <2>0. k \in promise[j] <=> load[k].isolate = {j} /\ ~load[k].missed /\ ~load[k].orphaned
    BY DEF IInv, PromisesFit
  <2>1. CASE load[k].isolate = {i}
    <3>1. load'[k].isolate = {}
      BY <1>4, <2>1, Fields
    <3>2. j # i => k \notin promise[j]
      BY <2>0, <2>1
    <3> QED
      BY <1>3, <3>1, <3>2
  <2>2. CASE load[k].isolate # {i}
    BY <1>3, <1>4, <2>0, <2>2
  <2> QED
    BY <2>1, <2>2
<1>10. RequestsFit'
  <2>1. \A r \in Requests : \A w \in request[r] : w.load \in Loads
    BY <1>2
  <2> QED
    BY <1>4, <1>6, <2>1 DEF IInv, RequestsFit
<1>11. BundlesFit' /\ FreshAfterClear'
  BY <1>1, <1>3 DEF IInv, BundlesFit, FreshAfterClear
<1> QED
  BY <1>7, <1>8, <1>9, <1>10, <1>11 DEF IInv

-----------------------------------------------------------------------------
(* The theorems.                                                           *)

\* Every step keeps the invariant.
LEMMA IInvInductive == IInv /\ [Next]_vars => IInv'
<1> SUFFICES ASSUME IInv, [Next]_vars
             PROVE  IInv'
  OBVIOUS
<1>1. CASE Publish
  BY <1>1, PublishFits
<1>2. CASE \E i \in Isolates : AnswerFromBundle(i) \/ UseFallback(i) \/ LoadSync(i) \/ Clear(i) \/ Restart(i)
  BY <1>2, AnswerFits, UseFallbackFits, ClearFits, RestartFits DEF LoadSync
<1>3. CASE \E r \in Requests, i \in Isolates : Join(r, i) \/ \E l \in Loads : StartLoad(r, l, i)
  BY <1>3, JoinFits, StartLoadFits
<1>4. CASE \E l \in Loads : Query(l) \/ Complete(l) \/ CompleteWithoutDb(l) \/ Reject(l)
  BY <1>4, QueryFits, CompleteFits, WithoutDbFits, RejectFits
<1>5. CASE UNCHANGED vars
  <2>1. UNCHANGED <<published, bundle, fallback, promise, load, request, cleared, answers>>
    BY <1>5 DEF vars, caches
  <2> QED
    BY <2>1 DEF IInv, Typed, LoadsFit, PromisesFit, BundlesFit, RequestsFit, FreshAfterClear, Contents
<1> QED
  BY <1>1, <1>2, <1>3, <1>4, <1>5 DEF Next

\* The invariant of every reachable state.
THEOREM Invariance == Spec => []IInv
<1>1. Init => IInv
  BY InitFits
<1>2. IInv /\ [Next]_vars => IInv'
  BY IInvInductive
<1> QED
  BY <1>1, <1>2, PTL DEF Spec

\* A set with at most one element has at most that many.
LEMMA AtMostOneElement ==
  ASSUME NEW S, AtMostOne(S)
  PROVE  Cardinality(S) <= 1
<1>1. CASE S = {}
  BY <1>1, FS_EmptySet
<1>2. CASE S # {}
  <2>1. PICK x \in S : S = {x}
    BY <1>2 DEF AtMostOne
  <2>2. Cardinality({x}) = 1
    BY FS_Singleton
  <2> QED
    BY <2>1, <2>2
<1> QED
  BY <1>1, <1>2

\* Nobody who asks after a clearing is given older content without an excuse.
THEOREM AnswersAreFresh == Spec => []FreshAfterClear
<1>1. IInv => FreshAfterClear
  BY DEF IInv
<1> QED
  BY <1>1, Invariance, PTL

\* Neither missed nor orphaned, a load is the only one of its isolate.
THEOREM OneLoadAtATime == Spec => []LoadsAreShared
<1>1. IInv => LoadsAreShared
  <2> SUFFICES ASSUME IInv, NEW i \in Isolates
               PROVE  Cardinality({l \in InFlight(i) : ~load[l].missed /\ ~load[l].orphaned}) <= 1
    BY DEF LoadsAreShared
  <2>1. \A l \in InFlight(i) : ~load[l].missed /\ ~load[l].orphaned => l \in promise[i]
    BY DEF IInv, PromisesFit, InFlight
  <2>2. AtMostOne(promise[i])
    BY DEF IInv, Typed
  <2>3. AtMostOne({l \in InFlight(i) : ~load[l].missed /\ ~load[l].orphaned})
    BY <2>1, <2>2 DEF AtMostOne
  <2> QED
    BY <2>3, AtMostOneElement
<1> QED
  BY <1>1, Invariance, PTL

\* Caches, promises and requests hold what they can hold.
THEOREM TypeCorrect == Spec => []TypeOK
<1>1. IInv => TypeOK
  <2> SUFFICES ASSUME IInv
               PROVE  TypeOK
    OBVIOUS
  <2>1. \A i \in Isolates : /\ bundle[i] \subseteq Contents /\ Cardinality(bundle[i]) <= 1
                            /\ fallback[i] \subseteq 0..published /\ Cardinality(fallback[i]) <= 1
                            /\ promise[i] \subseteq InFlight(i) /\ Cardinality(promise[i]) <= 1
    BY AtMostOneElement DEF IInv, Typed, PromisesFit, InFlight
  <2>2. load \in [Loads -> LoadStates]
    <3>1. load \in [Loads -> States] /\ published \in Nat
      BY DEF IInv, Typed
    <3>2. \A l \in Loads : load[l].rows \in 0..published
      BY <3>1 DEF IInv, LoadsFit, States
    <3>3. \A l \in Loads : load[l] \in LoadStates
      BY <3>1, <3>2 DEF States, LoadStates
    <3> QED
      BY <3>1, <3>3
  <2>3. \A l \in Loads : load[l].at # "idle" => Cardinality(load[l].isolate) = 1
    BY FS_Singleton DEF IInv, LoadsFit
  <2>4. ASSUME NEW r \in Requests, NEW w \in request[r]
        PROVE  w \in [load: UNION {InFlight(i) : i \in Isolates}, needs: 0..published]
    <3>1. w \in [load: Loads, needs: 0..published] /\ load[w.load].at # "idle"
      BY DEF IInv, Typed, RequestsFit
    <3>2. \E i \in Isolates : load[w.load].isolate = {i}
      BY <3>1 DEF IInv, LoadsFit
    <3>3. w.load \in UNION {InFlight(i) : i \in Isolates}
      BY <3>1, <3>2 DEF InFlight
    <3> QED
      BY <3>1, <3>3
  <2> QED
    BY <2>1, <2>2, <2>3, <2>4 DEF IInv, Typed, TypeOK
<1> QED
  BY <1>1, Invariance, PTL
=============================================================================
