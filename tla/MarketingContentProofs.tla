------------------------- MODULE MarketingContentProofs -------------------------
(***************************************************************************)
(* Proofs about MarketingContent, for any administrators, payloads and     *)
(* overlapping calls.                                                      *)
(***************************************************************************)
EXTENDS MarketingContent, FiniteSetTheorems, TLAPS

VersionsFit ==
  /\ Latest \in Nat
  /\ versions \in [1..Latest -> Payloads]

\* There is one draft, its token is for its payload, and its status is true unless a
\* save overtook the publish.
DraftFits ==
  /\ draft \subseteq Rows /\ \A d, e \in draft : d = e
  /\ \A d \in draft : /\ d.last \in DOMAIN versions \cup {0}
                      /\ d.token = {} \/ d.token = {d.payload}
                      /\ d.status = "published" => d.last \in DOMAIN versions
                      /\ d.status = "published" /\ ~d.overtaken => d.payload = versions[d.last]

Typed ==
  /\ editor \in [Admins -> Editors] /\ reading \in [Admins -> SUBSET Readings]
  /\ save \in [Admins -> Saves] /\ publish \in [Admins -> Publishes]
  /\ preview \in [Admins -> PreviewSteps]

\* What a page without an excuse shows is the draft, and what is typed in it, too, as
\* soon as it counts as saved.
EditorFits(a) ==
  ~editor[a].excused =>
    /\ editor[a].data = Detail
    /\ ~editor[a].dirty \/ save[a].at = "respond" \/ publish[a].at # "idle" => editor[a].text = Detail

ReadingFits(a) == \A r \in reading[a] : ~r.excused => r.data = Detail

SaveFits(a) ==
  /\ save[a].at = "respond" /\ ~save[a].excused => save[a].payload = Detail
  /\ save[a].at = "upsert" => ~save[a].excused

\* What a publish has seen, read and inserted is the same.
PublishFits(a) ==
  LET call == publish[a]
  IN  /\ call.at = "select" => \A p \in call.seen : p = Detail
      /\ call.at \in {"max", "insert", "update"} => \A p \in call.seen : p = call.payload
      /\ call.at \in {"max", "insert", "update"} /\ ~call.overtaken => call.payload = Detail
      /\ call.at = "insert" => call.next \in 1..(Latest + 1)
      /\ call.at = "update" => /\ call.next \in DOMAIN versions
                               /\ versions[call.next] = call.payload

AdminFits(a) == EditorFits(a) /\ ReadingFits(a) /\ SaveFits(a) /\ PublishFits(a)

\* The inductive invariant.
IInv == VersionsFit /\ DraftFits /\ Typed /\ \A a \in Admins : AdminFits(a)

-----------------------------------------------------------------------------
(* Values.                                                                 *)

\* The draft's payload, or the original.
LEMMA DetailIs ==
  ASSUME DraftFits
  PROVE  /\ Detail \in Payloads
         /\ \A d \in draft : Detail = d.payload
<1>1. CASE draft = {}
  BY <1>1, MarketingAssumption DEF Detail
<1>2. CASE draft # {}
  <2>1. PICK d \in draft : draft = {d} /\ d \in Rows
    BY <1>2 DEF DraftFits
  <2>2. {x.payload : x \in draft} = {d.payload}
    BY <2>1
  <2>3. Detail = d.payload
    BY <1>2, <2>2 DEF Detail
  <2> QED
    BY <2>1, <2>3 DEF Rows
<1> QED
  BY <1>1, <1>2

\* Calls that wait for nothing.
LEMMA NoCalls ==
  /\ NoSave \in Saves /\ NoSave.at = "idle" /\ NoSave.excused = FALSE /\ NoSave.payload = Original
  /\ NoPublish \in Publishes /\ NoPublish.at = "idle" /\ NoPublish.seen = {} /\ NoPublish.overtaken = FALSE
BY MarketingAssumption DEF NoSave, Saves, NoPublish, Publishes

\* What the page becomes when it is given a payload.
LEMMA Shown ==
  ASSUME NEW e \in Editors, NEW p \in Payloads
  PROVE  /\ Show(e, p) \in Editors
         /\ Show(e, p).data = p /\ Show(e, p).text = p /\ Show(e, p).dirty = FALSE
         /\ Show(e, p).excused = e.excused
BY DEF Editors, Show

\* ... and whether it may be old.
LEMMA Excused ==
  ASSUME NEW e \in Editors, NEW x \in BOOLEAN
  PROVE  /\ [e EXCEPT !.excused = x] \in Editors
         /\ [e EXCEPT !.excused = x].data = e.data /\ [e EXCEPT !.excused = x].text = e.text
         /\ [e EXCEPT !.excused = x].dirty = e.dirty /\ [e EXCEPT !.excused = x].excused = x
BY DEF Editors

\* A page that counts as saved.
LEMMA Clean ==
  ASSUME NEW e \in Editors
  PROVE  /\ [e EXCEPT !.dirty = FALSE] \in Editors
         /\ [e EXCEPT !.dirty = FALSE].data = e.data /\ [e EXCEPT !.dirty = FALSE].text = e.text
         /\ [e EXCEPT !.dirty = FALSE].dirty = FALSE /\ [e EXCEPT !.dirty = FALSE].excused = e.excused
BY DEF Editors

\* A step of one administrator that leaves the server alone.
LEMMA AdminStep ==
  ASSUME IInv, NEW a \in Admins, UNCHANGED server, Typed', AdminFits(a)',
         \A b \in Admins : b # a => /\ editor'[b] = editor[b] /\ reading'[b] = reading[b]
                                    /\ save'[b] = save[b] /\ publish'[b] = publish[b]
  PROVE  IInv'
<1>1. draft' = draft /\ versions' = versions /\ Detail' = Detail /\ Latest' = Latest
  BY DEF server, Detail, Latest
<1>2. VersionsFit' /\ DraftFits'
  BY <1>1 DEF IInv, VersionsFit, DraftFits
<1>3. \A b \in Admins : b # a => AdminFits(b)'
  BY <1>1 DEF IInv, AdminFits, EditorFits, ReadingFits, SaveFits, PublishFits
<1> QED
  BY <1>2, <1>3 DEF IInv

\* The server stays as it is, and with it what a page can compare itself with.
LEMMA ServerStays ==
  ASSUME UNCHANGED server
  PROVE  Detail' = Detail /\ Latest' = Latest /\ versions' = versions /\ draft' = draft
BY DEF server, Detail, Latest

-----------------------------------------------------------------------------
(* The page.                                                               *)

\* Nothing has been saved or published.
LEMMA InitFits == Init => IInv
<1> SUFFICES ASSUME Init
             PROVE  IInv
  OBVIOUS
<1>1. DOMAIN versions = {} /\ draft = {}
  BY DEF Init
<1>2. Latest = 0
  BY <1>1, FS_EmptySet DEF Latest
<1>3. VersionsFit
  <2>1. 1..0 = {}
    OBVIOUS
  <2>2. versions \in [{} -> Payloads]
    BY DEF Init
  <2> QED
    BY <1>2, <2>1, <2>2 DEF VersionsFit
<1>4. DraftFits /\ Detail = Original
  BY <1>1 DEF DraftFits, Detail
<1>5. Typed
  BY NoCalls, MarketingAssumption DEF Init, Typed, Editors, PreviewSteps
<1>6. ASSUME NEW a \in Admins
      PROVE  AdminFits(a)
  <2>1. /\ editor[a].data = Original /\ editor[a].text = Original
        /\ reading[a] = {} /\ save[a].at = "idle" /\ publish[a].at = "idle"
    BY NoCalls DEF Init
  <2> QED
    BY <1>4, <2>1 DEF AdminFits, EditorFits, ReadingFits, SaveFits, PublishFits
<1> QED
  BY <1>3, <1>4, <1>5, <1>6 DEF IInv

\* Something is typed.
LEMMA TypeFits ==
  ASSUME IInv, NEW a \in Admins, NEW p \in Payloads, Type(a, p)
  PROVE  IInv'
<1> DEFINE x == editor[a].excused \/ publish[a].at # "idle" \/ save[a].at = "respond"
           new == [editor[a] EXCEPT !.text = p, !.dirty = TRUE, !.excused = x]
<1>1. editor' = [editor EXCEPT ![a] = new] /\ UNCHANGED <<draft, versions, reading, save, preview, publish>>
  BY DEF Type, server, calls
<1>2. editor[a] \in Editors /\ x \in BOOLEAN
  BY DEF IInv, Typed, Editors
<1> HIDE DEF x
<1>3. new \in Editors /\ new.data = editor[a].data /\ new.text = p /\ new.dirty = TRUE /\ new.excused = x
  BY <1>2 DEF Editors
<1> HIDE DEF new
<1>4. /\ editor' \in [Admins -> Editors] /\ editor'[a] = new
      /\ \A b \in Admins : b # a => editor'[b] = editor[b]
  BY <1>1, <1>3 DEF IInv, Typed
<1>5. UNCHANGED server
  BY <1>1 DEF server
<1>6. Typed'
  BY <1>1, <1>4 DEF IInv, Typed
<1>7. EditorFits(a)'
  <2>1. ~x => ~editor[a].excused /\ publish[a].at = "idle" /\ save[a].at # "respond"
    BY DEF x
  <2> QED
    BY <1>1, <1>3, <1>4, <1>5, <2>1, ServerStays DEF IInv, AdminFits, EditorFits
<1>8. AdminFits(a)'
  BY <1>1, <1>5, <1>7, ServerStays DEF IInv, AdminFits, ReadingFits, SaveFits, PublishFits
<1> QED
  BY <1>1, <1>4, <1>5, <1>6, <1>8, AdminStep

\* A GET reads the draft.
LEMMA ReadFits ==
  ASSUME IInv, NEW a \in Admins, Read(a)
  PROVE  IInv'
<1> DEFINE new == [data |-> Detail, excused |-> FALSE]
<1>1. /\ reading' = [reading EXCEPT ![a] = {new}]
      /\ UNCHANGED <<draft, versions, editor, save, preview, publish>>
  BY DEF Read, server, calls
<1>2. new \in Readings /\ new.data = Detail
  BY DetailIs DEF IInv, Readings
<1> HIDE DEF new
<1>3. /\ reading' \in [Admins -> SUBSET Readings] /\ reading'[a] = {new}
      /\ \A b \in Admins : b # a => reading'[b] = reading[b]
  BY <1>1, <1>2 DEF IInv, Typed
<1>4. UNCHANGED server
  BY <1>1 DEF server
<1>5. Typed'
  BY <1>1, <1>3 DEF IInv, Typed
<1>6. ReadingFits(a)'
  BY <1>2, <1>3, <1>4, ServerStays DEF ReadingFits
<1>7. AdminFits(a)'
  BY <1>1, <1>4, <1>6, ServerStays DEF IInv, AdminFits, EditorFits, SaveFits, PublishFits
<1> QED
  BY <1>1, <1>3, <1>4, <1>5, <1>7, AdminStep

\* The page is given what a GET has read, or not.
LEMMA DeliverFits ==
  ASSUME IInv, NEW a \in Admins, Deliver(a)
  PROVE  IInv'
<1>1. PICK r \in reading[a] :
        /\ \/ editor' = [editor EXCEPT ![a] = [Show(@, r.data) EXCEPT !.excused = r.excused]]
           \/ UNCHANGED editor
        /\ reading' = [reading EXCEPT ![a] = {}]
        /\ UNCHANGED <<server, calls>>
  BY DEF Deliver
<1>2. /\ UNCHANGED <<draft, versions, save, preview, publish>> /\ UNCHANGED server
      /\ r \in Readings /\ r.data \in Payloads /\ r.excused \in BOOLEAN /\ editor[a] \in Editors
      /\ ~r.excused => r.data = Detail
  BY <1>1 DEF server, calls, IInv, Typed, Readings, AdminFits, ReadingFits
<1>3. /\ reading' \in [Admins -> SUBSET Readings] /\ reading'[a] = {}
      /\ \A b \in Admins : b # a => reading'[b] = reading[b]
  BY <1>1 DEF IInv, Typed
<1> DEFINE shown == Show(editor[a], r.data)
           new == [shown EXCEPT !.excused = r.excused]
<1>4. /\ new \in Editors /\ new.data = r.data /\ new.text = r.data /\ new.excused = r.excused
  <2>1. shown \in Editors /\ shown.data = r.data /\ shown.text = r.data
    BY <1>2, Shown
  <2> HIDE DEF shown
  <2> QED
    BY <1>2, <2>1, Excused
<1>5. editor' = [editor EXCEPT ![a] = new] \/ editor' = editor
  BY <1>1
<1> HIDE DEF shown, new
<1>6. /\ editor' \in [Admins -> Editors]
      /\ editor'[a] = new \/ editor'[a] = editor[a]
      /\ \A b \in Admins : b # a => editor'[b] = editor[b]
  BY <1>4, <1>5 DEF IInv, Typed
<1>7. Typed'
  BY <1>2, <1>3, <1>6 DEF IInv, Typed
<1>8. EditorFits(a)'
  BY <1>2, <1>4, <1>6, ServerStays DEF IInv, AdminFits, EditorFits
<1>9. AdminFits(a)'
  BY <1>2, <1>3, <1>8, ServerStays DEF IInv, AdminFits, ReadingFits, SaveFits, PublishFits
<1> QED
  BY <1>2, <1>3, <1>6, <1>7, <1>9, AdminStep

\* A save begins with the text of the page.
LEMMA ClickSaveFits ==
  ASSUME IInv, NEW a \in Admins, ClickSave(a)
  PROVE  IInv'
<1> DEFINE new == [NoSave EXCEPT !.at = "upsert", !.payload = editor[a].text]
<1>1. /\ save' = [save EXCEPT ![a] = new] /\ save[a].at = "idle"
      /\ UNCHANGED <<draft, versions, editor, reading, preview, publish>> /\ UNCHANGED server
  BY DEF ClickSave, server
<1>2. new \in Saves /\ new.at = "upsert" /\ new.excused = FALSE
  <2>1. editor[a].text \in Payloads
    BY DEF IInv, Typed, Editors
  <2> QED
    BY <2>1 DEF NoSave, Saves
<1> HIDE DEF new
<1>3. /\ save' \in [Admins -> Saves] /\ save'[a] = new
      /\ \A b \in Admins : b # a => save'[b] = save[b]
  BY <1>1, <1>2 DEF IInv, Typed
<1>4. Typed'
  BY <1>1, <1>3 DEF IInv, Typed
<1>5. EditorFits(a)' /\ SaveFits(a)'
  BY <1>1, <1>2, <1>3, ServerStays DEF IInv, AdminFits, EditorFits, SaveFits
<1>6. AdminFits(a)'
  BY <1>1, <1>5, ServerStays DEF IInv, AdminFits, ReadingFits, PublishFits
<1> QED
  BY <1>1, <1>3, <1>4, <1>6, AdminStep

\* A preview begins, finds a draft or none, or fails.
LEMMA PreviewOnly ==
  ASSUME IInv, NEW a \in Admins, NEW step \in PreviewSteps,
         preview' = [preview EXCEPT ![a] = step],
         UNCHANGED <<draft, versions, editor, reading, save, publish>>
  PROVE  IInv'
<1>1. UNCHANGED server
  BY DEF server
<1>2. Typed'
  BY DEF IInv, Typed
<1>3. AdminFits(a)'
  BY <1>1, ServerStays DEF IInv, AdminFits, EditorFits, ReadingFits, SaveFits, PublishFits
<1> QED
  BY <1>1, <1>2, <1>3, AdminStep

\* A publish goes on with call c.
LEMMA PublishStep ==
  ASSUME IInv, NEW a \in Admins, NEW c \in Publishes, publish' = [publish EXCEPT ![a] = c],
         UNCHANGED <<draft, versions, editor, reading, save, preview>>,
         c.at # "idle" => publish[a].at # "idle" \/ ~editor[a].dirty,
         c.at = "select" => \A p \in c.seen : p = Detail,
         c.at \in {"max", "insert", "update"} => \A p \in c.seen : p = c.payload,
         c.at \in {"max", "insert", "update"} /\ ~c.overtaken => c.payload = Detail,
         c.at = "insert" => c.next \in 1..(Latest + 1),
         c.at = "update" => c.next \in DOMAIN versions /\ versions[c.next] = c.payload
  PROVE  IInv'
<1>1. UNCHANGED server
  BY DEF server
<1>2. /\ publish' \in [Admins -> Publishes] /\ publish'[a] = c
      /\ \A b \in Admins : b # a => publish'[b] = publish[b]
  BY DEF IInv, Typed
<1>3. Typed'
  BY <1>2 DEF IInv, Typed
<1>4. EditorFits(a)'
  BY <1>1, <1>2, ServerStays DEF IInv, AdminFits, EditorFits
<1>5. PublishFits(a)'
  BY <1>1, <1>2, ServerStays DEF PublishFits
<1>6. AdminFits(a)'
  BY <1>1, <1>4, <1>5, ServerStays DEF IInv, AdminFits, ReadingFits, SaveFits
<1> QED
  BY <1>1, <1>2, <1>3, <1>6, AdminStep

\* A publish begins with a page that counts as saved.
LEMMA ClickPublishFits ==
  ASSUME IInv, NEW a \in Admins, ClickPublish(a)
  PROVE  IInv'
<1> DEFINE seen == Seen(editor[a])
           c == [NoPublish EXCEPT !.at = "select", !.seen = seen]
<1>1. /\ publish' = [publish EXCEPT ![a] = c] /\ ~editor[a].dirty
      /\ UNCHANGED <<draft, versions, editor, reading, save, preview>>
  BY DEF ClickPublish, MayPublish, server
<1>2. /\ editor[a].text \in Payloads
      /\ ~editor[a].excused => editor[a].text = Detail
  BY <1>1 DEF IInv, Typed, Editors, AdminFits, EditorFits
<1>3. seen \in SUBSET Payloads /\ \A p \in seen : p = Detail
  BY <1>2 DEF Seen
<1> HIDE DEF seen
<1>4. c \in Publishes /\ c.at = "select" /\ c.seen = seen
  BY <1>3, MarketingAssumption DEF NoPublish, Publishes
<1> HIDE DEF c
<1> QED
  BY <1>1, <1>3, <1>4, PublishStep

\* A publish ends.
LEMMA PublishFailsFits ==
  ASSUME IInv, NEW a \in Admins, publish' = [publish EXCEPT ![a] = NoPublish],
         UNCHANGED <<draft, versions, editor, reading, save, preview>>
  PROVE  IInv'
BY NoCalls, PublishStep

\* A publish reads the draft.
LEMMA PublishSelectFits ==
  ASSUME IInv, NEW a \in Admins, PublishSelect(a)
  PROVE  IInv'
<1> DEFINE c == [publish[a] EXCEPT !.at = "max", !.payload = Detail]
<1>1. /\ publish[a].at = "select" /\ publish' = [publish EXCEPT ![a] = IF draft = {} THEN NoPublish ELSE c]
      /\ UNCHANGED <<draft, versions, editor, reading, save, preview>>
  BY DEF PublishSelect, server
<1>2. publish[a] \in Publishes /\ Detail \in Payloads
  BY DetailIs DEF IInv, Typed
<1>3. c \in Publishes /\ c.at = "max" /\ c.payload = Detail /\ c.seen = publish[a].seen
  BY <1>2 DEF Publishes
<1>4. \A p \in publish[a].seen : p = Detail
  BY <1>1 DEF IInv, AdminFits, PublishFits
<1> HIDE DEF c
<1>5. CASE draft = {}
  BY <1>1, <1>5, PublishFailsFits
<1>6. CASE draft # {}
  BY <1>1, <1>3, <1>4, <1>6, PublishStep
<1> QED
  BY <1>5, <1>6

\* A publish reads the latest version.
LEMMA PublishMaxFits ==
  ASSUME IInv, NEW a \in Admins, PublishMax(a)
  PROVE  IInv'
<1> DEFINE n == NextVersion
           c == [publish[a] EXCEPT !.at = "insert", !.next = n]
<1>1. /\ publish[a].at = "max" /\ publish' = [publish EXCEPT ![a] = c]
      /\ UNCHANGED <<draft, versions, editor, reading, save, preview>>
  BY DEF PublishMax, server
<1>2. publish[a] \in Publishes /\ n \in 1..(Latest + 1) /\ n \in Nat
  BY DEF IInv, Typed, VersionsFit, NextVersion
<1> HIDE DEF n
<1>3. /\ c \in Publishes /\ c.at = "insert" /\ c.next = n /\ c.payload = publish[a].payload
      /\ c.seen = publish[a].seen /\ c.overtaken = publish[a].overtaken
  BY <1>2 DEF Publishes
<1> HIDE DEF c
<1>4. /\ \A p \in publish[a].seen : p = publish[a].payload
      /\ ~publish[a].overtaken => publish[a].payload = Detail
  BY <1>1 DEF IInv, AdminFits, PublishFits
<1> QED
  BY <1>1, <1>2, <1>3, <1>4, PublishStep

\* A publish inserts a version that nobody has inserted before, which is the next one.
LEMMA PublishInsertFits ==
  ASSUME IInv, NEW a \in Admins, PublishInsert(a)
  PROVE  /\ IInv'
         /\ \A n \in DOMAIN versions : n \in DOMAIN versions' /\ versions'[n] = versions[n]
<1> DEFINE call == publish[a]
           new == [call EXCEPT !.at = "update"]
<1>1. /\ call.at = "insert" /\ UNCHANGED <<draft, editor, reading, save, preview>>
      /\ call \in Publishes /\ call.next \in 1..(Latest + 1)
      /\ \A p \in call.seen : p = call.payload
      /\ ~call.overtaken => call.payload = Detail
      /\ Latest \in Nat /\ DOMAIN versions = 1..Latest /\ versions \in [1..Latest -> Payloads]
  BY DEF PublishInsert, IInv, Typed, AdminFits, PublishFits, VersionsFit
<1>2. CASE ~Free(call.next)
  <2>1. publish' = [publish EXCEPT ![a] = NoPublish] /\ versions' = versions
    BY <1>2 DEF PublishInsert
  <2> QED
    BY <1>1, <2>1, PublishFailsFits
<1>3. CASE Free(call.next)
  <2> DEFINE n == call.next
  <2>1. n = Latest + 1 /\ n \notin DOMAIN versions
    BY <1>1, <1>3 DEF Free
  <2>2. /\ versions' = [x \in DOMAIN versions \cup {n} |-> IF x = n THEN call.payload ELSE versions[x]]
        /\ publish' = [publish EXCEPT ![a] = new]
    BY <1>3 DEF PublishInsert
  <2>3. DOMAIN versions' = 1..(Latest + 1)
    BY <1>1, <2>1, <2>2
  <2>4. Latest' = Latest + 1
    <3>1. \A k \in Nat : Cardinality(1..k) = k
      <4>1. \A k \in Nat : IF 1 > k THEN Cardinality(1..k) = 0 ELSE Cardinality(1..k) = k - 1 + 1
        BY FS_Interval
      <4> QED
        BY <4>1
    <3>2. Latest + 1 \in Nat
      BY <1>1
    <3> QED
      BY <2>3, <3>1, <3>2 DEF Latest
  <2>5. /\ versions'[n] = call.payload /\ n \in DOMAIN versions'
        /\ \A x \in DOMAIN versions : x \in DOMAIN versions' /\ versions'[x] = versions[x]
    BY <1>1, <2>1, <2>2
  <2>6. call.payload \in Payloads
    BY <1>1 DEF Publishes
  <2>7. VersionsFit'
    BY <1>1, <2>1, <2>2, <2>3, <2>4, <2>6 DEF VersionsFit
  <2>8. Detail' = Detail
    BY <1>1 DEF Detail
  <2>9. DraftFits'
    BY <1>1, <2>5 DEF IInv, DraftFits
  <2>10. /\ new \in Publishes /\ new.at = "update" /\ new.next = n /\ new.payload = call.payload
         /\ new.seen = call.seen /\ new.overtaken = call.overtaken
    BY <1>1 DEF Publishes
  <2> HIDE DEF call, new, n
  <2>11. /\ publish' \in [Admins -> Publishes] /\ publish'[a] = new
         /\ \A b \in Admins : b # a => publish'[b] = publish[b]
    BY <2>2, <2>10 DEF IInv, Typed
  <2>12. Typed'
    BY <1>1, <2>11 DEF IInv, Typed
  <2>13. ASSUME NEW b \in Admins
         PROVE  AdminFits(b)'
    <3>1. EditorFits(b)' /\ ReadingFits(b)' /\ SaveFits(b)'
      <4>1. publish'[b].at # "idle" => publish[b].at # "idle"
        BY <1>1, <2>11 DEF call
      <4> QED
        BY <1>1, <2>8, <4>1 DEF IInv, AdminFits, EditorFits, ReadingFits, SaveFits
    <3>2. CASE b = a
      <4>1. PublishFits(b)'
        BY <1>1, <2>5, <2>8, <2>10, <2>11, <3>2 DEF PublishFits
      <4> QED
        BY <3>1, <4>1 DEF AdminFits
    <3>3. CASE b # a
      <4>1. publish'[b] = publish[b] /\ PublishFits(b)
        BY <2>11, <3>3 DEF IInv, AdminFits
      <4>2. \A x \in 1..(Latest + 1) : x \in 1..(Latest' + 1)
        BY <1>1, <2>4
      <4>3. PublishFits(b)'
        BY <2>5, <2>8, <4>1, <4>2 DEF PublishFits
      <4> QED
        BY <3>1, <4>3 DEF AdminFits
    <3> QED
      BY <3>2, <3>3
  <2>14. IInv'
    BY <2>7, <2>9, <2>12, <2>13 DEF IInv
  <2> QED
    BY <2>5, <2>14
<1> QED
  BY <1>2, <1>3

-----------------------------------------------------------------------------
(* Steps that write the draft.                                             *)

\* A step of one administrator that keeps the draft's payload and all versions.
LEMMA DraftStep ==
  ASSUME IInv, NEW a \in Admins, versions' = versions, Detail' = Detail, DraftFits', Typed', AdminFits(a)',
         \A b \in Admins : b # a => /\ editor'[b] = editor[b] /\ reading'[b] = reading[b]
                                    /\ save'[b] = save[b] /\ publish'[b] = publish[b]
  PROVE  IInv'
<1>1. Latest' = Latest /\ VersionsFit'
  BY DEF Latest, IInv, VersionsFit
<1>2. \A b \in Admins : b # a => AdminFits(b)'
  BY <1>1 DEF IInv, AdminFits, EditorFits, ReadingFits, SaveFits, PublishFits
<1> QED
  BY <1>1, <1>2 DEF IInv

\* What a save makes of the draft.
LEMMA SavedDraft ==
  ASSUME DraftFits, NEW p \in Payloads, versions' = versions,
         draft' = IF draft = {} THEN {FirstSaved(p)} ELSE {Saved(d, p) : d \in draft}
  PROVE  DraftFits' /\ Detail' = p
<1>1. PICK row : /\ draft' = {row} /\ row \in Rows /\ row.payload = p /\ row.status = "draft"
                 /\ row.token = {} /\ row.last \in DOMAIN versions \cup {0}
  <2>1. CASE draft = {}
    <3>1. /\ FirstSaved(p) \in Rows /\ FirstSaved(p).payload = p /\ FirstSaved(p).status = "draft"
          /\ FirstSaved(p).token = {} /\ FirstSaved(p).last = 0
      BY DEF FirstSaved, NoToken, Rows
    <3> QED
      BY <2>1, <3>1
  <2>2. CASE draft # {}
    <3>1. PICK d \in draft : draft = {d} /\ d \in Rows /\ d.last \in DOMAIN versions \cup {0}
      BY <2>2 DEF DraftFits
    <3>2. /\ Saved(d, p) \in Rows /\ Saved(d, p).payload = p /\ Saved(d, p).status = "draft"
          /\ Saved(d, p).token = {} /\ Saved(d, p).last = d.last
      <4> DEFINE v == d.version + 1
                 new == [d EXCEPT !.payload = p, !.version = v, !.status = "draft", !.token = {},
                                  !.overtaken = FALSE]
      <4>1. v \in Nat
        BY <3>1 DEF Rows
      <4>2. Saved(d, p) = new
        BY DEF Saved, NoToken
      <4> HIDE DEF v
      <4>3. /\ new \in Rows /\ new.payload = p /\ new.status = "draft" /\ new.token = {}
            /\ new.last = d.last
        BY <3>1, <4>1 DEF Rows
      <4> QED
        BY <4>2, <4>3
    <3>3. draft' = {Saved(d, p)}
      BY <2>2, <3>1
    <3> QED
      BY <3>1, <3>2, <3>3
  <2> QED
    BY <2>1, <2>2
<1>2. DraftFits'
  BY <1>1 DEF DraftFits
<1>3. Detail' = p
  <2>1. {d.payload : d \in draft'} = {p}
    BY <1>1
  <2> QED
    BY <1>1, <2>1 DEF Detail
<1> QED
  BY <1>2, <1>3

\* How a save looks to a publish.
LEMMA OvertakenCall ==
  ASSUME NEW c \in Publishes
  PROVE  /\ Overtaken(c) \in Publishes /\ Overtaken(c).at = c.at
         /\ Overtaken(c).payload = c.payload /\ Overtaken(c).next = c.next
         /\ c.at = "select" => Overtaken(c).seen = {}
         /\ c.at # "select" => Overtaken(c).seen = c.seen
         /\ c.at \in {"max", "insert", "update"} => Overtaken(c).overtaken
<1>1. CASE c.at = "select"
  BY <1>1 DEF Overtaken, Publishes
<1>2. CASE c.at # "select"
  <2> DEFINE o == c.at \in {"max", "insert", "update"}
             new == [c EXCEPT !.overtaken = o]
  <2>1. Overtaken(c) = new
    BY <1>2 DEF Overtaken
  <2>2. o \in BOOLEAN
    OBVIOUS
  <2>3. c.at \in {"max", "insert", "update"} => o
    OBVIOUS
  <2> HIDE DEF o
  <2>4. /\ new \in Publishes /\ new.at = c.at /\ new.payload = c.payload /\ new.next = c.next
        /\ new.seen = c.seen /\ new.overtaken = o
    BY <2>2 DEF Publishes
  <2> QED
    BY <1>2, <2>1, <2>3, <2>4
<1> QED
  BY <1>1, <1>2

\* How a save looks to another save.
LEMMA OtherSave ==
  ASSUME NEW s \in Saves
  PROVE  LET new == [s EXCEPT !.excused = s.at = "respond"]
         IN  /\ new \in Saves /\ new.at = s.at /\ new.payload = s.payload
             /\ new.excused = (s.at = "respond")
<1> DEFINE o == s.at = "respond"
<1>1. o \in BOOLEAN
  OBVIOUS
<1> HIDE DEF o
<1>2. LET new == [s EXCEPT !.excused = o]
      IN  new \in Saves /\ new.at = s.at /\ new.payload = s.payload /\ new.excused = o
  BY <1>1 DEF Saves
<1> QED
  BY <1>2 DEF o

\* A draft is saved: whatever was read before is excused.
LEMMA UpsertFits ==
  ASSUME IInv, NEW a \in Admins, Upsert(a)
  PROVE  IInv'
<1> DEFINE p == save[a].payload
           own == [save[a] EXCEPT !.at = "respond"]
<1>1. save[a].at = "upsert" /\ versions' = versions /\ preview' = preview /\ Latest' = Latest
  BY DEF Upsert, Latest
<1>2. save[a] \in Saves /\ p \in Payloads /\ ~save[a].excused
  BY <1>1 DEF IInv, Typed, Saves, AdminFits, SaveFits
<1>3. DraftFits' /\ Detail' = p
  BY <1>2, SavedDraft DEF IInv, Upsert
<1>4. VersionsFit'
  BY <1>1 DEF IInv, VersionsFit
<1>5. own \in Saves /\ own.at = "respond" /\ own.payload = p
  BY <1>2 DEF Saves
<1>6. ASSUME NEW b \in Admins
      PROVE  /\ editor[b] \in Editors /\ reading[b] \subseteq Readings
             /\ save[b] \in Saves /\ publish[b] \in Publishes
  BY DEF IInv, Typed
<1>7. ASSUME NEW b \in Admins
      PROVE  editor'[b] \in Editors /\ editor'[b].excused
  BY <1>6, Excused DEF Upsert
<1>8. ASSUME NEW b \in Admins
      PROVE  reading'[b] \subseteq Readings /\ \A r \in reading'[b] : r.excused
  <2>1. reading'[b] = {[r EXCEPT !.excused = TRUE] : r \in reading[b]}
    BY DEF Upsert
  <2>2. \A r \in reading[b] : [r EXCEPT !.excused = TRUE] \in Readings /\ [r EXCEPT !.excused = TRUE].excused
    BY <1>6 DEF Readings
  <2> QED
    BY <2>1, <2>2
<1>9. ASSUME NEW b \in Admins
      PROVE  save'[b] \in Saves /\ SaveFits(b)'
  <2>1. CASE b = a
    <3>1. save'[b] = own
      BY <2>1 DEF Upsert
    <3> QED
      BY <1>3, <1>5, <3>1 DEF SaveFits
  <2>2. CASE b # a
    <3>1. save'[b] = [save[b] EXCEPT !.excused = save[b].at = "respond"]
      BY <2>2 DEF Upsert
    <3>2. save'[b] \in Saves /\ save'[b].at = save[b].at /\ save'[b].excused = (save[b].at = "respond")
      BY <1>6, <3>1, OtherSave
    <3> QED
      BY <3>2 DEF SaveFits
  <2> QED
    BY <2>1, <2>2
<1>10. ASSUME NEW b \in Admins
       PROVE  publish'[b] \in Publishes /\ PublishFits(b)'
  <2>1. publish'[b] = Overtaken(publish[b])
    BY DEF Upsert
  <2>2. PublishFits(b)
    BY DEF IInv, AdminFits
  <2>3. publish'[b] \in Publishes
    BY <1>6, <2>1, OvertakenCall
  <2>4. PublishFits(b)'
    BY <1>1, <1>6, <2>1, <2>2, OvertakenCall DEF PublishFits
  <2> QED
    BY <2>3, <2>4
<1>11. Typed'
  <2>1. /\ editor' = [b \in Admins |-> editor'[b]] /\ reading' = [b \in Admins |-> reading'[b]]
        /\ save' = [b \in Admins |-> save'[b]] /\ publish' = [b \in Admins |-> publish'[b]]
    BY DEF Upsert
  <2> QED
    BY <1>1, <1>7, <1>8, <1>9, <1>10, <2>1 DEF IInv, Typed
<1>12. \A b \in Admins : AdminFits(b)'
  BY <1>7, <1>8, <1>9, <1>10 DEF AdminFits, EditorFits, ReadingFits
<1> QED
  BY <1>3, <1>4, <1>11, <1>12 DEF IInv

\* A save is answered: the page is given what was sent.
LEMMA SaveDoneFits ==
  ASSUME IInv, NEW a \in Admins, SaveDone(a)
  PROVE  IInv'
<1> DEFINE shown == Show(editor[a], save[a].payload)
           new == [shown EXCEPT !.excused = save[a].excused]
           clean == [editor[a] EXCEPT !.dirty = FALSE]
<1>1. /\ save[a].at = "respond" /\ save' = [save EXCEPT ![a] = NoSave]
      /\ editor' = [editor EXCEPT ![a] = new] \/ editor' = [editor EXCEPT ![a] = clean]
      /\ UNCHANGED <<draft, versions, reading, preview, publish>> /\ UNCHANGED server
  BY DEF SaveDone, server
<1>2. /\ save[a].payload \in Payloads /\ save[a].excused \in BOOLEAN /\ editor[a] \in Editors
      /\ ~save[a].excused => save[a].payload = Detail
      /\ ~editor[a].excused => editor[a].data = Detail /\ editor[a].text = Detail
  BY <1>1 DEF IInv, Typed, Saves, AdminFits, SaveFits, EditorFits
<1>3. /\ new \in Editors /\ new.data = save[a].payload /\ new.text = save[a].payload
      /\ new.excused = save[a].excused
  <2>1. shown \in Editors /\ shown.data = save[a].payload /\ shown.text = save[a].payload
    BY <1>2, Shown
  <2> HIDE DEF shown
  <2> QED
    BY <1>2, <2>1, Excused
<1>4. /\ clean \in Editors /\ clean.data = editor[a].data /\ clean.text = editor[a].text
      /\ clean.excused = editor[a].excused
  BY <1>2, Clean
<1> HIDE DEF shown, new, clean
<1>5. /\ editor' \in [Admins -> Editors]
      /\ editor'[a] = new \/ editor'[a] = clean
      /\ \A b \in Admins : b # a => editor'[b] = editor[b]
  BY <1>1, <1>3, <1>4 DEF IInv, Typed
<1>6. /\ save' \in [Admins -> Saves] /\ save'[a] = NoSave
      /\ \A b \in Admins : b # a => save'[b] = save[b]
  BY <1>1, NoCalls DEF IInv, Typed
<1>7. Typed'
  BY <1>1, <1>5, <1>6 DEF IInv, Typed
<1>8. EditorFits(a)'
  BY <1>1, <1>2, <1>3, <1>4, <1>5, ServerStays DEF EditorFits
<1>9. SaveFits(a)'
  BY <1>6, NoCalls DEF SaveFits
<1>10. AdminFits(a)'
  BY <1>1, <1>8, <1>9, ServerStays DEF IInv, AdminFits, ReadingFits, PublishFits
<1> QED
  BY <1>1, <1>5, <1>6, <1>7, <1>10, AdminStep

\* A save fails.
LEMMA SaveFailsFits ==
  ASSUME IInv, NEW a \in Admins, SaveFails(a)
  PROVE  IInv'
<1>1. /\ save' = [save EXCEPT ![a] = NoSave]
      /\ UNCHANGED <<draft, versions, editor, reading, preview, publish>> /\ UNCHANGED server
  BY DEF SaveFails, server
<1>2. /\ save' \in [Admins -> Saves] /\ save'[a] = NoSave
      /\ \A b \in Admins : b # a => save'[b] = save[b]
  BY <1>1, NoCalls DEF IInv, Typed
<1>3. Typed'
  BY <1>1, <1>2 DEF IInv, Typed
<1>4. EditorFits(a)' /\ SaveFits(a)'
  BY <1>1, <1>2, NoCalls, ServerStays DEF IInv, AdminFits, EditorFits, SaveFits
<1>5. AdminFits(a)'
  BY <1>1, <1>4, ServerStays DEF IInv, AdminFits, ReadingFits, PublishFits
<1> QED
  BY <1>1, <1>2, <1>3, <1>5, AdminStep

\* The draft's token is replaced, by none or by one for what the draft is.
LEMMA TokenFits ==
  ASSUME IInv, NEW token, NEW d \in draft, token = {} \/ token = {d.payload},
         draft' = {[e EXCEPT !.token = token] : e \in draft}, preview' \in [Admins -> PreviewSteps],
         UNCHANGED <<versions, editor, reading, save, publish>>
  PROVE  IInv'
<1>1. draft = {d} /\ d \in Rows /\ d.payload \in Payloads /\ Detail = d.payload
  <2>1. draft = {d} /\ d \in Rows
    BY DEF IInv, DraftFits
  <2>2. {x.payload : x \in draft} = {d.payload}
    BY <2>1
  <2> QED
    BY <2>1, <2>2 DEF Detail, Rows
<1> DEFINE row == [d EXCEPT !.token = token]
<1>2. /\ row \in Rows /\ row.token = token /\ row.payload = d.payload /\ row.last = d.last
      /\ row.status = d.status /\ row.overtaken = d.overtaken
  BY <1>1 DEF Rows
<1>3. draft' = {row}
  BY <1>1
<1> HIDE DEF row
<1>4. Detail' = Detail
  <2>1. {x.payload : x \in draft'} = {d.payload}
    BY <1>2, <1>3
  <2> QED
    BY <1>1, <1>3, <2>1 DEF Detail
<1>5. DraftFits'
  BY <1>1, <1>2, <1>3 DEF IInv, DraftFits
<1>6. Typed'
  BY DEF IInv, Typed
<1>7. Latest' = Latest /\ VersionsFit'
  BY DEF Latest, IInv, VersionsFit
<1>8. \A b \in Admins : AdminFits(b)'
  BY <1>4, <1>7 DEF IInv, AdminFits, EditorFits, ReadingFits, SaveFits, PublishFits
<1> QED
  BY <1>5, <1>6, <1>7, <1>8 DEF IInv

\* The draft is given a preview link.
LEMMA PreviewUpdateFits ==
  ASSUME IInv, NEW a \in Admins, PreviewUpdate(a)
  PROVE  IInv'
<1>1. /\ draft' = {[d EXCEPT !.token = {d.payload}] : d \in draft}
      /\ preview' = [preview EXCEPT ![a] = "respond"]
      /\ UNCHANGED <<versions, editor, reading, save, publish>>
  BY DEF PreviewUpdate
<1>2. CASE draft = {}
  <2>1. draft' = draft
    BY <1>1, <1>2
  <2> QED
    BY <1>1, <2>1, PreviewOnly DEF PreviewSteps
<1>3. CASE draft # {}
  <2>1. PICK d \in draft : draft = {d}
    BY <1>3 DEF IInv, DraftFits
  <2>2. draft' = {[e EXCEPT !.token = {d.payload}] : e \in draft}
    BY <1>1, <2>1
  <2>3. preview' \in [Admins -> PreviewSteps]
    BY <1>1 DEF IInv, Typed, PreviewSteps
  <2> QED
    BY <1>1, <2>2, <2>3, TokenFits
<1> QED
  BY <1>2, <1>3

\* A preview is answered: the page shows again what it was given.
LEMMA PreviewDoneFits ==
  ASSUME IInv, NEW a \in Admins, PreviewDone(a)
  PROVE  IInv'
<1> DEFINE new == Show(editor[a], editor[a].data)
<1>1. /\ editor' = [editor EXCEPT ![a] = new] /\ preview' = [preview EXCEPT ![a] = "idle"]
      /\ UNCHANGED <<draft, versions, reading, save, publish>> /\ UNCHANGED server
  BY DEF PreviewDone, server
<1>2. editor[a] \in Editors /\ editor[a].data \in Payloads
  BY DEF IInv, Typed, Editors
<1>3. /\ new \in Editors /\ new.data = editor[a].data /\ new.text = editor[a].data
      /\ new.excused = editor[a].excused
  BY <1>2, Shown
<1> HIDE DEF new
<1>4. /\ editor' \in [Admins -> Editors] /\ editor'[a] = new
      /\ \A b \in Admins : b # a => editor'[b] = editor[b]
  BY <1>1, <1>3 DEF IInv, Typed
<1>5. Typed'
  BY <1>1, <1>4 DEF IInv, Typed, PreviewSteps
<1>6. EditorFits(a)'
  BY <1>1, <1>3, <1>4, ServerStays DEF IInv, AdminFits, EditorFits
<1>7. AdminFits(a)'
  BY <1>1, <1>6, ServerStays DEF IInv, AdminFits, ReadingFits, SaveFits, PublishFits
<1> QED
  BY <1>1, <1>4, <1>5, <1>7, AdminStep

\* The link expires.
LEMMA ExpireFits ==
  ASSUME IInv, Expire
  PROVE  IInv'
<1>1. PICK d \in draft : TRUE
  BY DEF Expire
<1>2. /\ draft' = {[e EXCEPT !.token = {}] : e \in draft}
      /\ UNCHANGED <<versions, editor, reading, save, preview, publish>>
  BY DEF Expire, NoToken, calls
<1>3. preview' \in [Admins -> PreviewSteps]
  BY <1>2 DEF IInv, Typed
<1> QED
  BY <1>1, <1>2, <1>3, TokenFits

\* The draft is marked as the version that was inserted.
LEMMA PublishUpdateFits ==
  ASSUME IInv, NEW a \in Admins, PublishUpdate(a)
  PROVE  IInv'
<1> DEFINE call == publish[a]
           new == [NoPublish EXCEPT !.at = "finish"]
<1>1. /\ call.at = "update" /\ publish' = [publish EXCEPT ![a] = new]
      /\ draft' = {[d EXCEPT !.status = "published", !.last = call.next, !.token = NoToken,
                             !.overtaken = call.overtaken] : d \in draft}
      /\ UNCHANGED <<versions, editor, reading, save, preview>>
  BY DEF PublishUpdate
<1>2. /\ call \in Publishes /\ call.next \in Nat /\ call.overtaken \in BOOLEAN
      /\ call.next \in DOMAIN versions /\ versions[call.next] = call.payload
      /\ ~call.overtaken => call.payload = Detail
  BY <1>1 DEF IInv, Typed, Publishes, AdminFits, PublishFits
<1>3. new \in Publishes /\ new.at = "finish"
  BY MarketingAssumption DEF NoPublish, Publishes
<1> HIDE DEF call, new
<1>4. Detail' = Detail /\ DraftFits'
  <2>1. CASE draft = {}
    <3>1. draft' = {}
      BY <1>1, <2>1
    <3> QED
      BY <2>1, <3>1 DEF Detail, DraftFits
  <2>2. CASE draft # {}
    <3>1. PICK d \in draft : draft = {d} /\ d \in Rows /\ Detail = d.payload
      BY <2>2, DetailIs DEF IInv, DraftFits
    <3> DEFINE row == [d EXCEPT !.status = "published", !.last = call.next, !.token = {},
                                !.overtaken = call.overtaken]
    <3>2. /\ row \in Rows /\ row.token = {} /\ row.payload = d.payload /\ row.last = call.next
          /\ row.overtaken = call.overtaken
      BY <1>2, <3>1 DEF Rows
    <3>3. draft' = {row}
      BY <1>1, <3>1 DEF NoToken
    <3> HIDE DEF row
    <3>4. {x.payload : x \in draft'} = {d.payload}
      BY <3>2, <3>3
    <3>5. Detail' = Detail
      BY <3>1, <3>3, <3>4 DEF Detail
    <3>6. DraftFits'
      BY <1>1, <1>2, <3>1, <3>2, <3>3 DEF DraftFits
    <3> QED
      BY <3>5, <3>6
  <2> QED
    BY <2>1, <2>2
<1>5. /\ publish' \in [Admins -> Publishes] /\ publish'[a] = new
      /\ \A b \in Admins : b # a => publish'[b] = publish[b]
  BY <1>1, <1>3 DEF IInv, Typed
<1>6. Typed'
  BY <1>1, <1>5 DEF IInv, Typed
<1>7. EditorFits(a)'
  BY <1>1, <1>4 DEF call, IInv, AdminFits, EditorFits
<1>8. PublishFits(a)'
  BY <1>3, <1>5 DEF PublishFits
<1>9. AdminFits(a)'
  BY <1>1, <1>4, <1>7, <1>8 DEF IInv, AdminFits, ReadingFits, SaveFits
<1> QED
  BY <1>1, <1>4, <1>5, <1>6, <1>9, DraftStep

\* A publish is answered: the page counts as saved.
LEMMA PublishDoneFits ==
  ASSUME IInv, NEW a \in Admins, PublishDone(a)
  PROVE  IInv'
<1> DEFINE clean == [editor[a] EXCEPT !.dirty = FALSE]
<1>1. /\ publish[a].at = "finish" /\ publish' = [publish EXCEPT ![a] = NoPublish]
      /\ editor' = [editor EXCEPT ![a] = clean]
      /\ UNCHANGED <<draft, versions, reading, save, preview>> /\ UNCHANGED server
  BY DEF PublishDone, server
<1>2. /\ editor[a] \in Editors
      /\ ~editor[a].excused => editor[a].data = Detail /\ editor[a].text = Detail
  BY <1>1 DEF IInv, Typed, AdminFits, EditorFits
<1>3. /\ clean \in Editors /\ clean.data = editor[a].data /\ clean.text = editor[a].text
      /\ clean.excused = editor[a].excused
  BY <1>2, Clean
<1> HIDE DEF clean
<1>4. /\ editor' \in [Admins -> Editors] /\ editor'[a] = clean
      /\ \A b \in Admins : b # a => editor'[b] = editor[b]
  BY <1>1, <1>3 DEF IInv, Typed
<1>5. /\ publish' \in [Admins -> Publishes] /\ publish'[a] = NoPublish
      /\ \A b \in Admins : b # a => publish'[b] = publish[b]
  BY <1>1, NoCalls DEF IInv, Typed
<1>6. Typed'
  BY <1>1, <1>4, <1>5 DEF IInv, Typed
<1>7. EditorFits(a)'
  BY <1>1, <1>2, <1>3, <1>4, ServerStays DEF EditorFits
<1>8. PublishFits(a)'
  BY <1>5, NoCalls DEF PublishFits
<1>9. AdminFits(a)'
  BY <1>1, <1>7, <1>8, ServerStays DEF IInv, AdminFits, ReadingFits, SaveFits
<1> QED
  BY <1>1, <1>4, <1>5, <1>6, <1>9, AdminStep

-----------------------------------------------------------------------------
(* Theorems.                                                               *)

\* Every step of an administrator keeps the invariant, and every version.
LEMMA AdminFitsStep ==
  ASSUME IInv, NEW a \in Admins, Page(a) \/ Handler(a)
  PROVE  /\ IInv'
         /\ \A n \in DOMAIN versions : n \in DOMAIN versions' /\ versions'[n] = versions[n]
<1> USE DEF server, calls
<1>1. CASE PublishInsert(a)
  BY <1>1, PublishInsertFits
<1>2. CASE \E p \in Payloads : Type(a, p)
  BY <1>2, TypeFits DEF Type
<1>3. CASE Read(a) \/ Deliver(a) \/ ClickSave(a) \/ ClickPublish(a)
  BY <1>3, ReadFits, DeliverFits, ClickSaveFits, ClickPublishFits
     DEF Read, Deliver, ClickSave, ClickPublish
<1>4. CASE Upsert(a) \/ SaveDone(a) \/ SaveFails(a)
  BY <1>4, UpsertFits, SaveDoneFits, SaveFailsFits DEF Upsert, SaveDone, SaveFails
<1>5. CASE ClickPreview(a) \/ PreviewSelect(a) \/ PreviewFails(a)
  BY <1>5, PreviewOnly DEF ClickPreview, PreviewSelect, PreviewFails, PreviewSteps
<1>6. CASE PreviewUpdate(a) \/ PreviewDone(a)
  BY <1>6, PreviewUpdateFits, PreviewDoneFits DEF PreviewUpdate, PreviewDone
<1>7. CASE PublishSelect(a) \/ PublishMax(a) \/ PublishUpdate(a) \/ PublishDone(a)
  BY <1>7, PublishSelectFits, PublishMaxFits, PublishUpdateFits, PublishDoneFits
     DEF PublishSelect, PublishMax, PublishUpdate, PublishDone
<1>8. CASE PublishFails(a)
  BY <1>8, PublishFailsFits DEF PublishFails
<1> QED
  BY <1>1, <1>2, <1>3, <1>4, <1>5, <1>6, <1>7, <1>8 DEF Page, Handler

\* A step that changes nothing keeps the invariant.
LEMMA StutterFits ==
  ASSUME IInv, UNCHANGED vars
  PROVE  IInv' /\ versions' = versions
<1>1. UNCHANGED <<draft, versions, editor, reading, save, preview, publish>> /\ UNCHANGED server
  BY DEF vars, server, calls
<1>2. VersionsFit' /\ DraftFits' /\ Typed'
  BY <1>1, ServerStays DEF IInv, VersionsFit, DraftFits, Typed
<1>3. \A b \in Admins : AdminFits(b)'
  BY <1>1, ServerStays DEF IInv, AdminFits, EditorFits, ReadingFits, SaveFits, PublishFits
<1> QED
  BY <1>1, <1>2, <1>3 DEF IInv

\* A step never changes what was published (publishMarketingContent).
LEMMA StepFits ==
  ASSUME IInv, [Next]_vars
  PROVE  /\ IInv'
         /\ \A n \in DOMAIN versions : n \in DOMAIN versions' /\ versions'[n] = versions[n]
<1>1. CASE \E a \in Admins : Page(a) \/ Handler(a)
  BY <1>1, AdminFitsStep
<1>2. CASE Expire
  BY <1>2, ExpireFits DEF Expire
<1>3. CASE UNCHANGED vars
  BY <1>3, StutterFits
<1> QED
  BY <1>1, <1>2, <1>3 DEF Next

\* The inductive invariant holds in every reachable state.
THEOREM Invariance == Spec => []IInv
<1>1. IInv /\ [Next]_vars => IInv'
  BY StepFits
<1> QED
  BY InitFits, <1>1, PTL DEF Spec

\* The tables, the pages and the calls stay well typed; there is one draft, and it
\* names a version that exists, or none.
THEOREM TypeCorrect == Spec => []TypeOK
<1>1. IInv => TypeOK
  BY DEF IInv, VersionsFit, DraftFits, Typed, TypeOK
<1> QED
  BY <1>1, Invariance, PTL

\* What an administrator publishes is what the page showed, unless somebody saved since
\* or he went on typing (handlePublish, publishMarketingContent).
THEOREM PublishesWhatIsShown == Spec => []PublishedAsSeen
<1>1. IInv => PublishedAsSeen
  BY DEF IInv, AdminFits, PublishFits, PublishedAsSeen
<1> QED
  BY <1>1, Invariance, PTL

\* A draft that is marked as published is its version, unless it was saved during the
\* publish (publishMarketingContent).
THEOREM StatusTells == Spec => []StatusIsTrue
<1>1. IInv => StatusIsTrue
  BY DEF IInv, DraftFits, StatusIsTrue
<1> QED
  BY <1>1, Invariance, PTL

\* A preview link shows the draft it was made for (upsertMarketingContentDraft).
THEOREM PreviewsAreExact == Spec => []PreviewShowsItsDraft
<1>1. ASSUME IInv
      PROVE  PreviewShowsItsDraft
  <2> SUFFICES ASSUME NEW d \in draft, d.token # {}
               PROVE  d.token = {d.payload}
    BY DEF PreviewShowsItsDraft, Previewed, NoToken
  <2> QED
    BY <1>1 DEF IInv, DraftFits
<1> QED
  BY <1>1, Invariance, PTL

\* What was published once stays what it is (publishMarketingContent).
THEOREM PublishedStays == Spec => VersionsAreKept
<1>1. IInv /\ [Next]_vars =>
        [\A n \in DOMAIN versions : n \in DOMAIN versions' /\ versions'[n] = versions[n]]_vars
  BY StepFits
<1> QED
  BY <1>1, Invariance, PTL DEF Spec, VersionsAreKept
=============================================================================
