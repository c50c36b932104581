--------------------------- MODULE MarketingContent ---------------------------
(***************************************************************************)
(* The workflow of one marketing section: administrators edit the draft in *)
(* the settings page, save it, share a preview link and publish it as the  *)
(* next version (admin/services/marketing-content.service.ts,              *)
(* marketing/services/preview.service.ts and the hook                      *)
(* useMarketingDraftManager of marketing-content.page.tsx).                *)
(*                                                                         *)
(* No handler uses a transaction: every statement is an action.  Payloads  *)
(* are valid sections.  Tokens are random UUIDs, so one that was replaced  *)
(* or has expired is never found again: a row has none or a valid one,     *)
(* written as (history) the payload it was made for.  A call that fails,   *)
(* at whatever statement, is answered with an error.                       *)
(***************************************************************************)
EXTENDS Integers, FiniteSets

CONSTANTS
  Admins,     \* administrators with the page open
  Payloads,
  Original,   \* the payload shown when there is no draft
  MaxSaves,   \* bound: saved drafts
  MaxPublish, \* bound: published versions
  MaxInFlight  \* bound: calls in flight together

ASSUME MarketingAssumption ==
  /\ Original \in Payloads
  /\ {MaxSaves, MaxPublish, MaxInFlight} \subseteq Nat

VARIABLES
  draft,     \* marketing_content_drafts: {} or {the row}
  versions,  \* marketing_content_versions: version -> payload
  editor,    \* per administrator: the state of the page
  reading,   \* per administrator: what a GET has read and not delivered, {} or one
  save,      \* per administrator: the PUT in flight
  preview,   \* per administrator: the statement its POST .../preview runs next
  publish    \* per administrator: the POST .../publish in flight

server == <<draft, versions>>
calls == <<save, preview, publish>>
vars == <<server, editor, reading, calls>>

PreviewSteps == {"idle", "select", "update", "respond"}

NoToken == {}
NoSave == [at |-> "idle", payload |-> Original, excused |-> FALSE]
NoPublish == [at |-> "idle", payload |-> Original, next |-> 0, seen |-> {}, overtaken |-> FALSE]

\* The payload of getMarketingContentDraft and of mapDraftRow.
Detail == IF draft = {} THEN Original ELSE CHOOSE p \in {d.payload : d \in draft} : TRUE

Init ==
  /\ draft = {} /\ versions = [n \in {} |-> Original]
  /\ editor = [a \in Admins |-> [data |-> Original, text |-> Original, dirty |-> FALSE, excused |-> FALSE]]
  /\ reading = [a \in Admins |-> {}]
  /\ save = [a \in Admins |-> NoSave]
  /\ preview = [a \in Admins |-> "idle"]
  /\ publish = [a \in Admins |-> NoPublish]

-----------------------------------------------------------------------------
(* The page.                                                               *)

\* The effect on detailQuery.data.
Show(e, payload) == [e EXCEPT !.data = payload, !.text = payload, !.dirty = FALSE]

\* handleEditorChange.  The onSuccess of a publish or a save forgets what was typed
\* while it ran.
Type(a, p) ==
  /\ p # editor[a].text
  /\ editor' = [editor EXCEPT ![a].text = p, ![a].dirty = TRUE,
                              ![a].excused = @ \/ publish[a].at # "idle" \/ save[a].at = "respond"]
  /\ UNCHANGED <<server, reading, calls>>

RoomForCall ==
  Cardinality({a \in Admins : reading[a] # {}}) + Cardinality({a \in Admins : save[a].at # "idle"})
    + Cardinality({a \in Admins : preview[a] # "idle"})
    + Cardinality({a \in Admins : publish[a].at # "idle"}) < MaxInFlight

\* getMarketingContentDraft, for a first load, after a publish or on reconnecting.
Read(a) ==
  /\ reading[a] = {} /\ RoomForCall
  /\ reading' = [reading EXCEPT ![a] = {[data |-> Detail, excused |-> FALSE]}]
  /\ UNCHANGED <<server, editor, calls>>

\* It fails, or brings what the page has: the effect does not run.
Deliver(a) ==
  \E r \in reading[a] :
    /\ \/ editor' = [editor EXCEPT ![a] = [Show(@, r.data) EXCEPT !.excused = r.excused]]
       \/ UNCHANGED editor
    /\ reading' = [reading EXCEPT ![a] = {}]
    /\ UNCHANGED <<server, calls>>

\* handleSave.
ClickSave(a) ==
  /\ save[a].at = "idle" /\ RoomForCall
  /\ save' = [save EXCEPT ![a] = [NoSave EXCEPT !.at = "upsert", !.payload = editor[a].text]]
  /\ UNCHANGED <<server, editor, reading, preview, publish>>

\* Mutant: edits that were not saved do not keep from publishing.
MutantMayPublish(e) == TRUE

MayPublish(e) == ~e.dirty

\* handlePreview.
ClickPreview(a) ==
  /\ preview[a] = "idle" /\ save[a].at = "idle" /\ ~editor[a].dirty /\ RoomForCall
  /\ preview' = [preview EXCEPT ![a] = "select"]
  /\ UNCHANGED <<server, editor, reading, save, publish>>

\* History: what the administrator expects to be published, if he can expect that.
Seen(e) == IF e.excused THEN {} ELSE {e.text}

\* handlePublish.
ClickPublish(a) ==
  /\ publish[a].at = "idle" /\ save[a].at = "idle" /\ MayPublish(editor[a]) /\ RoomForCall
  /\ publish' = [publish EXCEPT ![a] = [NoPublish EXCEPT !.at = "select", !.seen = Seen(editor[a])]]
  /\ UNCHANGED <<server, editor, reading, save, preview>>

-----------------------------------------------------------------------------
(* upsertMarketingContentDraft.                                            *)

\* Mutant: the conflict clause keeps the status.
MutantSavedStatus(d, p) == [d EXCEPT !.payload = p, !.version = @ + 1, !.token = NoToken]

\* Mutant: the conflict clause keeps the token.
MutantSavedToken(d, p) == [d EXCEPT !.payload = p, !.version = @ + 1, !.status = "draft"]

\* What ON CONFLICT DO UPDATE makes of the row.
Saved(d, p) ==
  [d EXCEPT !.payload = p, !.version = @ + 1, !.status = "draft", !.token = NoToken, !.overtaken = FALSE]

FirstSaved(p) == [payload |-> p, status |-> "draft", version |-> 1, last |-> 0, token |-> NoToken,
                  overtaken |-> FALSE]

\* History: a publish does not know of this save, either it has yet to read the draft
\* or it has read an older one.
Overtaken(call) ==
  IF call.at = "select" THEN [call EXCEPT !.seen = {}]
                        ELSE [call EXCEPT !.overtaken = call.at \in {"max", "insert", "update"}]

\* History: what pages show and calls have read does not know of this save.
Upsert(a) ==
  /\ save[a].at = "upsert" /\ \A d \in draft : d.version < MaxSaves
  /\ draft' = IF draft = {} THEN {FirstSaved(save[a].payload)}
                            ELSE {Saved(d, save[a].payload) : d \in draft}
  /\ save' = [b \in Admins |-> IF b = a THEN [save[a] EXCEPT !.at = "respond"]
                             ELSE [save[b] EXCEPT !.excused = save[b].at = "respond"]]
  /\ editor' = [b \in Admins |-> [editor[b] EXCEPT !.excused = TRUE]]
  /\ reading' = [b \in Admins |-> {[r EXCEPT !.excused = TRUE] : r \in reading[b]}]
  /\ publish' = [b \in Admins |-> Overtaken(publish[b])]
  /\ UNCHANGED <<versions, preview>>

\* onSuccess: the page is given the payload that was sent.  The effect does not run if
\* a GET that saw the save was faster.
SaveDone(a) ==
  /\ save[a].at = "respond"
  /\ \/ editor' = [editor EXCEPT ![a] = [Show(@, save[a].payload) EXCEPT !.excused = save[a].excused]]
     \/ editor' = [editor EXCEPT ![a].dirty = FALSE]
  /\ save' = [save EXCEPT ![a] = NoSave]
  /\ UNCHANGED <<server, reading, preview, publish>>

SaveFails(a) ==
  /\ save[a].at # "idle"
  /\ save' = [save EXCEPT ![a] = NoSave]
  /\ UNCHANGED <<server, editor, reading, preview, publish>>

-----------------------------------------------------------------------------
(* generatePreviewToken; getMarketingPreviewPayload.                       *)

\* The SELECT of the draft's id; without a draft the call throws.
PreviewSelect(a) ==
  /\ preview[a] = "select"
  /\ preview' = [preview EXCEPT ![a] = IF draft = {} THEN "idle" ELSE "update"]
  /\ UNCHANGED <<server, editor, reading, save, publish>>

\* By that id: drafts are never deleted, but the payload may be another by now.
PreviewUpdate(a) ==
  /\ preview[a] = "update"
  /\ draft' = {[d EXCEPT !.token = {d.payload}] : d \in draft}
  /\ preview' = [preview EXCEPT ![a] = "respond"]
  /\ UNCHANGED <<versions, editor, reading, save, publish>>

\* The two log rows and onSuccess: the effect forgets what was typed meanwhile.
PreviewDone(a) ==
  /\ preview[a] = "respond"
  /\ editor' = [editor EXCEPT ![a] = Show(@, @.data)]
  /\ preview' = [preview EXCEPT ![a] = "idle"]
  /\ UNCHANGED <<server, reading, save, publish>>

PreviewFails(a) ==
  /\ preview[a] # "idle"
  /\ preview' = [preview EXCEPT ![a] = "idle"]
  /\ UNCHANGED <<server, editor, reading, save, publish>>

\* getMarketingPreviewPayload of the latest link: the payload, or nothing; paired with
\* what the link was made for.
Previewed == {[made |-> d.token, payload |-> d.payload] : d \in {e \in draft : e.token # NoToken}}

\* PREVIEW_TOKEN_TTL_MS has passed; cleanupExpiredPreviewTokens or not.
Expire ==
  /\ \E d \in draft : d.token # NoToken
  /\ draft' = {[d EXCEPT !.token = NoToken] : d \in draft}
  /\ UNCHANGED <<versions, editor, reading, calls>>

-----------------------------------------------------------------------------
(* publishMarketingContent.                                                *)

Latest == Cardinality(DOMAIN versions)

\* The draft to publish; without one the call throws.
PublishSelect(a) ==
  /\ publish[a].at = "select"
  /\ publish' = [publish EXCEPT ![a] =
       IF draft = {} THEN NoPublish
       ELSE [@ EXCEPT !.at = "max", !.payload = Detail]]
  /\ UNCHANGED <<server, editor, reading, save, preview>>

\* Mutant: versions are numbered from 0.
MutantNextVersion == Latest

NextVersion == Latest + 1

\* getLatestPublishedVersion.
PublishMax(a) ==
  /\ publish[a].at = "max"
  /\ publish' = [publish EXCEPT ![a].at = "insert", ![a].next = NextVersion]
  /\ UNCHANGED <<server, editor, reading, save, preview>>

\* Mutant: no unique index on (locale, section, version), the newer row wins.
MutantFree(n) == TRUE

Free(n) == n \notin DOMAIN versions

\* The unique index lets one of two publishes of a version pass.
PublishInsert(a) ==
  /\ publish[a].at = "insert" /\ publish[a].next <= MaxPublish
  /\ LET call == publish[a]
     IN  IF Free(call.next)
         THEN /\ versions' = [n \in DOMAIN versions \cup {call.next} |->
                                IF n = call.next THEN call.payload ELSE versions[n]]
              /\ publish' = [publish EXCEPT ![a].at = "update"]
         ELSE /\ publish' = [publish EXCEPT ![a] = NoPublish]
              /\ UNCHANGED versions
  /\ UNCHANGED <<draft, editor, reading, save, preview>>

\* Of the draft by locale and section, whatever has become of it since the SELECT.
PublishUpdate(a) ==
  /\ publish[a].at = "update"
  /\ draft' = {[d EXCEPT !.status = "published", !.last = publish[a].next, !.token = NoToken,
                         !.overtaken = publish[a].overtaken] : d \in draft}
  /\ publish' = [publish EXCEPT ![a] = [NoPublish EXCEPT !.at = "finish"]]
  /\ UNCHANGED <<versions, editor, reading, save, preview>>

\* The two log rows, the invalidation and onSuccess.
PublishDone(a) ==
  /\ publish[a].at = "finish"
  /\ publish' = [publish EXCEPT ![a] = NoPublish]
  /\ editor' = [editor EXCEPT ![a].dirty = FALSE]
  /\ UNCHANGED <<server, reading, save, preview>>

PublishFails(a) ==
  /\ publish[a].at # "idle"
  /\ publish' = [publish EXCEPT ![a] = NoPublish]
  /\ UNCHANGED <<server, editor, reading, save, preview>>

Page(a) ==
  \/ \E p \in Payloads : Type(a, p)
  \/ Read(a) \/ Deliver(a) \/ ClickSave(a) \/ ClickPreview(a) \/ ClickPublish(a)

Handler(a) ==
  \/ Upsert(a) \/ SaveDone(a) \/ SaveFails(a)
  \/ PreviewSelect(a) \/ PreviewUpdate(a) \/ PreviewDone(a) \/ PreviewFails(a)
  \/ PublishSelect(a) \/ PublishMax(a) \/ PublishInsert(a) \/ PublishUpdate(a)
  \/ PublishDone(a) \/ PublishFails(a)

Next ==
  \/ \E a \in Admins : Page(a) \/ Handler(a)
  \/ Expire

Spec == Init /\ [][Next]_vars

-----------------------------------------------------------------------------
(* Properties.                                                             *)

Rows == [payload: Payloads, status: {"draft", "published"}, version: Nat, last: Nat,
         token: SUBSET Payloads, overtaken: BOOLEAN]
Editors == [data: Payloads, text: Payloads, dirty: BOOLEAN, excused: BOOLEAN]
Readings == [data: Payloads, excused: BOOLEAN]
Saves == [at: {"idle", "upsert", "respond"}, payload: Payloads, excused: BOOLEAN]
Publishes == [at: {"idle", "select", "max", "insert", "update", "finish"}, payload: Payloads,
              next: Nat, seen: SUBSET Payloads, overtaken: BOOLEAN]

\* Rows, pages and calls hold what their columns and variables can hold; there is one
\* draft, and it names a version that exists, or none.
TypeOK ==
  /\ draft \subseteq Rows /\ \A d, e \in draft : d = e
  /\ versions \in [1..Latest -> Payloads]
  /\ \A d \in draft : d.last \in DOMAIN versions \cup {0}
  /\ editor \in [Admins -> Editors] /\ reading \in [Admins -> SUBSET Readings]
  /\ save \in [Admins -> Saves] /\ publish \in [Admins -> Publishes]
  /\ preview \in [Admins -> PreviewSteps]

\* A version holds the payload its administrator saw when clicking publish, unless
\* somebody saved after what the page shows was read, or he typed while a publish or a
\* save of his was running (handlePublish, publishMarketingContent).
PublishedAsSeen ==
  \A a \in Admins :
    publish[a].at = "update" => \A p \in publish[a].seen : versions[publish[a].next] = p

\* A draft marked as published is the version it names, unless it was saved between
\* the SELECT and the UPDATE of the publish that marked it (publishMarketingContent).
StatusIsTrue ==
  \A d \in draft : d.status = "published" /\ ~d.overtaken => d.payload = versions[d.last]

\* What was published once stays what it is, however publishes overlap, fail or are
\* repeated (publishMarketingContent and the unique index on the versions).
VersionsAreKept ==
  [][\A n \in DOMAIN versions : n \in DOMAIN versions' /\ versions'[n] = versions[n]]_vars

\* A preview link shows the draft it was made for or nothing, never what was saved or
\* published since (upsertMarketingContentDraft, publishMarketingContent).
PreviewShowsItsDraft ==
  \A r \in Previewed : r.made = {r.payload}
=============================================================================
