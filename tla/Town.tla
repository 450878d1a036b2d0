---------------------------------- MODULE Town ----------------------------------
(***************************************************************************)
(* A browser with one page of Town, which writes posts and the profile of  *)
(* one account on a PDS that other clients write to as well.  A request    *)
(* may be executed at any time after it was sent, or never; its answer may *)
(* be lost or come too late.  The page may be reloaded at any moment; what *)
(* is in local storage survives.                                           *)
(***************************************************************************)
EXTENDS Naturals

CONSTANTS
  Texts,     \* what the user types, each once
  Profiles,  \* contents of the profile
  MaxPosts,  \* bound: record keys made up
  MaxSends,  \* bound: createRecord requests on their way for one key
  MaxEdits,  \* bound: edits of the profile by other clients
  NoText, NoPost, NoProfile

ASSUME TownAssumption ==
  /\ NoText \notin Texts /\ NoProfile \notin Profiles /\ "any" \notin Profiles \cup {NoProfile}
  /\ MaxPosts \in Nat /\ MaxSends \in Nat /\ MaxEdits \in Nat

PostKeys == 1..MaxPosts
Post == [text : Texts, key : PostKeys, confirmed : BOOLEAN]
ASSUME NoPostAssumption == NoPost \notin Post

VARIABLES
  posts,    \* in the repository: the text at each record key, or none
  sent,     \* how many createRecord requests are on their way for each key
  body,     \* the text that they carry
  profile,  \* in the repository: the content of the profile, which names its CID
  puts,     \* putRecord requests on their way
  storage,  \* local storage: the pending post and the draft
  pending,  \* publisher.pending
  canRetry, \* publisher.canRetry
  pc,       \* what the publisher waits for
  why,      \* for whom it reads
  seen,     \* what it has read
  text,     \* in the text area
  shown,    \* the keys of the posts in the list
  lists,    \* reads of the list that are awaited: asked for, or what they found
  form,     \* the profile editor
  used,     \* how many keys were made up
  texts,    \* those the user has not typed yet
  edits,    \* edits of the profile by other clients
  created,  \* history: the keys of posts that were created
  deleted   \* history: the keys of posts that other clients deleted

repository == <<posts, sent, body>>
publisher == <<pending, canRetry, pc, why, seen>>
composer == <<storage, publisher, text, shown, lists, used, texts>>
editor == <<profile, puts, form, edits>>
history == <<created, deleted>>
townVars == <<repository, composer, editor, history>>

Asked == [keys |-> {}, read |-> FALSE]
Closed == [pc |-> "closed", snapshot |-> NoProfile]

TownTypeOK ==
  /\ posts \in [PostKeys -> Texts \cup {NoText}] /\ body \in [PostKeys -> Texts \cup {NoText}]
  /\ sent \in [PostKeys -> 0..MaxSends]
  /\ profile \in Profiles \cup {NoProfile}
  /\ puts \subseteq [swap : Profiles \cup {NoProfile, "any"}, seen : Profiles \cup {NoProfile},
                     record : Profiles]
  /\ storage \in [pending : Post \cup {NoPost}, draft : Texts \cup {NoText}]
  /\ pending \in Post \cup {NoPost} /\ canRetry \in BOOLEAN
  /\ pc \in {"idle", "read", "answer", "write"} /\ why \in {"check", "retry", "recover", "readback"}
  /\ seen \in {"nothing"} \cup Texts \cup {NoText}
  /\ text \in Texts \cup {NoText} /\ texts \subseteq Texts
  /\ shown \subseteq PostKeys /\ created \subseteq PostKeys /\ deleted \subseteq PostKeys
  /\ lists \subseteq [keys : SUBSET PostKeys, read : BOOLEAN]
  /\ form \in [pc : {"closed", "load", "open", "saving", "reload"},
               snapshot : Profiles \cup {NoProfile}]
  /\ used \in 0..MaxPosts /\ edits \in 0..MaxEdits

TownInit ==
  /\ posts = [k \in PostKeys |-> NoText] /\ body = posts /\ sent = [k \in PostKeys |-> 0]
  /\ profile = NoProfile /\ puts = {} /\ form = Closed /\ edits = 0
  /\ storage = [pending |-> NoPost, draft |-> NoText]
  /\ pending = NoPost /\ canRetry = FALSE /\ pc = "idle" /\ why = "check" /\ seen = "nothing"
  /\ text = NoText /\ shown = {} /\ lists = {Asked}
  /\ used = 0 /\ texts = Texts /\ created = {} /\ deleted = {}

-----------------------------------------------------------------------------
(* The list of posts *)

\* Fault: a list that was asked for before may still be applied.
Kept == lists

\* What remains of the reads that are awaited when readVersion increases.
Outdated == {}

\* loadRecent
LoadRecent == lists' = Outdated \cup {Asked}

\* listRecords at the PDS.
ReadList ==
  /\ Asked \in lists
  /\ lists' = (lists \ {Asked})
                \cup {[keys |-> {k \in PostKeys : posts[k] # NoText}, read |-> TRUE]}
  /\ UNCHANGED <<repository, storage, publisher, text, shown, used, texts, editor, history>>

\* A list arrives, or its read failed.
ShowList(l) ==
  /\ l \in lists
  /\ lists' = lists \ {l}
  /\ shown' = IF l.read THEN l.keys ELSE shown
  /\ UNCHANGED <<repository, storage, publisher, text, used, texts, editor, history>>

-----------------------------------------------------------------------------
(* Posts *)

\* updateText
UpdateText(t, pendingPost) ==
  /\ text' = t
  /\ storage' = [pending |-> pendingPost, draft |-> t]

\* The user can use the composer: the editor is a modal dialog.
Free == pc = "idle" /\ form.pc = "closed"

\* The text area is not disabled.
Type(t) ==
  /\ Free /\ pending = NoPost
  /\ \/ t \in texts /\ texts' = texts \ {t}
     \/ t = NoText /\ text # NoText /\ UNCHANGED texts
  /\ UpdateText(t, storage.pending)
  /\ UNCHANGED <<repository, publisher, shown, lists, used, editor, history>>

Read(for) == pc' = "read" /\ why' = for /\ seen' = "nothing"

\* createRecord is sent with the record and the key that were saved.
Send(post) ==
  /\ sent[post.key] < MaxSends
  /\ sent' = [sent EXCEPT ![post.key] = @ + 1]
  /\ canRetry' = FALSE
  /\ pc' = "write" /\ why' = "check" /\ seen' = "nothing"

\* Fault: the post is not saved before it is sent.
NotSaved(post) == storage

Saved(post) == [storage EXCEPT !.pending = post]

\* publish of a new post.
Publish ==
  LET post == [text |-> text, key |-> used + 1, confirmed |-> FALSE]
  IN  /\ Free /\ pending = NoPost /\ text # NoText
      /\ used < MaxPosts /\ used' = used + 1
      /\ storage' = Saved(post) /\ pending' = post
      /\ body' = [body EXCEPT ![post.key] = text]
      /\ Send(post)
      /\ lists' = Outdated
      /\ UNCHANGED <<posts, text, shown, texts, editor, history>>

\* check, or publish with a pending post: the button is there when the post was not found.
CheckOrRetry(for) ==
  /\ Free /\ pending # NoPost
  /\ for = "check" \/ (for = "retry" /\ canRetry /\ ~ pending.confirmed)
  /\ Read(for)
  /\ canRetry' = FALSE
  /\ lists' = Outdated
  /\ UNCHANGED <<repository, storage, pending, text, shown, used, texts, editor, history>>

\* getRecord at the PDS.
ReadPending ==
  /\ pc = "read"
  /\ pc' = "answer" /\ seen' = posts[pending.key]
  /\ UNCHANGED <<repository, storage, pending, canRetry, why, text, shown, lists, used, texts,
                 editor, history>>

\* run ends with an error: the text of a post that is confirmed is not needed any more.
RunFails ==
  /\ pc' = "idle" /\ why' = "check" /\ seen' = "nothing"
  /\ IF pending.confirmed THEN UpdateText(NoText, storage.pending) ELSE UNCHANGED <<storage, text>>
  /\ UNCHANGED <<shown, lists>>

ReadFails ==
  /\ pc \in {"read", "answer"}
  /\ RunFails
  /\ UNCHANGED <<repository, pending, canRetry, used, texts, editor, history>>

\* The post is there, and shown.
Found ==
  /\ pc = "answer" /\ seen = pending.text
  /\ pending' = NoPost /\ canRetry' = FALSE
  /\ UpdateText(NoText, NoPost)
  /\ shown' = shown \cup {pending.key}
  /\ LoadRecent
  /\ pc' = "idle" /\ why' = "check" /\ seen' = "nothing"
  /\ UNCHANGED <<repository, used, texts, editor, history>>

\* The post is not there: one that is not confirmed may be sent again, or is.
NotFound ==
  /\ pc = "answer" /\ seen = NoText
  /\ IF pending.confirmed
     THEN RunFails /\ UNCHANGED <<sent, pending, canRetry>>
     ELSE IF why = "retry"
     THEN Send(pending) /\ UNCHANGED <<storage, pending, text, shown, lists>>
     ELSE canRetry' = TRUE /\ RunFails /\ UNCHANGED <<sent, pending>>
  /\ UNCHANGED <<posts, body, used, texts, editor, history>>

\* createRecord at the PDS: a record that exists is an error.  An answer reaches the
\* publisher if it still waits.
CreateRecord(k) ==
  LET answered == pc = "write" /\ pending.key = k
      fresh == posts[k] = NoText
      post == [pending EXCEPT !.confirmed = TRUE]
  IN  /\ sent[k] > 0
      /\ sent' = [sent EXCEPT ![k] = @ - 1]
      /\ posts' = IF fresh THEN [posts EXCEPT ![k] = body[k]] ELSE posts
      /\ created' = created \cup {k}
      /\ \/ answered /\ fresh /\ Read("readback")
            /\ storage' = Saved(post) /\ pending' = post
         \/ answered /\ ~ fresh /\ Read("recover") /\ UNCHANGED <<storage, pending>>
         \/ UNCHANGED <<storage, pending, pc, why, seen>>
      /\ UNCHANGED <<body, canRetry, text, shown, lists, used, texts, editor, deleted>>

\* The publisher gives up on an answer.
WriteFails ==
  /\ pc = "write"
  /\ Read("recover")
  /\ UNCHANGED <<repository, storage, pending, canRetry, text, shown, lists, used, texts,
                 editor, history>>

\* Another client deletes a post.
DeletePost(k) ==
  /\ posts[k] # NoText
  /\ posts' = [posts EXCEPT ![k] = NoText]
  /\ deleted' = deleted \cup {k}
  /\ UNCHANGED <<sent, body, composer, editor, created>>

-----------------------------------------------------------------------------
(* The profile *)

OpenEditor ==
  /\ form.pc = "closed"
  /\ form' = [Closed EXCEPT !.pc = "load"]
  /\ UNCHANGED <<repository, composer, profile, puts, edits, history>>

\* readProfile; or it fails, and the user tries again.  The answer is used as it arrives.
LoadProfile ==
  /\ form.pc = "load"
  /\ form' = [pc |-> "open", snapshot |-> profile]
  /\ UNCHANGED <<repository, composer, profile, puts, edits, history>>

\* Fault: no CID is sent for a profile that was not there.
SwapIfAny(snapshot) == IF snapshot = NoProfile THEN "any" ELSE snapshot

\* swapRecord: the CID of the snapshot, or null if there was no profile.
Swap(snapshot) == snapshot

\* save, once the avatar is uploaded: putProfile of a changed record.
Save(p) ==
  /\ form.pc = "open" /\ p # form.snapshot
  /\ form' = [form EXCEPT !.pc = "saving"]
  /\ puts' = puts \cup {[swap |-> Swap(form.snapshot), seen |-> form.snapshot, record |-> p]}
  /\ UNCHANGED <<repository, composer, profile, edits, history>>

\* putRecord at the PDS.  The form closes on success; after an error, or if the answer is
\* lost, the profile has to be loaded again.
PutRecord(m) ==
  LET accepted == m.swap \in {"any", profile}
      waits == form.pc = "saving"
  IN  /\ m \in puts
      /\ puts' = puts \ {m}
      /\ profile' = IF accepted THEN m.record ELSE profile
      /\ \/ form' = form
         \/ waits /\ form' = IF accepted THEN Closed ELSE [form EXCEPT !.pc = "reload"]
      /\ UNCHANGED <<repository, composer, edits, history>>

SaveFails ==
  /\ form.pc = "saving"
  /\ form' = [form EXCEPT !.pc = "reload"]
  /\ UNCHANGED <<repository, composer, profile, puts, edits, history>>

\* Reload profile, or the dialog is closed: not while it saves.
LeaveForm ==
  /\ form.pc \in {"load", "open", "reload"}
  /\ form' \in {Closed, [Closed EXCEPT !.pc = "load"]} \ {form}
  /\ UNCHANGED <<repository, composer, profile, puts, edits, history>>

\* Another client writes or deletes the profile.
EditProfile(p) ==
  /\ edits < MaxEdits /\ p # profile
  /\ edits' = edits + 1 /\ profile' = p
  /\ UNCHANGED <<repository, composer, puts, form, history>>

-----------------------------------------------------------------------------

\* The page is loaded again: the publisher and the composer start from local storage.
Reload ==
  /\ pending' = storage.pending /\ canRetry' = FALSE
  /\ pc' = "idle" /\ why' = "check" /\ seen' = "nothing"
  /\ text' = IF pending' = NoPost THEN storage.draft
             ELSE IF pending'.confirmed THEN NoText ELSE pending'.text
  /\ shown' = {} /\ lists' = {Asked}
  /\ form' = Closed
  /\ UNCHANGED <<repository, storage, used, texts, profile, puts, edits, history>>

TownNext ==
  \/ ReadList \/ (\E l \in lists : ShowList(l))
  \/ \E t \in Texts \cup {NoText} : Type(t)
  \/ Publish \/ (\E for \in {"check", "retry"} : CheckOrRetry(for))
  \/ ReadPending \/ ReadFails \/ Found \/ NotFound
  \/ \E k \in PostKeys : CreateRecord(k) \/ DeletePost(k)
  \/ WriteFails
  \/ OpenEditor \/ LoadProfile \/ SaveFails \/ LeaveForm
  \/ \E p \in Profiles : Save(p)
  \/ \E p \in Profiles \cup {NoProfile} : EditProfile(p)
  \/ \E m \in puts : PutRecord(m)
  \/ Reload

TownSpec == TownInit /\ [][TownNext]_townVars

-----------------------------------------------------------------------------

\* "Town never creates a duplicate post after an uncertain result" (Town README 20-24):
\* whatever is lost, late, repeated or reloaded, a text is posted under one key.
NoDuplicate ==
  \A j, k \in created : body[j] = body[k] => j = k

\* A post that was read back stays in the list of this page, although lists that were asked
\* for earlier arrive later (post-composer.tsx 49-63, 92, 100-104).
ShownStays ==
  [][\A k \in shown \ shown' : k \in deleted \/ Reload]_townVars

\* What is saved replaces what the user saw, although saves whose result is unknown may
\* be executed late (Town README 30, profile.ts 46-70).
EditReplacesSeen ==
  [][\A m \in puts \ puts' : profile' # profile => profile = m.seen]_townVars
=============================================================================
