------------------------------ MODULE VideoNotes ------------------------------
(***************************************************************************)
(* The VideoNotesManager of td/telegram/VideoNotesManager.cpp: the cache   *)
(* of video notes keyed by FileId (video_notes_), the back-reference       *)
(* registry between video notes and the messages that show them            *)
(* (video_note_messages_ and message_video_notes_), and the speech         *)
(* recognition flow that enriches a video note with a transcription pushed *)
(* by the server (recognize_speech, on_transcribed_audio_update).          *)
(*                                                                         *)
(* The manager is an actor: every handler below runs to completion before *)
(* the next one starts, so each handler is one atomic action.  Its         *)
(* environment is modelled too: the MessagesManager, which owns the        *)
(* messages and calls register/unregister/recognize_speech, the server,    *)
(* which answers the TranscribeAudio query and pushes updates on the       *)
(* subscription, and the FileManager, which mints thumbnail file ids.      *)
(* TranscriptionInfo (td/telegram/TranscriptionInfo.cpp) is not part of    *)
(* the sources; its operators below are written from the spec (4.4).      *)
(***************************************************************************)
EXTENDS Integers

CONSTANTS
    FileIds,     \* valid FileIds a video note can have
    Msgs,        \* FullMessageIds of messages that may contain a video note
    ServerMsgs,  \* those whose message id is a server one and not scheduled
    Promises,    \* Promise<Unit> objects passed in by callers
    Thumbs,      \* thumbnail FileIds the FileManager can mint
    Texts,       \* transcription texts
    EmptyText,   \* the empty text of a transcription nobody has seen yet
    Durations,   \* durations the server may send (int32, possibly < 0)
    Dims,        \* dimensions the server may send, as <<width, height>>
    Minis,       \* minithumbnails the server may send
    NoMini,      \* the empty minithumbnail
    IsBot,       \* td_->auth_manager_->is_bot()
    Absent,      \* no entry in video_notes_
    NoFile,      \* no entry in message_video_notes_, or FileId()
    NoThumb      \* PhotoSize() with an invalid file_id

ASSUME ConstantsAssumption ==
    /\ ServerMsgs \subseteq Msgs
    /\ EmptyText \in Texts
    /\ Durations \subseteq Int
    /\ Dims \subseteq Int \X Int
    /\ NoMini \notin Minis
    /\ IsBot \in BOOLEAN
    /\ Absent \notin FileIds
    /\ NoFile \notin FileIds
    /\ NoThumb \notin Thumbs

VARIABLES
    videoNotes,    \* video_notes_: FileId -> VideoNote, or Absent
    trans,         \* the TranscriptionInfo of each video note
    noteMessages,  \* video_note_messages_: FileId -> set of FullMessageId
    messageNotes,  \* message_video_notes_: FullMessageId -> FileId, or NoFile
    queries,       \* TranscribeAudio queries sent and not answered, per file
    subs,          \* live transcribed-audio subscriptions, per file
    rateQueries,   \* promises held by unanswered RateTranscribedAudio queries
    promise,       \* the state of each caller promise
    resolved,      \* how many times each promise has been set
    content,       \* MessagesManager: the video note each message contains
    shown,         \* the speech recognition result each message last rendered
    usedThumbs,    \* thumbnail file ids the FileManager has minted
    merges,        \* pairs <<new_id, old_id>> FileManager::merge has joined
    closing,       \* G()->close_flag()
    fatal          \* a CHECK has failed and the process has stopped

vars == <<videoNotes, trans, noteMessages, messageNotes, queries, subs,
          rateQueries, promise, resolved, content, shown, usedThumbs,
          merges, closing, fatal>>

-----------------------------------------------------------------------------
(* Data *)

Phases == {"none", "requested", "partial", "final", "failed"}

\* A TranscriptionInfo; phase "none" stands for a null transcription_info.
Trans == [phase : Phases, text : Texts, waiters : SUBSET Promises]

NoTrans == [phase |-> "none", text |-> EmptyText, waiters |-> {}]

\* The fields of struct VideoNote other than file_id and transcription_info
\* (the waveform is left out: nothing depends on it).
VideoNote == [duration : Nat, dims : Dims \cup {<<0, 0>>},
              mini : Minis \cup {NoMini}, thumb : Thumbs \cup {NoThumb}]

\* The sentinel of a missing cache entry is no video note.
ASSUME AbsentAssumption == Absent \notin VideoNote

\* What get_speech_recognition_result_object renders.
Views == [kind : {"none", "pending", "text", "error"}, text : Texts]

NoView == [kind |-> "none", text |-> EmptyText]

View(t) ==
    CASE t.phase \in {"requested", "partial"} -> [kind |-> "pending", text |-> t.text]
      [] t.phase = "final"  -> [kind |-> "text", text |-> t.text]
      [] t.phase = "failed" -> [kind |-> "error", text |-> EmptyText]
      [] t.phase = "none"   -> NoView

\* A result of the TranscribeAudio query or a push on the subscription.
Results == {[error |-> TRUE, pending |-> FALSE, text |-> EmptyText]}
    \cup [error : {FALSE}, pending : BOOLEAN, text : Texts]

-----------------------------------------------------------------------------
(* TranscriptionInfo, written from spec 4.4 *)

\* TranscriptionInfo::copy_if_transcribed: only a final text is copied.
CopyIfTranscribed(t) ==
    IF t.phase = "final" THEN [t EXCEPT !.waiters = {}] ELSE NoTrans

\* TranscriptionInfo::update_from: a transcribed observation replaces an
\* untranscribed one; the result says whether it did.
UpdateFrom(old, new) ==
    IF new.phase = "final" /\ old.phase # "final"
    THEN [info |-> [old EXCEPT !.phase = "final", !.text = new.text], changed |-> TRUE]
    ELSE [info |-> old, changed |-> FALSE]

\* TranscriptionInfo::on_final_transcription, ::on_failed_transcription and
\* ::on_partial_transcription; the waiters are handed back to the caller.
OnFinalTranscription(t, txt) == [phase |-> "final", text |-> txt, waiters |-> {}]

OnFailedTranscription(t) == [phase |-> "failed", text |-> EmptyText, waiters |-> {}]

OnPartialTranscription(t, txt) == [t EXCEPT !.phase = "partial", !.text = txt]

-----------------------------------------------------------------------------
(* Helpers *)

\* on_video_note_transcription_updated / _completed: every message
\* registered for file f re-renders its content from the new state t.
Notify(f, t) ==
    shown' = [m \in Msgs |-> IF m \in noteMessages[f] THEN View(t) ELSE shown[m]]

\* set_promises / fail_promises / promise.set_value / promise.set_error.
Settle(ps, outcome) ==
    /\ promise' = [p \in Promises |-> IF p \in ps THEN outcome ELSE promise[p]]
    /\ resolved' = [p \in Promises |-> IF p \in ps THEN resolved[p] + 1 ELSE resolved[p]]

\* The early return of register_video_note and unregister_video_note.
Tracked(m) == m \in ServerMsgs /\ ~IsBot

\* A failed CHECK: the process stops with every variable as it was.
Crash ==
    /\ fatal' = TRUE
    /\ UNCHANGED <<videoNotes, trans, noteMessages, messageNotes, queries, subs,
                   rateQueries, promise, resolved, content, shown, usedThumbs, merges, closing>>

-----------------------------------------------------------------------------
(* Plausible bugs, each replacing one definition below in a mutation check *)

\* create_video_note without max(duration, 0).
NormalizedNoteNoClamp(mini, thumb, d, dm) ==
    [duration |-> d,
     dims |-> IF dm[1] = dm[2] /\ dm[1] <= 640 THEN dm ELSE <<0, 0>>,
     mini |-> IF IsBot THEN NoMini ELSE mini,
     thumb |-> thumb]

\* dup_video_note copying the thumbnail without FileManager::dup_file_id.
DupFileIdAliased(thumb, t) == thumb

\* register_video_note forgetting the video_note_messages_ insertion.
LinkMessageOnly(f, m) ==
    /\ UNCHANGED noteMessages
    /\ messageNotes' = [messageNotes EXCEPT ![m] = f]

\* unregister_video_note forgetting the message_video_notes_ erasure.
UnlinkKeepMessage(f, m) ==
    /\ noteMessages' = [noteMessages EXCEPT ![f] = @ \ {m}]
    /\ UNCHANGED messageNotes

\* on_get_video_note with replace storing the new object whole, so that its
\* null transcription_info replaces the old one.
OnGetVideoNoteWhole(f, new, replace) ==
    /\ videoNotes' = IF videoNotes[f] = Absent \/ replace
                     THEN [videoNotes EXCEPT ![f] = new]
                     ELSE videoNotes
    /\ trans' = IF videoNotes[f] # Absent /\ replace
                THEN [trans EXCEPT ![f] = NoTrans] ELSE trans
    /\ UNCHANGED shown

\* The error path of on_transcribed_audio_update without
\* on_video_note_transcription_updated.
OnFailedUpdateSilent(f) ==
    /\ trans' = [trans EXCEPT ![f] = OnFailedTranscription(trans[f])]
    /\ UNCHANGED shown
    /\ Settle(trans[f].waiters, "error")

\* Subscribing on every pending update, not only on the query's answer.
SubscribeAlways(f, isInitial, r) ==
    IF ~r.error /\ r.pending /\ ~closing
       /\ videoNotes[f] # Absent /\ trans[f].phase # "none"
    THEN 1 ELSE 0

\* Never subscribing to the pushed updates.
SubscribeNever(f, isInitial, r) == 0

\* A query handler kept after its answer, so that it can answer again.
RateAnswerKeep(p, outcome) ==
    /\ ~fatal
    /\ p \in rateQueries
    /\ Settle({p}, outcome)
    /\ UNCHANGED <<videoNotes, trans, noteMessages, messageNotes, queries, subs,
                   rateQueries, content, shown, usedThumbs, merges, closing, fatal>>

-----------------------------------------------------------------------------
(* Updates of the FileManager and of the registry *)

\* FileManager::dup_file_id of a thumbnail: an invalid id stays invalid,
\* a valid one is replaced by the fresh id t.
DupFileId(thumb, t) == IF thumb = NoThumb THEN NoThumb ELSE t

FreshThumb(thumb, t) ==
    /\ thumb # NoThumb => t \in Thumbs \ usedThumbs
    /\ usedThumbs' = IF thumb = NoThumb THEN usedThumbs ELSE usedThumbs \cup {t}

\* The two insertions of register_video_note and the two erasures of
\* unregister_video_note (an emptied set is erased with its key, which the
\* model, holding a set for every FileId, need not show).
Link(f, m) ==
    /\ noteMessages' = [noteMessages EXCEPT ![f] = @ \cup {m}]
    /\ messageNotes' = [messageNotes EXCEPT ![m] = f]

Unlink(f, m) ==
    /\ noteMessages' = [noteMessages EXCEPT ![f] = @ \ {m}]
    /\ messageNotes' = [messageNotes EXCEPT ![m] = NoFile]

-----------------------------------------------------------------------------
(* Initial state *)

Init ==
    /\ videoNotes = [f \in FileIds |-> Absent]
    /\ trans = [f \in FileIds |-> NoTrans]
    /\ noteMessages = [f \in FileIds |-> {}]
    /\ messageNotes = [m \in Msgs |-> NoFile]
    /\ queries = [f \in FileIds |-> 0]
    /\ subs = [f \in FileIds |-> 0]
    /\ rateQueries = {}
    /\ promise = [p \in Promises |-> "idle"]
    /\ resolved = [p \in Promises |-> 0]
    /\ content = [m \in Msgs |-> NoFile]
    /\ shown = [m \in Msgs |-> NoView]
    /\ usedThumbs = {}
    /\ merges = {}
    /\ closing = FALSE
    /\ fatal = FALSE

-----------------------------------------------------------------------------
(* The entity cache *)

\* create_video_note: the normalisation of the server's fields.
NormalizedNote(mini, thumb, d, dm) ==
    [duration |-> IF d > 0 THEN d ELSE 0,
     dims |-> IF dm[1] = dm[2] /\ dm[1] <= 640 THEN dm ELSE <<0, 0>>,
     mini |-> IF IsBot THEN NoMini ELSE mini,
     thumb |-> thumb]

\* create_video_note followed by on_get_video_note(v, replace): the first
\* observation is inserted; a later one is ignored unless replace is set,
\* and then overwrites the fields.  The new VideoNote carries no
\* transcription_info, so update_from leaves the old one as it is.
OnGetVideoNote(f, new, replace) ==
    LET u == UpdateFrom(trans[f], NoTrans) IN
    /\ videoNotes' = IF videoNotes[f] = Absent \/ replace
                     THEN [videoNotes EXCEPT ![f] = new]
                     ELSE videoNotes
    /\ trans' = IF videoNotes[f] # Absent /\ replace
                THEN [trans EXCEPT ![f] = u.info] ELSE trans
    /\ IF videoNotes[f] # Absent /\ replace /\ u.changed
       THEN Notify(f, u.info) ELSE UNCHANGED shown

CreateVideoNote(f, mini, thumb, d, dm, replace) ==
    /\ ~fatal
    /\ thumb \in Thumbs \ usedThumbs \/ thumb = NoThumb
    /\ usedThumbs' = IF thumb = NoThumb THEN usedThumbs ELSE usedThumbs \cup {thumb}
    /\ OnGetVideoNote(f, NormalizedNote(mini, thumb, d, dm), replace)
    /\ UNCHANGED <<noteMessages, messageNotes, queries, subs, rateQueries,
                   promise, resolved, content, merges, closing, fatal>>

\* delete_video_note_thumbnail.
DeleteVideoNoteThumbnail(f) ==
    /\ ~fatal
    /\ videoNotes[f] # Absent
    /\ videoNotes' = [videoNotes EXCEPT ![f].thumb = NoThumb]
    /\ UNCHANGED <<trans, noteMessages, messageNotes, queries, subs, rateQueries,
                   promise, resolved, content, shown, usedThumbs, merges, closing, fatal>>

\* dup_video_note(new_id, old_id): a copy with its own thumbnail file id
\* and only a finished transcription.
DupNote(n, o, t) ==
    /\ videoNotes' = [videoNotes EXCEPT
                        ![n] = [videoNotes[o] EXCEPT !.thumb = DupFileId(videoNotes[o].thumb, t)]]
    /\ trans' = [trans EXCEPT ![n] = CopyIfTranscribed(trans[o])]
    /\ FreshThumb(videoNotes[o].thumb, t)

DupVideoNote(n, o, t) ==
    /\ ~fatal
    /\ videoNotes[o] # Absent
    /\ videoNotes[n] = Absent
    /\ DupNote(n, o, t)
    /\ UNCHANGED <<noteMessages, messageNotes, queries, subs, rateQueries,
                   promise, resolved, content, shown, merges, closing, fatal>>

\* merge_video_notes(new_id, old_id): a dup when new_id is unknown, and
\* otherwise the cache is left alone (the thumbnail merge is commented
\* out); FileManager::merge then joins the two file ids.
MergeVideoNotes(n, o, t) ==
    /\ ~fatal
    /\ n # o
    /\ videoNotes[o] # Absent
    /\ IF videoNotes[n] = Absent
       THEN DupNote(n, o, t)
       ELSE UNCHANGED <<videoNotes, trans, usedThumbs>>
    /\ merges' = merges \cup {<<n, o>>}
    /\ UNCHANGED <<noteMessages, messageNotes, queries, subs, rateQueries,
                   promise, resolved, content, shown, closing, fatal>>

-----------------------------------------------------------------------------
(* The back-reference registry, called by the MessagesManager when a       *)
(* message gets or loses a video note content                              *)

\* register_video_note(f, m); the message renders its content when added.
RegisterVideoNote(f, m) ==
    /\ ~fatal
    /\ content[m] = NoFile
    /\ videoNotes[f] # Absent
    /\ content' = [content EXCEPT ![m] = f]
    /\ IF ~Tracked(m)
       THEN UNCHANGED <<noteMessages, messageNotes, shown, fatal>>
       ELSE IF m \in noteMessages[f] \/ messageNotes[m] # NoFile
       THEN fatal' = TRUE /\ UNCHANGED <<noteMessages, messageNotes, shown>>
       ELSE /\ Link(f, m)
            /\ shown' = [shown EXCEPT ![m] = View(trans[f])]
            /\ UNCHANGED fatal
    /\ UNCHANGED <<videoNotes, trans, queries, subs, rateQueries, promise,
                   resolved, usedThumbs, merges, closing>>

\* unregister_video_note(content[m], m).
UnregisterVideoNote(m) ==
    LET f == content[m] IN
    /\ ~fatal
    /\ f # NoFile
    /\ content' = [content EXCEPT ![m] = NoFile]
    /\ IF ~Tracked(m)
       THEN UNCHANGED <<noteMessages, messageNotes, shown, fatal>>
       ELSE IF m \notin noteMessages[f] \/ messageNotes[m] = NoFile
       THEN fatal' = TRUE /\ UNCHANGED <<noteMessages, messageNotes, shown>>
       ELSE /\ Unlink(f, m)
            /\ shown' = [shown EXCEPT ![m] = NoView]
            /\ UNCHANGED fatal
    /\ UNCHANGED <<videoNotes, trans, queries, subs, rateQueries, promise,
                   resolved, usedThumbs, merges, closing>>

-----------------------------------------------------------------------------
(* Speech recognition                                                      *)

\* recognize_speech(m, p), called by the MessagesManager for a sent message
\* that contains a video note.  A final transcription answers at once; the
\* first waiter sends the TranscribeAudio query and the messages re-render;
\* later waiters join the query in flight.
RecognizeSpeech(m, p) ==
    /\ ~fatal
    /\ content[m] # NoFile
    /\ m \in ServerMsgs
    /\ ~IsBot
    /\ promise[p] = "idle"
    /\ IF messageNotes[m] = NoFile
       THEN Crash
       ELSE LET f == messageNotes[m]
                t == trans[f]
            IN
            /\ CASE t.phase = "final" ->
                      /\ Settle({p}, "ok")
                      /\ UNCHANGED <<trans, queries, shown>>
                 [] t.phase \in {"none", "failed"} ->
                      LET t2 == [phase |-> "requested", text |-> EmptyText, waiters |-> {p}] IN
                      /\ trans' = [trans EXCEPT ![f] = t2]
                      /\ queries' = [queries EXCEPT ![f] = @ + 1]
                      /\ promise' = [promise EXCEPT ![p] = "waiting"]
                      /\ Notify(f, t2)
                      /\ UNCHANGED resolved
                 [] t.phase \in {"requested", "partial"} ->
                      /\ trans' = [trans EXCEPT ![f].waiters = @ \cup {p}]
                      /\ promise' = [promise EXCEPT ![p] = "waiting"]
                      /\ UNCHANGED <<queries, shown, resolved>>
            /\ UNCHANGED <<videoNotes, noteMessages, messageNotes, subs, rateQueries,
                           content, usedThumbs, merges, closing, fatal>>

\* The three outcomes of on_transcribed_audio_update for file f: an error
\* fails the waiters, a final text fulfils them, a partial text is stored
\* and shown if it differs from the previous one.
OnFailedUpdate(f) ==
    LET t2 == OnFailedTranscription(trans[f]) IN
    /\ trans' = [trans EXCEPT ![f] = t2]
    /\ Notify(f, t2)
    /\ Settle(trans[f].waiters, "error")

OnFinalUpdate(f, txt) ==
    LET t2 == OnFinalTranscription(trans[f], txt) IN
    /\ trans' = [trans EXCEPT ![f] = t2]
    /\ Notify(f, t2)
    /\ Settle(trans[f].waiters, "ok")

OnPartialUpdate(f, txt) ==
    LET t2 == OnPartialTranscription(trans[f], txt) IN
    /\ trans' = [trans EXCEPT ![f] = t2]
    /\ IF txt # trans[f].text THEN Notify(f, t2) ELSE UNCHANGED shown
    /\ UNCHANGED <<promise, resolved>>

\* on_transcribed_audio_update(f, is_initial, r): ignored once closing, and
\* otherwise one of the three outcomes (the subscription it opens is the
\* Subscribe conjunct of the caller).
OnTranscribedAudioUpdate(f, isInitial, r) ==
    IF closing
    THEN UNCHANGED <<videoNotes, trans, noteMessages, messageNotes, rateQueries,
                     promise, resolved, content, shown, usedThumbs, merges, closing, fatal>>
    ELSE IF videoNotes[f] = Absent \/ trans[f].phase = "none"
    THEN /\ fatal' = TRUE
         /\ UNCHANGED <<videoNotes, trans, noteMessages, messageNotes, rateQueries,
                        promise, resolved, content, shown, usedThumbs, merges, closing>>
    ELSE /\ IF r.error THEN OnFailedUpdate(f)
            ELSE IF ~r.pending THEN OnFinalUpdate(f, r.text)
            ELSE OnPartialUpdate(f, r.text)
         /\ UNCHANGED <<videoNotes, noteMessages, messageNotes, rateQueries,
                        content, usedThumbs, merges, closing, fatal>>

\* The number of subscriptions (0 or 1) that on_transcribed_audio_update
\* opens with subscribe_to_transcribed_audio_updates: only for a pending
\* answer to the query itself.
Subscribe(f, isInitial, r) ==
    IF isInitial /\ ~r.error /\ r.pending /\ ~closing
       /\ videoNotes[f] # Absent /\ trans[f].phase # "none"
    THEN 1 ELSE 0

\* The server answers the TranscribeAudio query of file f.
TranscribeAudioAnswer(f, r) ==
    /\ ~fatal
    /\ queries[f] > 0
    /\ queries' = [queries EXCEPT ![f] = @ - 1]
    /\ OnTranscribedAudioUpdate(f, TRUE, r)
    /\ subs' = [subs EXCEPT ![f] = @ + Subscribe(f, TRUE, r)]

\* The UpdatesManager delivers an updateTranscribedAudio, or its timeout
\* error, on the subscription of file f; a final text or an error ends it.
TranscribedAudioPush(f, r) ==
    /\ ~fatal
    /\ subs[f] > 0
    /\ OnTranscribedAudioUpdate(f, FALSE, r)
    /\ subs' = [subs EXCEPT ![f] = (IF r.pending THEN @ ELSE @ - 1)
                                   + Subscribe(f, FALSE, r)]
    /\ UNCHANGED queries

\* rate_speech_recognition(m, is_good, p): answered at once when nothing
\* was ever recognized, and otherwise by a RateTranscribedAudio query.
RateSpeechRecognition(m, p) ==
    /\ ~fatal
    /\ content[m] # NoFile
    /\ m \in ServerMsgs
    /\ ~IsBot
    /\ promise[p] = "idle"
    /\ IF messageNotes[m] = NoFile
       THEN Crash
       ELSE /\ IF trans[messageNotes[m]].phase = "none"
               THEN Settle({p}, "ok") /\ UNCHANGED rateQueries
               ELSE /\ rateQueries' = rateQueries \cup {p}
                    /\ promise' = [promise EXCEPT ![p] = "waiting"]
                    /\ UNCHANGED resolved
            /\ UNCHANGED <<videoNotes, trans, noteMessages, messageNotes, queries,
                           subs, content, shown, usedThumbs, merges, closing, fatal>>

\* The server answers a RateTranscribedAudio query.
RateAnswer(p, outcome) ==
    /\ ~fatal
    /\ p \in rateQueries
    /\ rateQueries' = rateQueries \ {p}
    /\ Settle({p}, outcome)
    /\ UNCHANGED <<videoNotes, trans, noteMessages, messageNotes, queries, subs,
                   content, shown, usedThumbs, merges, closing, fatal>>

\* Td sets the close flag.
Close ==
    /\ ~fatal
    /\ ~closing
    /\ closing' = TRUE
    /\ UNCHANGED <<videoNotes, trans, noteMessages, messageNotes, queries, subs,
                   rateQueries, promise, resolved, content, shown, usedThumbs, merges, fatal>>

-----------------------------------------------------------------------------
(* The specification *)

Next ==
    \/ \E f \in FileIds : DeleteVideoNoteThumbnail(f)
    \/ \E n, o \in FileIds, t \in Thumbs : MergeVideoNotes(n, o, t)
    \/ \E n, o \in FileIds, t \in Thumbs : DupVideoNote(n, o, t)
    \/ \E f \in FileIds, mini \in Minis, thumb \in Thumbs \cup {NoThumb},
          d \in Durations, dm \in Dims, replace \in BOOLEAN :
          CreateVideoNote(f, mini, thumb, d, dm, replace)
    \/ \E f \in FileIds, m \in Msgs : RegisterVideoNote(f, m)
    \/ \E m \in Msgs : UnregisterVideoNote(m)
    \/ \E m \in Msgs, p \in Promises : RecognizeSpeech(m, p)
    \/ \E f \in FileIds, r \in Results : TranscribeAudioAnswer(f, r)
    \/ \E f \in FileIds, r \in Results : TranscribedAudioPush(f, r)
    \/ \E m \in Msgs, p \in Promises : RateSpeechRecognition(m, p)
    \/ \E p \in Promises, outcome \in {"ok", "error"} : RateAnswer(p, outcome)
    \/ Close

\* The server answers every query, and every transcription on a subscription
\* eventually ends with a final text or with the UpdatesManager's timeout.
Fairness ==
    /\ \A f \in FileIds : WF_vars(\E r \in Results : TranscribeAudioAnswer(f, r))
    /\ \A f \in FileIds : WF_vars(\E r \in Results : ~r.pending /\ TranscribedAudioPush(f, r))
    /\ \A p \in Promises : WF_vars(\E outcome \in {"ok", "error"} : RateAnswer(p, outcome))

Spec == Init /\ [][Next]_vars /\ Fairness

-----------------------------------------------------------------------------
(* Properties *)

\* Every variable has the shape the manager gives it.
TypeOK ==
    /\ videoNotes \in [FileIds -> VideoNote \cup {Absent}]
    /\ trans \in [FileIds -> Trans]
    /\ noteMessages \in [FileIds -> SUBSET Msgs]
    /\ messageNotes \in [Msgs -> FileIds \cup {NoFile}]
    /\ queries \in [FileIds -> Nat]
    /\ subs \in [FileIds -> Nat]
    /\ rateQueries \subseteq Promises
    /\ promise \in [Promises -> {"idle", "waiting", "ok", "error"}]
    /\ resolved \in [Promises -> Nat]
    /\ content \in [Msgs -> FileIds \cup {NoFile}]
    /\ shown \in [Msgs -> Views]
    /\ usedThumbs \subseteq Thumbs
    /\ merges \subseteq FileIds \X FileIds
    /\ closing \in BOOLEAN
    /\ fatal \in BOOLEAN

\* The two maps of the registry agree: a message is in video_note_messages_[f]
\* exactly when message_video_notes_ maps it to f (spec 3, back-reference
\* index), whatever register/unregister calls the MessagesManager made.
RegistryConsistent ==
    \A f \in FileIds, m \in Msgs : m \in noteMessages[f] <=> messageNotes[m] = f

\* No CHECK of register_video_note, unregister_video_note, recognize_speech,
\* rate_speech_recognition or on_transcribed_audio_update ever fails when the
\* MessagesManager registers each message content once and unregisters it once.
NoContractViolation == ~fatal

\* Every message registered for a video note shows the note's current
\* speech recognition result: each change of a TranscriptionInfo is followed
\* by on_video_note_transcription_updated or _completed.
ViewsFresh ==
    \A m \in Msgs : messageNotes[m] # NoFile => shown[m] = View(trans[messageNotes[m]])

\* Until closing, a video note whose transcription has waiters has exactly one
\* way to be answered (the TranscribeAudio query or the subscription), and
\* one without waiters has none: at most one request in flight per entity
\* (spec 4.4), and no waiter left without an answer on the way.
InFlightExactlyOne ==
    ~closing =>
        \A f \in FileIds :
            queries[f] + subs[f] = IF trans[f].waiters = {} THEN 0 ELSE 1

\* No promise is set twice (spec 4.3 and 7).
ResolvedOnce == \A p \in Promises : resolved[p] <= 1

\* Two cached video notes never share a thumbnail file id: dup_video_note
\* gives the copy a thumbnail of its own (spec 4.1 and 9).
ThumbsNotAliased ==
    \A f, g \in FileIds :
        /\ f # g
        /\ videoNotes[f] # Absent
        /\ videoNotes[g] # Absent
        /\ videoNotes[f].thumb # NoThumb
        => videoNotes[f].thumb # videoNotes[g].thumb

\* A final transcription is never lost or changed, by a later observation of
\* the note (on_get_video_note with replace) or by a late server answer.
FinalTranscriptionKept ==
    [][\A f \in FileIds :
          trans[f].phase = "final" =>
              trans'[f].phase = "final" /\ trans'[f].text = trans[f].text]_vars

\* Two video notes known to be one file agree once merged: after
\* merge_video_notes(new_id, old_id), the notes cached under both ids have the
\* same duration, dimensions and minithumbnail (spec 8, first property).
SameContent(a, b) ==
    a.duration = b.duration /\ a.dims = b.dims /\ a.mini = b.mini

MergeUnifies ==
    [][\A pair \in merges' \ merges :
          SameContent(videoNotes'[pair[1]], videoNotes'[pair[2]])]_vars

\* Every promise given to recognize_speech or rate_speech_recognition is
\* eventually set, unless the client is closing (spec 7).
PromisesResolved ==
    \A p \in Promises : promise[p] = "waiting" ~> (promise[p] # "waiting" \/ closing)

=============================================================================
