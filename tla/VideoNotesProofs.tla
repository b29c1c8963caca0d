--------------------------- MODULE VideoNotesProofs ---------------------------
(***************************************************************************)
(* Proofs about the VideoNotesManager model: the type invariant, that the  *)
(* registry stays consistent and no CHECK ever fails, and that no two      *)
(* cached notes share a thumbnail, for every set of notes, messages,       *)
(* promises and thumbnails.                                                *)
(***************************************************************************)
EXTENDS VideoNotes, TLAPS

-----------------------------------------------------------------------------
(* Lemmas about the operators the model is built from *)

\* Every transcription state renders as a view.
LEMMA ViewType ==
    ASSUME NEW t \in Trans
    PROVE  View(t) \in Views
BY ConstantsAssumption DEF View, Views, NoView, Trans, Phases

\* The operations of TranscriptionInfo keep a transcription well formed.
LEMMA TranscriptionType ==
    ASSUME NEW t \in Trans, NEW txt \in Texts
    PROVE  /\ OnFinalTranscription(t, txt) \in Trans
           /\ OnFailedTranscription(t) \in Trans
           /\ OnPartialTranscription(t, txt) \in Trans
           /\ CopyIfTranscribed(t) \in Trans
           /\ UpdateFrom(t, NoTrans).info \in Trans
BY ConstantsAssumption, Zenon
   DEF OnFinalTranscription, OnFailedTranscription, OnPartialTranscription,
       CopyIfTranscribed, UpdateFrom, NoTrans, Trans, Phases

\* A notification re-renders registered messages with a view.
LEMMA NotifyType ==
    ASSUME TypeOK, NEW f \in FileIds, NEW t \in Trans, Notify(f, t)
    PROVE  shown' \in [Msgs -> Views]
BY ViewType DEF Notify, TypeOK

\* Resolving promises keeps the promise states and counters well formed.
LEMMA SettleType ==
    ASSUME TypeOK, NEW ps \in SUBSET Promises, NEW o \in {"ok", "error"}, Settle(ps, o)
    PROVE  /\ promise' \in [Promises -> {"idle", "waiting", "ok", "error"}]
           /\ resolved' \in [Promises -> Nat]
BY DEF Settle, TypeOK

\* A normalised observation is a video note.
LEMMA NormalizedType ==
    ASSUME NEW mini \in Minis, NEW thumb \in Thumbs \cup {NoThumb},
           NEW d \in Durations, NEW dm \in Dims
    PROVE  NormalizedNote(mini, thumb, d, dm) \in VideoNote
BY ConstantsAssumption DEF NormalizedNote, VideoNote

\* on_transcribed_audio_update keeps the transcription, the views and the
\* promises well formed, whether it is ignored, fails a CHECK or applies
\* one of its three outcomes.
LEMMA UpdateType ==
    ASSUME TypeOK, NEW f \in FileIds, NEW isInitial \in BOOLEAN, NEW r \in Results,
           OnTranscribedAudioUpdate(f, isInitial, r)
    PROVE  /\ trans' \in [FileIds -> Trans]
           /\ shown' \in [Msgs -> Views]
           /\ promise' \in [Promises -> {"idle", "waiting", "ok", "error"}]
           /\ resolved' \in [Promises -> Nat]
           /\ fatal' \in BOOLEAN
           /\ UNCHANGED <<videoNotes, noteMessages, messageNotes, rateQueries,
                          content, usedThumbs, merges, closing>>
<1>1. CASE closing \/ videoNotes[f] = Absent \/ trans[f].phase = "none"
    BY <1>1, Zenon DEF OnTranscribedAudioUpdate, TypeOK
<1>2. CASE ~closing /\ videoNotes[f] # Absent /\ trans[f].phase # "none"
    <2>1. r.text \in Texts /\ trans[f] \in Trans /\ trans[f].waiters \subseteq Promises
        <3>1. r.text \in Texts
            <4>1. CASE r = [error |-> TRUE, pending |-> FALSE, text |-> EmptyText]
                BY <4>1, ConstantsAssumption
            <4>2. CASE r \in [error : {FALSE}, pending : BOOLEAN, text : Texts]
                BY <4>2
            <4> QED
                BY <4>1, <4>2, Zenon DEF Results
        <3>2. trans[f] \in Trans
            BY DEF TypeOK
        <3> QED
            BY <3>1, <3>2 DEF Trans
    <2>2. CASE r.error
        <3>1. OnFailedUpdate(f) /\ fatal' = fatal
            BY <1>2, <2>2 DEF OnTranscribedAudioUpdate
        <3>2. OnFailedTranscription(trans[f]) \in Trans
            BY <2>1, TranscriptionType
        <3> QED
            BY <2>1, <3>1, <3>2, NotifyType, SettleType, <1>2, <2>2
            DEF OnFailedUpdate, OnTranscribedAudioUpdate, TypeOK
    <2>3. CASE ~r.error /\ ~r.pending
        <3>1. OnFinalUpdate(f, r.text) /\ fatal' = fatal
            BY <1>2, <2>3 DEF OnTranscribedAudioUpdate
        <3>2. OnFinalTranscription(trans[f], r.text) \in Trans
            BY <2>1, TranscriptionType
        <3> QED
            BY <2>1, <3>1, <3>2, NotifyType, SettleType, <1>2, <2>3
            DEF OnFinalUpdate, OnTranscribedAudioUpdate, TypeOK
    <2>4. CASE ~r.error /\ r.pending
        <3>1. OnPartialUpdate(f, r.text) /\ fatal' = fatal
            BY <1>2, <2>4 DEF OnTranscribedAudioUpdate
        <3>2. OnPartialTranscription(trans[f], r.text) \in Trans
            BY <2>1, TranscriptionType
        <3>3. shown' \in [Msgs -> Views]
            BY <2>1, <3>1, <3>2, NotifyType DEF OnPartialUpdate, TypeOK
        <3> QED
            BY <2>1, <3>1, <3>2, <3>3, <1>2, <2>4
            DEF OnPartialUpdate, OnTranscribedAudioUpdate, TypeOK
    <2> QED
        BY <2>2, <2>3, <2>4
<1> QED
    BY <1>1, <1>2

-----------------------------------------------------------------------------
(* The type invariant *)

\* Every action keeps every variable of the manager and of its environment
\* in the shape TypeOK gives it; in particular the counters of queries,
\* subscriptions and resolutions never go below zero, since the server
\* answers only a query that was sent and pushes only on an open
\* subscription.
LEMMA TypeOKStep == TypeOK /\ [Next]_vars => TypeOK'
<1> SUFFICES ASSUME TypeOK, [Next]_vars PROVE TypeOK'
    OBVIOUS
<1>1. ASSUME NEW f \in FileIds, DeleteVideoNoteThumbnail(f) PROVE TypeOK'
    BY <1>1 DEF DeleteVideoNoteThumbnail, TypeOK, VideoNote
<1>2. ASSUME NEW n \in FileIds, NEW o \in FileIds, NEW t \in Thumbs,
             videoNotes[o] # Absent, DupNote(n, o, t)
      PROVE  /\ videoNotes' \in [FileIds -> VideoNote \cup {Absent}]
             /\ trans' \in [FileIds -> Trans]
             /\ usedThumbs' \subseteq Thumbs
    <2>1. videoNotes[o] \in VideoNote
        BY <1>2 DEF TypeOK
    <2>2. [videoNotes[o] EXCEPT !.thumb = DupFileId(videoNotes[o].thumb, t)] \in VideoNote
        BY <2>1 DEF VideoNote, DupFileId
    <2>3. CopyIfTranscribed(trans[o]) \in Trans
        BY TranscriptionType, ConstantsAssumption DEF TypeOK
    <2> QED
        BY <1>2, <2>2, <2>3 DEF DupNote, FreshThumb, TypeOK
<1>3. ASSUME NEW n \in FileIds, NEW o \in FileIds, NEW t \in Thumbs,
             MergeVideoNotes(n, o, t)
      PROVE  TypeOK'
    BY <1>2, <1>3 DEF MergeVideoNotes, TypeOK
<1>4. ASSUME NEW n \in FileIds, NEW o \in FileIds, NEW t \in Thumbs,
             DupVideoNote(n, o, t)
      PROVE  TypeOK'
    BY <1>2, <1>4 DEF DupVideoNote, TypeOK
<1>5. ASSUME NEW f \in FileIds, NEW mini \in Minis, NEW thumb \in Thumbs \cup {NoThumb},
             NEW d \in Durations, NEW dm \in Dims, NEW replace \in BOOLEAN,
             CreateVideoNote(f, mini, thumb, d, dm, replace)
      PROVE  TypeOK'
    <2> DEFINE new == NormalizedNote(mini, thumb, d, dm)
               u == UpdateFrom(trans[f], NoTrans)
    <2>1. new \in VideoNote
        BY NormalizedType
    <2>2. u.info \in Trans
        BY TranscriptionType, ConstantsAssumption DEF TypeOK
    <2>3. shown' \in [Msgs -> Views]
        BY <1>5, <2>2, NotifyType DEF CreateVideoNote, OnGetVideoNote, TypeOK
    <2> QED
        BY <1>5, <2>1, <2>2, <2>3 DEF CreateVideoNote, OnGetVideoNote, TypeOK
<1>6. ASSUME NEW f \in FileIds, NEW m \in Msgs, RegisterVideoNote(f, m) PROVE TypeOK'
    <2>1. content' \in [Msgs -> FileIds \cup {NoFile}]
        BY <1>6 DEF RegisterVideoNote, TypeOK
    <2>2. CASE ~Tracked(m) \/ m \in noteMessages[f] \/ messageNotes[m] # NoFile
        BY <1>6, <2>1, <2>2, Zenon DEF RegisterVideoNote, TypeOK
    <2>3. CASE Tracked(m) /\ m \notin noteMessages[f] /\ messageNotes[m] = NoFile
        <3>1. Link(f, m) /\ shown' = [shown EXCEPT ![m] = View(trans[f])] /\ fatal' = fatal
            BY <1>6, <2>3 DEF RegisterVideoNote
        <3>2. View(trans[f]) \in Views
            BY ViewType DEF TypeOK
        <3> QED
            BY <1>6, <2>1, <3>1, <3>2 DEF RegisterVideoNote, Link, TypeOK
    <2> QED
        BY <2>2, <2>3
<1>7. ASSUME NEW m \in Msgs, UnregisterVideoNote(m) PROVE TypeOK'
    <2> DEFINE f == content[m]
    <2>1. f \in FileIds /\ content' \in [Msgs -> FileIds \cup {NoFile}]
        BY <1>7 DEF UnregisterVideoNote, TypeOK
    <2>2. CASE ~Tracked(m) \/ m \notin noteMessages[f] \/ messageNotes[m] = NoFile
        BY <1>7, <2>1, <2>2, Zenon DEF UnregisterVideoNote, TypeOK
    <2>3. CASE Tracked(m) /\ m \in noteMessages[f] /\ messageNotes[m] # NoFile
        <3>1. Unlink(f, m) /\ shown' = [shown EXCEPT ![m] = NoView] /\ fatal' = fatal
            BY <1>7, <2>3 DEF UnregisterVideoNote
        <3>2. NoView \in Views
            BY ConstantsAssumption DEF NoView, Views
        <3> QED
            BY <1>7, <2>1, <3>1, <3>2 DEF UnregisterVideoNote, Unlink, TypeOK
    <2> QED
        BY <2>2, <2>3
<1>8. ASSUME NEW m \in Msgs, NEW p \in Promises, RecognizeSpeech(m, p) PROVE TypeOK'
    <2>1. CASE messageNotes[m] = NoFile
        BY <1>8, <2>1 DEF RecognizeSpeech, Crash, TypeOK
    <2>2. CASE messageNotes[m] # NoFile
        <3> DEFINE f == messageNotes[m]
                   t == trans[f]
                   t2 == [phase |-> "requested", text |-> EmptyText, waiters |-> {p}]
        <3>1. f \in FileIds /\ t \in Trans
            BY <2>2 DEF TypeOK
        <3>2. t2 \in Trans
            BY ConstantsAssumption DEF Trans, Phases
        <3>3. CASE t.phase = "final"
            <4>1. promise' \in [Promises -> {"idle", "waiting", "ok", "error"}]
                  /\ resolved' \in [Promises -> Nat]
                BY <1>8, <2>2, <3>3, SettleType DEF RecognizeSpeech
            <4> QED
                BY <1>8, <2>2, <3>3, <4>1 DEF RecognizeSpeech, TypeOK
        <3>4. CASE t.phase \in {"none", "failed"}
            <4>1. /\ trans' = [trans EXCEPT ![f] = t2]
                  /\ queries' = [queries EXCEPT ![f] = @ + 1]
                  /\ promise' = [promise EXCEPT ![p] = "waiting"]
                  /\ Notify(f, t2)
                  /\ resolved' = resolved
                BY <1>8, <2>2, <3>4, Zenon DEF RecognizeSpeech
            <4>2. shown' \in [Msgs -> Views]
                BY <3>1, <3>2, <4>1, NotifyType
            <4> QED
                BY <1>8, <2>2, <3>1, <3>2, <4>1, <4>2 DEF RecognizeSpeech, TypeOK
        <3>5. CASE t.phase \in {"requested", "partial"}
            <4>1. /\ trans' = [trans EXCEPT ![f].waiters = @ \cup {p}]
                  /\ promise' = [promise EXCEPT ![p] = "waiting"]
                  /\ UNCHANGED <<queries, shown, resolved>>
                BY <1>8, <2>2, <3>5, Zenon DEF RecognizeSpeech
            <4>2. [t EXCEPT !.waiters = @ \cup {p}] \in Trans
                BY <3>1 DEF Trans
            <4> QED
                BY <1>8, <2>2, <3>1, <4>1, <4>2 DEF RecognizeSpeech, TypeOK
        <3> QED
            BY <3>1, <3>3, <3>4, <3>5 DEF Trans, Phases
    <2> QED
        BY <2>1, <2>2
<1>9. ASSUME NEW f \in FileIds, NEW r \in Results, TranscribeAudioAnswer(f, r) PROVE TypeOK'
    <2>2. OnTranscribedAudioUpdate(f, TRUE, r)
        BY <1>9, Zenon DEF TranscribeAudioAnswer
    <2>3. /\ trans' \in [FileIds -> Trans]
          /\ shown' \in [Msgs -> Views]
          /\ promise' \in [Promises -> {"idle", "waiting", "ok", "error"}]
          /\ resolved' \in [Promises -> Nat]
          /\ fatal' \in BOOLEAN
          /\ UNCHANGED <<videoNotes, noteMessages, messageNotes, rateQueries,
                         content, usedThumbs, merges, closing>>
        BY <2>2, UpdateType, Zenon
    <2>4. /\ queries' \in [FileIds -> Nat]
          /\ subs' \in [FileIds -> Nat]
        <3>1. queries' = [queries EXCEPT ![f] = queries[f] - 1] /\ queries[f] - 1 \in Nat
            BY <1>9 DEF TranscribeAudioAnswer, TypeOK
        <3>2. subs' = [subs EXCEPT ![f] = subs[f] + Subscribe(f, TRUE, r)]
            BY <1>9 DEF TranscribeAudioAnswer
        <3>3. subs[f] + Subscribe(f, TRUE, r) \in Nat
            BY DEF TypeOK, Subscribe
        <3> QED
            BY <3>1, <3>2, <3>3, Zenon DEF TypeOK
    <2> QED
        BY <2>3, <2>4 DEF TypeOK
<1>10. ASSUME NEW f \in FileIds, NEW r \in Results, TranscribedAudioPush(f, r) PROVE TypeOK'
    <2>2. (IF r.pending THEN subs[f] ELSE subs[f] - 1) \in Nat
        BY <1>10 DEF TranscribedAudioPush, TypeOK
    <2>3. OnTranscribedAudioUpdate(f, FALSE, r)
        BY <1>10, Zenon DEF TranscribedAudioPush
    <2>4. /\ trans' \in [FileIds -> Trans]
          /\ shown' \in [Msgs -> Views]
          /\ promise' \in [Promises -> {"idle", "waiting", "ok", "error"}]
          /\ resolved' \in [Promises -> Nat]
          /\ fatal' \in BOOLEAN
          /\ UNCHANGED <<videoNotes, noteMessages, messageNotes, rateQueries,
                         content, usedThumbs, merges, closing>>
        BY <2>3, UpdateType, Zenon
    <2>5. /\ queries' \in [FileIds -> Nat]
          /\ subs' \in [FileIds -> Nat]
        <3>1. subs' = [subs EXCEPT ![f] = (IF r.pending THEN subs[f] ELSE subs[f] - 1)
                                          + Subscribe(f, FALSE, r)]
              /\ queries' = queries
            BY <1>10 DEF TranscribedAudioPush
        <3>2. (IF r.pending THEN subs[f] ELSE subs[f] - 1) + Subscribe(f, FALSE, r) \in Nat
            BY <2>2 DEF Subscribe
        <3> QED
            BY <3>1, <3>2, Zenon DEF TypeOK
    <2> QED
        BY <2>4, <2>5 DEF TypeOK
<1>11. ASSUME NEW m \in Msgs, NEW p \in Promises, RateSpeechRecognition(m, p) PROVE TypeOK'
    <2>1. CASE messageNotes[m] = NoFile
        BY <1>11, <2>1 DEF RateSpeechRecognition, Crash, TypeOK
    <2>2. CASE messageNotes[m] # NoFile /\ trans[messageNotes[m]].phase = "none"
        <3>1. Settle({p}, "ok")
            BY <1>11, <2>2 DEF RateSpeechRecognition
        <3> QED
            BY <1>11, <2>2, <3>1, SettleType DEF RateSpeechRecognition, TypeOK
    <2>3. CASE messageNotes[m] # NoFile /\ trans[messageNotes[m]].phase # "none"
        BY <1>11, <2>3 DEF RateSpeechRecognition, TypeOK
    <2> QED
        BY <2>1, <2>2, <2>3
<1>12. ASSUME NEW p \in Promises, NEW o \in {"ok", "error"}, RateAnswer(p, o) PROVE TypeOK'
    BY <1>12, SettleType DEF RateAnswer, TypeOK
<1>13. CASE Close
    BY <1>13 DEF Close, TypeOK
<1>14. CASE UNCHANGED vars
    BY <1>14 DEF vars, TypeOK
<1> QED
    BY <1>1, <1>3, <1>4, <1>5, <1>6, <1>7, <1>8, <1>9, <1>10, <1>11, <1>12,
       <1>13, <1>14 DEF Next

\* The initial state of the manager and of its environment is well typed.
LEMMA InitTypeOK == Init => TypeOK
<1> SUFFICES ASSUME Init PROVE TypeOK
    OBVIOUS
<1>1. NoTrans \in Trans /\ NoView \in Views
    BY ConstantsAssumption DEF NoTrans, Trans, Phases, NoView, Views
<1> QED
    BY <1>1, Zenon DEF Init, TypeOK

\* The type invariant holds in every reachable state.
THEOREM TypeCorrect == Spec => []TypeOK
BY InitTypeOK, TypeOKStep, PTL DEF Spec

-----------------------------------------------------------------------------
(* The registry and the CHECKs *)

\* The registry holds exactly the server messages of a user account whose
\* content MessagesManager registered: register_video_note and
\* unregister_video_note take the same early return (Tracked) and are
\* called once per content.
RegistryMirrorsContent ==
    \A m \in Msgs : messageNotes[m] = IF Tracked(m) THEN content[m] ELSE NoFile

\* A message only ever contains a video note that is cached: video_notes_
\* never forgets an entry.
ContentCached ==
    \A m \in Msgs : content[m] # NoFile => videoNotes[content[m]] # Absent

\* A query or subscription in flight is for a cached video note whose
\* transcription_info exists: recognize_speech creates it before sending,
\* and no later step resets it to null.
AnswersExpected ==
    \A f \in FileIds :
        queries[f] + subs[f] > 0 => videoNotes[f] # Absent /\ trans[f].phase # "none"

\* The inductive invariant: the registry is consistent and no CHECK has
\* failed, together with the three facts that make each CHECK hold.
IInv ==
    /\ TypeOK
    /\ RegistryConsistent
    /\ RegistryMirrorsContent
    /\ ContentCached
    /\ AnswersExpected
    /\ NoContractViolation

\* An answer or a push for a cached video note whose transcription_info
\* exists fails no CHECK, leaves a transcription_info in place and touches
\* no other note, the cache, the registry or the messages.
LEMMA UpdateKeeps ==
    ASSUME TypeOK, NEW f \in FileIds, NEW isInitial \in BOOLEAN, NEW r \in Results,
           videoNotes[f] # Absent, trans[f].phase # "none", ~fatal,
           OnTranscribedAudioUpdate(f, isInitial, r)
    PROVE  /\ ~fatal'
           /\ trans'[f].phase # "none"
           /\ \A g \in FileIds \ {f} : trans'[g] = trans[g]
           /\ UNCHANGED <<videoNotes, noteMessages, messageNotes, content>>
<1>1. CASE closing
    BY <1>1 DEF OnTranscribedAudioUpdate
<1>2. CASE ~closing /\ r.error
    BY <1>2 DEF OnTranscribedAudioUpdate, OnFailedUpdate, OnFailedTranscription, TypeOK
<1>3. CASE ~closing /\ ~r.error /\ ~r.pending
    BY <1>3 DEF OnTranscribedAudioUpdate, OnFinalUpdate, OnFinalTranscription, TypeOK
<1>4. CASE ~closing /\ ~r.error /\ r.pending
    <2>1. trans' = [trans EXCEPT ![f] = OnPartialTranscription(trans[f], r.text)]
          /\ ~fatal' /\ UNCHANGED <<videoNotes, noteMessages, messageNotes, content>>
        BY <1>4 DEF OnTranscribedAudioUpdate, OnPartialUpdate
    <2>2. trans[f] \in Trans
        BY DEF TypeOK
    <2> QED
        BY <2>1, <2>2 DEF OnPartialTranscription, Trans, TypeOK
<1> QED
    BY <1>1, <1>2, <1>3, <1>4

\* A step that leaves the registry, the messages, the queries and the
\* subscriptions alone, forgets no cached note and keeps the
\* transcription_info of every note with an answer on the way, keeps the
\* inductive invariant.
LEMMA QuietStep ==
    ASSUME IInv, TypeOK',
           UNCHANGED <<noteMessages, messageNotes, content, fatal, queries, subs>>,
           \A g \in FileIds : videoNotes[g] # Absent => videoNotes'[g] # Absent,
           \A g \in FileIds : queries[g] + subs[g] > 0 => trans'[g].phase # "none"
    PROVE  IInv'
<1>1. RegistryConsistent' /\ RegistryMirrorsContent' /\ NoContractViolation'
    BY DEF IInv, RegistryConsistent, RegistryMirrorsContent, NoContractViolation, Tracked
<1>2. ContentCached'
    BY DEF IInv, ContentCached, TypeOK
<1>3. AnswersExpected'
    BY DEF IInv, AnswersExpected, TypeOK
<1> QED
    BY <1>1, <1>2, <1>3 DEF IInv

\* The inductive invariant is kept by every step of the manager and of its
\* callers.
LEMMA IInvStep == IInv /\ [Next]_vars => IInv'
<1> SUFFICES ASSUME IInv, [Next]_vars PROVE IInv'
    OBVIOUS
<1>0. TypeOK /\ TypeOK'
    BY TypeOKStep DEF IInv
<1> USE DEF IInv
<1>1. ASSUME NEW f \in FileIds, DeleteVideoNoteThumbnail(f) PROVE IInv'
    <2>1. videoNotes[f] \in VideoNote
        BY <1>1 DEF DeleteVideoNoteThumbnail, TypeOK
    <2>2. [videoNotes[f] EXCEPT !.thumb = NoThumb] \in VideoNote
        BY <2>1 DEF VideoNote
    <2>3. \A g \in FileIds : videoNotes[g] # Absent => videoNotes'[g] # Absent
        BY <1>1, <2>2, AbsentAssumption DEF DeleteVideoNoteThumbnail, TypeOK
    <2> QED
        BY <1>0, <1>1, <2>3, QuietStep DEF DeleteVideoNoteThumbnail, AnswersExpected
<1>2. ASSUME NEW n \in FileIds, NEW o \in FileIds, NEW t \in Thumbs,
             videoNotes[o] # Absent, videoNotes[n] = Absent, DupNote(n, o, t),
             UNCHANGED <<noteMessages, messageNotes, queries, subs, content, fatal>>
      PROVE  IInv'
    <2>1. videoNotes[o] \in VideoNote
        BY <1>2 DEF TypeOK
    <2>2. [videoNotes[o] EXCEPT !.thumb = DupFileId(videoNotes[o].thumb, t)] \in VideoNote
        BY <2>1 DEF VideoNote, DupFileId
    <2>3. \A g \in FileIds : videoNotes[g] # Absent => videoNotes'[g] # Absent
        BY <1>2, <2>2, AbsentAssumption DEF DupNote, TypeOK
    <2>4. queries[n] + subs[n] = 0
        BY <1>2 DEF AnswersExpected, TypeOK
    <2>5. \A g \in FileIds : queries[g] + subs[g] > 0 => trans'[g].phase # "none"
        BY <1>2, <2>4 DEF DupNote, AnswersExpected, TypeOK
    <2> QED
        BY <1>0, <1>2, <2>3, <2>5, QuietStep
<1>3. ASSUME NEW n \in FileIds, NEW o \in FileIds, NEW t \in Thumbs,
             MergeVideoNotes(n, o, t)
      PROVE  IInv'
    <2>1. CASE videoNotes[n] = Absent
        BY <1>2, <1>3, <2>1 DEF MergeVideoNotes
    <2>2. CASE videoNotes[n] # Absent
        <3>1. UNCHANGED <<videoNotes, trans, noteMessages, messageNotes, queries, subs,
                          content, fatal>>
            BY <1>3, <2>2 DEF MergeVideoNotes
        <3> QED
            BY <1>0, <3>1, QuietStep DEF AnswersExpected
    <2> QED
        BY <2>1, <2>2
<1>4. ASSUME NEW n \in FileIds, NEW o \in FileIds, NEW t \in Thumbs,
             DupVideoNote(n, o, t)
      PROVE  IInv'
    BY <1>2, <1>4 DEF DupVideoNote
<1>5. ASSUME NEW f \in FileIds, NEW mini \in Minis, NEW thumb \in Thumbs \cup {NoThumb},
             NEW d \in Durations, NEW dm \in Dims, NEW replace \in BOOLEAN,
             CreateVideoNote(f, mini, thumb, d, dm, replace)
      PROVE  IInv'
    <2>1. UpdateFrom(trans[f], NoTrans).info = trans[f]
        BY DEF UpdateFrom, NoTrans
    <2>2. trans' = trans
        BY <1>5, <2>1 DEF CreateVideoNote, OnGetVideoNote, TypeOK
    <2>3. NormalizedNote(mini, thumb, d, dm) \in VideoNote
        BY NormalizedType
    <2>4. \A g \in FileIds : videoNotes[g] # Absent => videoNotes'[g] # Absent
        BY <1>5, <2>3, AbsentAssumption DEF CreateVideoNote, OnGetVideoNote, TypeOK
    <2>5. UNCHANGED <<noteMessages, messageNotes, content, fatal, queries, subs>>
        BY <1>5 DEF CreateVideoNote
    <2> QED
        BY <1>0, <2>2, <2>4, <2>5, QuietStep DEF AnswersExpected
<1>6. ASSUME NEW f \in FileIds, NEW m \in Msgs, RegisterVideoNote(f, m) PROVE IInv'
    <2>1. ContentCached'
        BY <1>6 DEF RegisterVideoNote, ContentCached, TypeOK
    <2>2. AnswersExpected'
        BY <1>6 DEF RegisterVideoNote, AnswersExpected
    <2>3. CASE ~Tracked(m)
        <3>1. messageNotes[m] = NoFile
            BY <1>6 DEF RegisterVideoNote, RegistryMirrorsContent
        <3>2. UNCHANGED <<noteMessages, messageNotes, fatal>>
            BY <1>6, <2>3 DEF RegisterVideoNote
        <3>3. RegistryMirrorsContent'
            BY <1>6, <2>3, <3>2 DEF RegisterVideoNote, RegistryMirrorsContent, TypeOK
        <3> QED
            BY <2>1, <2>2, <3>2, <3>3, <1>0 DEF RegistryConsistent, NoContractViolation
    <2>4. CASE Tracked(m)
        <3>1. messageNotes[m] = NoFile
            BY <1>6, <2>4 DEF RegisterVideoNote, RegistryMirrorsContent
        <3>2. \A g \in FileIds : m \notin noteMessages[g]
            BY <3>1, ConstantsAssumption DEF RegistryConsistent, TypeOK
        <3>3. /\ noteMessages' = [noteMessages EXCEPT ![f] = @ \cup {m}]
              /\ messageNotes' = [messageNotes EXCEPT ![m] = f]
              /\ ~fatal'
            BY <1>6, <2>4, <3>1, <3>2 DEF RegisterVideoNote, Link
        <3>4. RegistryConsistent'
            BY <3>2, <3>3 DEF RegistryConsistent, TypeOK
        <3>5. RegistryMirrorsContent'
            BY <1>6, <3>3 DEF RegisterVideoNote, RegistryMirrorsContent, TypeOK
        <3> QED
            BY <1>0, <2>1, <2>2, <3>3, <3>4, <3>5 DEF NoContractViolation
    <2> QED
        BY <2>3, <2>4
<1>7. ASSUME NEW m \in Msgs, UnregisterVideoNote(m) PROVE IInv'
    <2> DEFINE f == content[m]
    <2>1. f \in FileIds /\ content' = [content EXCEPT ![m] = NoFile]
        BY <1>7 DEF UnregisterVideoNote, TypeOK
    <2>2. ContentCached'
        BY <1>7, <2>1 DEF UnregisterVideoNote, ContentCached, TypeOK
    <2>3. AnswersExpected'
        BY <1>7 DEF UnregisterVideoNote, AnswersExpected
    <2>4. CASE ~Tracked(m)
        <3>1. UNCHANGED <<noteMessages, messageNotes, fatal>>
            BY <1>7, <2>4 DEF UnregisterVideoNote
        <3>2. RegistryMirrorsContent'
            BY <2>1, <2>4, <3>1 DEF RegistryMirrorsContent, TypeOK
        <3> QED
            BY <2>2, <2>3, <3>1, <3>2, <1>0 DEF RegistryConsistent, NoContractViolation
    <2>5. CASE Tracked(m)
        <3>1. messageNotes[m] = f /\ m \in noteMessages[f]
            BY <2>1, <2>5 DEF RegistryMirrorsContent, RegistryConsistent
        <3>2. /\ noteMessages' = [noteMessages EXCEPT ![f] = @ \ {m}]
              /\ messageNotes' = [messageNotes EXCEPT ![m] = NoFile]
              /\ ~fatal'
            BY <1>7, <2>5, <3>1 DEF UnregisterVideoNote, Unlink
        <3>3. RegistryConsistent'
            BY <2>1, <3>1, <3>2, ConstantsAssumption DEF RegistryConsistent, TypeOK
        <3>4. RegistryMirrorsContent'
            BY <2>1, <3>2 DEF RegistryMirrorsContent, TypeOK
        <3> QED
            BY <1>0, <2>2, <2>3, <3>2, <3>3, <3>4 DEF NoContractViolation
    <2> QED
        BY <2>4, <2>5
<1>8. ASSUME NEW m \in Msgs, NEW p \in Promises, RecognizeSpeech(m, p) PROVE IInv'
    <2> DEFINE f == messageNotes[m]
    <2>1. Tracked(m) /\ content[m] # NoFile
        BY <1>8 DEF RecognizeSpeech, Tracked
    <2>2. f = content[m] /\ f \in FileIds /\ videoNotes[f] # Absent /\ f # NoFile
        BY <2>1, ConstantsAssumption DEF RegistryMirrorsContent, ContentCached, TypeOK
    <2>3. UNCHANGED <<videoNotes, noteMessages, messageNotes, subs, content, fatal>>
        BY <1>8, <2>1, <2>2 DEF RecognizeSpeech
    <2>4. /\ trans'[f].phase # "none"
          /\ \A g \in FileIds \ {f} : trans'[g] = trans[g] /\ queries'[g] = queries[g]
        <3>1. CASE trans[f].phase = "final"
            BY <1>8, <2>2, <3>1 DEF RecognizeSpeech
        <3>2. CASE trans[f].phase \in {"none", "failed"}
            <4>1. /\ trans' = [trans EXCEPT ![f] = [phase |-> "requested", text |-> EmptyText,
                                                   waiters |-> {p}]]
                  /\ queries' = [queries EXCEPT ![f] = @ + 1]
                BY <1>8, <2>2, <3>2, Zenon DEF RecognizeSpeech
            <4> QED
                BY <2>2, <4>1 DEF TypeOK
        <3>3. CASE trans[f].phase \in {"requested", "partial"}
            <4>1. /\ trans' = [trans EXCEPT ![f].waiters = @ \cup {p}]
                  /\ queries' = queries
                BY <1>8, <2>2, <3>3, Zenon DEF RecognizeSpeech
            <4>2. trans'[f].phase = trans[f].phase
                BY <2>2, <4>1 DEF TypeOK, Trans
            <4> QED
                BY <2>2, <3>3, <4>1, <4>2 DEF TypeOK
        <3> QED
            BY <2>2, <3>1, <3>2, <3>3, Zenon DEF TypeOK, Trans, Phases
    <2>5. AnswersExpected'
        <3> SUFFICES ASSUME NEW g \in FileIds, queries'[g] + subs'[g] > 0
                     PROVE  videoNotes'[g] # Absent /\ trans'[g].phase # "none"
            BY DEF AnswersExpected
        <3>1. CASE g = f
            BY <2>2, <2>3, <2>4, <3>1
        <3>2. CASE g # f
            BY <2>3, <2>4, <3>2 DEF AnswersExpected
        <3> QED
            BY <3>1, <3>2
    <2> QED
        BY <1>0, <2>3, <2>5
        DEF RegistryConsistent, RegistryMirrorsContent, ContentCached, NoContractViolation
<1>9. ASSUME NEW f \in FileIds, NEW isInitial \in BOOLEAN, NEW r \in Results,
             ~fatal, queries[f] + subs[f] > 0,
             OnTranscribedAudioUpdate(f, isInitial, r),
             \A g \in FileIds \ {f} : queries'[g] = queries[g] /\ subs'[g] = subs[g]
      PROVE  IInv'
    <2>1. videoNotes[f] # Absent /\ trans[f].phase # "none"
        BY <1>9 DEF AnswersExpected
    <2>2. /\ ~fatal'
          /\ trans'[f].phase # "none"
          /\ \A g \in FileIds \ {f} : trans'[g] = trans[g]
          /\ UNCHANGED <<videoNotes, noteMessages, messageNotes, content>>
        BY <1>9, <2>1, UpdateKeeps
    <2>3. AnswersExpected'
        BY <1>9, <2>1, <2>2 DEF AnswersExpected, TypeOK
    <2> QED
        BY <1>0, <2>2, <2>3
        DEF RegistryConsistent, RegistryMirrorsContent, ContentCached, NoContractViolation
<1>10. ASSUME NEW f \in FileIds, NEW r \in Results, TranscribeAudioAnswer(f, r) PROVE IInv'
    <2>1. OnTranscribedAudioUpdate(f, TRUE, r)
        BY <1>10, Zenon DEF TranscribeAudioAnswer
    <2>2. /\ ~fatal /\ queries[f] + subs[f] > 0
          /\ \A g \in FileIds \ {f} : queries'[g] = queries[g] /\ subs'[g] = subs[g]
        BY <1>10 DEF TranscribeAudioAnswer, TypeOK, Subscribe
    <2> QED
        BY <2>1, <2>2, <1>9, Zenon
<1>11. ASSUME NEW f \in FileIds, NEW r \in Results, TranscribedAudioPush(f, r) PROVE IInv'
    <2>1. OnTranscribedAudioUpdate(f, FALSE, r)
        BY <1>11, Zenon DEF TranscribedAudioPush
    <2>2. /\ ~fatal /\ queries[f] + subs[f] > 0
          /\ \A g \in FileIds \ {f} : queries'[g] = queries[g] /\ subs'[g] = subs[g]
        BY <1>11 DEF TranscribedAudioPush, TypeOK, Subscribe
    <2> QED
        BY <2>1, <2>2, <1>9, Zenon
<1>12. ASSUME NEW m \in Msgs, NEW p \in Promises, RateSpeechRecognition(m, p) PROVE IInv'
    <2>1. messageNotes[m] # NoFile
        BY <1>12, Zenon DEF RateSpeechRecognition, RegistryMirrorsContent, Tracked
    <2>2. UNCHANGED <<videoNotes, trans, noteMessages, messageNotes, content, fatal,
                      queries, subs>>
        BY <1>12, <2>1 DEF RateSpeechRecognition
    <2> QED
        BY <1>0, <2>2, QuietStep, Zenon DEF AnswersExpected
<1>13. ASSUME NEW p \in Promises, NEW o \in {"ok", "error"}, RateAnswer(p, o) PROVE IInv'
    BY <1>0, <1>13, QuietStep, Zenon DEF RateAnswer, AnswersExpected
<1>14. CASE Close
    BY <1>0, <1>14, QuietStep DEF Close, AnswersExpected
<1>15. CASE UNCHANGED vars
    BY <1>0, <1>15, QuietStep DEF vars, AnswersExpected
<1> QED
    BY <1>1, <1>3, <1>4, <1>5, <1>6, <1>7, <1>8, <1>10, <1>11, <1>12, <1>13,
       <1>14, <1>15 DEF Next

\* The initial state, with an empty cache and registry, satisfies the
\* inductive invariant.
LEMMA InitIInv == Init => IInv
<1> SUFFICES ASSUME Init PROVE IInv
    OBVIOUS
<1>1. TypeOK
    BY InitTypeOK
<1> QED
    BY <1>1, ConstantsAssumption
    DEF Init, IInv, RegistryConsistent, RegistryMirrorsContent, ContentCached,
        AnswersExpected, NoContractViolation

\* The registry's two maps stay each other's inverse, and no CHECK of the
\* manager ever fails, in every reachable state and for all sets of notes,
\* messages, promises and thumbnails, when the MessagesManager registers and
\* unregisters each message content once.
THEOREM RegistryAndChecks == Spec => []IInv
BY InitIInv, IInvStep, PTL DEF Spec

\* register_video_note and unregister_video_note keep video_note_messages_
\* and message_video_notes_ each other's inverse in every reachable state.
THEOREM RegistryConsistentHolds == Spec => []RegistryConsistent
BY RegistryAndChecks, PTL DEF IInv

\* No CHECK of register_video_note, unregister_video_note, recognize_speech,
\* rate_speech_recognition or on_transcribed_audio_update ever fails.
THEOREM NoCheckFails == Spec => []NoContractViolation
BY RegistryAndChecks, PTL DEF IInv
-----------------------------------------------------------------------------
(* Thumbnails *)

\* Every thumbnail file id held by a cached note was minted by the
\* FileManager: create_video_note takes one the FileManager handed out, and
\* dup_video_note one that FileManager::dup_file_id has just made.
ThumbsMinted ==
    \A f \in FileIds : videoNotes[f] # Absent /\ videoNotes[f].thumb # NoThumb
                       => videoNotes[f].thumb \in usedThumbs

\* The inductive invariant of ThumbsNotAliased: a fresh thumbnail file id is
\* one no cached note holds, because every one they hold was minted.
ThumbsInv == ThumbsMinted /\ ThumbsNotAliased

\* Writing note v for file f keeps the thumbnails apart when v's thumbnail
\* is either invalid or minted by this very step.
LEMMA ThumbWrite ==
    ASSUME TypeOK, ThumbsInv, NEW f \in FileIds, NEW v \in VideoNote,
           videoNotes' = [videoNotes EXCEPT ![f] = v],
           usedThumbs \subseteq usedThumbs',
           v.thumb = NoThumb \/ (v.thumb \notin usedThumbs /\ v.thumb \in usedThumbs')
    PROVE  ThumbsInv'
<1>1. ThumbsMinted'
    BY AbsentAssumption DEF ThumbsInv, ThumbsMinted, TypeOK
<1>2. ThumbsNotAliased'
    <2> SUFFICES ASSUME NEW g \in FileIds, NEW h \in FileIds, g # h,
                        videoNotes'[g] # Absent, videoNotes'[h] # Absent,
                        videoNotes'[g].thumb # NoThumb
                 PROVE  videoNotes'[g].thumb # videoNotes'[h].thumb
        BY DEF ThumbsNotAliased
    <2>1. CASE g = f
        BY <2>1 DEF ThumbsInv, ThumbsMinted, TypeOK
    <2>2. CASE h = f
        BY <2>2 DEF ThumbsInv, ThumbsMinted, TypeOK
    <2>3. CASE g # f /\ h # f
        BY <2>3 DEF ThumbsInv, ThumbsNotAliased, TypeOK
    <2> QED
        BY <2>1, <2>2, <2>3
<1> QED
    BY <1>1, <1>2 DEF ThumbsInv

\* A step that leaves the cache alone and forgets no minted id keeps the
\* thumbnails apart.
LEMMA ThumbKeep ==
    ASSUME ThumbsInv, UNCHANGED videoNotes, usedThumbs \subseteq usedThumbs'
    PROVE  ThumbsInv'
BY DEF ThumbsInv, ThumbsMinted, ThumbsNotAliased

\* dup_video_note's copy, with the thumbnail FileManager::dup_file_id gives
\* it, is a note whose thumbnail is invalid or freshly minted.
LEMMA DupThumb ==
    ASSUME TypeOK, NEW n \in FileIds, NEW o \in FileIds, NEW t \in Thumbs,
           videoNotes[o] # Absent, DupNote(n, o, t)
    PROVE  LET v == [videoNotes[o] EXCEPT !.thumb = DupFileId(videoNotes[o].thumb, t)]
           IN  /\ v \in VideoNote
               /\ videoNotes' = [videoNotes EXCEPT ![n] = v]
               /\ usedThumbs \subseteq usedThumbs'
               /\ v.thumb = NoThumb \/ (v.thumb \notin usedThumbs /\ v.thumb \in usedThumbs')
<1> DEFINE th == videoNotes[o].thumb
           v == [videoNotes[o] EXCEPT !.thumb = DupFileId(th, t)]
<1>1. videoNotes[o] \in VideoNote
    BY DEF TypeOK
<1>2. DupFileId(th, t) \in Thumbs \cup {NoThumb}
    BY DEF DupFileId
<1>3. v \in VideoNote
    BY <1>1, <1>2 DEF VideoNote
<1>4. videoNotes' = [videoNotes EXCEPT ![n] = v]
    BY DEF DupNote
<1>5. usedThumbs \subseteq usedThumbs'
    BY DEF DupNote, FreshThumb
<1>6. v.thumb = DupFileId(th, t)
    BY <1>1 DEF VideoNote
<1>7. v.thumb = NoThumb \/ (v.thumb \notin usedThumbs /\ v.thumb \in usedThumbs')
    <2>1. CASE th = NoThumb
        BY <1>6, <2>1 DEF DupFileId
    <2>2. CASE th # NoThumb
        <3>1. t \in Thumbs \ usedThumbs /\ usedThumbs' = usedThumbs \cup {t}
            BY <2>2 DEF DupNote, FreshThumb
        <3> QED
            BY <1>6, <2>2, <3>1 DEF DupFileId
    <2> QED
        BY <2>1, <2>2
<1> QED
    BY <1>3, <1>4, <1>5, <1>7

\* Every step keeps the thumbnails of the cached notes apart.
LEMMA ThumbsStep == TypeOK /\ ThumbsInv /\ [Next]_vars => ThumbsInv'
<1> SUFFICES ASSUME TypeOK, ThumbsInv, [Next]_vars PROVE ThumbsInv'
    OBVIOUS
<1>1. ASSUME NEW f \in FileIds, DeleteVideoNoteThumbnail(f) PROVE ThumbsInv'
    <2> DEFINE v == [videoNotes[f] EXCEPT !.thumb = NoThumb]
    <2>1. v \in VideoNote /\ v.thumb = NoThumb
        BY <1>1 DEF DeleteVideoNoteThumbnail, TypeOK, VideoNote
    <2>2. videoNotes' = [videoNotes EXCEPT ![f] = v]
        BY <1>1 DEF DeleteVideoNoteThumbnail
    <2>3. usedThumbs \subseteq usedThumbs'
        BY <1>1 DEF DeleteVideoNoteThumbnail
    <2> QED
        BY <2>1, <2>2, <2>3, ThumbWrite, Zenon
<1>2. ASSUME NEW n \in FileIds, NEW o \in FileIds, NEW t \in Thumbs,
             MergeVideoNotes(n, o, t)
      PROVE  ThumbsInv'
    <2>1. CASE videoNotes[n] = Absent
        <3>1. DupNote(n, o, t) /\ videoNotes[o] # Absent
            BY <1>2, <2>1 DEF MergeVideoNotes
        <3> QED
            BY <3>1, DupThumb, ThumbWrite, Zenon
    <2>2. CASE videoNotes[n] # Absent
        BY <1>2, <2>2, ThumbKeep DEF MergeVideoNotes
    <2> QED
        BY <2>1, <2>2
<1>3. ASSUME NEW n \in FileIds, NEW o \in FileIds, NEW t \in Thumbs,
             DupVideoNote(n, o, t)
      PROVE  ThumbsInv'
    <2>1. DupNote(n, o, t) /\ videoNotes[o] # Absent
        BY <1>3 DEF DupVideoNote
    <2> QED
        BY <2>1, DupThumb, ThumbWrite, Zenon
<1>4. ASSUME NEW f \in FileIds, NEW mini \in Minis, NEW thumb \in Thumbs \cup {NoThumb},
             NEW d \in Durations, NEW dm \in Dims, NEW replace \in BOOLEAN,
             CreateVideoNote(f, mini, thumb, d, dm, replace)
      PROVE  ThumbsInv'
    <2> DEFINE new == NormalizedNote(mini, thumb, d, dm)
    <2>1. new \in VideoNote /\ new.thumb = thumb
        BY NormalizedType DEF NormalizedNote
    <2>2. /\ usedThumbs \subseteq usedThumbs'
          /\ thumb = NoThumb \/ (thumb \notin usedThumbs /\ thumb \in usedThumbs')
        BY <1>4 DEF CreateVideoNote
    <2>3. CASE videoNotes[f] = Absent \/ replace
        <3>1. videoNotes' = [videoNotes EXCEPT ![f] = new]
            BY <1>4, <2>3 DEF CreateVideoNote, OnGetVideoNote
        <3> QED
            BY <2>1, <2>2, <3>1, ThumbWrite, Zenon
    <2>4. CASE ~(videoNotes[f] = Absent \/ replace)
        BY <1>4, <2>2, <2>4, ThumbKeep DEF CreateVideoNote, OnGetVideoNote
    <2> QED
        BY <2>3, <2>4
<1>5. ASSUME NEW f \in FileIds, NEW r \in Results, TranscribeAudioAnswer(f, r) PROVE ThumbsInv'
    BY <1>5, UpdateType, ThumbKeep, Zenon DEF TranscribeAudioAnswer
<1>6. ASSUME NEW f \in FileIds, NEW r \in Results, TranscribedAudioPush(f, r) PROVE ThumbsInv'
    BY <1>6, UpdateType, ThumbKeep, Zenon DEF TranscribedAudioPush
<1>7. CASE \/ \E f \in FileIds, m \in Msgs : RegisterVideoNote(f, m)
           \/ \E m \in Msgs : UnregisterVideoNote(m)
           \/ \E m \in Msgs, p \in Promises : RecognizeSpeech(m, p)
           \/ \E m \in Msgs, p \in Promises : RateSpeechRecognition(m, p)
           \/ \E p \in Promises, outcome \in {"ok", "error"} : RateAnswer(p, outcome)
           \/ Close
           \/ UNCHANGED vars
    <2>1. UNCHANGED <<videoNotes, usedThumbs>>
        BY <1>7, Zenon DEF RegisterVideoNote, UnregisterVideoNote, RecognizeSpeech, Crash,
                    RateSpeechRecognition, RateAnswer, Close, vars
    <2> QED
        BY <2>1, ThumbKeep
<1> QED
    BY <1>1, <1>2, <1>3, <1>4, <1>5, <1>6, <1>7 DEF Next

\* Two cached video notes never share a thumbnail file id, for every set of
\* notes and thumbnails: create_video_note takes an id the FileManager has
\* not handed out before, dup_video_note gives the copy one made by
\* FileManager::dup_file_id, and merge_video_notes copies only through
\* dup_video_note (ThumbsNotAliased).
THEOREM ThumbsNotAliasedHolds == Spec => []ThumbsNotAliased
<1>1. Init => ThumbsInv
    BY DEF Init, ThumbsInv, ThumbsMinted, ThumbsNotAliased
<1>2. TypeOK /\ ThumbsInv /\ [Next]_vars => (TypeOK /\ ThumbsInv)'
    BY ThumbsStep, TypeOKStep
<1>3. Spec => [](TypeOK /\ ThumbsInv)
    BY <1>1, <1>2, InitTypeOK, PTL DEF Spec
<1> QED
    BY <1>3, PTL DEF ThumbsInv
=============
