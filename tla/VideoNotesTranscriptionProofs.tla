--------------------- MODULE VideoNotesTranscriptionProofs ---------------------
(***************************************************************************)
(* Proofs about the speech recognition flow of the VideoNotesManager      *)
(* model, for every set of notes, messages, promises and texts: until     *)
(* closing, exactly one answer is on the way for a transcription that has *)
(* waiters (InFlightExactlyOne); the messages registered for a note show  *)
(* its current result (ViewsFresh); no promise is set twice               *)
(* (ResolvedOnce).  Each rests on the registry invariant IInv of          *)
(* VideoNotesProofs.                                                       *)
(***************************************************************************)
EXTENDS VideoNotesProofs

-----------------------------------------------------------------------------
(* Queries and subscriptions in flight *)

\* Only a transcription in progress has waiters: on_final_transcription and
\* on_failed_transcription hand them all back, copy_if_transcribed copies
\* none, and a null transcription_info has none.
WaitersPending ==
    \A f \in FileIds :
        trans[f].waiters # {} => trans[f].phase \in {"requested", "partial"}

\* Until closing, a transcription in progress has a waiter: it is created by
\* recognize_speech with its caller as waiter, and a partial text arrives
\* only on the answer or the subscription of such a transcription.
PendingWaited ==
    ~closing =>
        \A f \in FileIds :
            trans[f].phase \in {"requested", "partial"} => trans[f].waiters # {}

\* The inductive invariant of InFlightExactlyOne.
FlightInv == WaitersPending /\ PendingWaited /\ InFlightExactlyOne

\* An error result is never pending, and every result carries a text.
LEMMA ResultShape ==
    ASSUME NEW r \in Results
    PROVE  /\ r.error \in BOOLEAN /\ r.pending \in BOOLEAN
           /\ r.error => ~r.pending
           /\ r.text \in Texts
<1>1. CASE r = [error |-> TRUE, pending |-> FALSE, text |-> EmptyText]
    BY <1>1, ConstantsAssumption
<1>2. CASE r \in [error : {FALSE}, pending : BOOLEAN, text : Texts]
    BY <1>2, Zenon
<1> QED
    BY <1>1, <1>2, Zenon DEF Results

\* A step that changes no transcription, no query count, no subscription and
\* not the close flag keeps the in-flight accounting.
LEMMA FlightQuiet ==
    ASSUME FlightInv, UNCHANGED <<trans, queries, subs, closing>>
    PROVE  FlightInv'
BY DEF FlightInv, WaitersPending, PendingWaited, InFlightExactlyOne

\* Until closing, an answer or a push for file f, while one is on the way,
\* ends the wait with an error or a final text, or stores a partial text
\* and leaves exactly one answer on the way (the subscription opened by a
\* pending answer, or the subscription that pushed it).
LEMMA UpdateFlight ==
    ASSUME IInv, FlightInv, NEW f \in FileIds, NEW isInitial \in BOOLEAN,
           NEW r \in Results, ~closing, queries[f] + subs[f] > 0,
           OnTranscribedAudioUpdate(f, isInitial, r),
           queries'[f] + subs'[f] = IF r.pending THEN 1 ELSE 0,
           \A g \in FileIds \ {f} : queries'[g] = queries[g] /\ subs'[g] = subs[g],
           queries' \in [FileIds -> Nat], subs' \in [FileIds -> Nat]
    PROVE  FlightInv'
<1>1. /\ videoNotes[f] # Absent
      /\ trans[f] \in Trans
      /\ trans[f].waiters # {}
      /\ trans[f].phase \in {"requested", "partial"}
    BY DEF IInv, AnswersExpected, FlightInv, InFlightExactlyOne, WaitersPending, TypeOK
<1>2. /\ r.error => ~r.pending
      /\ r.text \in Texts
      /\ closing' = closing
      /\ \A g \in FileIds \ {f} : trans'[g] = trans[g]
    <2>1. ~fatal /\ TypeOK
        BY DEF IInv, NoContractViolation
    <2> QED
        BY <1>1, <2>1, ResultShape, UpdateKeeps, Zenon DEF OnTranscribedAudioUpdate
<1>3. /\ trans'[f].phase \in {"requested", "partial"} <=> trans'[f].waiters # {}
      /\ trans'[f].waiters = {} <=> ~r.pending
    <2>0. trans \in [FileIds -> Trans] /\ ~(videoNotes[f] = Absent \/ trans[f].phase = "none")
        BY <1>1 DEF IInv, TypeOK
    <2>1. CASE r.error
        <3>1. OnFailedUpdate(f)
            BY <2>0, <2>1, Zenon DEF OnTranscribedAudioUpdate
        <3> QED
            BY <1>2, <2>0, <2>1, <3>1 DEF OnFailedUpdate, OnFailedTranscription
    <2>2. CASE ~r.error /\ ~r.pending
        <3>1. OnFinalUpdate(f, r.text)
            BY <2>0, <2>2, Zenon DEF OnTranscribedAudioUpdate
        <3> QED
            BY <2>0, <2>2, <3>1 DEF OnFinalUpdate, OnFinalTranscription
    <2>3. CASE ~r.error /\ r.pending
        <3>1. OnPartialUpdate(f, r.text)
            BY <2>0, <2>3, Zenon DEF OnTranscribedAudioUpdate
        <3>2. trans' = [trans EXCEPT ![f] = OnPartialTranscription(trans[f], r.text)]
            BY <3>1 DEF OnPartialUpdate
        <3> QED
            BY <1>1, <2>0, <2>3, <3>2 DEF OnPartialTranscription, Trans
    <2> QED
        BY <2>1, <2>2, <2>3, <1>2, ResultShape
<1>4. WaitersPending'
    BY <1>2, <1>3 DEF FlightInv, WaitersPending
<1>5. PendingWaited'
    BY <1>2, <1>3 DEF FlightInv, PendingWaited
<1>6. InFlightExactlyOne'
    BY <1>2, <1>3 DEF FlightInv, InFlightExactlyOne
<1> QED
    BY <1>4, <1>5, <1>6 DEF FlightInv

-----------------------------------------------------------------------------
\* Until closing, a query or a subscription is on the way for file f exactly
\* when its transcription has waiters, and then only one.
LEMMA FlightCount ==
    ASSUME IInv, FlightInv, ~closing, NEW f \in FileIds
    PROVE  /\ queries[f] + subs[f] \in {0, 1}
           /\ queries[f] + subs[f] = 0 <=> trans[f].waiters = {}
BY DEF FlightInv, InFlightExactlyOne, IInv, TypeOK

\* The answer to the TranscribeAudio query or a push on the subscription,
\* until closing: the count of answers on the way is 1 after a pending
\* result (a subscription is opened on a pending answer) and 0 after a
\* final text or an error.
LEMMA AnswerCounts ==
    ASSUME IInv, FlightInv, ~closing, NEW f \in FileIds, NEW r \in Results,
           TranscribeAudioAnswer(f, r) \/ TranscribedAudioPush(f, r)
    PROVE  /\ queries[f] + subs[f] > 0
           /\ queries'[f] + subs'[f] = IF r.pending THEN 1 ELSE 0
           /\ \A g \in FileIds \ {f} : queries'[g] = queries[g] /\ subs'[g] = subs[g]
           /\ queries' \in [FileIds -> Nat] /\ subs' \in [FileIds -> Nat]
<1>1. queries[f] + subs[f] = 1
    <2>1. queries[f] + subs[f] > 0
        <3>1. queries[f] \in Nat /\ subs[f] \in Nat
            BY DEF IInv, TypeOK
        <3>2. queries[f] > 0 \/ subs[f] > 0
            BY Zenon DEF TranscribeAudioAnswer, TranscribedAudioPush
        <3> QED
            BY <3>1, <3>2
    <2> QED
        BY <2>1, FlightCount
<1>2. /\ videoNotes[f] # Absent /\ trans[f].phase # "none"
      /\ r.error => ~r.pending
      /\ r.error \in BOOLEAN /\ r.pending \in BOOLEAN
    BY <1>1, ResultShape DEF IInv, AnswersExpected
<1>3. /\ Subscribe(f, TRUE, r) = IF r.pending THEN 1 ELSE 0
      /\ Subscribe(f, FALSE, r) = 0
    BY <1>2 DEF Subscribe
<1>0. queries \in [FileIds -> Nat] /\ subs \in [FileIds -> Nat]
    BY DEF IInv, TypeOK
<1>4. CASE TranscribeAudioAnswer(f, r)
    <2>1. /\ queries[f] > 0
          /\ queries' = [queries EXCEPT ![f] = @ - 1]
        BY <1>4 DEF TranscribeAudioAnswer
    <2>2. subs' = [subs EXCEPT ![f] = @ + (IF r.pending THEN 1 ELSE 0)]
        <3>1. subs' = [subs EXCEPT ![f] = @ + Subscribe(f, TRUE, r)]
            BY <1>4 DEF TranscribeAudioAnswer
        <3> QED
            BY <1>3, <3>1, Zenon
    <2> QED
        BY <1>0, <1>1, <1>2, <2>1, <2>2
<1>5. CASE TranscribedAudioPush(f, r)
    <2>1. /\ subs[f] > 0
          /\ queries' = queries
        BY <1>5 DEF TranscribedAudioPush
    <2>2. subs' = [subs EXCEPT ![f] = (IF r.pending THEN @ ELSE @ - 1) + 0]
        <3>1. subs' = [subs EXCEPT ![f] = (IF r.pending THEN @ ELSE @ - 1)
                                         + Subscribe(f, FALSE, r)]
            BY <1>5 DEF TranscribedAudioPush
        <3> QED
            BY <1>3, <3>1, Zenon
    <2> QED
        BY <1>0, <1>1, <1>2, <2>1, <2>2
<1> QED
    BY <1>1, <1>4, <1>5

\* An answer or a push once closing changes no transcription: it is
\* ignored, and only the query and subscription counts move.
LEMMA ClosingUpdate ==
    ASSUME FlightInv, closing, NEW f \in FileIds, NEW isInitial \in BOOLEAN,
           NEW r \in Results, OnTranscribedAudioUpdate(f, isInitial, r)
    PROVE  FlightInv'
<1>1. UNCHANGED <<trans, closing>>
    BY DEF OnTranscribedAudioUpdate
<1> QED
    BY <1>1 DEF FlightInv, WaitersPending, PendingWaited, InFlightExactlyOne

\* dup_video_note gives the new note only a final transcription, without
\* waiters, and the new note has nothing on the way.
LEMMA DupFlight ==
    ASSUME IInv, FlightInv, NEW n \in FileIds, NEW o \in FileIds, NEW t \in Thumbs,
           videoNotes[n] = Absent, DupNote(n, o, t),
           UNCHANGED <<queries, subs, closing>>
    PROVE  FlightInv'
<1>1. queries[n] + subs[n] = 0
    BY DEF IInv, AnswersExpected, TypeOK
<1>2. /\ trans' = [trans EXCEPT ![n] = CopyIfTranscribed(trans[o])]
      /\ trans'[n].waiters = {} /\ trans'[n].phase \in {"final", "none"}
    BY DEF DupNote, CopyIfTranscribed, NoTrans, IInv, TypeOK
<1> QED
    BY <1>1, <1>2 DEF FlightInv, WaitersPending, PendingWaited, InFlightExactlyOne

\* recognize_speech sends the query only for a transcription without
\* waiters, and otherwise adds its caller to those of the transcription in
\* progress, whose answer is already on the way.
LEMMA RecognizeFlight ==
    ASSUME IInv, FlightInv, NEW m \in Msgs, NEW p \in Promises, RecognizeSpeech(m, p)
    PROVE  FlightInv'
<1> DEFINE f == messageNotes[m]
<1>1. /\ Tracked(m) /\ content[m] # NoFile
      /\ f \in FileIds /\ f # NoFile
      /\ trans[f] \in Trans /\ trans \in [FileIds -> Trans]
      /\ queries \in [FileIds -> Nat] /\ subs \in [FileIds -> Nat]
    <2>1. Tracked(m) /\ content[m] # NoFile
        BY DEF RecognizeSpeech, Tracked
    <2> QED
        BY <2>1, ConstantsAssumption DEF IInv, RegistryMirrorsContent, TypeOK
<1>2. UNCHANGED <<subs, closing>>
    BY <1>1 DEF RecognizeSpeech
<1>3. CASE trans[f].phase = "final"
    <2>1. UNCHANGED <<trans, queries>>
        BY <1>1, <1>3 DEF RecognizeSpeech
    <2> QED
        BY <1>2, <2>1, FlightQuiet
<1>4. CASE trans[f].phase \in {"none", "failed"}
    <2>1. /\ trans' = [trans EXCEPT ![f] = [phase |-> "requested", text |-> EmptyText,
                                           waiters |-> {p}]]
          /\ queries' = [queries EXCEPT ![f] = @ + 1]
        BY <1>1, <1>4, Zenon DEF RecognizeSpeech
    <2>2. trans[f].waiters = {}
        BY <1>1, <1>4 DEF FlightInv, WaitersPending
    <2>3. ~closing => queries[f] + subs[f] = 0
        BY <1>1, <2>2 DEF FlightInv, InFlightExactlyOne
    <2>4. WaitersPending'
        BY <1>1, <2>1 DEF FlightInv, WaitersPending
    <2>5. PendingWaited'
        BY <1>1, <1>2, <2>1 DEF FlightInv, PendingWaited
    <2>6. InFlightExactlyOne'
        <3> SUFFICES ASSUME ~closing', NEW g \in FileIds
                     PROVE  queries'[g] + subs'[g] = IF trans'[g].waiters = {} THEN 0 ELSE 1
            BY DEF InFlightExactlyOne
        <3>1. CASE g = f
            <4>1. trans'[g].waiters = {p} /\ queries'[g] = queries[g] + 1
                BY <1>1, <2>1, <3>1
            <4>2. queries[g] + subs[g] = 0
                BY <1>2, <2>3, <3>1
            <4> QED
                BY <1>1, <1>2, <4>1, <4>2
        <3>2. CASE g # f
            <4>1. trans'[g] = trans[g] /\ queries'[g] = queries[g]
                BY <1>1, <2>1, <3>2
            <4> QED
                BY <1>2, <4>1 DEF FlightInv, InFlightExactlyOne
        <3> QED
            BY <3>1, <3>2
    <2> QED
        BY <2>4, <2>5, <2>6 DEF FlightInv
<1>5. CASE trans[f].phase \in {"requested", "partial"}
    <2>1. /\ trans' = [trans EXCEPT ![f].waiters = @ \cup {p}]
          /\ queries' = queries
        BY <1>1, <1>5, Zenon DEF RecognizeSpeech
    <2>2. /\ trans'[f].phase = trans[f].phase
          /\ trans'[f].waiters = trans[f].waiters \cup {p}
          /\ \A g \in FileIds \ {f} : trans'[g] = trans[g]
        BY <1>1, <2>1 DEF Trans
    <2>3. ~closing => trans[f].waiters # {}
        BY <1>1, <1>5 DEF FlightInv, PendingWaited
    <2>4. WaitersPending'
        BY <1>1, <1>5, <2>2 DEF FlightInv, WaitersPending
    <2>5. PendingWaited'
        BY <1>1, <1>2, <2>2 DEF FlightInv, PendingWaited
    <2>6. InFlightExactlyOne'
        BY <1>1, <1>2, <2>1, <2>2, <2>3 DEF FlightInv, InFlightExactlyOne
    <2> QED
        BY <2>4, <2>5, <2>6 DEF FlightInv
<1> QED
    BY <1>1, <1>3, <1>4, <1>5 DEF Trans, Phases

\* Every step keeps the in-flight accounting.
LEMMA FlightStep == IInv /\ FlightInv /\ [Next]_vars => FlightInv'
<1> SUFFICES ASSUME IInv, FlightInv, [Next]_vars PROVE FlightInv'
    OBVIOUS
<1>1. ASSUME NEW n \in FileIds, NEW o \in FileIds, NEW t \in Thumbs,
             MergeVideoNotes(n, o, t)
      PROVE  FlightInv'
    <2>1. CASE videoNotes[n] = Absent
        BY <1>1, <2>1, DupFlight DEF MergeVideoNotes
    <2>2. CASE videoNotes[n] # Absent
        BY <1>1, <2>2, FlightQuiet DEF MergeVideoNotes
    <2> QED
        BY <2>1, <2>2
<1>2. ASSUME NEW n \in FileIds, NEW o \in FileIds, NEW t \in Thumbs,
             DupVideoNote(n, o, t)
      PROVE  FlightInv'
    BY <1>2, DupFlight DEF DupVideoNote
<1>3. ASSUME NEW f \in FileIds, NEW mini \in Minis, NEW thumb \in Thumbs \cup {NoThumb},
             NEW d \in Durations, NEW dm \in Dims, NEW replace \in BOOLEAN,
             CreateVideoNote(f, mini, thumb, d, dm, replace)
      PROVE  FlightInv'
    <2>1. UpdateFrom(trans[f], NoTrans).info = trans[f]
        BY DEF UpdateFrom, NoTrans
    <2>2. trans' = trans
        BY <1>3, <2>1 DEF CreateVideoNote, OnGetVideoNote, IInv, TypeOK
    <2> QED
        BY <1>3, <2>2, FlightQuiet DEF CreateVideoNote
<1>4. ASSUME NEW m \in Msgs, NEW p \in Promises, RecognizeSpeech(m, p) PROVE FlightInv'
    BY <1>4, RecognizeFlight
<1>5. ASSUME NEW f \in FileIds, NEW r \in Results,
             TranscribeAudioAnswer(f, r) \/ TranscribedAudioPush(f, r)
      PROVE  FlightInv'
    <2>1. \E isInitial \in BOOLEAN : OnTranscribedAudioUpdate(f, isInitial, r)
        BY <1>5, Zenon DEF TranscribeAudioAnswer, TranscribedAudioPush
    <2>2. CASE closing
        BY <2>1, <2>2, ClosingUpdate
    <2>3. CASE ~closing
        BY <1>5, <2>1, <2>3, AnswerCounts, UpdateFlight
    <2> QED
        BY <2>2, <2>3
<1>6. CASE Close
    BY <1>6 DEF Close, FlightInv, WaitersPending, PendingWaited, InFlightExactlyOne
<1>7. CASE \/ \E f \in FileIds : DeleteVideoNoteThumbnail(f)
           \/ \E f \in FileIds, m \in Msgs : RegisterVideoNote(f, m)
           \/ \E m \in Msgs : UnregisterVideoNote(m)
           \/ \E m \in Msgs, p \in Promises : RateSpeechRecognition(m, p)
           \/ \E p \in Promises, outcome \in {"ok", "error"} : RateAnswer(p, outcome)
           \/ UNCHANGED vars
    <2>1. UNCHANGED <<trans, queries, subs, closing>>
        BY <1>7, Zenon DEF DeleteVideoNoteThumbnail, RegisterVideoNote, UnregisterVideoNote,
                    RateSpeechRecognition, Crash, RateAnswer, vars
    <2> QED
        BY <2>1, FlightQuiet
<1> QED
    BY <1>1, <1>2, <1>3, <1>4, <1>5, <1>6, <1>7 DEF Next

\* Until the client closes, a video note whose transcription has waiters
\* has exactly one answer on the way, the TranscribeAudio query or the
\* subscription its pending answer opened, and one without waiters has
\* none: recognize_speech sends a query only when nobody waits, and
\* on_transcribed_audio_update subscribes only on the query's own pending
\* answer (InFlightExactlyOne).
THEOREM InFlightExactlyOneHolds == Spec => []InFlightExactlyOne
<1>1. Init => IInv /\ FlightInv
    BY InitIInv
    DEF Init, FlightInv, WaitersPending, PendingWaited, InFlightExactlyOne, NoTrans
<1>2. IInv /\ FlightInv /\ [Next]_vars => (IInv /\ FlightInv)'
    BY IInvStep, FlightStep
<1>3. Spec => [](IInv /\ FlightInv)
    BY <1>1, <1>2, PTL DEF Spec
<1> QED
    BY <1>3, PTL DEF FlightInv

-----------------------------------------------------------------------------
(* What the messages show *)

\* recognize_speech is called for a message whose content the registry
\* holds: a server message of a user account with a video note, which the
\* MessagesManager registered, so its CHECK finds the note.  It changes
\* the transcription of that note only, and not a final one.
LEMMA RecognizeRegistered ==
    ASSUME IInv, NEW m \in Msgs, NEW p \in Promises, RecognizeSpeech(m, p)
    PROVE  /\ messageNotes[m] \in FileIds /\ messageNotes[m] # NoFile
           /\ videoNotes[messageNotes[m]] # Absent
           /\ UNCHANGED videoNotes
           /\ \A g \in FileIds \ {messageNotes[m]} : trans'[g] = trans[g]
           /\ trans[messageNotes[m]].phase = "final" => UNCHANGED trans
<1> DEFINE f == messageNotes[m]
<1>1. Tracked(m) /\ content[m] # NoFile
    BY DEF RecognizeSpeech, Tracked
<1>2. /\ f \in FileIds /\ f # NoFile /\ videoNotes[f] # Absent
      /\ trans \in [FileIds -> Trans]
    BY <1>1, ConstantsAssumption DEF IInv, RegistryMirrorsContent, ContentCached, TypeOK
<1>3. UNCHANGED videoNotes
    BY <1>2 DEF RecognizeSpeech
<1>4. CASE trans[f].phase = "final"
    BY <1>2, <1>3, <1>4 DEF RecognizeSpeech
<1>5. CASE trans[f].phase \in {"none", "failed"}
    BY <1>2, <1>3, <1>5, Zenon DEF RecognizeSpeech
<1>6. CASE trans[f].phase \in {"requested", "partial"}
    BY <1>2, <1>3, <1>6, Zenon DEF RecognizeSpeech
<1> QED
    BY <1>2, <1>4, <1>5, <1>6 DEF Trans, Phases

\* A message in the registry shows a cached video note: message_video_notes_
\* holds only registered contents, and video_notes_ forgets no entry.
LEMMA RegisteredCached ==
    ASSUME IInv, NEW m \in Msgs, messageNotes[m] # NoFile
    PROVE  messageNotes[m] \in FileIds /\ videoNotes[messageNotes[m]] # Absent
BY DEF IInv, RegistryMirrorsContent, ContentCached, TypeOK

\* on_video_note_transcription_updated after a change of the transcription
\* of file f re-renders exactly the messages registered for f.
LEMMA NotifyFresh ==
    ASSUME IInv, ViewsFresh, NEW f \in FileIds, NEW t2,
           trans' = [trans EXCEPT ![f] = t2], Notify(f, t2), UNCHANGED messageNotes
    PROVE  ViewsFresh'
<1> SUFFICES ASSUME NEW m \in Msgs, messageNotes[m] # NoFile
             PROVE  shown'[m] = View(trans'[messageNotes[m]])
    BY DEF ViewsFresh
<1>1. messageNotes[m] \in FileIds
    BY DEF IInv, TypeOK
<1>2. CASE messageNotes[m] = f
    BY <1>1, <1>2 DEF Notify, IInv, RegistryConsistent, TypeOK
<1>3. CASE messageNotes[m] # f
    BY <1>1, <1>3 DEF Notify, IInv, RegistryConsistent, TypeOK, ViewsFresh
<1> QED
    BY <1>2, <1>3

\* A change of the transcription of file f that renders as before, or of a
\* file no message is registered for, needs no re-rendering.
LEMMA SilentFresh ==
    ASSUME IInv, ViewsFresh, NEW f \in FileIds, NEW t2,
           trans' = [trans EXCEPT ![f] = t2],
           View(t2) = View(trans[f]) \/ \A m \in Msgs : messageNotes[m] # f,
           UNCHANGED <<messageNotes, shown>>
    PROVE  ViewsFresh'
BY DEF ViewsFresh, IInv, TypeOK

\* Until closing, an answer or a push while one is on the way re-renders
\* the messages whenever what they show changes: an error and a final text
\* always, a partial text when it differs from the previous one, which was
\* then shown as pending with that same text.
LEMMA UpdateFresh ==
    ASSUME IInv, FlightInv, ViewsFresh, NEW f \in FileIds, NEW isInitial \in BOOLEAN,
           NEW r \in Results, ~closing, queries[f] + subs[f] > 0,
           OnTranscribedAudioUpdate(f, isInitial, r)
    PROVE  ViewsFresh'
<1>1. /\ videoNotes[f] # Absent /\ trans[f].phase # "none"
      /\ trans[f] \in Trans /\ trans \in [FileIds -> Trans]
      /\ trans[f].phase \in {"requested", "partial"}
    <2>1. trans[f].waiters # {}
        BY FlightCount DEF IInv, TypeOK
    <2> QED
        BY <2>1 DEF IInv, AnswersExpected, TypeOK, FlightInv, WaitersPending
<1>2. UNCHANGED messageNotes /\ r.error \in BOOLEAN /\ r.pending \in BOOLEAN
      /\ r.text \in Texts
    BY <1>1, ResultShape DEF OnTranscribedAudioUpdate
<1>3. CASE r.error
    <2>1. OnFailedUpdate(f)
        BY <1>1, <1>3, Zenon DEF OnTranscribedAudioUpdate
    <2> QED
        BY <1>2, <2>1, NotifyFresh, Zenon DEF OnFailedUpdate
<1>4. CASE ~r.error /\ ~r.pending
    <2>1. OnFinalUpdate(f, r.text)
        BY <1>1, <1>4, Zenon DEF OnTranscribedAudioUpdate
    <2> QED
        BY <1>2, <2>1, NotifyFresh, Zenon DEF OnFinalUpdate
<1>5. CASE ~r.error /\ r.pending
    <2> DEFINE t2 == OnPartialTranscription(trans[f], r.text)
    <2>1. OnPartialUpdate(f, r.text)
        BY <1>1, <1>5, Zenon DEF OnTranscribedAudioUpdate
    <2>2. trans' = [trans EXCEPT ![f] = t2]
        BY <2>1 DEF OnPartialUpdate
    <2>3. CASE r.text # trans[f].text
        BY <1>2, <2>1, <2>2, <2>3, NotifyFresh, Zenon DEF OnPartialUpdate
    <2>4. CASE r.text = trans[f].text
        <3>1. UNCHANGED shown
            BY <2>1, <2>4 DEF OnPartialUpdate
        <3>2. View(t2) = View(trans[f])
            BY <1>1, <2>4 DEF OnPartialTranscription, View, Trans
        <3> QED
            BY <1>2, <2>2, <3>1, <3>2, SilentFresh, Zenon
    <2> QED
        BY <2>3, <2>4
<1> QED
    BY <1>2, <1>3, <1>4, <1>5

\* recognize_speech re-renders the messages when it starts a transcription,
\* and needs not when it only adds a waiter or answers at once.
LEMMA RecognizeFresh ==
    ASSUME IInv, ViewsFresh, NEW m \in Msgs, NEW p \in Promises, RecognizeSpeech(m, p)
    PROVE  ViewsFresh'
<1> DEFINE f == messageNotes[m]
<1>1. /\ f \in FileIds /\ f # NoFile
      /\ trans[f] \in Trans /\ trans \in [FileIds -> Trans]
    <2>1. Tracked(m) /\ content[m] # NoFile
        BY DEF RecognizeSpeech, Tracked
    <2> QED
        BY <2>1, ConstantsAssumption DEF IInv, RegistryMirrorsContent, TypeOK
<1>2. UNCHANGED messageNotes
    BY <1>1 DEF RecognizeSpeech
<1>3. CASE trans[f].phase = "final"
    <2>1. UNCHANGED <<trans, shown>>
        BY <1>1, <1>3 DEF RecognizeSpeech
    <2> QED
        BY <1>2, <2>1 DEF ViewsFresh
<1>4. CASE trans[f].phase \in {"none", "failed"}
    <2> DEFINE t2 == [phase |-> "requested", text |-> EmptyText, waiters |-> {p}]
    <2>1. trans' = [trans EXCEPT ![f] = t2] /\ Notify(f, t2)
        BY <1>1, <1>4, Zenon DEF RecognizeSpeech
    <2> QED
        BY <1>1, <1>2, <2>1, NotifyFresh, Zenon
<1>5. CASE trans[f].phase \in {"requested", "partial"}
    <2> DEFINE t2 == [trans[f] EXCEPT !.waiters = @ \cup {p}]
    <2>1. trans' = [trans EXCEPT ![f] = t2] /\ UNCHANGED shown
        BY <1>1, <1>5, Zenon DEF RecognizeSpeech
    <2>2. View(t2) = View(trans[f])
        BY <1>1, Zenon DEF View, Trans
    <2> QED
        BY <1>1, <1>2, <2>1, <2>2, SilentFresh, Zenon
<1> QED
    BY <1>1, <1>3, <1>4, <1>5 DEF Trans, Phases

\* Every step keeps each registered message showing its note's result.
LEMMA ViewsStep == IInv /\ FlightInv /\ ViewsFresh /\ [Next]_vars => ViewsFresh'
<1> SUFFICES ASSUME IInv, FlightInv, ViewsFresh, [Next]_vars PROVE ViewsFresh'
    OBVIOUS
<1>1. ASSUME NEW n \in FileIds, NEW o \in FileIds, NEW t \in Thumbs,
             videoNotes[n] = Absent, DupNote(n, o, t), UNCHANGED <<messageNotes, shown>>
      PROVE  ViewsFresh'
    <2>1. \A m \in Msgs : messageNotes[m] # n
        BY <1>1, RegisteredCached, ConstantsAssumption
    <2> QED
        BY <1>1, <2>1, SilentFresh, Zenon DEF DupNote
<1>2. ASSUME NEW n \in FileIds, NEW o \in FileIds, NEW t \in Thumbs,
             MergeVideoNotes(n, o, t)
      PROVE  ViewsFresh'
    <2>1. CASE videoNotes[n] = Absent
        BY <1>1, <1>2, <2>1 DEF MergeVideoNotes
    <2>2. CASE videoNotes[n] # Absent
        BY <1>2, <2>2 DEF MergeVideoNotes, ViewsFresh
    <2> QED
        BY <2>1, <2>2
<1>3. ASSUME NEW n \in FileIds, NEW o \in FileIds, NEW t \in Thumbs,
             DupVideoNote(n, o, t)
      PROVE  ViewsFresh'
    BY <1>1, <1>3 DEF DupVideoNote
<1>4. ASSUME NEW f \in FileIds, NEW mini \in Minis, NEW thumb \in Thumbs \cup {NoThumb},
             NEW d \in Durations, NEW dm \in Dims, NEW replace \in BOOLEAN,
             CreateVideoNote(f, mini, thumb, d, dm, replace)
      PROVE  ViewsFresh'
    <2>1. UpdateFrom(trans[f], NoTrans) = [info |-> trans[f], changed |-> FALSE]
        BY DEF UpdateFrom, NoTrans
    <2>2. UNCHANGED <<trans, shown, messageNotes>>
        BY <1>4, <2>1 DEF CreateVideoNote, OnGetVideoNote, IInv, TypeOK
    <2> QED
        BY <2>2 DEF ViewsFresh
<1>5. ASSUME NEW f \in FileIds, NEW m \in Msgs, RegisterVideoNote(f, m) PROVE ViewsFresh'
    <2>1. UNCHANGED trans
        BY <1>5 DEF RegisterVideoNote
    <2>2. CASE Tracked(m) /\ m \notin noteMessages[f] /\ messageNotes[m] = NoFile
        <3>1. messageNotes' = [messageNotes EXCEPT ![m] = f]
              /\ shown' = [shown EXCEPT ![m] = View(trans[f])]
            BY <1>5, <2>2 DEF RegisterVideoNote, Link
        <3> QED
            BY <2>1, <3>1 DEF ViewsFresh, IInv, TypeOK
    <2>3. CASE ~(Tracked(m) /\ m \notin noteMessages[f] /\ messageNotes[m] = NoFile)
        BY <1>5, <2>1, <2>3 DEF RegisterVideoNote, ViewsFresh
    <2> QED
        BY <2>2, <2>3
<1>6. ASSUME NEW m \in Msgs, UnregisterVideoNote(m) PROVE ViewsFresh'
    <2> DEFINE f == content[m]
    <2>1. UNCHANGED trans
        BY <1>6 DEF UnregisterVideoNote
    <2>2. CASE Tracked(m) /\ m \in noteMessages[f] /\ messageNotes[m] # NoFile
        <3>1. messageNotes' = [messageNotes EXCEPT ![m] = NoFile]
              /\ shown' = [shown EXCEPT ![m] = NoView]
            BY <1>6, <2>2 DEF UnregisterVideoNote, Unlink
        <3> QED
            BY <2>1, <3>1 DEF ViewsFresh, IInv, TypeOK
    <2>3. CASE ~(Tracked(m) /\ m \in noteMessages[f] /\ messageNotes[m] # NoFile)
        BY <1>6, <2>1, <2>3 DEF UnregisterVideoNote, ViewsFresh
    <2> QED
        BY <2>2, <2>3
<1>7. ASSUME NEW m \in Msgs, NEW p \in Promises, RecognizeSpeech(m, p) PROVE ViewsFresh'
    BY <1>7, RecognizeFresh
<1>8. ASSUME NEW f \in FileIds, NEW r \in Results,
             TranscribeAudioAnswer(f, r) \/ TranscribedAudioPush(f, r)
      PROVE  ViewsFresh'
    <2>1. PICK isInitial \in BOOLEAN : OnTranscribedAudioUpdate(f, isInitial, r)
        BY <1>8, Zenon DEF TranscribeAudioAnswer, TranscribedAudioPush
    <2>2. CASE closing
        BY <2>1, <2>2 DEF OnTranscribedAudioUpdate, ViewsFresh
    <2>3. CASE ~closing
        <3>1. queries[f] + subs[f] > 0
            BY <1>8, <2>3, AnswerCounts
        <3> QED
            BY <2>1, <2>3, <3>1, UpdateFresh
    <2> QED
        BY <2>2, <2>3
<1>9. CASE \/ \E f \in FileIds : DeleteVideoNoteThumbnail(f)
           \/ \E m \in Msgs, p \in Promises : RateSpeechRecognition(m, p)
           \/ \E p \in Promises, outcome \in {"ok", "error"} : RateAnswer(p, outcome)
           \/ Close
           \/ UNCHANGED vars
    <2>1. UNCHANGED <<trans, shown, messageNotes>>
        BY <1>9, Zenon DEF DeleteVideoNoteThumbnail, RateSpeechRecognition, Crash, RateAnswer,
                    Close, vars
    <2> QED
        BY <2>1 DEF ViewsFresh
<1> QED
    BY <1>2, <1>3, <1>4, <1>5, <1>6, <1>7, <1>8, <1>9 DEF Next

\* Every message registered for a video note shows the note's current
\* speech recognition result, for all sets of notes, messages and texts:
\* each change of a TranscriptionInfo that changes what it renders is
\* followed by on_video_note_transcription_updated, and the one change
\* that is not (a partial text equal to the previous one) renders the same
\* (ViewsFresh).
THEOREM ViewsFreshHolds == Spec => []ViewsFresh
<1>1. Init => IInv /\ FlightInv /\ ViewsFresh
    <2> SUFFICES ASSUME Init PROVE IInv /\ FlightInv /\ ViewsFresh
        OBVIOUS
    <2>1. IInv
        BY InitIInv
    <2>2. FlightInv
        BY DEF Init, FlightInv, WaitersPending, PendingWaited, InFlightExactlyOne, NoTrans
    <2>3. ViewsFresh
        BY DEF Init, ViewsFresh
    <2> QED
        BY <2>1, <2>2, <2>3
<1>2. IInv /\ FlightInv /\ ViewsFresh /\ [Next]_vars => (IInv /\ FlightInv /\ ViewsFresh)'
    BY IInvStep, FlightStep, ViewsStep
<1>3. Spec => [](IInv /\ FlightInv /\ ViewsFresh)
    BY <1>1, <1>2, PTL DEF Spec
<1> QED
    BY <1>3, PTL

-----------------------------------------------------------------------------
(* Promises *)

\* A promise has been set once when it is ok or error, and never before.
ResolvedCount ==
    \A p \in Promises : resolved[p] = IF promise[p] \in {"ok", "error"} THEN 1 ELSE 0

\* The waiters of every transcription, and the promises held by the
\* RateTranscribedAudio queries, are promises still waiting.
HeldWaiting ==
    /\ \A f \in FileIds : \A p \in trans[f].waiters : promise[p] = "waiting"
    /\ \A p \in rateQueries : promise[p] = "waiting"

\* A waiting promise is held in one place only: by one transcription or by
\* one RateTranscribedAudio query.
HeldOnce ==
    /\ \A f, g \in FileIds : f # g => trans[f].waiters \cap trans[g].waiters = {}
    /\ \A f \in FileIds : trans[f].waiters \cap rateQueries = {}

\* The inductive invariant of ResolvedOnce.
PromiseInv == ResolvedCount /\ HeldWaiting /\ HeldOnce

\* The part of TypeOK the accounting of promises reads.
PromiseTypes ==
    /\ promise \in [Promises -> {"idle", "waiting", "ok", "error"}]
    /\ resolved \in [Promises -> Nat]
    /\ rateQueries \subseteq Promises
    /\ \A f \in FileIds : trans[f].waiters \subseteq Promises

\* TypeOK gives the types of the promises' accounting.
LEMMA PromiseTyped ==
    ASSUME TypeOK
    PROVE  PromiseTypes
BY DEF TypeOK, PromiseTypes, Trans

\* A step that sets no promise, sends no rating and only drops waiters
\* keeps the accounting.
LEMMA PromiseQuiet ==
    ASSUME TypeOK, TypeOK', PromiseInv, UNCHANGED <<promise, resolved, rateQueries>>,
           \A f \in FileIds : trans'[f].waiters \subseteq trans[f].waiters
    PROVE  PromiseInv'
BY DEF PromiseInv, ResolvedCount, HeldWaiting, HeldOnce

\* Setting the promises of S, none of them set before, once each, while
\* letting go of every place that held them, keeps the accounting.
LEMMA SettleAccounted ==
    ASSUME TypeOK, TypeOK', PromiseInv, NEW S \in SUBSET Promises,
           NEW o \in {"ok", "error"}, Settle(S, o),
           \A p \in S : promise[p] \in {"idle", "waiting"},
           rateQueries' \subseteq rateQueries \ S,
           \A f \in FileIds : trans'[f].waiters \subseteq trans[f].waiters \ S
    PROVE  PromiseInv'
<1>0. PromiseTypes /\ PromiseTypes'
    BY PromiseTyped DEF TypeOK, PromiseTypes, Trans
<1>1. ResolvedCount'
    BY <1>0 DEF Settle, PromiseInv, ResolvedCount, PromiseTypes
<1>2. HeldWaiting'
    <2>1. \A p \in Promises \ S : promise'[p] = promise[p]
        BY DEF Settle
    <2>2. ASSUME NEW f \in FileIds, NEW p \in trans'[f].waiters PROVE promise'[p] = "waiting"
        <3>1. p \in trans[f].waiters \ S /\ trans[f].waiters \subseteq Promises
            BY <2>2 DEF TypeOK, Trans
        <3> QED
            BY <2>1, <3>1 DEF PromiseInv, HeldWaiting
    <2>3. ASSUME NEW p \in rateQueries' PROVE promise'[p] = "waiting"
        <3>1. p \in rateQueries \ S /\ rateQueries \subseteq Promises
            BY <2>3 DEF TypeOK
        <3> QED
            BY <2>1, <3>1 DEF PromiseInv, HeldWaiting
    <2> QED
        BY <2>2, <2>3 DEF HeldWaiting
<1>3. HeldOnce'
    BY DEF PromiseInv, HeldOnce
<1> QED
    BY <1>1, <1>2, <1>3 DEF PromiseInv

\* A promise given to recognize_speech or rate_speech_recognition that
\* starts waiting was idle, so no place held it before.
LEMMA IdleNotHeld ==
    ASSUME TypeOK, PromiseInv, NEW p \in Promises, promise[p] = "idle"
    PROVE  /\ p \notin rateQueries
           /\ \A f \in FileIds : p \notin trans[f].waiters
BY DEF PromiseInv, HeldWaiting

\* An idle promise that starts waiting on transcription f (with the waiters
\* f had, or with none of them) keeps the accounting.
LEMMA EnlistWaiter ==
    ASSUME TypeOK, TypeOK', PromiseInv, NEW f \in FileIds, NEW p \in Promises,
           promise[p] = "idle", promise' = [promise EXCEPT ![p] = "waiting"],
           UNCHANGED <<resolved, rateQueries>>,
           trans'[f].waiters \subseteq trans[f].waiters \cup {p},
           \A g \in FileIds \ {f} : trans'[g] = trans[g]
    PROVE  PromiseInv'
<1>0. PromiseTypes /\ PromiseTypes'
    BY PromiseTyped DEF TypeOK, PromiseTypes, Trans
<1>1. p \notin rateQueries /\ \A g \in FileIds : p \notin trans[g].waiters
    BY IdleNotHeld
<1>2. ResolvedCount'
    BY <1>0 DEF PromiseInv, ResolvedCount, PromiseTypes
<1>3. HeldWaiting'
    BY <1>0 DEF PromiseInv, HeldWaiting, PromiseTypes
<1>4. HeldOnce'
    BY <1>1 DEF PromiseInv, HeldOnce
<1> QED
    BY <1>2, <1>3, <1>4 DEF PromiseInv

\* An idle promise handed to a RateTranscribedAudio query keeps the
\* accounting.
LEMMA EnlistRate ==
    ASSUME TypeOK, TypeOK', PromiseInv, NEW p \in Promises,
           promise[p] = "idle", promise' = [promise EXCEPT ![p] = "waiting"],
           UNCHANGED <<resolved, trans>>, rateQueries' = rateQueries \cup {p}
    PROVE  PromiseInv'
<1>0. PromiseTypes /\ PromiseTypes'
    BY PromiseTyped DEF TypeOK, PromiseTypes, Trans
<1>1. \A g \in FileIds : p \notin trans[g].waiters
    BY IdleNotHeld
<1>2. ResolvedCount'
    BY <1>0 DEF PromiseInv, ResolvedCount, PromiseTypes
<1>5. HeldWaiting'
    BY <1>0, <1>1 DEF PromiseInv, HeldWaiting, PromiseTypes
<1>3. HeldOnce'
    BY <1>1 DEF PromiseInv, HeldOnce
<1> QED
    BY <1>2, <1>3, <1>5 DEF PromiseInv

\* on_transcribed_audio_update sets the waiters of file f once, on an error
\* or a final text, and lets them go; it sets nothing when closing, and a
\* partial text leaves the waiters waiting.
LEMMA UpdatePromises ==
    ASSUME TypeOK, TypeOK', PromiseInv, NEW f \in FileIds, NEW isInitial \in BOOLEAN,
           NEW r \in Results, OnTranscribedAudioUpdate(f, isInitial, r)
    PROVE  PromiseInv'
<1> DEFINE W == trans[f].waiters
<1>1. r.error \in BOOLEAN /\ r.pending \in BOOLEAN /\ r.text \in Texts
    BY ResultShape
<1>2. UNCHANGED rateQueries
    BY DEF OnTranscribedAudioUpdate
<1>3. CASE closing \/ videoNotes[f] = Absent \/ trans[f].phase = "none"
    <2>1. UNCHANGED <<promise, resolved, trans>>
        BY <1>3 DEF OnTranscribedAudioUpdate
    <2> QED
        BY <1>2, <2>1, PromiseQuiet
<1>4. CASE ~(closing \/ videoNotes[f] = Absent \/ trans[f].phase = "none")
    <2>1. /\ \A p \in W : promise[p] \in {"idle", "waiting"}
          /\ rateQueries' \subseteq rateQueries \ W
          /\ \A g \in FileIds \ {f} : trans[g].waiters \subseteq trans[g].waiters \ W
        BY <1>2, PromiseTyped DEF PromiseInv, HeldWaiting, HeldOnce, PromiseTypes
    <2>2. CASE r.error
        <3>1. OnFailedUpdate(f)
            BY <1>4, <2>2, Zenon DEF OnTranscribedAudioUpdate
        <3>2. trans' = [trans EXCEPT ![f] = OnFailedTranscription(trans[f])]
              /\ Settle(W, "error")
            BY <3>1 DEF OnFailedUpdate
        <3>3. \A g \in FileIds : trans'[g].waiters \subseteq trans[g].waiters \ W
            BY <2>1, <3>2 DEF OnFailedTranscription, TypeOK
        <3>4. W \in SUBSET Promises
            BY DEF TypeOK, Trans
        <3> QED
            BY <2>1, <3>2, <3>3, <3>4, SettleAccounted
    <2>3. CASE ~r.error /\ ~r.pending
        <3>1. OnFinalUpdate(f, r.text)
            BY <1>4, <2>3, Zenon DEF OnTranscribedAudioUpdate
        <3>2. trans' = [trans EXCEPT ![f] = OnFinalTranscription(trans[f], r.text)]
              /\ Settle(W, "ok")
            BY <3>1 DEF OnFinalUpdate
        <3>3. \A g \in FileIds : trans'[g].waiters \subseteq trans[g].waiters \ W
            BY <2>1, <3>2 DEF OnFinalTranscription, TypeOK
        <3>4. W \in SUBSET Promises
            BY DEF TypeOK, Trans
        <3> QED
            BY <2>1, <3>2, <3>3, <3>4, SettleAccounted
    <2>4. CASE ~r.error /\ r.pending
        <3>1. OnPartialUpdate(f, r.text)
            BY <1>4, <2>4, Zenon DEF OnTranscribedAudioUpdate
        <3>2. trans' = [trans EXCEPT ![f] = OnPartialTranscription(trans[f], r.text)]
              /\ UNCHANGED <<promise, resolved>>
            BY <3>1 DEF OnPartialUpdate
        <3>3. trans[f] \in Trans
            BY DEF TypeOK
        <3> QED
            BY <1>2, <3>2, <3>3, PromiseQuiet DEF OnPartialTranscription, Trans, TypeOK
    <2> QED
        BY <1>1, <2>2, <2>3, <2>4
<1> QED
    BY <1>3, <1>4

\* recognize_speech sets its caller's promise at once for a final
\* transcription, and otherwise makes it a waiter of the transcription.
LEMMA RecognizePromises ==
    ASSUME IInv, TypeOK', PromiseInv, NEW m \in Msgs, NEW p \in Promises,
           RecognizeSpeech(m, p)
    PROVE  PromiseInv'
<1> DEFINE f == messageNotes[m]
<1>1. /\ f \in FileIds /\ f # NoFile /\ trans[f] \in Trans /\ TypeOK
      /\ promise[p] = "idle"
    <2>1. Tracked(m) /\ content[m] # NoFile /\ promise[p] = "idle"
        BY DEF RecognizeSpeech, Tracked
    <2> QED
        BY <2>1, ConstantsAssumption DEF IInv, RegistryMirrorsContent, TypeOK
<1>2. UNCHANGED rateQueries /\ \A g \in FileIds \ {f} : trans'[g] = trans[g]
    <2>1. CASE trans[f].phase = "final"
        BY <1>1, <2>1 DEF RecognizeSpeech
    <2>2. CASE trans[f].phase \in {"none", "failed"}
        BY <1>1, <2>2, Zenon DEF RecognizeSpeech, TypeOK
    <2>3. CASE trans[f].phase \in {"requested", "partial"}
        BY <1>1, <2>3, Zenon DEF RecognizeSpeech, TypeOK
    <2> QED
        BY <1>1, <2>1, <2>2, <2>3, Zenon DEF Trans, Phases
<1>3. CASE trans[f].phase = "final"
    <2>1. Settle({p}, "ok") /\ UNCHANGED trans
        BY <1>1, <1>3 DEF RecognizeSpeech
    <2>2. p \notin rateQueries /\ \A g \in FileIds : p \notin trans[g].waiters
        BY <1>1, IdleNotHeld
    <2> QED
        BY <1>1, <1>2, <2>1, <2>2, SettleAccounted
<1>4. CASE trans[f].phase \in {"none", "failed"}
    <2>1. /\ trans' = [trans EXCEPT ![f] = [phase |-> "requested", text |-> EmptyText,
                                           waiters |-> {p}]]
          /\ promise' = [promise EXCEPT ![p] = "waiting"]
          /\ UNCHANGED resolved
        BY <1>1, <1>4, Zenon DEF RecognizeSpeech
    <2>2. trans'[f].waiters \subseteq trans[f].waiters \cup {p}
        BY <1>1, <2>1 DEF TypeOK
    <2> QED
        BY <1>1, <1>2, <2>1, <2>2, EnlistWaiter, Zenon
<1>5. CASE trans[f].phase \in {"requested", "partial"}
    <2>1. /\ trans' = [trans EXCEPT ![f].waiters = @ \cup {p}]
          /\ promise' = [promise EXCEPT ![p] = "waiting"]
          /\ UNCHANGED resolved
        BY <1>1, <1>5, Zenon DEF RecognizeSpeech
    <2>2. trans'[f].waiters \subseteq trans[f].waiters \cup {p}
        BY <1>1, <2>1 DEF TypeOK, Trans
    <2> QED
        BY <1>1, <1>2, <2>1, <2>2, EnlistWaiter, Zenon
<1> QED
    BY <1>1, <1>3, <1>4, <1>5 DEF Trans, Phases

\* rate_speech_recognition sets its caller's promise at once when nothing
\* was recognized, and otherwise hands it to a RateTranscribedAudio query;
\* the query's answer sets it and drops the query.
LEMMA RatePromises ==
    ASSUME IInv, TypeOK', PromiseInv, NEW p \in Promises,
           \/ \E m \in Msgs : RateSpeechRecognition(m, p)
           \/ \E o \in {"ok", "error"} : RateAnswer(p, o)
    PROVE  PromiseInv'
<1>1. TypeOK
    BY DEF IInv
<1>2. CASE \E m \in Msgs : RateSpeechRecognition(m, p)
    <2>1. PICK m \in Msgs : RateSpeechRecognition(m, p)
        BY <1>2
    <2>2. /\ messageNotes[m] \in FileIds /\ messageNotes[m] # NoFile
          /\ promise[p] = "idle" /\ UNCHANGED trans
        <3>1. Tracked(m) /\ content[m] # NoFile /\ promise[p] = "idle"
            BY <2>1, Zenon DEF RateSpeechRecognition, Tracked
        <3>2. messageNotes[m] \in FileIds /\ messageNotes[m] # NoFile
            BY <3>1, ConstantsAssumption DEF IInv, RegistryMirrorsContent, TypeOK
        <3>3. UNCHANGED trans
            BY <2>1, <3>2, Zenon DEF RateSpeechRecognition
        <3> QED
            BY <3>1, <3>2, <3>3
    <2>3. CASE trans[messageNotes[m]].phase = "none"
        <3>1. Settle({p}, "ok") /\ UNCHANGED rateQueries
            BY <2>1, <2>2, <2>3 DEF RateSpeechRecognition
        <3>2. p \notin rateQueries /\ \A g \in FileIds : p \notin trans[g].waiters
            BY <1>1, <2>2, IdleNotHeld
        <3>3. /\ rateQueries' \subseteq rateQueries \ {p}
              /\ \A g \in FileIds : trans'[g].waiters \subseteq trans[g].waiters \ {p}
            BY <2>2, <3>1, <3>2
        <3>4. \A q \in {p} : promise[q] \in {"idle", "waiting"}
            BY <2>2
        <3> QED
            BY <1>1, <3>1, <3>3, <3>4, SettleAccounted, Zenon
    <2>4. CASE trans[messageNotes[m]].phase # "none"
        <3>1. /\ rateQueries' = rateQueries \cup {p}
              /\ promise' = [promise EXCEPT ![p] = "waiting"]
              /\ UNCHANGED resolved
            BY <2>1, <2>2, <2>4 DEF RateSpeechRecognition
        <3> QED
            BY <1>1, <2>2, <3>1, EnlistRate, Zenon
    <2> QED
        BY <2>3, <2>4
<1>3. CASE \E o \in {"ok", "error"} : RateAnswer(p, o)
    <2>1. PICK o \in {"ok", "error"} : RateAnswer(p, o)
        BY <1>3
    <2>2. /\ p \in rateQueries /\ rateQueries' = rateQueries \ {p}
          /\ Settle({p}, o) /\ UNCHANGED trans
        BY <2>1 DEF RateAnswer
    <2>3. promise[p] = "waiting" /\ \A g \in FileIds : p \notin trans[g].waiters
        BY <2>2, Zenon DEF PromiseInv, HeldWaiting, HeldOnce
    <2> QED
        BY <1>1, <2>2, <2>3, SettleAccounted
<1> QED
    BY <1>2, <1>3

\* Every step keeps the accounting of the promises.
LEMMA PromiseStep == IInv /\ PromiseInv /\ [Next]_vars => PromiseInv'
<1> SUFFICES ASSUME IInv, PromiseInv, [Next]_vars PROVE PromiseInv'
    OBVIOUS
<1>0. TypeOK /\ TypeOK'
    BY TypeOKStep DEF IInv
<1>1. ASSUME NEW n \in FileIds, NEW o \in FileIds, NEW t \in Thumbs,
             videoNotes[n] = Absent, DupNote(n, o, t),
             UNCHANGED <<promise, resolved, rateQueries>>
      PROVE  PromiseInv'
    <2>1. trans' = [trans EXCEPT ![n] = CopyIfTranscribed(trans[o])]
          /\ CopyIfTranscribed(trans[o]).waiters = {}
        BY <1>1, <1>0 DEF DupNote, CopyIfTranscribed, NoTrans, TypeOK
    <2> QED
        BY <1>0, <1>1, <2>1, PromiseQuiet, Zenon DEF TypeOK
<1>2. ASSUME NEW n \in FileIds, NEW o \in FileIds, NEW t \in Thumbs,
             MergeVideoNotes(n, o, t)
      PROVE  PromiseInv'
    <2>1. CASE videoNotes[n] = Absent
        BY <1>1, <1>2, <2>1 DEF MergeVideoNotes
    <2>2. CASE videoNotes[n] # Absent
        BY <1>0, <1>2, <2>2, PromiseQuiet DEF MergeVideoNotes
    <2> QED
        BY <2>1, <2>2
<1>3. ASSUME NEW n \in FileIds, NEW o \in FileIds, NEW t \in Thumbs,
             DupVideoNote(n, o, t)
      PROVE  PromiseInv'
    BY <1>1, <1>3 DEF DupVideoNote
<1>4. ASSUME NEW f \in FileIds, NEW mini \in Minis, NEW thumb \in Thumbs \cup {NoThumb},
             NEW d \in Durations, NEW dm \in Dims, NEW replace \in BOOLEAN,
             CreateVideoNote(f, mini, thumb, d, dm, replace)
      PROVE  PromiseInv'
    <2>1. UpdateFrom(trans[f], NoTrans).info = trans[f]
        BY DEF UpdateFrom, NoTrans
    <2>2. UNCHANGED <<trans, promise, resolved, rateQueries>>
        BY <1>0, <1>4, <2>1 DEF CreateVideoNote, OnGetVideoNote, TypeOK
    <2> QED
        BY <1>0, <2>2, PromiseQuiet
<1>5. ASSUME NEW m \in Msgs, NEW p \in Promises, RecognizeSpeech(m, p) PROVE PromiseInv'
    BY <1>0, <1>5, RecognizePromises
<1>6. ASSUME NEW f \in FileIds, NEW r \in Results,
             TranscribeAudioAnswer(f, r) \/ TranscribedAudioPush(f, r)
      PROVE  PromiseInv'
    <2>1. PICK isInitial \in BOOLEAN : OnTranscribedAudioUpdate(f, isInitial, r)
        BY <1>6, Zenon DEF TranscribeAudioAnswer, TranscribedAudioPush
    <2> QED
        BY <1>0, <2>1, UpdatePromises
<1>7. ASSUME NEW p \in Promises,
             \/ \E m \in Msgs : RateSpeechRecognition(m, p)
             \/ \E o \in {"ok", "error"} : RateAnswer(p, o)
      PROVE  PromiseInv'
    BY <1>0, <1>7, RatePromises
<1>8. CASE \/ \E f \in FileIds : DeleteVideoNoteThumbnail(f)
           \/ \E f \in FileIds, m \in Msgs : RegisterVideoNote(f, m)
           \/ \E m \in Msgs : UnregisterVideoNote(m)
           \/ Close
           \/ UNCHANGED vars
    <2>1. UNCHANGED <<trans, promise, resolved, rateQueries>>
        BY <1>8 DEF DeleteVideoNoteThumbnail, RegisterVideoNote, UnregisterVideoNote,
                    Close, vars
    <2> QED
        BY <1>0, <2>1, PromiseQuiet
<1> QED
    BY <1>2, <1>3, <1>4, <1>5, <1>6, <1>7, <1>8 DEF Next

\* No promise given to recognize_speech or rate_speech_recognition is set
\* twice, for all sets of notes, messages and promises: each waiting
\* promise is held by one transcription or one RateTranscribedAudio query,
\* which sets it and lets it go in the same step (ResolvedOnce).
THEOREM ResolvedOnceHolds == Spec => []ResolvedOnce
<1>1. Init => IInv /\ PromiseInv
    <2> SUFFICES ASSUME Init PROVE IInv /\ PromiseInv
        OBVIOUS
    <2>1. IInv
        BY InitIInv
    <2>2. ResolvedCount
        BY DEF Init, ResolvedCount
    <2>3. HeldWaiting /\ HeldOnce
        BY DEF Init, HeldWaiting, HeldOnce, NoTrans
    <2> QED
        BY <2>1, <2>2, <2>3 DEF PromiseInv
<1>2. IInv /\ PromiseInv /\ [Next]_vars => (IInv /\ PromiseInv)'
    BY IInvStep, PromiseStep
<1>3. PromiseInv => ResolvedOnce
    <2> SUFFICES ASSUME PromiseInv, NEW p \in Promises PROVE resolved[p] <= 1
        BY DEF ResolvedOnce
    <2>1. resolved[p] = IF promise[p] \in {"ok", "error"} THEN 1 ELSE 0
        BY DEF PromiseInv, ResolvedCount
    <2> QED
        BY <2>1
<1>4. Spec => [](IInv /\ PromiseInv)
    BY <1>1, <1>2, PTL DEF Spec
<1> QED
    BY <1>3, <1>4, PTL

-----------------------------------------------------------------------------
(* Final transcriptions *)

\* A file id with no cached video note has no transcription_info: only
\* dup_video_note gives one to a file id it caches in the same step, and
\* recognize_speech and on_transcribed_audio_update change only that of a
\* cached note.
AbsentUntranscribed ==
    \A f \in FileIds : videoNotes[f] = Absent => trans[f].phase = "none"

\* A step that caches or changes no entry of an uncached file id keeps it
\* without a transcription_info.
LEMMA AbsentKeep ==
    ASSUME AbsentUntranscribed,
           \A g \in FileIds : videoNotes'[g] = Absent =>
                                  videoNotes[g] = Absent /\ trans'[g] = trans[g]
    PROVE  AbsentUntranscribed'
BY DEF AbsentUntranscribed

\* on_transcribed_audio_update for file f changes no other transcription,
\* and none at all once closing or for an uncached note.
LEMMA UpdateTouchesOne ==
    ASSUME TypeOK, NEW f \in FileIds, NEW isInitial \in BOOLEAN, NEW r \in Results,
           OnTranscribedAudioUpdate(f, isInitial, r)
    PROVE  /\ \A g \in FileIds \ {f} : trans'[g] = trans[g]
           /\ closing \/ videoNotes[f] = Absent => trans' = trans
           /\ UNCHANGED videoNotes
<1>1. CASE closing \/ videoNotes[f] = Absent \/ trans[f].phase = "none"
    BY <1>1 DEF OnTranscribedAudioUpdate
<1>2. CASE ~(closing \/ videoNotes[f] = Absent \/ trans[f].phase = "none")
    <2>1. r.error \in BOOLEAN /\ r.pending \in BOOLEAN
        BY ResultShape
    <2>2. \E t2 : trans' = [trans EXCEPT ![f] = t2]
        <3>1. CASE r.error
            BY <1>2, <3>1, Zenon DEF OnTranscribedAudioUpdate, OnFailedUpdate
        <3>2. CASE ~r.error /\ ~r.pending
            BY <1>2, <3>2, Zenon DEF OnTranscribedAudioUpdate, OnFinalUpdate
        <3>3. CASE ~r.error /\ r.pending
            BY <1>2, <3>3, Zenon DEF OnTranscribedAudioUpdate, OnPartialUpdate
        <3> QED
            BY <2>1, <3>1, <3>2, <3>3
    <2> QED
        BY <1>2, <2>2 DEF OnTranscribedAudioUpdate, TypeOK
<1> QED
    BY <1>1, <1>2

\* Every step keeps uncached file ids without a transcription_info.
LEMMA AbsentStep == IInv /\ AbsentUntranscribed /\ [Next]_vars => AbsentUntranscribed'
<1> SUFFICES ASSUME IInv, AbsentUntranscribed, [Next]_vars PROVE AbsentUntranscribed'
    OBVIOUS
<1>0. TypeOK
    BY DEF IInv
<1>1. ASSUME NEW f \in FileIds, DeleteVideoNoteThumbnail(f) PROVE AbsentUntranscribed'
    <2>1. [videoNotes[f] EXCEPT !.thumb = NoThumb] \in VideoNote
        BY <1>0, <1>1 DEF DeleteVideoNoteThumbnail, TypeOK, VideoNote
    <2> QED
        BY <1>0, <1>1, <2>1, AbsentAssumption, AbsentKeep DEF DeleteVideoNoteThumbnail, TypeOK
<1>2. ASSUME NEW n \in FileIds, NEW o \in FileIds, NEW t \in Thumbs,
             videoNotes[o] # Absent, DupNote(n, o, t)
      PROVE  AbsentUntranscribed'
    <2>1. [videoNotes[o] EXCEPT !.thumb = DupFileId(videoNotes[o].thumb, t)] \in VideoNote
        <3>1. videoNotes[o] \in VideoNote
            BY <1>0, <1>2 DEF TypeOK
        <3>2. DupFileId(videoNotes[o].thumb, t) \in Thumbs \cup {NoThumb}
            BY DEF DupFileId
        <3> QED
            BY <3>1, <3>2 DEF VideoNote
    <2> QED
        BY <1>0, <1>2, <2>1, AbsentAssumption, AbsentKeep DEF DupNote, TypeOK
<1>3. ASSUME NEW n \in FileIds, NEW o \in FileIds, NEW t \in Thumbs,
             MergeVideoNotes(n, o, t) \/ DupVideoNote(n, o, t)
      PROVE  AbsentUntranscribed'
    <2>1. CASE DupNote(n, o, t) /\ videoNotes[o] # Absent
        BY <1>2, <2>1
    <2>2. CASE ~(DupNote(n, o, t) /\ videoNotes[o] # Absent)
        BY <1>3, <2>2 DEF MergeVideoNotes, DupVideoNote, AbsentUntranscribed
    <2> QED
        BY <2>1, <2>2
<1>4. ASSUME NEW f \in FileIds, NEW mini \in Minis, NEW thumb \in Thumbs \cup {NoThumb},
             NEW d \in Durations, NEW dm \in Dims, NEW replace \in BOOLEAN,
             CreateVideoNote(f, mini, thumb, d, dm, replace)
      PROVE  AbsentUntranscribed'
    <2>1. UpdateFrom(trans[f], NoTrans).info = trans[f]
        BY DEF UpdateFrom, NoTrans
    <2>2. trans' = trans
        BY <1>0, <1>4, <2>1 DEF CreateVideoNote, OnGetVideoNote, TypeOK
    <2>3. NormalizedNote(mini, thumb, d, dm) \in VideoNote
        BY NormalizedType
    <2> QED
        BY <1>0, <1>4, <2>2, <2>3, AbsentAssumption, AbsentKeep
        DEF CreateVideoNote, OnGetVideoNote, TypeOK
<1>5. ASSUME NEW m \in Msgs, NEW p \in Promises, RecognizeSpeech(m, p)
      PROVE  AbsentUntranscribed'
    <2> DEFINE f == messageNotes[m]
    <2>1. f \in FileIds /\ f # NoFile /\ videoNotes[f] # Absent
        BY <1>5, RecognizeRegistered, Zenon
    <2>2. UNCHANGED videoNotes /\ \A g \in FileIds \ {f} : trans'[g] = trans[g]
        BY <1>5, RecognizeRegistered
    <2> QED
        BY <2>1, <2>2, AbsentKeep
<1>6. ASSUME NEW f \in FileIds, NEW r \in Results,
             TranscribeAudioAnswer(f, r) \/ TranscribedAudioPush(f, r)
      PROVE  AbsentUntranscribed'
    <2>1. PICK isInitial \in BOOLEAN : OnTranscribedAudioUpdate(f, isInitial, r)
        BY <1>6, Zenon DEF TranscribeAudioAnswer, TranscribedAudioPush
    <2> QED
        BY <1>0, <2>1, UpdateTouchesOne, AbsentKeep
<1>7. CASE \/ \E f \in FileIds, m \in Msgs : RegisterVideoNote(f, m)
           \/ \E m \in Msgs : UnregisterVideoNote(m)
           \/ \E m \in Msgs, p \in Promises : RateSpeechRecognition(m, p)
           \/ \E p \in Promises, outcome \in {"ok", "error"} : RateAnswer(p, outcome)
           \/ Close
           \/ UNCHANGED vars
    <2>1. UNCHANGED <<videoNotes, trans>>
        BY <1>7, Zenon DEF RegisterVideoNote, UnregisterVideoNote, RateSpeechRecognition, Crash,
                    RateAnswer, Close, vars
    <2> QED
        BY <2>1 DEF AbsentUntranscribed
<1> QED
    BY <1>1, <1>3, <1>4, <1>5, <1>6, <1>7 DEF Next

\* No step loses or changes a final transcription: on_get_video_note keeps
\* it (update_from with a null transcription), recognize_speech answers from
\* it, dup_video_note writes only an uncached file id, and no answer is on
\* the way for it, so on_transcribed_audio_update is never called for it
\* until closing, when it is ignored.
LEMMA FinalKept ==
    ASSUME IInv, FlightInv, AbsentUntranscribed, [Next]_vars,
           NEW f \in FileIds, trans[f].phase = "final"
    PROVE  trans'[f].phase = "final" /\ trans'[f].text = trans[f].text
<1>0. TypeOK
    BY DEF IInv
<1> SUFFICES trans'[f] = trans[f]
    OBVIOUS
<1>1. videoNotes[f] # Absent
    BY DEF AbsentUntranscribed
<1>2. ASSUME NEW n \in FileIds, NEW o \in FileIds, NEW t \in Thumbs,
             MergeVideoNotes(n, o, t) \/ DupVideoNote(n, o, t)
      PROVE  trans'[f] = trans[f]
    <2>1. CASE videoNotes[n] = Absent
        <3>1. n # f
            BY <1>1, <2>1
        <3> QED
            BY <1>0, <1>2, <2>1, <3>1 DEF MergeVideoNotes, DupVideoNote, DupNote, TypeOK
    <2>2. CASE videoNotes[n] # Absent
        BY <1>2, <2>2 DEF MergeVideoNotes, DupVideoNote
    <2> QED
        BY <2>1, <2>2
<1>3. ASSUME NEW g \in FileIds, NEW mini \in Minis, NEW thumb \in Thumbs \cup {NoThumb},
             NEW d \in Durations, NEW dm \in Dims, NEW replace \in BOOLEAN,
             CreateVideoNote(g, mini, thumb, d, dm, replace)
      PROVE  trans'[f] = trans[f]
    <2>1. UpdateFrom(trans[g], NoTrans).info = trans[g]
        BY DEF UpdateFrom, NoTrans
    <2> QED
        BY <1>0, <1>3, <2>1, Zenon DEF CreateVideoNote, OnGetVideoNote, TypeOK
<1>4. ASSUME NEW m \in Msgs, NEW p \in Promises, RecognizeSpeech(m, p)
      PROVE  trans'[f] = trans[f]
    <2> DEFINE g == messageNotes[m]
    <2>1. g \in FileIds /\ g # NoFile
        BY <1>4, RecognizeRegistered
    <2>2. CASE g = f
        BY <1>4, <2>2, RecognizeRegistered
    <2>3. CASE g # f
        BY <1>4, <2>3, RecognizeRegistered
    <2> QED
        BY <2>2, <2>3
<1>5. ASSUME NEW g \in FileIds, NEW r \in Results,
             TranscribeAudioAnswer(g, r) \/ TranscribedAudioPush(g, r)
      PROVE  trans'[f] = trans[f]
    <2>1. PICK isInitial \in BOOLEAN : OnTranscribedAudioUpdate(g, isInitial, r)
        BY <1>5, Zenon DEF TranscribeAudioAnswer, TranscribedAudioPush
    <2>2. CASE g # f \/ closing
        BY <1>0, <2>1, <2>2, UpdateTouchesOne
    <2>3. CASE g = f /\ ~closing
        <3>1. queries[f] + subs[f] > 0
            BY <1>5, <2>3, AnswerCounts
        <3>2. trans[f].waiters # {}
            BY <2>3, <3>1, FlightCount
        <3> QED
            BY <3>2 DEF FlightInv, WaitersPending
    <2> QED
        BY <2>2, <2>3
<1>6. CASE \/ \E g \in FileIds : DeleteVideoNoteThumbnail(g)
           \/ \E g \in FileIds, m \in Msgs : RegisterVideoNote(g, m)
           \/ \E m \in Msgs : UnregisterVideoNote(m)
           \/ \E m \in Msgs, p \in Promises : RateSpeechRecognition(m, p)
           \/ \E p \in Promises, outcome \in {"ok", "error"} : RateAnswer(p, outcome)
           \/ Close
           \/ UNCHANGED vars
    BY <1>6, Zenon DEF DeleteVideoNoteThumbnail, RegisterVideoNote, UnregisterVideoNote,
                RateSpeechRecognition, Crash, RateAnswer, Close, vars
<1> QED
    BY <1>2, <1>3, <1>4, <1>5, <1>6, Zenon DEF Next

\* A final transcription is never lost or changed, by a later observation
\* of the note, a dup or merge, a new recognize_speech, or a late answer
\* of the server (FinalTranscriptionKept).
THEOREM FinalTranscriptionKeptHolds == Spec => FinalTranscriptionKept
<1> DEFINE Inv == IInv /\ FlightInv /\ AbsentUntranscribed
<1>1. Init => Inv
    <2> SUFFICES ASSUME Init PROVE Inv
        OBVIOUS
    <2>1. IInv
        BY InitIInv
    <2>2. FlightInv
        BY DEF Init, FlightInv, WaitersPending, PendingWaited, InFlightExactlyOne, NoTrans
    <2>3. AbsentUntranscribed
        BY DEF Init, AbsentUntranscribed, NoTrans
    <2> QED
        BY <2>1, <2>2, <2>3
<1>2. Inv /\ [Next]_vars => Inv'
    BY IInvStep, FlightStep, AbsentStep
<1>3. Spec => []Inv
    BY <1>1, <1>2, PTL DEF Spec
<1>4. Inv /\ [Next]_vars =>
          [\A f \in FileIds :
              trans[f].phase = "final" =>
                  trans'[f].phase = "final" /\ trans'[f].text = trans[f].text]_vars
    BY FinalKept
<1> QED
    BY <1>3, <1>4, PTL DEF Spec, FinalTranscriptionKept

=============
