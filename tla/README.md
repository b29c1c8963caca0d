# TLA+ models of the TDLib excerpt

This directory holds TLA+ models of the C++ sources under `src/telegram-bot-api/td`:
the `VideoNotesManager` (entity cache, back-reference registry and speech
recognition), the payment requests of `Payments.cpp`, the chat
notification settings of `DialogNotificationSettings.cpp`, the persistence of
documents (`DocumentsManager.hpp`) and the expiry of the emoji category list
(`EmojiGroup.cpp`). It also holds the TLC
configurations that check them, and the TLAPS proofs about them.
`PROJECT.json` lists the components, the runs, the mutation checks, the map
from each definition to the source lines it models, the findings and the
hazards.

## The system

The excerpt follows the design in `spec.md`. Its parts:

- **Entity cache** (`VideoNotesManager::video_notes_`). A note is created or
  replaced (`create_video_note`, `on_get_video_note`). It can also be
  duplicated (`dup_video_note`) or merged (`merge_video_notes`) when FileManager
  finds that two file ids are the same file.
- **Back-reference registry** (`video_note_messages_`, `message_video_notes_`).
  It records which server messages show which note. Its operations are
  `register_video_note` and `unregister_video_note`, each with CHECKs.
- **Incremental update controller.** `recognize_speech` starts a transcription
  or joins one in flight. The server's answer to `TranscribeAudio` is delivered
  with `is_initial = true`. A pending answer subscribes through UpdatesManager to
  pushes, which are delivered with `is_initial = false`, until a final text or an
  error. Every change is announced to the messages that show the note.
  `rate_speech_recognition` sends a rating query.
- **Query dispatcher** (`Payments.cpp`). Each API function validates its
  input, then creates one `Td::ResultHandler` and sends its query. Validation
  errors reject the promise before any handler exists. The handler's
  `on_result` translates the answer and fulfils the promise. Its `on_error`
  first reports to `MessagesManager::on_get_dialog_error` (for the four
  chat-bound handlers) and then rejects the promise. `SendPaymentFormQuery`
  instead moves its promise into a lambda that `UpdatesManager::on_get_updates`
  calls.
- **Notification settings** (`DialogNotificationSettings.cpp`). The client
  sets a mute *duration*, which `get_mute_until` turns into an int32 deadline.
  The server pushes an absolute deadline, or a null object. The
  pinned-message and mention switches exist only on the client.
- **Document persistence** (`DocumentsManager.hpp`). `store_document`
  writes a cached document's file name, MIME type, minithumbnail, thumbnail
  and file id. `parse_document` reads them back with the version the record
  was written with: records older than `Version::SupportMinithumbnails` have
  no minithumbnail. It returns `FileId()` on a parser error or an invalid file
  id. Otherwise it hands the document to `on_get_document` with
  `replace = false`, so an already cached document wins.
- **Emoji category list** (`EmojiGroup.cpp`). A list built from the server's
  answer expires one hour later (`next_reload_time_ = Time::now() + 3600`). A
  default list has deadline 0. The owner (StickersManager, not under `src/`)
  reloads an expired list with its hash. On a "not modified" answer it calls
  `update_next_reload_time`.
- **Protocol translation.** `convert_labeled_price` clamps out-of-range amounts
  to ±2^40. `convert_invoice` replaces an invalid maximum tip with 0 and keeps
  the first four valid suggested tips. `GetPaymentReceiptQuery` replaces an
  invalid tip with 0.

All of a manager's handlers run on one actor, one at a time. Each handler is
therefore one atomic action of the model. Concurrency comes from the order in
which calls, server answers, pushes and shutdown arrive.

## Modules

| Module | Models | Source |
|---|---|---|
| `VideoNotes` | cache, registry, speech recognition, rating, shutdown | `VideoNotesManager.cpp` |
| `MC_VideoNotes` | small data sets for TLC | |
| `PaymentQueries` | the payment API functions, their handlers, invoice translation, shutdown | `Payments.cpp` |
| `MC_PaymentQueries` | scaled amounts and server invoices for TLC | |
| `NotificationSettings` | client and server settings changes over a clock, with int32 arithmetic | `DialogNotificationSettings.cpp` |
| `MC_NotificationSettings` | a 10-bit int32 for TLC | |
| `DocumentStore` | `store_document`, `parse_document` over versioned records, server copies, restarts | `DocumentsManager.hpp` |
| `MC_DocumentStore` | two file ids and records from two older versions for TLC | |
| `EmojiGroupList` | the list's deadline, `is_expired`, `update_next_reload_time`, the owner's reload | `EmojiGroup.cpp`, `EmojiGroup.h` |
| `MC_EmojiGroupList` | clock values one hour apart for TLC | |
| `VideoNotesProofs`, `PaymentQueriesProofs`, `NotificationSettingsProofs`, `DocumentStoreProofs`, `EmojiGroupListProofs`, `VideoNotesTranscriptionProofs` | TLAPS proofs | |

### VideoNotes

The state of `VideoNotes` and where it lives in the code:

- `videoNotes`: `video_notes_`, with the duration, dimensions, minithumbnail
  and thumbnail file id of each note.
- `trans`: each note's `TranscriptionInfo`, with its phase, its last text and
  its waiting promises.
- `noteMessages` and `messageNotes`: the two registry maps.
- Environment state:
  - `content`: the note each message holds, as MessagesManager sees it.
  - `queries`: TranscribeAudio queries in flight.
  - `subs`: open UpdatesManager subscriptions.
  - `rateQueries`: rating queries in flight.
  - `usedThumbs`: thumbnail file ids that FileManager has minted.
  - `merges`: the file-id merges FileManager has done.
- `promise` and `resolved`: the state of each client promise, and how many
  times it was resolved.
- `shown`: the transcription view each registered message was last told of.
- `closing`: `G()->close_flag()`.
- `fatal`: a CHECK has failed.

Each handler is one action, and it includes the calls it makes, such as the
notifications and the subscription. A handler's CHECK sets `fatal`.
`TranscriptionInfo`, FileManager and UpdatesManager are not part of the
excerpt. They are modelled from the design and marked `spec_modelled` in the
map.

### PaymentQueries

The state of `PaymentQueries`, for each request (a promise of an API call):

- `handler`: the handler class it created.
- `target`: the chat the caller named.
- `dialogId`: the handler's `dialog_id_`.
- `phase`: idle, pending, waiting for updates, or done.
- `outcome` and `settled`: how the promise was resolved, and how often.
- `delivered`: the raw and translated invoice it was fulfilled with.

Module-wide state:

- `reported`: the (request, chat) pairs passed to `on_get_dialog_error`.
- `closing`: Td is shutting down.

Validation is abstracted to whether it passes. The actual checks are
UTF-8 cleanliness, null objects, `get_invoice_message_id`, `get_input_peer`
and the credential cases. Amounts keep their order relative to the two bounds
of the code. In `MC_PaymentQueries` they are divided by 10^6.

### NotificationSettings

The state of `NotificationSettings`:

- `now`: `G()->unix_time()`. `Tick` moves it forward within `Clock`.
- `settings`: the chat's `DialogNotificationSettings`, reduced to the mute
  (`use_default_mute_until`, `mute_until`) and the four client-only fields.
  Sound, show preview and silent are copied from the input without any
  condition, and no property tells them apart.
- `request` and `asked`: history variables. They record the last change, and
  the client-only fields of the client's last change.

`SetChatNotificationSettings` converts the client's object
(`get_dialog_notification_settings`, `get_mute_until`). It stores the result
when `need_update_dialog_notification_settings` reports a change.
`OnServerSettings` converts a `peerNotifySettings`, a null one included.
int32 sums wrap (`Wrap`), and the constant `IntMax` is the largest int32.
The storing is done by MessagesManager, which is not under `src/`.

### DocumentStore

The state of `DocumentStore`:

- `documents`: `DocumentsManager::documents_`, from file id to document.
- `db`: the database records. A record is a version and a sequence of
  fields, each tagged with its kind (string, PhotoSize, FileId).
- `stored`: a history variable, the document each record was written from.
- `parsed`: a history variable, the last parse and the document its record
  was written from.

A field read where the record has a field of another kind, or past the end,
is a parser error. That is how TDLib's parser fails on a constructor id or a
length that does not fit. The initial records come from binaries at the
versions `OldVersions`. `Restart` clears `documents` and keeps `db`.
`OnGetDocument` is the server sending a document.

### EmojiGroupList

- `now` is `Time::now()`, a monotonic clock in whole seconds.
- `list` holds the groups, `hash_` and `next_reload_time_`.
- `server` is the server's current groups, named by their hash.
- `pending` is the hash of the reload request in flight.
- `fresh` is a history variable: when the list was last received or
  confirmed.

`Reload`, the answers, `ServerChange` and `Restart` model the owner and the
server. These are not under `src/`, and `spec.md` says nothing of emoji
groups, so the model lets them make the calls `EmojiGroupList` offers in any
order: reload when `is_expired`, then a new list or `update_next_reload_time`.
The code compares two `Time::now()` doubles, so a list is met exactly at its
deadline only with probability zero; the whole-second clock makes that case
reachable, and the strict `<` of `is_expired` decides it, but nothing is
claimed for it beyond the model. A list loaded from
disk after `Restart` keeps its groups and hash, and its deadline is 0.

## Runs

| Run | Checks | What it shows |
|---|---|---|
| `transcription` | `RegistryConsistent`, `NoContractViolation`, `ViewsFresh`, `InFlightExactlyOne`, `ResolvedOnce`, `FinalTranscriptionKept` | see below |
| `cache` | `TypeOK`, `ThumbsNotAliased` | dup/merge never alias a thumbnail file id |
| `liveness` | `PromisesResolved` | every speech promise is resolved under a fair transport |
| `merge` | `MergeUnifies` (violation expected) | merge of two cached notes does not unify their content |
| `mute` | `MuteHonoured`, `LocalFieldsFollowClient` | see below |
| `payments` | `ResolvedOnceWhenDone`, `DialogErrorsReported`, `DeliveredAmountsSane`, `DeliveredTipsSane`, `EveryCallAnswered` | see below |
| `documents` | `TypeOK`, `ParsedAsStored` | see below |
| `emoji` | `ExpiryExact` | see below |

What the `transcription` run shows:

- The two registry maps stay each other's inverse.
- No CHECK fails under any order of the callers' register, unregister and
  recognize calls, provided the callers keep the content discipline of
  MessagesManager.
- Every registered message was told of the latest transcription state of its
  note.
- A note that someone awaits has exactly one TranscribeAudio query or exactly
  one subscription in flight, and a note nobody awaits has none.
- Each promise is resolved at most once.
- A final transcription is never lost by a later `on_get_video_note`.

What the `mute` run shows:

- After the client asks for a mute of `mute_for > 0` seconds at time `t`, the
  deadline is at least `t + mute_for`, or the largest int32 when that sum does
  not fit. A default or non-positive duration unmutes the chat. Without the
  guard `mute_for >= INT32_MAX - current_time`, the sum wraps to a negative
  deadline, which means "not muted" (the mutant of `GetMuteUntil`).
- No server push, a null one included, changes the pinned-message and mention
  switches the client last set.

What the `payments` run shows:

- Every promise is resolved exactly once, exactly when its request ends.
- A chat error is reported exactly for the chat-bound handlers that fail, and
  for the chat the caller named.
- `DeliveredAmountsSane`: a delivered invoice has a price that is kept, or
  clamped to a nonzero amount of its sign. Its maximum tip and a receipt's
  tip are valid amounts.
- `DeliveredTipsSane`: its suggested tips are the first four valid ones of
  the server's list, in order. This is checked against a reference
  (`KeptTipIndices`) written apart from the code's filter.
- Every call is eventually answered.

What the `documents` run shows:

- `ParsedAsStored`: a record parses back to the document it was written
  from. This holds for records written by this binary, by a binary before
  `SupportMinithumbnails` and by one at it. A version test off by one at that
  boundary reads the thumbnail where the minithumbnail was written, so the
  parse fails.
- `TypeOK`: every parsed document has fields of the right kinds.

What the `emoji` run shows:

- `ExpiryExact`: the list is expired exactly when it was never received or
  confirmed in this run of the process, or when more than 3600 seconds have
  passed since then. A list loaded at a restart has deadline 0 and is
  revalidated at once. If `update_next_reload_time` forgot its `+ 3600`
  (the mutant), a confirmed list would be due again at once, so every
  request would reload it, and the run catches this.

Every property of a passing run has a mutant: a plausible bug in the
definition it is about, which TLC must catch (`PROJECT.json`, "mutants").

### Bounds

- **`transcription`:** two notes, three messages (two of them server messages)
  and two promises. This is enough to have:
  - two messages on one note;
  - a note re-registered under another message;
  - a second promise joining a transcription in flight;
  - a rating query racing a recognition.
- **`cache`:** raw durations {-1, 5} and dimensions {240², 800²} reach both
  clamps, and two thumbnail ids allow a dup.
- **`liveness`:** one note and two promises. Its fairness is weak fairness on:
  - the server's answer to each note's query;
  - the terminal push of each subscription;
  - the answer to each rating query.

  These are the transport's promise that every query is eventually answered
  or times out. UpdatesManager's subscription ends with a timeout error if no
  push comes.

  `PromisesResolved` lets a promise still waiting end at closing.
  `on_transcribed_audio_update` returns at once after `close_flag`
  (`VideoNotesManager.cpp:227`), so this manager never fails the waiters of a
  pending transcription. They are failed by the promise destructors of the
  actor framework, which is not under `src/`. No property here checks that.
- **`mute`:** `IntMax = 511` and `MAX_PRECISE_MUTE_FOR = 7`. The clock takes
  the values 0, 300, 505 and 511. At 505, a precise mute of 7 would overflow.
  At 511, every positive mute saturates. The durations are -1, 0, 3, 7, 8
  and 511: both sides of the precision bound, and the largest int32. The
  server deadlines are past, future, and the largest int32. Every client
  object and every server object is tried at every state.
- **`payments`:** two calls and two chats, so that two chat-bound handlers can
  fail in either order and for different chats. There are three server
  invoices:
  - one with a price of 2^41 and seven tips of every kind;
  - one with a negative out-of-range price and invalid tips;
  - one with nothing to repair.

  Its fairness is the same promise of the transport, plus UpdatesManager
  applying the updates it was given.

- **`documents`:** two file ids, two records, one name and thumbnail, and
  two minithumbnails: none, and one. `SupportMinithumbnails = 2` and
  `CurrentVersion = 3`. The initial records are at versions 1 (before the
  boundary) and 2 (at it), and the run allows one restart. Both file ids can
  be cached before a parse of their records, so a parse can meet a newer
  server copy.
- **`emoji`:** the clock values are 1, 3601, 3602, 7202 and 7203. So a
  deadline can be met exactly (1 + 3600) and passed by one second. There are
  two server group lists and one restart. The run checks an invariant only,
  so it assumes no fairness.

## Findings

- `merge_video_notes` (`VideoNotesManager.cpp:144-151`) leaves both cache
  entries unchanged when both notes are cached. The thumbnail merge is
  commented out. The design (§4.1, §8) says that after a merge both handles give
  the same content. The `merge` run finds two notes of different duration that
  stay different after `merge_video_notes`.

## Proofs

TLAPS checks every proof in `VideoNotesProofs.tla`,
`PaymentQueriesProofs.tla`, `NotificationSettingsProofs.tla`,
`DocumentStoreProofs.tla`,
`EmojiGroupListProofs.tla` and `VideoNotesTranscriptionProofs.tla` (`tlapm <module>.tla`). The proofs hold for every
value of the constants that satisfies `ConstantsAssumption` (and
`AbsentAssumption`, the cache's "no entry" sentinel is not a video note).
`PROJECT.json` lists them under "theorems".

### VideoNotesProofs

- `TypeCorrect`: `Spec => []TypeOK`. The step lemma `TypeOKStep` has one case
  per action. It rests on lemmas about the `TranscriptionInfo` operators,
  `View`, `Notify`, `Settle` and `NormalizedNote`, and on `UpdateType` for
  `on_transcribed_audio_update`.
- `RegistryAndChecks`: `Spec => []IInv`. Its corollaries are
  `RegistryConsistentHolds` (`[]RegistryConsistent`) and `NoCheckFails`
  (`[]NoContractViolation`).

`RegistryConsistent` and `~fatal` are not inductive alone: a step of
`register_video_note` from a state where `message_video_notes_` already
holds the message would fail a CHECK. `IInv` adds three facts the code
maintains:

- `RegistryMirrorsContent`: the registry holds exactly the tracked messages
  (server, non-bot) with their current content. The two handlers take the
  same early return, and MessagesManager calls each once per content.
- `ContentCached`: a message only holds a cached note. `video_notes_` never
  loses an entry.
- `AnswersExpected`: a note with a query or a subscription in flight is cached
  and has a `transcription_info`. `on_get_video_note` never resets it
  (`update_from` with a null transcription keeps the old one).

Each CHECK follows from these. For example, `register_video_note`'s
`CHECK(message_video_notes_.insert(...).second)` holds because the message
had no content and so no registry entry. Cache steps are discharged at
once by `QuietStep`. The update handler uses `UpdateKeeps`.

- `ThumbsNotAliasedHolds`: `Spec => []ThumbsNotAliased`. Alone the
  property is not inductive: a note created with a thumbnail another note
  holds would alias it. The strengthening `ThumbsMinted` says every
  thumbnail a cached note holds is in `usedThumbs`, the ids the FileManager
  has handed out. `create_video_note` and `dup_video_note` take only an id
  not handed out before, so it differs from every held one (`ThumbWrite`).

### VideoNotesTranscriptionProofs

This module extends `VideoNotesProofs` and builds on its `IInv`.

- `InFlightExactlyOneHolds`: `Spec => []InFlightExactlyOne`.
- `ViewsFreshHolds`: `Spec => []ViewsFresh`.
- `ResolvedOnceHolds`: `Spec => []ResolvedOnce`.
- `FinalTranscriptionKeptHolds`: `Spec => FinalTranscriptionKept`, the
  action property.

`InFlightExactlyOne` alone is not inductive. `recognize_speech` on a
requested transcription without waiters would leave a waiter with nothing
on the way. `FlightInv` adds two facts:

- `WaitersPending`: only a requested or partial transcription has waiters.
  The final and failed transitions hand them all back.
- `PendingWaited`: until closing, a requested or partial transcription has
  a waiter.

With them, an answer or a push finds the transcription in progress, with
its waiters and the count 1 (`FlightCount`, `AnswerCounts`). A pending
result leaves the count at 1: the answer opens a subscription, and a push
keeps its own. A final text or an error brings the count to 0 and empties
the waiters (`UpdateFlight`).

`ViewsFresh` rests on `FlightInv` too. `on_transcribed_audio_update` does
not notify for a partial text equal to the previous one. That is right
only because the transcription was then requested or partial, so it
already rendered as pending with that text (`UpdateFresh`).
`dup_video_note` changes the transcription of an uncached file id, for
which no message is registered (`RegisteredCached`).

`ResolvedOnce` needs an account of where each waiting promise is held
(`PromiseInv`):

- `ResolvedCount`: a promise was set once if it is ok or error, and
  otherwise never.
- `HeldWaiting`: the waiters and the rating queries hold only waiting
  promises.
- `HeldOnce`: each promise is held in one place only.

Setting a set of promises then sets each once (`SettleAccounted`). A
promise that starts waiting was idle and so held nowhere (`IdleNotHeld`).

`FinalTranscriptionKept` follows from `IInv`, `FlightInv` and
`AbsentUntranscribed`, which says an uncached file id has no transcription.
A final transcription has no answer on the way, so no update reaches it
before closing, and after closing updates are ignored. `dup_video_note`
writes only an uncached id, and `on_get_video_note` keeps the old
transcription. `recognize_speech` finds its note in the registry (the
message is tracked and registered) and changes only that note's
transcription, and never a final one (`RecognizeRegistered`).

### PaymentQueriesProofs

- `ResolvedOnce`: `Spec => []ResolvedOnceWhenDone`.
- `ChatErrorsReported`: `Spec => []DialogErrorsReported`.
- `TypeCorrect`: `Spec => []TypeOK`.
- `DeliveredAmountsSaneHolds`: `Spec => []DeliveredAmountsSane`, for every
  `MaxAmount` and every nonzero `Sentinel`. `DeliveredConverted` says each
  promise holds nothing, or a server invoice with its `ConvertInvoice`
  translation and the tip of a form (0) or of a receipt (`ReceiptTip`).
  Only the `on_result` of forms and receipts changes `delivered`
  (`DeliveredStep`). `ConvertAmounts` is the lemma about the conversion.
  The clamp is `Sentinel` times the amount's sign, so it is nonzero and has
  the sign of the amount. An invalid maximum tip or `tip_amount` becomes 0,
  which is valid since `MaxAmount >= 0`.
- `DeliveredTipsSaneHolds`: `Spec => []DeliveredTipsSane`, for every list of
  suggested tips the server may send. `RemoveIf` models `td::remove_if` as a
  scan from the front, a recursive function in a LET. TLAPS reads that as a
  `CHOOSE`, so `ScanDef` first proves that a function satisfying the
  equation exists. The witness is the closed form `Scanned`: the k-th kept
  tip is `s[TipAt(s, k)]`, the valid index with k valid tips up to it
  (`ValidUpTo`). `RemoveIfClosed` then shows the scan equals the closed form
  at every step. The argument takes the least step where they differ
  (`NatLeast`, from `WFMin` and the well-foundedness of `<` on `Nat`). That
  step is not 0 (`ScannedZero`), and it cannot follow a step where they
  agree (`ScannedStep`). `ScannedStep` uses `TipAtNew`: the count of valid
  tips grows strictly at each valid index (`RankStrict`), so a new valid tip
  is the next one. `TipExists` shows by the same argument that every count
  up to the total is reached. `ConvertTipsSane` relates the result to the
  reference `KeptTipIndices`. The kept indices are exactly the valid ones up
  to the fourth valid tip, or all of them when there are at most four.
  The rank of an index is the number of valid tips up to it (`KeptByCount`).
  `SelectSeq` would not do here: TLAPS has no facts about it. It cannot prove
  even `SelectSeq(<< >>, T) = << >>`.

The first three rest on the inductive `IInv`, which adds `Lifecycle` to them:

- a promise is untouched until its request ends;
- no handler exists before the call, and one exists while the query or the
  updates are pending;
- a handler's `dialog_id_` is the chat the caller named.

The last fact is what `GetPaymentReceiptQuery::send` guarantees by setting
`dialog_id_` before its early `on_error`.

Requests share only the set of reported errors. So the invariant is split
into `InvAt(r)` per request (`IInvByRequest`). `StepAt` shows that a step of
one request keeps the others. There is one lemma per kind of transition:

- sending the query;
- rejecting at validation;
- `on_error`;
- fulfilling;
- the receipt's early error;
- the hand-off to UpdatesManager.

### NotificationSettingsProofs

- `MuteHonouredHolds`: `Spec => []MuteHonoured`, for every int32 width
  (`IntMax`), precision bound and clock within `0..IntMax`.
- `LocalFieldsKept`: `Spec => []LocalFieldsFollowClient`.
- `TypeCorrect`: `Spec => []TypeOK`. In particular, `mute_until` always fits
  an int32.

The three together form the inductive invariant `IInv`. The properties refer
to the time of the last request, not to `now`, so `Tick` keeps them. The
lemmas are:

- `WrapExact`: wrapping a value that fits an int32 gives it back.
- `MuteUntilContract`: `get_mute_until` returns an int32. It returns 0 for a
  non-positive duration, and otherwise no less than
  `now + min(mute_for, IntMax - now)`. Its overflow guard ensures that the
  sum it returns fits, so `WrapExact` applies.
- `ClientStep`: a client change, including a change that is not stored
  because `need_update_dialog_notification_settings` finds nothing changed.
  In that case the stored settings agree with the converted ones on every
  field the properties look at.
- `ServerStep`: a server push.

### DocumentStoreProofs

- `RoundTripHolds`: `Spec => []ParsedAsStored`.
- `TypeCorrect`: `Spec => []TypeOK`.

The inductive invariant `IInv` is `TypeOK`, `DbMatches` and
`ParsedAsStored`. `DbMatches` says that each record is `RecordOf` the
document it was written from, at some version. For versions before
`SupportMinithumbnails`, that document has no minithumbnail. It is needed
because `ParsedAsStored` alone says nothing about the records a later parse
will read. The lemmas are:

- `RoundTrip`: `ParsedDocument(RecordOf(d, v)) = d` for every version `v`
  at which `d` could have been written.
- `RecordTyped`: `store_document` writes a well-formed record.

The empty minithumbnail is the constant `NoMinithumbnail`, which is `""` in
the model. In TLA+ the string `""` is the empty sequence, and the provers'
translation of it together with `Len` fails.

### EmojiGroupListProofs

- `ExpiryExactHolds`: `Spec => []ExpiryExact`, for every clock of positive
  seconds. The invariant `Deadline` is what makes it inductive. It says the
  deadline is `fresh + 3600` with `fresh <= now`, or 0 when `fresh = Never`.
  A default or restarted list is expired because the clock is positive. A
  received list is expired exactly when `now > fresh + 3600`, by the strict
  comparison of `is_expired`.

### What stays with TLC

TLAPS cannot prove liveness or `ENABLED`. The library's induction theorems
take an operator parameter, and the installed provers cannot instantiate
them. The one induction over data here, for `RemoveIf`, therefore argues
from a least counterexample with `WFMin`, which takes only sets. These
properties are only model-checked:

- `PromisesResolved` and `EveryCallAnswered` (liveness);
- `MergeUnifies`, which the `merge` run shows to be violated.

## Not modelled

- From `DialogNotificationSettings.cpp`: the notification sound, show
  preview and silent fields, `are_default_dialog_notification_settings`, and
  the `td_api` object conversion for the client, which only formats.
- `EmojiGroup.cpp`: `EmojiGroup`'s constructor and the object conversions,
  which copy strings. The list's language codes, which the owner compares
  outside `src/`.
- `MessageExtendedMedia.h`: a header of type predicates and declarations.
  It has no code under `src/` that changes state.
- `as.h`: `As<T>` and `ConstAs<T>` reinterpret bytes with `memcpy`. Byte
  layout and aliasing are below the level of these models.
- From `Payments.cpp`, `convert_payment_provider`, the address, order-info and
  shipping-option copies, and the user ids stored by `on_get_users`. They carry
  strings and change no state the properties look at.
