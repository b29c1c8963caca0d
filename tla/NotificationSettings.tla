------------------------ MODULE NotificationSettings ------------------------
(***************************************************************************)
(* The notification settings of one chat, td/telegram/                     *)
(* DialogNotificationSettings.cpp.  The client changes them through        *)
(* td_api::chatNotificationSettings, which gives a mute *duration*         *)
(* (mute_for); the server pushes peerNotifySettings, which give an         *)
(* absolute mute_until.  get_mute_until turns a duration into a deadline   *)
(* with int32 arithmetic, so the model keeps the width of int32 as the     *)
(* constant IntMax and wraps every sum the code computes.                  *)
(*                                                                         *)
(* Of the settings, the model keeps the mute and the four fields that only *)
(* the client sets (the pinned-message and mention switches); sound, show  *)
(* preview and silent are copied from the input without any condition and *)
(* no property tells them apart.  MessagesManager, which stores the result *)
(* when need_update_dialog_notification_settings reports a change, is not  *)
(* part of the sources.                                                    *)
(***************************************************************************)
EXTENDS Integers

CONSTANTS
    IntMax,             \* std::numeric_limits<int32>::max()
    MaxPreciseMuteFor,  \* MAX_PRECISE_MUTE_FOR, 366 days
    Clock,              \* the values of G()->unix_time()
    MuteFors,           \* mute_for values a client may send
    ServerMuteUntils    \* mute_until values the server may send

\* The values of an int32.
Int32 == -(IntMax + 1)..IntMax

ASSUME ConstantsAssumption ==
    /\ IntMax \in Nat \ {0}
    /\ MaxPreciseMuteFor \in 1..IntMax
    /\ Clock \subseteq 0..IntMax
    /\ Clock # {}
    /\ MuteFors \subseteq Int32
    /\ ServerMuteUntils \subseteq Int32

VARIABLES
    now,       \* G()->unix_time()
    settings,  \* the chat's DialogNotificationSettings
    request,   \* the last change: its origin, its time and the mute asked for
    asked      \* the client-only fields of the client's last change

vars == <<now, settings, request, asked>>

-----------------------------------------------------------------------------
(* Data *)

\* int32 addition and subtraction wrap around (two's complement).
Wrap(x) == ((x + IntMax + 1) % (2 * (IntMax + 1))) - (IntMax + 1)

Settings == [useDefaultMuteUntil : BOOLEAN, muteUntil : Int32,
             useDefaultPinned : BOOLEAN, disablePinned : BOOLEAN,
             useDefaultMention : BOOLEAN, disableMention : BOOLEAN]

\* The fields of DialogNotificationSettings that only the client sets.
LocalFields == [useDefaultPinned : BOOLEAN, disablePinned : BOOLEAN,
                useDefaultMention : BOOLEAN, disableMention : BOOLEAN]

Local(s) == [useDefaultPinned |-> s.useDefaultPinned, disablePinned |-> s.disablePinned,
             useDefaultMention |-> s.useDefaultMention, disableMention |-> s.disableMention]

\* DialogNotificationSettings(): every field follows the defaults.
DefaultSettings ==
    [useDefaultMuteUntil |-> TRUE, muteUntil |-> 0,
     useDefaultPinned |-> TRUE, disablePinned |-> FALSE,
     useDefaultMention |-> TRUE, disableMention |-> FALSE]

\* A td_api::chatNotificationSettings sent by the client (non-null).
ClientInputs == [useDefaultMuteFor : BOOLEAN, muteFor : MuteFors,
                 useDefaultPinned : BOOLEAN, disablePinned : BOOLEAN,
                 useDefaultMention : BOOLEAN, disableMention : BOOLEAN]

\* A telegram_api::peerNotifySettings pushed by the server; hasMuteUntil is
\* the MUTE_UNTIL_MASK flag.  NoServerSettings is a null object.
NoServerSettings == [none |-> TRUE]
ServerInputs == [hasMuteUntil : BOOLEAN, muteUntil : ServerMuteUntils] \cup {NoServerSettings}

Requests == [origin : {"none"}] \cup [origin : {"client"}, at : Clock,
             useDefaultMuteFor : BOOLEAN, muteFor : MuteFors]
             \cup [origin : {"server"}, at : Clock]

-----------------------------------------------------------------------------
(* Plausible bugs, each replacing one definition below in a mutation check *)

\* get_mute_until without the overflow test: the deadline wraps around.
GetMuteUntilNoGuard(muteFor) ==
    IF muteFor <= 0 THEN 0
    ELSE IF muteFor > MaxPreciseMuteFor THEN IntMax
    ELSE Wrap(muteFor + now)

\* A null peerNotifySettings answered with the defaults for every field.
ServerSettingsNullResets(ps, old) ==
    IF ps = NoServerSettings
    THEN DefaultSettings
    ELSE [old EXCEPT !.useDefaultMuteUntil = ~ps.hasMuteUntil,
                     !.muteUntil = IF ~ps.hasMuteUntil \/ ps.muteUntil <= now
                                   THEN 0 ELSE ps.muteUntil]

-----------------------------------------------------------------------------
(* The conversions of DialogNotificationSettings.cpp *)

\* get_mute_until: a duration from now, saturated at the largest int32 for
\* a mute longer than a year or past the end of int32 time.
GetMuteUntil(muteFor) ==
    IF muteFor <= 0 THEN 0
    ELSE IF muteFor > MaxPreciseMuteFor \/ muteFor >= Wrap(IntMax - now) THEN IntMax
    ELSE Wrap(muteFor + now)

\* get_dialog_notification_settings(td_api object, old_settings).
ClientSettings(in, old) ==
    [useDefaultMuteUntil |-> in.useDefaultMuteFor,
     muteUntil |-> IF in.useDefaultMuteFor THEN 0 ELSE GetMuteUntil(in.muteFor),
     useDefaultPinned |-> in.useDefaultPinned, disablePinned |-> in.disablePinned,
     useDefaultMention |-> in.useDefaultMention, disableMention |-> in.disableMention]

\* get_dialog_notification_settings(peerNotifySettings, old_settings): the
\* client-only fields are kept from the old settings, also for a null
\* object; a mute deadline already past is dropped.
ServerSettings(ps, old) ==
    IF ps = NoServerSettings
    THEN [DefaultSettings EXCEPT !.useDefaultPinned = old.useDefaultPinned,
                                 !.disablePinned = old.disablePinned,
                                 !.useDefaultMention = old.useDefaultMention,
                                 !.disableMention = old.disableMention]
    ELSE [old EXCEPT !.useDefaultMuteUntil = ~ps.hasMuteUntil,
                     !.muteUntil = IF ~ps.hasMuteUntil \/ ps.muteUntil <= now
                                   THEN 0 ELSE ps.muteUntil]

\* need_update_dialog_notification_settings(current, new).are_changed.
AreChanged(cur, new) ==
    \/ cur.muteUntil # new.muteUntil
    \/ cur.useDefaultMuteUntil # new.useDefaultMuteUntil
    \/ Local(cur) # Local(new)

-----------------------------------------------------------------------------
(* Initial state: the chat has default settings *)

Init ==
    /\ now \in Clock
    /\ settings = DefaultSettings
    /\ request = [origin |-> "none"]
    /\ asked = Local(DefaultSettings)

-----------------------------------------------------------------------------
(* Actions *)

\* setChatNotificationSettings: the new settings are converted and stored
\* when they differ from the current ones.
SetChatNotificationSettings(in) ==
    LET new == ClientSettings(in, settings) IN
    /\ settings' = IF AreChanged(settings, new) THEN new ELSE settings
    /\ request' = [origin |-> "client", at |-> now,
                   useDefaultMuteFor |-> in.useDefaultMuteFor, muteFor |-> in.muteFor]
    /\ asked' = Local(in)
    /\ UNCHANGED now

\* updateNotifySettings, or the settings of a loaded chat, from the server.
OnServerSettings(ps) ==
    /\ settings' = ServerSettings(ps, settings)
    /\ request' = [origin |-> "server", at |-> now]
    /\ UNCHANGED <<now, asked>>

\* Time passes.
Tick ==
    /\ \E t \in Clock : t > now /\ now' = t
    /\ UNCHANGED <<settings, request, asked>>

Next ==
    \/ \E in \in ClientInputs : SetChatNotificationSettings(in)
    \/ \E ps \in ServerInputs : OnServerSettings(ps)
    \/ Tick

Spec == Init /\ [][Next]_vars

-----------------------------------------------------------------------------
(* Properties *)

TypeOK ==
    /\ now \in Clock
    /\ settings \in Settings
    /\ request \in Requests
    /\ asked \in LocalFields

\* A mute the client asks for lasts at least as long as asked, or until the
\* end of int32 time: after setChatNotificationSettings with mute_for > 0 at
\* time t, mute_until > u for every u in t .. t + mute_for - 1 that an int32
\* can hold; and a default or non-positive mute_for unmutes the chat.
MuteHonoured ==
    request.origin = "client" =>
        IF ~request.useDefaultMuteFor /\ request.muteFor > 0
        THEN /\ ~settings.useDefaultMuteUntil
             /\ settings.muteUntil >= request.at + IF request.muteFor < IntMax - request.at
                                                   THEN request.muteFor
                                                   ELSE IntMax - request.at
        ELSE settings.muteUntil = 0

\* The pinned-message and mention switches are the client's: no settings
\* pushed by the server, null ones included, change what the client last
\* set.
LocalFieldsFollowClient == Local(settings) = asked

=============================================================================
