-------------------- MODULE NotificationSettingsProofs ----------------------
(***************************************************************************)
(* Proofs about NotificationSettings for every int32 width, clock and set  *)
(* of inputs that satisfy ConstantsAssumption.                             *)
(***************************************************************************)
EXTENDS NotificationSettings, TLAPS

\* int32 arithmetic that does not overflow is exact: wrapping a value an
\* int32 can hold gives the value back.
LEMMA WrapExact ==
    ASSUME NEW x \in Int32
    PROVE  Wrap(x) = x
<1>1. IntMax \in Nat \ {0}
  BY ConstantsAssumption
<1>2. x + IntMax + 1 \in 0..(2 * (IntMax + 1) - 1)
  BY <1>1 DEF Int32
<1>3. (x + IntMax + 1) % (2 * (IntMax + 1)) = x + IntMax + 1
  BY <1>1, <1>2
<1>. QED
  BY <1>1, <1>3 DEF Wrap, Int32

\* get_mute_until's contract: an int32 deadline, 0 for a non-positive
\* duration, and otherwise never earlier than the duration from now or the
\* end of int32 time, whichever comes first.  Its overflow guard is what
\* keeps mute_for + current_time from wrapping.
LEMMA MuteUntilContract ==
    ASSUME NEW m \in Int32, now \in 0..IntMax
    PROVE  /\ GetMuteUntil(m) \in Int32
           /\ m <= 0 => GetMuteUntil(m) = 0
           /\ m > 0 => GetMuteUntil(m) >= now + IF m < IntMax - now THEN m ELSE IntMax - now
<1>1. IntMax \in Nat \ {0} /\ MaxPreciseMuteFor \in 1..IntMax
  BY ConstantsAssumption
<1>2. Wrap(IntMax - now) = IntMax - now
  BY <1>1, WrapExact DEF Int32
<1>3. CASE m <= 0
  BY <1>1, <1>3 DEF GetMuteUntil, Int32
<1>4. CASE m > 0 /\ (m > MaxPreciseMuteFor \/ m >= IntMax - now)
  BY <1>1, <1>2, <1>4 DEF GetMuteUntil, Int32
<1>5. CASE m > 0 /\ ~(m > MaxPreciseMuteFor \/ m >= IntMax - now)
  <2>1. m + now \in Int32
    BY <1>1, <1>5 DEF Int32
  <2>2. Wrap(m + now) = m + now
    BY <2>1, WrapExact
  <2>3. GetMuteUntil(m) = m + now
    BY <1>1, <1>2, <1>5, <2>2 DEF GetMuteUntil, Int32
  <2>. QED
    BY <1>1, <1>5, <2>1, <2>3 DEF Int32
<1>. QED
  BY <1>3, <1>4, <1>5 DEF Int32

-----------------------------------------------------------------------------
(* The inductive invariant *)

\* The two properties the run checks are inductive together with the type:
\* each refers to the last request and the settings it left, and the clock,
\* which alone moves between requests, does not appear in them.
IInv == TypeOK /\ MuteHonoured /\ LocalFieldsFollowClient

LEMMA InitIInv == Init => IInv
  BY ConstantsAssumption
  DEF Init, IInv, TypeOK, MuteHonoured, LocalFieldsFollowClient, Settings, Requests,
      LocalFields, Local, DefaultSettings, Int32

\* setChatNotificationSettings leaves the settings it converted, or equal
\* ones in every field the properties look at.
LEMMA ClientStep ==
    ASSUME IInv, NEW in \in ClientInputs, SetChatNotificationSettings(in)
    PROVE  IInv'
<1>1. IntMax \in Nat \ {0} /\ Clock \subseteq 0..IntMax /\ MuteFors \subseteq Int32
  BY ConstantsAssumption
<1>. DEFINE new == ClientSettings(in, settings)
<1>2. now \in 0..IntMax /\ in.muteFor \in Int32
  BY <1>1 DEF IInv, TypeOK, ClientInputs
<1>3. new \in Settings
  <2>1. GetMuteUntil(in.muteFor) \in Int32
    BY <1>2, MuteUntilContract
  <2>2. 0 \in Int32
    BY <1>1 DEF Int32
  <2>3. new.muteUntil \in Int32
    BY <2>1, <2>2, Zenon DEF ClientSettings
  <2>. QED
    BY <2>3, Zenon DEF ClientSettings, Settings, ClientInputs
<1>4. /\ settings'.muteUntil = new.muteUntil
      /\ settings'.useDefaultMuteUntil = new.useDefaultMuteUntil
      /\ Local(settings') = Local(new)
      /\ settings' \in Settings
  BY <1>3 DEF SetChatNotificationSettings, AreChanged, IInv, TypeOK
<1>5. /\ request' = [origin |-> "client", at |-> now,
                     useDefaultMuteFor |-> in.useDefaultMuteFor, muteFor |-> in.muteFor]
      /\ asked' = Local(in) /\ now' = now
  BY DEF SetChatNotificationSettings
<1>6. TypeOK'
  BY <1>4, <1>5 DEF IInv, TypeOK, Requests, ClientInputs, LocalFields, Local
<1>7. MuteHonoured'
  <2>1. new.useDefaultMuteUntil = in.useDefaultMuteFor
    BY DEF ClientSettings
  <2>2. CASE ~in.useDefaultMuteFor /\ in.muteFor > 0
    BY <1>2, <1>4, <1>5, <2>1, <2>2, MuteUntilContract DEF MuteHonoured, ClientSettings
  <2>3. CASE in.useDefaultMuteFor
    BY <1>4, <1>5, <2>3 DEF MuteHonoured, ClientSettings
  <2>4. CASE ~in.useDefaultMuteFor /\ in.muteFor <= 0
    BY <1>2, <1>4, <1>5, <2>4, MuteUntilContract DEF MuteHonoured, ClientSettings
  <2>. QED
    BY <1>2, <2>2, <2>3, <2>4 DEF Int32
<1>8. LocalFieldsFollowClient'
  BY <1>4, <1>5 DEF LocalFieldsFollowClient, ClientSettings, Local
<1>. QED
  BY <1>6, <1>7, <1>8 DEF IInv

\* A server push leaves the client-only fields as they were and makes no
\* promise about the mute.
LEMMA ServerStep ==
    ASSUME IInv, NEW ps \in ServerInputs, OnServerSettings(ps)
    PROVE  IInv'
<1>1. ServerMuteUntils \subseteq Int32
  BY ConstantsAssumption
<1>2. /\ Local(settings') = Local(settings)
      /\ settings' \in Settings
  <2>0. settings \in Settings
    BY DEF IInv, TypeOK
  <2>1. CASE ps = NoServerSettings
    <3>1. settings' = [useDefaultMuteUntil |-> TRUE, muteUntil |-> 0,
                       useDefaultPinned |-> settings.useDefaultPinned,
                       disablePinned |-> settings.disablePinned,
                       useDefaultMention |-> settings.useDefaultMention,
                       disableMention |-> settings.disableMention]
      BY <2>1, Zenon DEF OnServerSettings, ServerSettings, DefaultSettings
    <3>2. 0 \in Int32
      BY ConstantsAssumption DEF Int32
    <3>. QED
      BY <2>0, <3>1, <3>2, Zenon DEF Local, Settings
  <2>2. CASE ps # NoServerSettings
    <3>1. ps \in [hasMuteUntil : BOOLEAN, muteUntil : ServerMuteUntils]
      BY <2>2 DEF ServerInputs
    <3>2. settings' = [settings EXCEPT !.useDefaultMuteUntil = ~ps.hasMuteUntil,
                                      !.muteUntil = IF ~ps.hasMuteUntil \/ ps.muteUntil <= now
                                                    THEN 0 ELSE ps.muteUntil]
      BY <2>2 DEF OnServerSettings, ServerSettings
    <3>3. (IF ~ps.hasMuteUntil \/ ps.muteUntil <= now THEN 0 ELSE ps.muteUntil) \in Int32
      <4>1. ps.muteUntil \in ServerMuteUntils
        BY <3>1, Zenon
      <4>2. ps.muteUntil \in Int32
        BY <1>1, <4>1, Zenon
      <4>3. 0 \in Int32
        BY ConstantsAssumption DEF Int32
      <4>. QED
        BY <4>2, <4>3, Zenon
    <3>. QED
      BY <2>0, <3>2, <3>3, Zenon DEF Local, Settings
  <2>. QED
    BY <2>1, <2>2
<1>3. request' = [origin |-> "server", at |-> now] /\ UNCHANGED <<now, asked>>
  BY DEF OnServerSettings
<1>. QED
  BY <1>2, <1>3 DEF IInv, TypeOK, Requests, MuteHonoured, LocalFieldsFollowClient

LEMMA IInvStep == IInv /\ [Next]_vars => IInv'
<1>. SUFFICES ASSUME IInv, [Next]_vars PROVE IInv'
  OBVIOUS
<1>1. CASE \E in \in ClientInputs : SetChatNotificationSettings(in)
  BY <1>1, ClientStep
<1>2. CASE \E ps \in ServerInputs : OnServerSettings(ps)
  BY <1>2, ServerStep
<1>3. CASE Tick
  BY <1>3 DEF Tick, IInv, TypeOK, MuteHonoured, LocalFieldsFollowClient
<1>4. CASE UNCHANGED vars
  BY <1>4 DEF vars, IInv, TypeOK, MuteHonoured, LocalFieldsFollowClient
<1>. QED
  BY <1>1, <1>2, <1>3, <1>4 DEF Next

-----------------------------------------------------------------------------
(* Theorems *)

\* Every reachable state of the notification settings is well typed: in
\* particular mute_until always holds an int32.
THEOREM TypeCorrect == Spec => []TypeOK
  BY InitIInv, IInvStep, PTL DEF Spec, IInv

\* For every int32 width and clock: after setChatNotificationSettings asks
\* for a mute of mute_for > 0 seconds, the chat stays muted for that long or
\* until the end of int32 time; get_mute_until's overflow guard never lets
\* the deadline wrap into the past.
THEOREM MuteHonouredHolds == Spec => []MuteHonoured
  BY InitIInv, IInvStep, PTL DEF Spec, IInv

\* The pinned-message and mention switches are never changed by settings
\* from the server, a null peerNotifySettings included.
THEOREM LocalFieldsKept == Spec => []LocalFieldsFollowClient
  BY InitIInv, IInvStep, PTL DEF Spec, IInv
=============================================================================
