--------------------------- MODULE EmojiGroupList ---------------------------
(***************************************************************************)
(* The cached list of emoji categories, td/telegram/EmojiGroup.{h,cpp}.    *)
(* A list received from the server expires an hour after it was received   *)
(* (next_reload_time_ = Time::now() + 3600); a default or reloaded-from-   *)
(* disk list has next_reload_time_ = 0 and is expired at once.  The owner  *)
(* reloads an expired list with the list's hash: the server answers either *)
(* with new groups (a new EmojiGroupList) or "not modified", and the owner *)
(* then calls update_next_reload_time.  The owner (StickersManager) and    *)
(* the server are not part of the sources: the model lets them do only    *)
(* what the interface of EmojiGroupList offers them, in any order.         *)
(*                                                                         *)
(* Time::now() is a monotonic clock, here a set of whole seconds; the      *)
(* emoji groups and language codes are model values.                      *)
(***************************************************************************)
EXTENDS Naturals

CONSTANTS
    Clock,        \* values of Time::now(), in seconds
    GroupLists,   \* the emoji groups the server may hold, each named by its
                  \* (nonzero) hash
    MaxRestarts,  \* bound on restarts
    NoRequest,    \* no reload request in flight
    Never,        \* the list was never received or confirmed
    NoGroups      \* the empty emoji_groups_ of a default list

\* The reload period of EmojiGroupList, in seconds.
ReloadPeriod == 3600

ASSUME ConstantsAssumption ==
    /\ Clock \subseteq Nat \ {0}
    /\ Clock # {}
    /\ GroupLists \subseteq Nat \ {0}
    /\ MaxRestarts \in Nat
    /\ {NoRequest, Never, NoGroups} \cap Nat = {}

VARIABLES
    now,       \* Time::now()
    list,      \* the owner's EmojiGroupList: groups, hash_, next_reload_time_
    server,    \* the groups the server holds now
    pending,   \* the hash of the reload request in flight, or NoRequest
    fresh,     \* the last time the list was received or confirmed, or Never
    restarts   \* restarts so far

vars == <<now, list, server, pending, fresh, restarts>>

-----------------------------------------------------------------------------
(* Plausible bugs, each replacing one definition below in a mutation check *)

\* update_next_reload_time without the reload period: the list is due
\* again at once, and every request reloads it.
UpdateNextReloadTimeNoPeriod(l) == [l EXCEPT !.nextReloadTime = now]

-----------------------------------------------------------------------------
(* EmojiGroup.cpp *)

\* EmojiGroupList(): next_reload_time_ = 0.0 (EmojiGroup.h), hash_ = 0.
DefaultList == [groups |-> NoGroups, hash |-> 0, nextReloadTime |-> 0]

\* EmojiGroupList(used_language_codes, hash, emoji_groups).
NewList(g) == [groups |-> g, hash |-> g, nextReloadTime |-> now + ReloadPeriod]

\* is_expired().
IsExpired(l) == l.nextReloadTime < now

\* update_next_reload_time().
UpdateNextReloadTime(l) == [l EXCEPT !.nextReloadTime = now + ReloadPeriod]

-----------------------------------------------------------------------------

Init ==
    /\ now \in Clock
    /\ list = DefaultList
    /\ server \in GroupLists
    /\ pending = NoRequest
    /\ fresh = Never
    /\ restarts = 0

\* The owner is asked for the categories and reloads an expired list, with
\* the hash of the list it has.
Reload ==
    /\ pending = NoRequest
    /\ IsExpired(list)
    /\ pending' = list.hash
    /\ UNCHANGED <<now, list, server, fresh, restarts>>

\* The server answers "not modified" to a reload with its current hash:
\* the owner keeps the list and calls update_next_reload_time.
OnEmojiGroupsNotModified ==
    /\ pending # NoRequest
    /\ pending = server
    /\ list' = UpdateNextReloadTime(list)
    /\ pending' = NoRequest
    /\ fresh' = now
    /\ UNCHANGED <<now, server, restarts>>

\* The server answers with its groups: the owner builds a new list.
OnEmojiGroups ==
    /\ pending # NoRequest
    /\ pending # server
    /\ list' = NewList(server)
    /\ pending' = NoRequest
    /\ fresh' = now
    /\ UNCHANGED <<now, server, restarts>>

\* The server's groups change.
ServerChange ==
    /\ \E g \in GroupLists \ {server} : server' = g
    /\ UNCHANGED <<now, list, pending, fresh, restarts>>

Tick ==
    /\ \E t \in Clock : t > now /\ now' = t
    /\ UNCHANGED <<list, server, pending, fresh, restarts>>

\* A restart loads the list from disk: the groups and hash are kept, the
\* deadline is not stored and is 0 again; a request in flight is lost.
Restart ==
    /\ restarts < MaxRestarts
    /\ list' = [list EXCEPT !.nextReloadTime = 0]
    /\ pending' = NoRequest
    /\ fresh' = Never
    /\ restarts' = restarts + 1
    /\ UNCHANGED <<now, server>>

Next ==
    \/ Reload \/ OnEmojiGroupsNotModified \/ OnEmojiGroups
    \/ ServerChange \/ Tick \/ Restart

Spec == Init /\ [][Next]_vars

-----------------------------------------------------------------------------
(* Properties *)

\* The list is expired exactly when it was never received or confirmed
\* since the process started, or more than ReloadPeriod seconds ago: the
\* deadline of the constructor and the one pushed back by
\* update_next_reload_time keep a list served for one hour after it was
\* received or confirmed, and the zero deadline of a list loaded at a
\* restart makes it due at once.
ExpiryExact ==
    IsExpired(list) <=> (fresh = Never \/ now > fresh + ReloadPeriod)

=============================================================================
