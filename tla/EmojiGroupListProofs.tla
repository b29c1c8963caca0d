------------------------- MODULE EmojiGroupListProofs -------------------------
(***************************************************************************)
(* ExpiryExact for every clock and set of group lists: the deadline of the *)
(* list is always an hour after it was last received or confirmed, or 0    *)
(* when it was not since the process started.                             *)
(***************************************************************************)
EXTENDS EmojiGroupList, TLAPS

\* The variables have the types the actions give them.
TypeInv ==
    /\ now \in Clock
    /\ list \in [groups : GroupLists \cup {NoGroups}, hash : Nat, nextReloadTime : Nat]
    /\ server \in GroupLists
    /\ pending \in Nat \cup {NoRequest}
    /\ fresh \in Clock \cup {Never}
    /\ restarts \in Nat

\* next_reload_time_ is an hour after the list was last received or
\* confirmed, which was no later than now; 0 if it never was.
Deadline ==
    IF fresh = Never
    THEN list.nextReloadTime = 0
    ELSE /\ list.nextReloadTime = fresh + ReloadPeriod
         /\ fresh <= now

IInv == TypeInv /\ Deadline

LEMMA InitIInv == Init => IInv
BY ConstantsAssumption DEF Init, IInv, TypeInv, Deadline, DefaultList

LEMMA IInvStep == IInv /\ [Next]_vars => IInv'
<1> SUFFICES ASSUME IInv, [Next]_vars PROVE IInv'
  OBVIOUS
<1>0. /\ Clock \subseteq Nat
      /\ GroupLists \subseteq Nat
      /\ Never \notin Nat
      /\ NoRequest \notin Nat
  BY ConstantsAssumption
<1>1. CASE Reload
  BY <1>0, <1>1 DEF Reload, IInv, TypeInv, Deadline
<1>2. CASE OnEmojiGroupsNotModified
  BY <1>0, <1>2 DEF OnEmojiGroupsNotModified, UpdateNextReloadTime, IInv, TypeInv,
                    Deadline, ReloadPeriod
<1>3. CASE OnEmojiGroups
  BY <1>0, <1>3 DEF OnEmojiGroups, NewList, IInv, TypeInv, Deadline, ReloadPeriod
<1>4. CASE ServerChange
  BY <1>0, <1>4 DEF ServerChange, IInv, TypeInv, Deadline
<1>5. CASE Tick
  BY <1>0, <1>5 DEF Tick, IInv, TypeInv, Deadline
<1>6. CASE Restart
  BY <1>0, <1>6 DEF Restart, IInv, TypeInv, Deadline
<1>7. CASE UNCHANGED vars
  BY <1>7 DEF vars, IInv, TypeInv, Deadline
<1> QED
  BY <1>1, <1>2, <1>3, <1>4, <1>5, <1>6, <1>7 DEF Next

\* is_expired compares strictly with the deadline, so the list is expired
\* exactly when it was never received or confirmed since the start, or
\* more than an hour ago (ExpiryExact).
THEOREM ExpiryExactHolds == Spec => []ExpiryExact
<1>1. IInv => ExpiryExact
  BY ConstantsAssumption DEF IInv, TypeInv, Deadline, ExpiryExact, IsExpired
<1>2. Spec => []IInv
  BY InitIInv, IInvStep, PTL DEF Spec
<1> QED
  BY <1>1, <1>2, PTL
=============================================================================
