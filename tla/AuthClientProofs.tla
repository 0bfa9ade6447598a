-------------------------- MODULE AuthClientProofs --------------------------
(***************************************************************************)
(* Theorems about AuthClient, for any number of calls, runs of logOut,     *)
(* token pairs and faults.                                                 *)
(***************************************************************************)
EXTENDS AuthClient, FiniteSetTheorems, TLAPS

USE DEF store, server, history

-----------------------------------------------------------------------------
(***************************************************************************)
(* Types                                                                   *)
(***************************************************************************)
\* The number of the next pair is one that there may be.
LEMMA NextPair ==
  ASSUME used \subseteq Pair
  PROVE  lastPair \in Nat /\ (lastPair < MaxPairs => lastPair + 1 \in Pair)
<1>1. IsFiniteSet(Pair)
  BY ConfigAssumption, FS_Interval DEF ConfigAssumption, Pair
<1>2. Cardinality(used) \in Nat
  BY <1>1, FS_Subset, FS_CardinalityType
<1> QED BY <1>2, ConfigAssumption DEF ConfigAssumption, Pair, lastPair

\* The refresh under way: what is sent is a pair, and what is answered too if it
\* is granted.
RefreshOK ==
  /\ refresh.phase = "none" <=> refresh = NoRefresh
  /\ refresh.phase \in {"sent", "read"} <=>
       refresh.phase # "none" /\ refresh.answer = "none"
  /\ refresh.phase \in {"sent", "read"} \/ refresh.answer = "granted" =>
       refresh.pair \in Pair

\* The types of what is not a truth value, and of those.
Typed ==
  /\ pair \in Pair \union {0}
  /\ disk \in [pair : Pair \union {0}, authed : BOOLEAN]
  /\ refreshPromise \in {"null", "pending", "rejected"}
  /\ refresh \in Refresh
  /\ calls \in [Calls -> Call]
  /\ logOuts \in [LogOuts -> LogOut]
  /\ due \in ClientDues
  /\ usable \subseteq [id : Pair, token : Pair] /\ used \subseteq Pair
  /\ orphans \subseteq Pair
  /\ age \in [Pair -> Age]
  /\ faults \in 0 .. MaxFaults
  /\ over \subseteq Pair

Switches ==
  /\ authed \in BOOLEAN /\ loading \in BOOLEAN /\ hydrated \in BOOLEAN
  /\ signingIn \in BOOLEAN /\ excused \in BOOLEAN

TypeInv == Typed /\ Switches /\ RefreshOK

LEMMA SwitchesStep == Typed /\ Switches /\ [Next]_vars => Switches'
<1> SUFFICES ASSUME Typed, Switches, [Next]_vars PROVE Switches'
  OBVIOUS
<1> USE DEF Switches
<1>d. disk.authed \in BOOLEAN
  BY DEF Typed
<1>1. CASE RefreshRead \/ RefreshUpdate \/ \E n \in orphans : OrphanServed(n)
  BY <1>1, Zenon DEF RefreshRead, RefreshUpdate, OrphanServed
<1>2. CASE \/ \E n \in live : SessionEnds(n)
           \/ \E n \in Pair : Aging(n)
  BY <1>2, Zenon DEF SessionEnds, Aging
<1>3. ASSUME NEW c \in Calls, CallStart(c) PROVE Switches'
  BY <1>3, Zenon DEF CallStart, AwaitRefresh
<1>4. ASSUME NEW c \in Calls, CallAnswered(c) \/ CallFails(c) \/ CallCheckFails(c)
      PROVE  Switches'
  BY <1>4, Zenon DEF CallAnswered, AwaitRefresh, CallFails, CallCheckFails, Fault
<1>5. CASE RefreshGranted \/ RefreshRefused \/ RefreshInvalid \/ RefreshLost
  BY <1>5, Zenon DEF RefreshGranted, RefreshRefused, RefreshInvalid, RefreshLost,
     RefreshThrows, Fault
<1>6. ASSUME NEW l \in LogOuts, \/ LogOutPressed(l) \/ LogOutBegins(l) \/ LogOutPosts(l)
                                \/ LogOutServed(l) \/ LogOutAnswered(l) \/ LogOutLost(l)
      PROVE  Switches'
  BY <1>6, Zenon DEF LogOutPressed, LogOutBegins, LogOutPosts, LogOutServed,
     LogOutAnswered, LogOutLost, ClearAll, Fault
<1>7. CASE SignInStart \/ SignInEnds \/ Persist \/ Killed \/ Rehydrated
  BY <1>7, <1>d, Zenon DEF SignInStart, SignInEnds, Persist, Killed, Rehydrated, ClearAll,
     Fault
<1>8. CASE SignInGranted
  BY <1>8, Zenon DEF SignInGranted, LeftOver
<1>9. CASE UNCHANGED vars
  BY <1>9 DEF vars
<1> QED BY <1>1, <1>2, <1>3, <1>4, <1>5, <1>6, <1>7, <1>8, <1>9 DEF Next

\* A pair is replaced by another.
LEMMA RotateTyped ==
  ASSUME Typed, NEW n \in Pair, Rotate(n)
  PROVE  /\ usable' \subseteq [id : Pair, token : Pair] /\ used' \subseteq Pair
         /\ age' \in [Pair -> Age]
         /\ lastPair + 1 \in Pair /\ lastPair + 1 \notin used
         /\ used' = used \union {lastPair + 1}
         /\ n \in live /\ lastPair + 1 \in live'
         /\ \A m \in live : m \in live' \/ m = n
<1>1. PICK u \in usable : u.token = n /\ Service!Rotate(u, lastPair + 1)
  BY DEF Rotate
<1>2. lastPair + 1 \in Pair
  BY NextPair DEF Rotate, Typed
<1>3. /\ usable' = (usable \ {u}) \union {[id |-> u.id, token |-> lastPair + 1]}
      /\ used' = used \union {lastPair + 1} /\ lastPair + 1 \notin used
  BY <1>1 DEF Service!Rotate
<1>4. \A m \in live : m \in live' \/ m = n
  BY <1>1, <1>3 DEF live
<1> DEFINE new == [id |-> u.id, token |-> lastPair + 1]
<1>5. lastPair + 1 \in live' /\ n \in live
  <2>1. new \in usable' /\ new.token = lastPair + 1
    BY <1>3
  <2> HIDE DEF new
  <2> QED BY <1>1, <2>1 DEF live
<1> QED BY <1>1, <1>2, <1>3, <1>4, <1>5 DEF Rotate, Typed

\* A pair is made, and not put in service.
LEMMA MissTyped ==
  ASSUME Typed, NEW n \in Pair, Miss(n)
  PROVE  /\ UNCHANGED usable /\ used' \subseteq Pair
         /\ age' \in [Pair -> Age]
         /\ lastPair + 1 \in Pair
<1>1. lastPair + 1 \in Pair
  BY NextPair DEF Miss, Typed
<1> QED BY <1>1 DEF Miss, Service!Discard, Typed

LEMMA IssueTyped ==
  ASSUME Typed, Issue
  PROVE  /\ usable' \subseteq [id : Pair, token : Pair] /\ used' \subseteq Pair
         /\ age' \in [Pair -> Age]
         /\ lastPair + 1 \in Pair /\ lastPair + 1 \notin used
         /\ used' = used \union {lastPair + 1}
         /\ lastPair + 1 \in live' /\ live \subseteq live'
<1>1. lastPair + 1 \in Pair
  BY NextPair DEF Issue, Typed
<1>2. /\ usable' = usable \union {[id |-> lastPair + 1, token |-> lastPair + 1]}
      /\ used' = used \union {lastPair + 1} /\ lastPair + 1 \notin used
  BY DEF Issue, Service!Open
<1> DEFINE new == [id |-> lastPair + 1, token |-> lastPair + 1]
<1>3. new \in usable' /\ new.token = lastPair + 1 /\ usable \subseteq usable'
  BY <1>2
<1>4. lastPair + 1 \in live' /\ live \subseteq live'
  <2> HIDE DEF new
  <2> QED BY <1>3 DEF live
<1> QED BY <1>1, <1>2, <1>4 DEF Issue, Typed

\* A session that ends takes no pair but its own out of service.
LEMMA EndsTyped ==
  ASSUME Typed, NEW n, Ends(n)
  PROVE  /\ usable' \subseteq [id : Pair, token : Pair] /\ UNCHANGED used
         /\ \A m \in live : m \in live' \/ m = n
<1>1. usable' = usable \ {u \in usable : u.token = n} /\ UNCHANGED used
  BY DEF Ends, Service!End
<1> QED BY <1>1 DEF live, Typed

\* setTimeout(logOut, 1), as it leaves the runs.
LEMMA ScheduleTyped ==
  ASSUME Typed, ScheduleLogOut
  PROVE  /\ logOuts' \in [LogOuts -> LogOut]
         /\ \A l \in LogOuts : logOuts'[l].pair \in {logOuts[l].pair, 0}
         /\ \E l \in LogOuts : logOuts'[l] # Idle
<1>1. PICK l \in LogOuts :
        logOuts' = [logOuts EXCEPT ![l] = [st |-> "timer", pair |-> 0]]
  BY DEF ScheduleLogOut
<1>2. logOuts'[l] = [st |-> "timer", pair |-> 0] /\ logOuts'[l] # Idle
  BY <1>1 DEF Typed, Idle
<1> QED BY <1>1, <1>2 DEF Typed, LogOut


\* The shapes of a refresh under way.
LEMMA Refreshes ==
  ASSUME NEW n \in Pair
  PROVE  /\ [phase |-> "sent", pair |-> n, answer |-> "none"] \in Refresh
         /\ [phase |-> "read", pair |-> n, answer |-> "none"] \in Refresh
         /\ [phase |-> "answered", pair |-> n, answer |-> "granted"] \in Refresh
         /\ [phase |-> "answered", pair |-> 0, answer |-> "refused"] \in Refresh
         /\ [phase |-> "answered", pair |-> 0, answer |-> "invalid"] \in Refresh
         /\ NoRefresh \in Refresh
  BY DEF Refresh, NoRefresh

\* What AwaitRefresh does with the call, the refresh and the runs of logOut.
LEMMA AwaitTyped ==
  ASSUME TypeInv, NEW c \in Calls, NEW retried \in BOOLEAN, AwaitRefresh(c, retried)
  PROVE  /\ calls' \in [Calls -> Call] /\ refresh' \in Refresh /\ RefreshOK'
         /\ refreshPromise' \in {"null", "pending", "rejected"}
         /\ logOuts' \in [LogOuts -> LogOut]
<1> USE DEF TypeInv, Typed
<1>1. [st |-> "waiting", pair |-> 0, retried |-> retried] \in Call /\ Free \in Call
  BY DEF Call, Free
<1>2. calls' \in [Calls -> Call] /\ refreshPromise' \in {"null", "pending", "rejected"}
  BY <1>1 DEF AwaitRefresh
<1>3. logOuts' \in [LogOuts -> LogOut]
  BY ScheduleTyped DEF AwaitRefresh
<1>4. CASE UNCHANGED refresh
  BY <1>2, <1>3, <1>4 DEF RefreshOK
<1>5. CASE pair # 0 /\ refresh' = [phase |-> "sent", pair |-> pair, answer |-> "none"]
  <2>1. refresh' \in Refresh
    BY <1>5, Refreshes
  <2> QED BY <1>2, <1>3, <1>5, <2>1 DEF RefreshOK, NoRefresh
<1> QED BY <1>4, <1>5 DEF AwaitRefresh

\* What the server does with a refresh, as it leaves the refresh.
LEMMA ServedTyped ==
  ASSUME TypeInv, RefreshRead \/ RefreshUpdate
  PROVE  refresh' \in Refresh /\ RefreshOK'
<1>1. refresh.pair \in Pair /\ refresh \in Refresh /\ refresh.answer = "none"
  BY DEF RefreshRead, RefreshUpdate, TypeInv, Typed, RefreshOK
<1>2. CASE refresh' = [refresh EXCEPT !.phase = "read"]
  <2>1. refresh' = [phase |-> "read", pair |-> refresh.pair, answer |-> "none"]
    BY <1>1, <1>2 DEF Refresh
  <2> QED BY <1>1, <2>1, Refreshes DEF RefreshOK, NoRefresh
<1>3. ASSUME NEW a \in {"invalid", "refused"}, Answered(0, a)
      PROVE  refresh' \in Refresh /\ RefreshOK'
  <2>1. refresh' = [phase |-> "answered", pair |-> 0, answer |-> a]
    BY <1>3 DEF Answered
  <2>2. refresh'.phase = "answered" /\ refresh'.answer = a /\ refresh' \in Refresh
    BY <1>1, <2>1, Refreshes
  <2> QED BY <2>2 DEF RefreshOK, NoRefresh
<1>4. CASE /\ Rotate(refresh.pair) \/ Miss(refresh.pair)
           /\ Answered(lastPair + 1, "granted")
  <2>1. lastPair + 1 \in Pair
    BY <1>1, <1>4, RotateTyped, MissTyped DEF TypeInv
  <2> HIDE DEF lastPair
  <2> QED BY <1>4, <2>1, Refreshes DEF Answered, RefreshOK, NoRefresh
<1> QED BY <1>2, <1>3, <1>4 DEF RefreshRead, RefreshUpdate

LEMMA ServerTyped ==
  ASSUME TypeInv,
         \/ RefreshRead \/ RefreshUpdate
         \/ \E n \in orphans : OrphanServed(n)
         \/ \E n \in live : SessionEnds(n)
         \/ \E n \in Pair : Aging(n)
  PROVE  Typed' /\ RefreshOK'
<1> USE DEF TypeInv, Typed
<1>1. CASE RefreshRead
  BY <1>1, ServedTyped DEF RefreshRead
<1>5. CASE RefreshUpdate
  <2>0. refresh.pair \in Pair
    BY <1>5 DEF RefreshUpdate, RefreshOK
  <2>1. /\ usable' \subseteq [id : Pair, token : Pair] /\ used' \subseteq Pair
        /\ age' \in [Pair -> Age]
    BY <1>5, <2>0, RotateTyped, MissTyped DEF RefreshUpdate
  <2>2. over' \subseteq Pair
    BY <1>5, <2>0, RotateTyped, MissTyped DEF RefreshUpdate
  <2> QED BY <1>5, <2>1, <2>2, ServedTyped DEF RefreshUpdate
<1>2. ASSUME NEW n \in orphans, OrphanServed(n) PROVE Typed' /\ RefreshOK'
  BY <1>2, RotateTyped DEF OrphanServed, RefreshOK
<1>3. ASSUME NEW n \in live, SessionEnds(n) PROVE Typed' /\ RefreshOK'
  <2>1. n \in Pair
    BY DEF live
  <2> QED BY <1>3, <2>1, EndsTyped DEF SessionEnds, RefreshOK
<1>4. ASSUME NEW n \in Pair, Aging(n) PROVE Typed' /\ RefreshOK'
  <2>1. age[n] + 1 \in Age
    BY <1>4 DEF Aging, Age, Expired
  <2> QED BY <1>4, <2>1 DEF Aging, RefreshOK
<1> QED BY <1>1, <1>2, <1>3, <1>4, <1>5

LEMMA FaultTyped ==
  ASSUME Typed, Fault
  PROVE  faults' \in 0 .. MaxFaults /\ UNCHANGED <<due, over>>
  BY ConfigAssumption DEF ConfigAssumption, Typed, Fault

LEMMA CallTyped ==
  ASSUME TypeInv, NEW c \in Calls,
         CallStart(c) \/ CallAnswered(c) \/ CallFails(c) \/ CallCheckFails(c)
  PROVE  Typed' /\ RefreshOK'
<1> USE DEF TypeInv, Typed
<1>f. /\ Free \in Call
      /\ \A n \in Pair \union {0} : [st |-> "sent", pair |-> n, retried |-> FALSE] \in Call
  BY DEF Free, Call
<1>1. CASE CallStart(c)
  <2>1. CASE pair = 0 /\ ScheduleLogOut /\ Send(c, 0, FALSE)
                /\ UNCHANGED <<loading, refreshPromise, refresh>>
    BY <1>1, <1>f, <2>1, ScheduleTyped DEF CallStart, Send, RefreshOK
  <2>2. CASE Send(c, pair, FALSE) /\ UNCHANGED <<refreshPromise, refresh, logOuts>>
    BY <1>1, <1>f, <2>2 DEF CallStart, Send, RefreshOK
  <2>3. CASE AwaitRefresh(c, FALSE)
    BY <1>1, <2>3, AwaitTyped DEF CallStart
  <2> QED BY <1>1, <2>1, <2>2, <2>3 DEF CallStart
<1>2. CASE CallAnswered(c)
  <2>1. CASE calls' = [calls EXCEPT ![c] = Free]
                /\ UNCHANGED <<loading, refreshPromise, refresh, logOuts>>
    BY <1>2, <1>f, <2>1 DEF CallAnswered, RefreshOK
  <2>2. CASE AwaitRefresh(c, TRUE)
    BY <1>2, <2>2, AwaitTyped DEF CallAnswered
  <2> QED BY <1>2, <2>1, <2>2 DEF CallAnswered
<1>3. CASE CallFails(c)
  BY <1>3, <1>f DEF CallFails, RefreshOK
<1>4. CASE CallCheckFails(c)
  BY <1>4, <1>f, ScheduleTyped, FaultTyped DEF CallCheckFails, RefreshOK
<1> QED BY <1>1, <1>2, <1>3, <1>4

LEMMA ThrowsTyped ==
  ASSUME TypeInv, RefreshThrows
  PROVE  /\ refresh' = NoRefresh /\ refresh' \in Refresh /\ RefreshOK'
         /\ calls' \in [Calls -> Call] /\ refreshPromise' = "rejected"
         /\ UNCHANGED <<pair, disk, server>>
<1>1. refresh' = NoRefresh /\ NoRefresh \in Refresh
  BY DEF RefreshThrows, Refresh, NoRefresh
<1>2. calls' \in [Calls -> Call]
  BY DEF RefreshThrows, TypeInv, Typed, Free, Call
<1> QED BY <1>1, <1>2 DEF RefreshThrows, RefreshOK, NoRefresh

LEMMA RefreshTyped ==
  ASSUME TypeInv, RefreshGranted \/ RefreshRefused \/ RefreshInvalid \/ RefreshLost
  PROVE  Typed' /\ RefreshOK'
<1> USE DEF TypeInv, Typed
<1>1. CASE RefreshGranted
  <2>1. refresh.pair \in Pair
    BY <1>1 DEF RefreshGranted, RefreshOK
  <2>2. NoRefresh \in Refresh /\ RefreshOK'
    <3>1. refresh' = NoRefresh
      BY <1>1 DEF RefreshGranted
    <3>2. NoRefresh.phase = "none" /\ NoRefresh.answer = "none"
      BY DEF NoRefresh
    <3> QED BY <2>1, <3>1, <3>2, Refreshes DEF RefreshOK
  <2>3. calls' \in [Calls -> Call]
    <3>1. ASSUME NEW k \in Call
          PROVE  [k EXCEPT !.st = "sent", !.pair = refresh.pair] \in Call
      BY ONLY <2>1, <3>1 DEF Call
    <3> QED BY <1>1, <3>1 DEF RefreshGranted
  <2> QED BY <1>1, <2>1, <2>2, <2>3 DEF RefreshGranted
<1>2. CASE RefreshRefused
  BY <1>2, ThrowsTyped DEF RefreshRefused
<1>3. CASE RefreshInvalid
  BY <1>3, ThrowsTyped, ScheduleTyped DEF RefreshInvalid
<1>4. CASE RefreshLost
  <2>1. orphans' \subseteq Pair
    BY <1>4 DEF RefreshLost, Abandoned, RefreshOK
  <2> QED BY <1>4, <2>1, ThrowsTyped, FaultTyped DEF RefreshLost
<1> QED BY <1>1, <1>2, <1>3, <1>4

LEMMA LogOutTyped ==
  ASSUME TypeInv, NEW l \in LogOuts,
         \/ LogOutPressed(l) \/ LogOutBegins(l) \/ LogOutPosts(l)
         \/ LogOutServed(l) \/ LogOutAnswered(l) \/ LogOutLost(l)
  PROVE  Typed' /\ RefreshOK'
<1> USE DEF TypeInv, Typed
<1>i. Idle \in LogOut /\ [st |-> "google", pair |-> pair] \in LogOut
        /\ [logOuts[l] EXCEPT !.st = "sent"] \in LogOut
        /\ [logOuts[l] EXCEPT !.st = "served"] \in LogOut
  BY DEF Idle, LogOut
<1>1. CASE LogOutPressed(l) \/ LogOutBegins(l)
  BY <1>1, <1>i DEF LogOutPressed, LogOutBegins, RefreshOK
<1>2. CASE LogOutPosts(l)
  BY <1>2, <1>i DEF LogOutPosts, ClearAll, RefreshOK
<1>3. CASE LogOutServed(l)
  <2>1. live \subseteq Pair
    BY DEF live
  <2> QED BY <1>3, <1>i, <2>1, EndsTyped DEF LogOutServed, RefreshOK
<1>5. CASE LogOutAnswered(l)
  BY <1>5, <1>i DEF LogOutAnswered, ClearAll, RefreshOK
<1>4. CASE LogOutLost(l)
  BY <1>4, <1>i, FaultTyped DEF LogOutLost, ClearAll, RefreshOK
<1> QED BY <1>1, <1>2, <1>3, <1>4, <1>5

LEMMA LifeTyped ==
  ASSUME TypeInv,
         \/ SignInStart \/ SignInGranted \/ SignInEnds \/ Persist \/ Killed \/ Rehydrated
  PROVE  Typed' /\ RefreshOK'
<1> USE DEF TypeInv, Typed
<1>1. CASE SignInStart \/ SignInEnds
  BY <1>1 DEF SignInStart, SignInEnds, RefreshOK
<1>2. CASE SignInGranted
  BY <1>2, IssueTyped DEF SignInGranted, RefreshOK
<1>3. CASE Persist
  <2>1. [pair |-> pair, authed |-> authed] \in [pair : Pair \union {0}, authed : BOOLEAN]
    BY DEF Switches
  <2> QED BY <1>3, <2>1 DEF Persist, RefreshOK
<1>4. CASE Killed
  <2>1. NoRefresh \in Refresh /\ Free \in Call /\ Idle \in LogOut
    BY DEF Refresh, NoRefresh, Free, Call, Idle, LogOut
  <2>2. orphans' \subseteq Pair /\ RefreshOK'
    BY <1>4 DEF Killed, Abandoned, RefreshOK, NoRefresh
  <2> QED BY <1>4, <2>1, <2>2, FaultTyped DEF Killed, ClearAll
<1>5. CASE Rehydrated
  BY <1>5 DEF Rehydrated, RefreshOK
<1> QED BY <1>1, <1>2, <1>3, <1>4, <1>5

LEMMA TypeStep == TypeInv /\ [Next]_vars => TypeInv'
<1> SUFFICES ASSUME TypeInv, [Next]_vars PROVE TypeInv'
  OBVIOUS
<1>1. Switches'
  BY SwitchesStep DEF TypeInv
<1>2. Typed' /\ RefreshOK'
  <2>1. CASE UNCHANGED vars
    BY <2>1 DEF vars, TypeInv, Typed, RefreshOK
  <2> QED
    BY <2>1, ServerTyped, CallTyped, RefreshTyped, LogOutTyped, LifeTyped DEF Next
<1> QED BY <1>1, <1>2 DEF TypeInv

LEMMA TypeInit == Init => TypeInv
<1> SUFFICES ASSUME Init PROVE TypeInv
  OBVIOUS
<1>1. Switches
  BY Zenon DEF Init, Switches
<1>2. /\ NoRefresh \in Refresh /\ Free \in Call /\ Idle \in LogOut
      /\ [pair |-> 0, authed |-> FALSE] \in [pair : Pair \union {0}, authed : BOOLEAN]
  BY DEF Refresh, NoRefresh, Free, Call, Idle, LogOut
<1>3. 0 \in Age /\ 0 \in 0 .. MaxFaults
  BY ConfigAssumption DEF ConfigAssumption, Age, Expired
<1>4. RefreshOK
  BY DEF Init, RefreshOK, NoRefresh
<1>5. Typed
  BY <1>2, <1>3 DEF Init, Service!Init, Typed
<1> QED BY <1>1, <1>4, <1>5 DEF TypeInv

\* The client's and the server's state have their types.
THEOREM TypeCorrect == Spec => []TypeOK
<1>1. TypeInv => TypeOK
  BY DEF TypeInv, Typed, Switches, TypeOK
<1> QED BY <1>1, TypeInit, TypeStep, PTL DEF Spec

-----------------------------------------------------------------------------
(***************************************************************************)
(* The inductive invariant of the client                                   *)
(***************************************************************************)
\* Until the store is loaded nothing is under way.
Quiet ==
  ~hydrated =>
    /\ ~loading /\ ~signingIn /\ refresh = NoRefresh
    /\ \A c \in Calls : calls[c] = Free
    /\ \A l \in LogOuts : logOuts[l] = Idle

\* As long as nothing was lost, no refresh is on its way with nobody waiting, and
\* the app has not been restarted.
Faultless ==
  faults = 0 =>
    /\ orphans = {}
    /\ ~hydrated => ~authed /\ pair = 0 /\ ~disk.authed /\ disk.pair = 0

\* A refresh that the server has read, and the pair it brings: in service, unless
\* the session is over.
Brought ==
  faults = 0 /\ (refresh.phase = "read" \/ refresh.answer = "granted") =>
    refresh.pair \in live \union over

\* The tokens that the client holds or is about to hold: no other was exchanged.
Current == IF refresh.answer = "granted" THEN refresh.pair ELSE pair

HeldOrOver == faults = 0 /\ pair # 0 => Current \in live \union over

\* A user who has no reason to be signed out: nothing is under way that would do
\* it, neither now nor by the answer to the refresh.
Safe ==
  faults = 0 /\ authed /\ ~excused =>
    /\ \A l \in LogOuts : logOuts[l] = Idle
    /\ refresh.answer # "invalid"
    /\ Current \in live
    /\ refresh.phase \in {"sent", "read"} => refresh.pair = pair

ClientInv ==
  /\ Quiet
  /\ Faultless
  /\ Brought
  /\ Safe
  /\ NobodyLeftWaiting
  /\ SignedInHasTokens
  /\ SignedOutNotLoading
  /\ HeldOrOver

\* The pairs in service are those of the sessions.
LEMMA LiveKept == UNCHANGED usable => live' = live
  BY DEF live

\* Whatever is under way shows that the store is loaded.
LEMMA Loaded ==
  ASSUME Quiet
  PROVE  /\ signingIn => hydrated
         /\ refresh.phase # "none" => hydrated
         /\ refresh.answer # "none" => hydrated
         /\ \A c \in Calls : calls[c].st # "free" => hydrated
         /\ \A l \in LogOuts : logOuts[l].st # "free" => hydrated
  BY DEF Quiet, NoRefresh, Free, Idle

\* Nothing but the server moves until the store is loaded.
LEMMA QuietStep == ASSUME TypeInv, Quiet, [Next]_vars PROVE Quiet'
<1> USE DEF Quiet
<1>1. CASE UNCHANGED <<hydrated, loading, signingIn, refresh, calls, logOuts>>
  BY <1>1
<1>2. CASE RefreshRead \/ RefreshUpdate
  BY <1>2 DEF RefreshRead, RefreshUpdate, NoRefresh
<1>3. ASSUME NEW c \in Calls, CallStart(c) PROVE Quiet'
  BY <1>3 DEF CallStart
<1>4. ASSUME NEW c \in Calls, CallAnswered(c) \/ CallFails(c) \/ CallCheckFails(c)
      PROVE  Quiet'
  <2>1. calls[c].st = "sent" /\ UNCHANGED hydrated
    BY <1>4 DEF CallAnswered, CallFails, CallCheckFails
  <2> QED BY <2>1, Loaded
<1>5. CASE RefreshGranted \/ RefreshRefused \/ RefreshInvalid \/ RefreshLost
  <2>1. refresh.answer # "none" \/ refresh.phase # "none"
    BY <1>5 DEF RefreshGranted, RefreshRefused, RefreshInvalid, RefreshLost
  <2>2. UNCHANGED hydrated
    BY <1>5 DEF RefreshGranted, RefreshRefused, RefreshInvalid, RefreshLost,
       RefreshThrows
  <2> QED BY <2>1, <2>2, Loaded
<1>6. ASSUME NEW l \in LogOuts, \/ LogOutPressed(l) \/ LogOutBegins(l) \/ LogOutPosts(l)
                                \/ LogOutServed(l) \/ LogOutAnswered(l) \/ LogOutLost(l)
      PROVE  Quiet'
  BY <1>6 DEF LogOutPressed, LogOutBegins, LogOutPosts, LogOutServed, LogOutAnswered,
     LogOutLost, Idle
<1>7. CASE SignInStart \/ SignInGranted \/ SignInEnds
  BY <1>7 DEF SignInStart, SignInGranted, SignInEnds
<1>8. CASE Killed
  BY <1>8 DEF Killed, ClearAll
<1>9. CASE Rehydrated
  BY <1>9 DEF Rehydrated
<1> QED
  BY <1>1, <1>2, <1>3, <1>4, <1>5, <1>6, <1>7, <1>8, <1>9
     DEF Next, vars, OrphanServed, SessionEnds, Aging, Persist

LEMMA WaitingStep ==
  ASSUME TypeInv, NobodyLeftWaiting, [Next]_vars PROVE NobodyLeftWaiting'
<1> USE DEF NobodyLeftWaiting, TypeInv
<1>1. CASE UNCHANGED <<refreshPromise, refresh, calls>>
  BY <1>1
<1>2. CASE RefreshRead \/ RefreshUpdate
  BY <1>2 DEF RefreshRead, RefreshUpdate, Answered, Typed, Refresh
<1>3. ASSUME NEW c \in Calls, NEW retried \in BOOLEAN, AwaitRefresh(c, retried)
      PROVE  NobodyLeftWaiting'
  BY <1>3 DEF AwaitRefresh, Typed, Free
<1>5. ASSUME NEW c \in Calls, CallStart(c) PROVE NobodyLeftWaiting'
  <2>1. CASE AwaitRefresh(c, FALSE)
    BY <1>3, <2>1
  <2>2. ASSUME NEW n, Send(c, n, FALSE), UNCHANGED <<refreshPromise, refresh>>
        PROVE  NobodyLeftWaiting'
    BY <2>2 DEF Send, Typed
  <2> QED BY <1>5, <2>1, <2>2 DEF CallStart
<1>6. ASSUME NEW c \in Calls, CallAnswered(c) PROVE NobodyLeftWaiting'
  <2>1. CASE AwaitRefresh(c, TRUE)
    BY <1>3, <2>1
  <2>2. CASE /\ calls' = [calls EXCEPT ![c] = Free]
             /\ UNCHANGED <<refreshPromise, refresh>>
    BY <2>2 DEF Typed, Free
  <2> QED BY <1>6, <2>1, <2>2 DEF CallAnswered
<1>7. ASSUME NEW c \in Calls, CallFails(c) \/ CallCheckFails(c) PROVE NobodyLeftWaiting'
  BY <1>7 DEF CallFails, CallCheckFails, Typed, Free
<1>8. CASE RefreshGranted
  <2>1. \A c \in Calls : calls'[c].st # "waiting"
    BY <1>8 DEF RefreshGranted, Typed, Call
  <2>2. refresh'.phase = "none" /\ refreshPromise' = "null"
    BY <1>8 DEF RefreshGranted, NoRefresh
  <2> QED BY <2>1, <2>2
<1>9. CASE RefreshThrows
  BY <1>9 DEF RefreshThrows, NoRefresh, Free
<1>10. CASE Killed
  BY <1>10 DEF Killed, NoRefresh, Free
<1> QED
  BY <1>1, <1>2, <1>5, <1>6, <1>7, <1>8, <1>9, <1>10 DEF Next, vars, OrphanServed,
     SessionEnds, Aging, RefreshRefused, RefreshInvalid, RefreshLost, LogOutPressed,
     LogOutBegins, LogOutPosts, LogOutServed, LogOutAnswered, LogOutLost, SignInStart,
     SignInGranted, SignInEnds, Persist, Rehydrated

LEMMA TokensStep ==
  ASSUME TypeInv, SignedInHasTokens, [Next]_vars PROVE SignedInHasTokens'
<1> USE DEF SignedInHasTokens
<1>0. 0 \notin Pair
  BY DEF Pair
<1>1. CASE UNCHANGED <<pair, authed, disk>>
  BY <1>1
<1>2. CASE RefreshGranted
  <2>1. refresh.pair \in Pair /\ pair' = refresh.pair /\ UNCHANGED disk
    BY <1>2 DEF RefreshGranted, TypeInv, RefreshOK
  <2> QED BY <2>1, <1>0
<1>3. CASE SignInGranted
  <2>1. lastPair + 1 \in Pair /\ pair' = lastPair + 1 /\ UNCHANGED disk
    BY <1>3, IssueTyped DEF SignInGranted, TypeInv
  <2> QED BY <2>1, <1>0
<1>4. CASE UNCHANGED disk /\ ClearAll
  BY <1>4 DEF ClearAll
<1>5. CASE Persist
  BY <1>5 DEF Persist
<1>6. CASE Rehydrated
  BY <1>6 DEF Rehydrated
<1> QED
  BY <1>1, <1>2, <1>3, <1>4, <1>5, <1>6 DEF Next, vars, RefreshRead, RefreshUpdate,
     OrphanServed, SessionEnds, Aging, CallStart, CallAnswered, CallFails,
     CallCheckFails, RefreshThrows, RefreshRefused, RefreshInvalid, RefreshLost,
     LogOutPressed, LogOutBegins, LogOutPosts, LogOutServed, LogOutAnswered, LogOutLost, SignInStart, SignInEnds,
     Killed

\* setAll of a sign-in apart, the store is loading only for something under way.
LEMMA LoadingStep ==
  ASSUME TypeInv, Quiet, SignedOutNotLoading, [Next]_vars
  PROVE  SignedOutNotLoading'
<1> USE DEF SignedOutNotLoading
<1>0. 0 \notin Pair
  BY DEF Pair
<1>1. CASE UNCHANGED <<pair, authed, loading, signingIn, refresh, logOuts>>
  BY <1>1
<1>2. CASE loading' = FALSE
  BY <1>2
<1>3. CASE RefreshRead \/ RefreshUpdate
  <2>1. refresh'.phase # "none"
    BY <1>3 DEF RefreshRead, RefreshUpdate, Answered, TypeInv, Typed, Refresh
  <2> QED BY <2>1
<1>4. CASE UNCHANGED <<store, signingIn, refresh>> /\ ScheduleLogOut
  BY <1>4, ScheduleTyped DEF TypeInv
<1>5. ASSUME NEW c \in Calls, NEW retried, AwaitRefresh(c, retried),
             UNCHANGED <<pair, authed, signingIn>>
      PROVE  SignedOutNotLoading'
  BY <1>2, <1>5 DEF AwaitRefresh
<1>6. ASSUME NEW c \in Calls, CallStart(c) PROVE SignedOutNotLoading'
  BY <1>1, <1>4, <1>5, <1>6 DEF CallStart
<1>7. ASSUME NEW c \in Calls, CallAnswered(c) PROVE SignedOutNotLoading'
  BY <1>1, <1>5, <1>7 DEF CallAnswered
<1>8. CASE RefreshGranted
  <2>1. pair' \in Pair
    BY <1>8 DEF RefreshGranted, TypeInv, RefreshOK
  <2> QED BY <2>1, <1>0
<1>9. ASSUME NEW l \in LogOuts, LogOutPressed(l) \/ LogOutBegins(l)
      PROVE  SignedOutNotLoading'
  <2>1. logOuts'[l] = [st |-> "google", pair |-> pair]
    BY <1>9 DEF LogOutPressed, LogOutBegins, TypeInv, Typed
  <2>2. logOuts'[l] # Idle
    BY <2>1 DEF Idle
  <2> QED BY <2>2
<1>10. ASSUME NEW l \in LogOuts, LogOutPosts(l) PROVE SignedOutNotLoading'
  <2>1. CASE ClearAll
    BY <2>1, <1>2 DEF ClearAll
  <2>2. CASE logOuts' = [logOuts EXCEPT ![l].st = "sent"]
    <3>1. logOuts'[l].st = "sent"
      BY <2>2 DEF TypeInv, Typed, LogOut
    <3> QED BY <3>1 DEF Idle
  <2> QED BY <1>10, <2>1, <2>2 DEF LogOutPosts
<1>11. CASE SignInStart
  BY <1>11 DEF SignInStart
<1>12. CASE Rehydrated
  BY <1>2, <1>12 DEF Rehydrated, Quiet
<1>13. ASSUME NEW l \in LogOuts, LogOutServed(l) PROVE SignedOutNotLoading'
  <2>1. logOuts'[l].st = "served"
    BY <1>13 DEF LogOutServed, TypeInv, Typed, LogOut
  <2> QED BY <2>1 DEF Idle
<1> QED
  BY <1>1, <1>2, <1>3, <1>4, <1>6, <1>7, <1>8, <1>9, <1>10, <1>11, <1>12, <1>13
     DEF Next, vars, OrphanServed, SessionEnds, Aging, CallFails, CallCheckFails,
     RefreshRefused, RefreshInvalid, RefreshLost, RefreshThrows, LogOutAnswered,
     LogOutLost, ClearAll, SignInGranted, SignInEnds, Persist, Killed

\* Faults and ended sessions are counted for good.
LEMMA HistoryStep ==
  ASSUME TypeInv, [Next]_vars
  PROVE  /\ UNCHANGED faults \/ Fault
         /\ faults' = 0 => faults = 0
         /\ over \subseteq over'
<1>1. UNCHANGED faults \/ Fault
  BY DEF Next, vars, RefreshRead, RefreshUpdate, OrphanServed, SessionEnds, Aging,
     CallStart, CallAnswered, CallFails, CallCheckFails, RefreshGranted, RefreshRefused,
     RefreshInvalid, RefreshLost, LogOutPressed, LogOutBegins, LogOutPosts,
     LogOutServed, LogOutAnswered, LogOutLost, SignInStart, SignInGranted, SignInEnds,
     Persist, Killed, Rehydrated
<1>2. faults \in Nat
  BY ConfigAssumption DEF ConfigAssumption, TypeInv, Typed
<1>3. faults' = 0 => faults = 0
  BY <1>1, <1>2 DEF Fault
<1>4. over \subseteq over'
  BY DEF Next, vars, RefreshRead, RefreshUpdate, OrphanServed, SessionEnds, Aging,
     CallStart, CallAnswered, CallFails, CallCheckFails, RefreshGranted, RefreshRefused,
     RefreshInvalid, RefreshLost, LogOutPressed, LogOutBegins, LogOutPosts,
     LogOutServed, LogOutAnswered, LogOutLost, SignInStart, SignInGranted, SignInEnds,
     Persist, Killed, Rehydrated, Fault
<1> QED BY <1>1, <1>3, <1>4

LEMMA FaultlessStep == ASSUME TypeInv, Quiet, Faultless, [Next]_vars PROVE Faultless'
<1> USE DEF Faultless
<1>f. faults' = 0 => faults = 0
  BY HistoryStep
<1>0. CASE Fault
  <2>1. faults' # 0
    BY <1>0, ConfigAssumption DEF Fault, ConfigAssumption, TypeInv, Typed
  <2> QED BY <2>1
<1>1. CASE UNCHANGED <<orphans, disk, hydrated>> /\ (UNCHANGED <<authed, pair>> \/ hydrated)
  BY <1>1, <1>f
<1>2. ASSUME NEW n \in orphans, OrphanServed(n) PROVE Faultless'
  BY <1>2 DEF OrphanServed
<1>3. CASE Persist
  BY <1>3 DEF Persist
<1>5. CASE Rehydrated
  BY <1>5 DEF Rehydrated
<1>6. CASE RefreshGranted \/ SignInGranted
  BY <1>1, <1>6, Loaded DEF RefreshGranted, SignInGranted
<1>7. ASSUME NEW l \in LogOuts, LogOutPosts(l) \/ LogOutAnswered(l) PROVE Faultless'
  BY <1>1, <1>7, Loaded DEF LogOutPosts, LogOutAnswered
<1> QED
  BY <1>0, <1>1, <1>2, <1>3, <1>5, <1>6, <1>7 DEF Next, vars, RefreshRead,
     RefreshUpdate, SessionEnds, Aging, CallStart, CallAnswered, CallFails,
     CallCheckFails, RefreshRefused, RefreshInvalid, RefreshLost, RefreshThrows,
     LogOutPressed, LogOutBegins, LogOutServed, LogOutLost, SignInStart, SignInEnds,
     Killed

\* A pair leaves service by a rotation, or because its session is over.
LEMMA InServiceStep ==
  ASSUME TypeInv, Faultless, [Next]_vars, faults' = 0
  PROVE  \/ live \union over \subseteq live' \union over'
         \/ RefreshUpdate /\ Rotate(refresh.pair)
<1>f. faults = 0 /\ over \subseteq over'
  BY HistoryStep
<1>1. CASE live \subseteq live'
  BY <1>1, <1>f
<1>2. CASE RefreshUpdate
  <2>1. CASE UNCHANGED usable
    BY <1>1, <2>1, LiveKept
  <2>2. CASE Miss(refresh.pair)
    BY <2>1, <2>2 DEF Miss, Service!Discard
  <2> QED BY <1>2, <2>1, <2>2 DEF RefreshUpdate
<1>3. ASSUME NEW n \in orphans, OrphanServed(n) PROVE FALSE
  BY <1>3, <1>f DEF Faultless
<1>4. ASSUME NEW n \in live, SessionEnds(n)
      PROVE  live \union over \subseteq live' \union over'
  <2>1. \A m \in live : m \in live' \/ m = n
    BY <1>4, EndsTyped DEF SessionEnds, TypeInv
  <2> QED BY <1>4, <2>1 DEF SessionEnds
<1>5. ASSUME NEW l \in LogOuts, LogOutServed(l)
      PROVE  live \union over \subseteq live' \union over'
  <2>1. \A m \in live : m \in live' \/ m = logOuts[l].pair
    BY <1>5, EndsTyped DEF LogOutServed, TypeInv
  <2> QED BY <1>5, <2>1 DEF LogOutServed
<1>6. CASE SignInGranted
  BY <1>1, <1>6, IssueTyped DEF SignInGranted, TypeInv
<1>7. CASE UNCHANGED usable
  BY <1>1, <1>7, LiveKept
<1> QED
  BY <1>2, <1>3, <1>4, <1>5, <1>6, <1>7 DEF Next, vars, RefreshRead, Aging, CallStart,
     CallAnswered, CallFails, CallCheckFails, RefreshGranted, RefreshRefused,
     RefreshInvalid, RefreshLost, RefreshThrows, LogOutPressed, LogOutBegins,
     LogOutPosts, LogOutAnswered, LogOutLost, SignInStart, SignInEnds, Persist, Killed,
     Rehydrated

\* What becomes of the refresh in a step.
LEMMA RefreshMoves ==
  ASSUME TypeInv, NobodyLeftWaiting, [Next]_vars
  PROVE  \/ RefreshRead \/ RefreshUpdate \/ RefreshGranted \/ UNCHANGED refresh
         \/ refresh' = NoRefresh /\ (refresh.answer # "granted" \/ Fault)
         \/ /\ refresh = NoRefresh /\ pair # 0 /\ UNCHANGED pair
            /\ refresh' = [phase |-> "sent", pair |-> pair, answer |-> "none"]
<1>1. ASSUME NEW c \in Calls, NEW retried, AwaitRefresh(c, retried), UNCHANGED pair
      PROVE  \/ UNCHANGED refresh
             \/ /\ refresh = NoRefresh /\ pair # 0 /\ UNCHANGED pair
                /\ refresh' = [phase |-> "sent", pair |-> pair, answer |-> "none"]
  BY <1>1 DEF AwaitRefresh, NobodyLeftWaiting, TypeInv, RefreshOK
<1> QED
  BY <1>1 DEF Next, vars, OrphanServed, SessionEnds, Aging, CallStart, CallAnswered,
     CallFails, CallCheckFails, RefreshRefused, RefreshInvalid, RefreshLost,
     RefreshThrows, LogOutPressed, LogOutBegins, LogOutPosts, LogOutServed,
     LogOutAnswered, LogOutLost, SignInStart, SignInGranted, SignInEnds, Persist,
     Killed, Rehydrated

\* The pair that an UPDATE answers is in service, or was made for a session that is
\* over.
LEMMA AnsweredPair ==
  ASSUME TypeInv, Brought, RefreshUpdate, faults = 0
  PROVE  /\ refresh'.phase # "read"
         /\ refresh'.answer = "granted" => refresh'.pair \in live' \union over'
         /\ refresh'.answer = "granted" /\ refresh.pair \in live => refresh'.pair \in live'
<1>0. refresh.pair \in Pair /\ refresh.pair \in live \union over
  BY DEF RefreshUpdate, TypeInv, RefreshOK, Brought
<1>1. CASE Rotate(refresh.pair) /\ Answered(lastPair + 1, "granted")
  <2>1. lastPair + 1 \in live'
    BY <1>0, <1>1, RotateTyped DEF TypeInv
  <2> HIDE DEF lastPair
  <2> QED BY <1>1, <2>1 DEF Answered
<1>2. CASE /\ Miss(refresh.pair) /\ Answered(lastPair + 1, "granted")
           /\ over' = over \union {n \in {lastPair + 1} : refresh.pair \in over}
  <2>1. refresh.pair \in over /\ refresh.pair \notin live
    BY <1>0, <1>2 DEF Miss
  <2> HIDE DEF lastPair
  <2> QED BY <1>2, <2>1 DEF Answered
<1>3. CASE Answered(0, "refused")
  BY <1>3 DEF Answered
<1> QED BY <1>1, <1>2, <1>3 DEF RefreshUpdate

LEMMA BroughtStep ==
  ASSUME TypeInv, NobodyLeftWaiting, Faultless, Brought, [Next]_vars
  PROVE  Brought'
<1> SUFFICES ASSUME faults' = 0, refresh'.phase = "read" \/ refresh'.answer = "granted"
             PROVE  refresh'.pair \in live' \union over'
  BY DEF Brought
<1>f. faults = 0
  BY HistoryStep
<1>1. CASE RefreshUpdate
  BY <1>1, <1>f, AnsweredPair
<1>2. CASE RefreshRead
  <2>1. refresh.pair \in live /\ refresh'.pair = refresh.pair
    BY <1>2 DEF RefreshRead, Answered, TypeInv, Typed, Refresh
  <2>2. UNCHANGED usable
    BY <1>2 DEF RefreshRead
  <2> QED BY <2>1, <2>2, LiveKept
<1>3. CASE UNCHANGED refresh /\ ~RefreshUpdate
  BY <1>3, <1>f, InServiceStep DEF Brought
<1>4. /\ refresh' # NoRefresh /\ ~RefreshGranted
      /\ refresh' # [phase |-> "sent", pair |-> pair, answer |-> "none"]
  <2>1. refresh' # NoRefresh
    BY DEF NoRefresh
  <2>2. refresh' # [phase |-> "sent", pair |-> pair, answer |-> "none"]
    OBVIOUS
  <2> QED BY <2>1, <2>2 DEF RefreshGranted
<1> QED BY <1>1, <1>2, <1>3, <1>4, RefreshMoves

\* The pair that the client holds is replaced only by one in service or of a
\* session that is over, and exchanged only when its successor is on the way.
LEMMA HeldStep ==
  ASSUME TypeInv, NobodyLeftWaiting, Faultless, Brought, HeldOrOver, [Next]_vars
  PROVE  HeldOrOver'
<1> USE DEF Current
<1> SUFFICES ASSUME faults' = 0, pair' # 0 PROVE Current' \in live' \union over'
  BY DEF HeldOrOver
<1>f. faults = 0 /\ ~Fault
  BY HistoryStep, ConfigAssumption DEF Fault, ConfigAssumption, TypeInv, Typed
<1>0. CASE refresh'.answer = "granted"
  BY <1>0, BroughtStep DEF Brought
<1>1. CASE UNCHANGED pair /\ ~RefreshUpdate /\ refresh.answer # "granted"
           /\ refresh'.answer # "granted"
  BY <1>1, <1>f, InServiceStep DEF HeldOrOver
<1>2. CASE RefreshUpdate /\ refresh'.answer # "granted"
  <2>1. ~(Rotate(refresh.pair) /\ Answered(lastPair + 1, "granted"))
    BY <1>2 DEF Answered
  <2>2. UNCHANGED <<usable, over, pair>>
    BY <1>2, <2>1 DEF RefreshUpdate, Miss, Answered
  <2>3. refresh.answer # "granted"
    BY <1>2 DEF RefreshUpdate, TypeInv, RefreshOK
  <2> QED BY <1>2, <1>f, <2>2, <2>3, LiveKept DEF HeldOrOver
<1>3. CASE RefreshGranted
  <2>1. UNCHANGED <<usable, over>> /\ pair' = refresh.pair /\ refresh' = NoRefresh
    BY <1>3 DEF RefreshGranted
  <2>2. refresh.pair \in live \union over
    BY <1>3, <1>f DEF RefreshGranted, Brought
  <2> QED BY <2>1, <2>2, LiveKept DEF NoRefresh
<1>4. CASE SignInGranted /\ refresh'.answer # "granted"
  BY <1>4, IssueTyped DEF SignInGranted, TypeInv
<1>5. CASE Rehydrated
  BY <1>5, <1>f DEF Rehydrated, Faultless
<1>6. RefreshGranted \/ SignInGranted \/ Rehydrated \/ UNCHANGED pair
  BY DEF Next, vars, RefreshRead, RefreshUpdate, OrphanServed, SessionEnds, Aging,
     CallStart, CallAnswered, CallFails, CallCheckFails, RefreshRefused,
     RefreshInvalid, RefreshLost, RefreshThrows, LogOutPressed, LogOutBegins,
     LogOutPosts, LogOutServed, LogOutAnswered, LogOutLost, ClearAll, SignInStart,
     SignInEnds, Persist, Killed
<1>7. ASSUME refresh.answer = "granted", ~RefreshGranted PROVE refresh'.answer = "granted"
  <2>1. ~RefreshRead /\ ~RefreshUpdate /\ refresh # NoRefresh
    BY <1>7 DEF RefreshRead, RefreshUpdate, TypeInv, RefreshOK, NoRefresh
  <2> QED BY <1>7, <1>f, <2>1, RefreshMoves
<1> QED BY <1>0, <1>1, <1>2, <1>3, <1>4, <1>5, <1>6, <1>7

\* Only what gives a reason sets something under way that ends the sign-in.
LEMMA SafeStep ==
  ASSUME TypeInv, NobodyLeftWaiting, SignedInHasTokens, Faultless, Brought, Safe,
         [Next]_vars
  PROVE  Safe'
<1> USE DEF Safe, Current
<1>f. (faults' = 0 => faults = 0) /\ (Fault => faults' # 0)
  BY HistoryStep, ConfigAssumption DEF Fault, ConfigAssumption, TypeInv, Typed
<1>0. CASE Fault
  BY <1>0, <1>f
<1>1. CASE UNCHANGED <<pair, authed, excused, usable, refresh, logOuts>>
  BY <1>1, <1>f, LiveKept
<1>2. CASE RefreshRead
  <2>0. /\ refresh.answer = "none" /\ refresh.phase = "sent"
        /\ UNCHANGED <<pair, authed, excused, logOuts, usable>>
    BY <1>2 DEF RefreshRead, TypeInv, RefreshOK
  <2>1. CASE refresh' = [refresh EXCEPT !.phase = "read"]
    <3>1. /\ refresh'.phase = "read" /\ refresh'.pair = refresh.pair
          /\ refresh'.answer = "none"
      BY <2>0, <2>1 DEF TypeInv, Typed, Refresh
    <3> QED BY <2>0, <3>1, <1>f, LiveKept
  <2>2. CASE Answered(0, "refused")
    BY <2>0, <2>2, <1>f, LiveKept DEF Answered
  <2>3. CASE refresh.pair \notin live
    BY <2>0, <2>3, <1>f
  <2> QED BY <1>2, <2>1, <2>2, <2>3 DEF RefreshRead
<1>16. CASE RefreshUpdate
  <2>0. /\ refresh.answer = "none" /\ refresh.phase = "read"
        /\ UNCHANGED <<pair, authed, excused, logOuts, faults>>
    BY <1>16 DEF RefreshUpdate, TypeInv, RefreshOK
  <2>1. CASE Answered(0, "refused") /\ UNCHANGED server
    BY <2>0, <2>1, <1>f, LiveKept DEF Answered
  <2>2. CASE Answered(lastPair + 1, "granted")
    <3>1. /\ refresh'.answer = "granted" /\ refresh'.phase = "answered"
      BY <2>2 DEF Answered
    <3> QED BY <1>16, <2>0, <3>1, AnsweredPair
  <2> QED BY <1>16, <2>1, <2>2 DEF RefreshUpdate
<1>3. ASSUME NEW n \in orphans, OrphanServed(n) PROVE Safe'
  BY <1>3, <1>f DEF Faultless
<1>4. ASSUME NEW n \in live, SessionEnds(n) PROVE Safe'
  <2>1. \A m \in live : m \in live' \/ m = n
    BY <1>4, EndsTyped DEF SessionEnds, TypeInv
  <2>2. /\ UNCHANGED <<pair, authed, refresh, logOuts, faults>>
        /\ ~excused' => ~excused /\ n # pair /\ n # refresh.pair
    BY <1>4 DEF SessionEnds
  <2> QED BY <2>1, <2>2
<1>5. ASSUME NEW c \in Calls, NEW retried, AwaitRefresh(c, retried),
             UNCHANGED <<pair, authed, excused, usable>>
      PROVE  Safe'
  <2>1. CASE pair = 0
    BY <1>5, <2>1 DEF SignedInHasTokens
  <2>2. CASE /\ refreshPromise = "null" /\ UNCHANGED logOuts
             /\ refresh' = [phase |-> "sent", pair |-> pair, answer |-> "none"]
    <3>1. refresh.answer = "none"
      BY <2>2 DEF NobodyLeftWaiting, TypeInv, RefreshOK, NoRefresh
    <3> QED BY <1>5, <1>f, <2>2, <3>1, LiveKept
  <2> QED BY <1>1, <1>5, <2>1, <2>2 DEF AwaitRefresh
<1>6. ASSUME NEW c \in Calls, CallStart(c) PROVE Safe'
  BY <1>1, <1>5, <1>6 DEF CallStart
<1>7. ASSUME NEW c \in Calls, CallAnswered(c) PROVE Safe'
  BY <1>1, <1>5, <1>7 DEF CallAnswered
<1>8. CASE RefreshGranted
  BY <1>8, <1>f, LiveKept DEF RefreshGranted, NoRefresh
<1>9. CASE RefreshRefused
  BY <1>9, <1>f, LiveKept DEF RefreshRefused, RefreshThrows, NoRefresh
<1>10. CASE RefreshInvalid
  BY <1>10, <1>f DEF RefreshInvalid, RefreshThrows
<1>11. ASSUME NEW l \in LogOuts, LogOutPressed(l) PROVE Safe'
  BY <1>11 DEF LogOutPressed
<1>12. ASSUME NEW l \in LogOuts, \/ LogOutBegins(l) \/ LogOutPosts(l)
                                 \/ LogOutServed(l) \/ LogOutAnswered(l)
       PROVE  Safe'
  <2>1. logOuts[l] # Idle /\ UNCHANGED excused /\ (authed' => authed)
    BY <1>12 DEF LogOutBegins, LogOutPosts, LogOutServed, LogOutAnswered, ClearAll, Idle
  <2> QED BY <2>1, <1>f
<1>13. CASE SignInStart
  BY <1>13 DEF SignInStart
<1>14. CASE SignInGranted
  <2>1. ~excused' => refresh = NoRefresh /\ \A l \in LogOuts : logOuts[l] = Idle
    BY <1>14 DEF SignInGranted, LeftOver, TypeInv, RefreshOK
  <2>2. pair' \in live' /\ UNCHANGED <<refresh, logOuts>>
    BY <1>14, IssueTyped DEF SignInGranted, TypeInv
  <2> QED BY <2>1, <2>2 DEF NoRefresh
<1>15. CASE Rehydrated
  BY <1>15, <1>f DEF Rehydrated, Faultless
<1> QED
  BY <1>0, <1>1, <1>2, <1>3, <1>4, <1>6, <1>7, <1>8, <1>9, <1>10, <1>11, <1>12, <1>13,
     <1>14, <1>15, <1>16 DEF Next, vars, Aging, CallFails, CallCheckFails, RefreshLost,
     LogOutLost, SignInEnds, Persist, Killed

LEMMA ClientInit == Init => ClientInv
<1> SUFFICES ASSUME Init PROVE ClientInv
  OBVIOUS
<1> USE DEF Init, NoRefresh
<1>1. Quiet
  BY DEF Quiet
<1> QED
  BY <1>1 DEF ClientInv, Faultless, Brought, Safe, NobodyLeftWaiting, Free,
     SignedInHasTokens, SignedOutNotLoading, HeldOrOver

LEMMA ClientInvariance == Spec => [](TypeInv /\ ClientInv)
<1>1. TypeInv /\ ClientInv /\ [Next]_vars => ClientInv'
  BY QuietStep, FaultlessStep, BroughtStep, SafeStep, WaitingStep,
     TokensStep, LoadingStep, HeldStep DEF ClientInv
<1> QED BY <1>1, TypeInit, TypeStep, ClientInit, PTL DEF Spec

-----------------------------------------------------------------------------
(***************************************************************************)
(* What the client promises                                                *)
(***************************************************************************)
\* Whoever waits for a refresh waits for one under way: refreshPromise is settled
\* and let go of together with the POST of refreshTokens, in every order of calls,
\* answers, losses and restarts.
THEOREM NobodyIsLeftWaiting == Spec => []NobodyLeftWaiting
<1>1. ClientInv => NobodyLeftWaiting
  BY DEF ClientInv
<1> QED BY <1>1, ClientInvariance, PTL

\* isAuthenticated goes with tokens, in the store and in what persist wrote.
THEOREM SignedInWithTokens == Spec => []SignedInHasTokens
<1>1. ClientInv => SignedInHasTokens
  BY DEF ClientInv
<1> QED BY <1>1, ClientInvariance, PTL

\* While nothing is lost the tokens of the store, or their successors on the way,
\* are accepted by the service; else their session is over, and for a cause.
THEOREM HeldPairIsLive == Spec => []HeldIsLive
<1>1. ClientInv => HeldIsLive
  BY DEF ClientInv, HeldOrOver, Safe, Current, HeldIsLive
<1> QED BY <1>1, ClientInvariance, PTL

\* A client without a user and without tokens is loading only while something is
\* under way that stops it.
THEOREM SignedOutStopsLoading == Spec => []SignedOutNotLoading
<1>1. ClientInv => SignedOutNotLoading
  BY DEF ClientInv
<1> QED BY <1>1, ClientInvariance, PTL

\* isAuthenticated is reset only for a cause: the user's, the server's, a loss, or
\* what an earlier sign-in left under way.
THEOREM NobodySignedOutWithoutCause == Spec => SignedOutForCause
<1>1. TypeInv /\ ClientInv /\ [Next]_vars =>
        [authed /\ ~authed' => excused \/ faults' > 0]_vars
  <2> SUFFICES ASSUME TypeInv, ClientInv, Next, authed, ~authed', ~excused
               PROVE  faults' > 0
    BY DEF vars
  <2>1. faults \in Nat /\ (faults' = faults \/ faults' = faults + 1)
    BY HistoryStep, ConfigAssumption DEF ConfigAssumption, Fault, TypeInv, Typed
  <2>2. faults' # 0
    <3> SUFFICES ASSUME faults' = 0 PROVE FALSE
      OBVIOUS
    <3>1. ~Fault
      BY <2>1 DEF Fault
    <3>2. \A l \in LogOuts : logOuts[l] = Idle
      BY <2>1 DEF ClientInv, Safe
    <3>l. \A l \in LogOuts : logOuts[l].st = "free"
      BY <3>2 DEF Idle
    <3>3. hydrated
      BY <2>1 DEF ClientInv, Faultless
    <3>4. \A l \in LogOuts : ~LogOutBegins(l) /\ ~LogOutPosts(l) /\ ~LogOutAnswered(l)
      BY <3>l DEF LogOutBegins, LogOutPosts, LogOutAnswered
    <3>5. ~RefreshLost /\ ~Killed /\ ~Rehydrated
      BY <3>1, <3>3 DEF RefreshLost, Killed, Rehydrated
    <3>6. \A l \in LogOuts : ~LogOutLost(l)
      BY <3>1 DEF LogOutLost
    <3> QED
      BY <3>4, <3>5, <3>6 DEF Next, RefreshRead, RefreshUpdate, OrphanServed,
         SessionEnds, Aging, LogOutServed, CallStart, CallAnswered, CallFails, CallCheckFails, RefreshGranted,
         RefreshRefused, RefreshInvalid, RefreshThrows, LogOutPressed, SignInStart,
         SignInGranted, SignInEnds, Persist
  <2> QED BY <2>1, <2>2
<1> QED BY <1>1, ClientInvariance, PTL DEF SignedOutForCause, Spec

=============================================================================
