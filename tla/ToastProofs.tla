----------------------------- MODULE ToastProofs -----------------------------
(***************************************************************************)
(* Theorems about Toast, for any messages and any number of toasts and     *)
(* presses.                                                                *)
(***************************************************************************)
EXTENDS Toast, TLAPS

\* A toast is not null: null has number 0.
LEMMA ToastNotNull == \A t \in Toasts : t # null
  BY DEF Toasts, null

\* What a queue holds, and what is left of it.
LEMMA QueueHead ==
  ASSUME NEW q \in Seq(Toasts), q # <<>>
  PROVE  Head(q) \in Toasts /\ Tail(q) \in Seq(Toasts)
  OBVIOUS

\* showToast appends a toast.
LEMMA NewToast ==
  ASSUME NEW m \in Messages, NEW d \in {"auto", "manual", "undefined"},
         asked \in 0 .. MaxToasts, asked < MaxToasts
  PROVE  [n |-> asked + 1, message |-> m, dismiss |-> Default(d)] \in Toasts
  BY ConfigAssumption DEF ConfigAssumption, Toasts, Default

LEMMA TypeStep == TypeOK /\ [Next]_vars => TypeOK'
<1> SUFFICES ASSUME TypeOK, [Next]_vars PROVE TypeOK'
  OBVIOUS
<1> USE ConfigAssumption DEF ConfigAssumption, TypeOK
<1>1. ASSUME NEW m \in Messages, NEW d \in {"auto", "manual", "undefined"},
             showToast(m, d)
      PROVE  TypeOK'
  <2> DEFINE new == [n |-> asked + 1, message |-> m, dismiss |-> Default(d)]
  <2>1. new \in Toasts
    BY <1>1, NewToast DEF showToast
  <2>2. queue' = Append(queue, new) /\ asked' \in 0 .. MaxToasts
    BY <1>1 DEF showToast
  <2> HIDE DEF new
  <2>3. queue' \in Seq(Toasts)
    BY <2>1, <2>2
  <2> QED BY <1>1, <2>2, <2>3 DEF showToast
<1>2. CASE Shown
  <2>1. queue' \in Seq(Toasts) /\ toast' \in Toasts
    BY <1>2, QueueHead DEF Shown
  <2>2. timer' \in BOOLEAN /\ visible' \in BOOLEAN
    BY <1>2 DEF Shown, TimerEffect
  <2> QED BY <1>2, <2>1, <2>2 DEF Shown
<1>3. CASE AutoDismiss \/ Close
  <2>1. closing' \in Nat /\ closes' \in 0 .. MaxCloses
    BY <1>3 DEF AutoDismiss, Close, handleClose
  <2>2. timer' \in BOOLEAN /\ visible' \in BOOLEAN
    BY <1>3, Zenon DEF AutoDismiss, Close, handleClose
  <2> QED BY <1>3, <2>1, <2>2 DEF AutoDismiss, Close
<1>4. CASE ForceHide \/ RouteChange
  <2>1. closing' \in Nat
    BY <1>4 DEF ForceHide, RouteChange
  <2>2. timer' \in BOOLEAN /\ visible' \in BOOLEAN
    BY <1>4, Zenon DEF ForceHide, RouteChange, Unmount
  <2> QED BY <1>4, <2>1, <2>2 DEF ForceHide, RouteChange, Unmount
<1>5. CASE UNCHANGED vars
  BY <1>5 DEF vars
<1> QED BY <1>1, <1>2, <1>3, <1>4, <1>5 DEF Next

\* The toast's state has its type.
THEOREM TypeCorrect == Spec => []TypeOK
<1>1. ASSUME Init PROVE TypeOK
  <2>1. timer \in BOOLEAN /\ visible \in BOOLEAN
    BY <1>1, Zenon DEF Init
  <2> QED BY <1>1, <2>1, ConfigAssumption DEF ConfigAssumption, Init, TypeOK
<1> QED BY <1>1, TypeStep, PTL DEF Spec

-----------------------------------------------------------------------------
(***************************************************************************)
(* A hidden toast: the fade-out is what made it invisible, and its         *)
(* setTimeout is pending until some ForceHide takes the toast away.        *)
(***************************************************************************)
LEMMA UnseenStep == TypeOK /\ UnseenGoes /\ [Next]_vars => UnseenGoes'
<1> SUFFICES ASSUME TypeOK, UnseenGoes, [Next]_vars PROVE UnseenGoes'
  OBVIOUS
<1> USE DEF UnseenGoes, TypeOK
<1>1. ASSUME NEW m, NEW d, showToast(m, d) PROVE UnseenGoes'
  BY <1>1 DEF showToast
<1>2. CASE Shown
  BY <1>2 DEF Shown
<1>3. CASE AutoDismiss \/ Close
  BY <1>3 DEF AutoDismiss, Close, handleClose
<1>4. CASE ForceHide \/ RouteChange
  BY <1>4 DEF ForceHide, RouteChange, Unmount
<1>5. CASE UNCHANGED vars
  BY <1>5 DEF vars
<1> QED BY <1>1, <1>2, <1>3, <1>4, <1>5 DEF Next

\* A toast that took the place of one that faded out, and is not seen, is about to
\* go.
THEOREM UnseenToastGoes == Spec => []UnseenGoes
<1>1. Init => UnseenGoes
  BY DEF Init, UnseenGoes
<1> QED BY <1>1, UnseenStep, TypeCorrect, PTL DEF Spec

-----------------------------------------------------------------------------
(***************************************************************************)
(* The timer: the effect that sets it does not run when a toast like the   *)
(* last one comes, and then the timer of the last one will do.             *)
(***************************************************************************)
LEMMA TimerStep == TypeOK /\ TimerFits /\ [Next]_vars => TimerFits'
<1> SUFFICES ASSUME TypeOK, TimerFits, [Next]_vars PROVE TimerFits'
  OBVIOUS
<1> USE DEF TimerFits
<1>1. ASSUME NEW m, NEW d, showToast(m, d) PROVE TimerFits'
  BY <1>1 DEF showToast
<1>2. CASE Shown
  <2>1. toast' = Head(queue) /\ toast' \in Toasts /\ toast' # null
    BY <1>2, QueueHead, ToastNotNull DEF Shown, TypeOK
  <2>2. CASE toast = null
    BY <1>2, <2>1, <2>2 DEF Shown, TimerEffect
  <2>3. CASE toast # null /\ toast.message = toast'.message
             /\ toast.dismiss = toast'.dismiss
    <3>1. UNCHANGED <<timer, visible>>
      BY <1>2, <2>1, <2>3 DEF Shown, TimerEffect
    <3> QED BY <2>1, <2>3, <3>1
  <2>4. CASE ~(toast.message = toast'.message /\ toast.dismiss = toast'.dismiss)
    <3>1. timer' = (toast'.dismiss # "manual")
      BY <1>2, <2>1, <2>4 DEF Shown, TimerEffect
    <3> QED BY <2>1, <3>1
  <2> QED BY <2>2, <2>3, <2>4
<1>3. CASE AutoDismiss \/ Close
  BY <1>3 DEF AutoDismiss, Close, handleClose
<1>4. CASE ForceHide \/ RouteChange
  BY <1>4 DEF ForceHide, RouteChange, Unmount
<1>5. CASE UNCHANGED vars
  BY <1>5 DEF vars
<1> QED BY <1>1, <1>2, <1>3, <1>4, <1>5 DEF Next

\* In every order of toasts, closes, timers and routes the timer of <Alert/> is
\* the one that the toast it shows calls for.
THEOREM TimerFitsToast == Spec => []TimerFits
<1>1. Init => TimerFits
  BY DEF Init, TimerFits
<1> QED BY <1>1, TimerStep, TypeCorrect, PTL DEF Spec

=============================================================================
