-------------------------------- MODULE Toast --------------------------------
(***************************************************************************)
(* The toast of packages/ui/expo/src/components/alert.tsx: showToast and   *)
(* hideToast, which any screen may call, the <Toast/> that RootLayout      *)
(* renders, and the timers of the <Alert/> inside it.                      *)
(*                                                                         *)
(* JavaScript runs one task at a time: an action is a task, with the       *)
(* rendering and the effects it causes.  <Alert/> has no key: a toast that *)
(* replaces another one gets the same component, with the timer and the    *)
(* animation of its predecessor, unless an effect's dependencies changed.  *)
(***************************************************************************)
EXTENDS Integers, Sequences

CONSTANTS
  Messages,   \* what a toast may say
  MaxToasts,  \* bound: toasts in one behaviour
  MaxCloses   \* bound: presses of the close button in one behaviour

ASSUME ConfigAssumption == MaxToasts \in Nat /\ MaxCloses \in Nat

VARIABLES
  queue,    \* calls of showToast whose setTimeout is pending
  toast,    \* toastState and the state of <Toast/>
  timer,    \* <Alert/>'s auto-dismiss timer is running
  visible,  \* <Alert/> is, or is being, faded in, and not out
  closing,  \* how many setTimeout(() => hideToast(true), 250) are pending
  asked,    \* toasts so far
  closes    \* presses of the close button so far

vars == <<queue, toast, timer, visible, closing, asked, closes>>

-----------------------------------------------------------------------------
\* "auto" stands for every way to dismiss that sets a timer; a caller may leave
\* it out.  A toast has a number, as history: nothing looks at it.
Toasts == [n : 1 .. MaxToasts, message : Messages, dismiss : {"auto", "manual"}]

null == [n |-> 0]

Init ==
  /\ queue = <<>>
  /\ toast = null
  /\ timer = FALSE /\ visible = FALSE /\ closing = 0
  /\ asked = 0 /\ closes = 0

\* dismiss || "auto"
Default(dismiss) == IF dismiss = "undefined" THEN "auto" ELSE dismiss

showToast(message, dismiss) ==
  /\ asked < MaxToasts
  /\ asked' = asked + 1
  /\ queue' = Append(queue, [n |-> asked + 1, message |-> message,
                             dismiss |-> Default(dismiss)])
  /\ UNCHANGED <<toast, timer, visible, closing, closes>>

\* Mutant: `dismiss' is missing in the dependencies of the effect.
TimerEffectOnMessage(new) ==
  timer' = IF toast # null /\ toast.message = new.message
             THEN timer
             ELSE new.dismiss # "manual"

\* Mutant: the effect does not clear the old timer.
TimerEffectNotCleared(new) ==
  timer' = IF /\ toast # null
              /\ toast.message = new.message
              /\ toast.dismiss = new.dismiss
             THEN timer
             ELSE timer \/ new.dismiss # "manual"

\* The effect of the auto-dismiss timer runs when <Alert/> is mounted, and when
\* the message or the way to dismiss changes; the old timer is cleared.
TimerEffect(new) ==
  timer' = IF /\ toast # null
              /\ toast.message = new.message
              /\ toast.dismiss = new.dismiss
             THEN timer
             ELSE new.dismiss # "manual"

\* showToast's setTimeout: the toast appears.  Only a toast that finds no other
\* is faded in.
Shown ==
  /\ queue # <<>>
  /\ queue' = Tail(queue)
  /\ toast' = Head(queue)
  /\ TimerEffect(Head(queue))
  /\ visible' = IF toast = null THEN TRUE ELSE visible
  /\ UNCHANGED <<closing, asked, closes>>

\* <Alert/> is unmounted, if it is there, and its timer cleared.
Unmount ==
  /\ toast' = null
  /\ timer' = FALSE
  /\ visible' = FALSE

\* The toast fades out, and is hidden a little later.
handleClose ==
  /\ visible' = FALSE
  /\ closing' = closing + 1

AutoDismiss ==
  /\ timer
  /\ timer' = FALSE
  /\ handleClose
  /\ UNCHANGED <<queue, toast, asked, closes>>

\* The user presses the close button.
Close ==
  /\ toast # null
  /\ closes < MaxCloses
  /\ closes' = closes + 1
  /\ handleClose
  /\ UNCHANGED <<queue, toast, timer, asked>>

\* Mutant: hideToast() instead of hideToast(true).
ForceHideGently ==
  /\ closing > 0
  /\ closing' = closing - 1
  /\ IF toast # null /\ toast.dismiss = "manual"
       THEN UNCHANGED <<toast, timer, visible>>
       ELSE Unmount
  /\ UNCHANGED <<queue, asked, closes>>

\* hideToast(true), whatever toast there is by now.
ForceHide ==
  /\ closing > 0
  /\ closing' = closing - 1
  /\ Unmount
  /\ UNCHANGED <<queue, asked, closes>>

\* The route changes: RootLayout calls hideToast().
RouteChange ==
  /\ toast # null => toast.dismiss # "manual"
  /\ Unmount
  /\ UNCHANGED <<queue, closing, asked, closes>>

Next ==
  \/ \E m \in Messages, d \in {"auto", "manual", "undefined"} : showToast(m, d)
  \/ Shown
  \/ AutoDismiss
  \/ Close
  \/ ForceHide
  \/ RouteChange

Spec == Init /\ [][Next]_vars

\* Timers fire.
Fairness == WF_vars(Shown) /\ WF_vars(AutoDismiss) /\ WF_vars(ForceHide)

FairSpec == Spec /\ Fairness

-----------------------------------------------------------------------------
(***************************************************************************)
(* Properties                                                              *)
(***************************************************************************)
\* The values that the variables take, for the reader.
TypeOK ==
  /\ queue \in Seq(Toasts)
  /\ toast \in Toasts \union {null}
  /\ timer \in BOOLEAN /\ visible \in BOOLEAN
  /\ closing \in Nat
  /\ asked \in 0 .. MaxToasts /\ closes \in 0 .. MaxCloses

\* A toast that is not seen, since it came while another one faded out, does
\* not stay: it is about to go, be it manual or not.
UnseenGoes == toast # null /\ ~visible => closing > 0

\* However toasts replace each other in the one <Alert/>, its timer is that of the
\* toast it shows: a manual toast never inherits the timer of an automatic one,
\* which would close it, and an automatic one that is seen never the absence of a
\* manual one's, with which it would stay.
TimerFits ==
  /\ timer => toast # null /\ toast.dismiss # "manual"
  /\ toast # null /\ toast.dismiss # "manual" /\ visible => timer

\* Every toast that is not manual goes, whatever came before and after it: one
\* that takes over the component of another is not left without a timer, although
\* the effect that starts it may not run.
AutoGoes ==
  \A n \in 1 .. MaxToasts :
    toast # null /\ toast.n = n /\ toast.dismiss # "manual" ~> toast.n # n

=============================================================================
