---------------------------- MODULE ConfigNotify ----------------------------
(***************************************************************************)
(* config/config_notify.go: observers registered and unregistered while        *)
(* changes are told.  An observer is a pointer, or a function of one of two    *)
(* types; Go panics when it compares two functions of one type.                *)
(***************************************************************************)
EXTENDS Naturals, Sequences, SequencesExt

CONSTANTS Observers, TypeOf,     \* the type of each: "pointer", "reloadable", "nonReloadable"
          Notifiers,             \* goroutines that tell a change, and what it is about
          About, MaxRegistrations, MaxNotifications

VARIABLES observers,
          left,                  \* of each notifier: the observers it has still to call
          panicked,              \* Unregister has panicked
          registrations, notifications,   \* bounds
          count, due, told       \* history: registrations of each; calls due and made by a notifier
vars == <<observers, left, panicked, registrations, notifications, count, due, told>>

Zero == [o \in Observers |-> 0]
Init == /\ observers = <<>> /\ left = [n \in Notifiers |-> <<>>] /\ panicked = FALSE
        /\ registrations = 0 /\ notifications = 0
        /\ count = Zero /\ due = [n \in Notifiers |-> Zero] /\ told = [n \in Notifiers |-> Zero]

Register(o) == /\ registrations < MaxRegistrations /\ registrations' = registrations + 1
               /\ observers' = Append(observers, o) /\ count' = [count EXCEPT ![o] = @ + 1]
               /\ UNCHANGED <<left, panicked, notifications, due, told>>

\* The last takes the place of the one removed.
Compare(a, b) == CASE TypeOf[a] # TypeOf[b] -> "different"
                   [] TypeOf[a] # "pointer" -> "panic"
                   [] OTHER -> IF a = b THEN "equal" ELSE "different"
Stops(o) == {i \in DOMAIN observers : Compare(observers[i], o) # "different"}
\* Fault: the last one is not moved into the gap.
Removed_Last(i) == Front(observers)
Removed(i) == Front([observers EXCEPT ![i] = Last(observers)])
Unregister(o) ==
    /\ \E i \in Stops(o) :
          /\ \A j \in Stops(o) : i <= j
          /\ IF Compare(observers[i], o) = "panic" THEN panicked' = TRUE /\ UNCHANGED <<observers, count>>
             ELSE /\ observers' = Removed(i) /\ count' = [count EXCEPT ![o] = @ - 1]
                  /\ UNCHANGED panicked
    /\ UNCHANGED <<left, registrations, notifications, due, told>>

\* The list is copied, and the calls are made without the lock.
Notify(n) == /\ left[n] = <<>> /\ notifications < MaxNotifications /\ notifications' = notifications + 1
             /\ left' = [left EXCEPT ![n] = observers]
             /\ due' = [due EXCEPT ![n] = count] /\ told' = [told EXCEPT ![n] = Zero]
             /\ UNCHANGED <<observers, panicked, registrations, count>>
Remaining(n) == Tail(left[n])
CallObserver(n) == LET o == Head(left[n]) IN
    /\ left[n] # <<>> /\ left' = [left EXCEPT ![n] = Remaining(n)]
    /\ told' = [told EXCEPT ![n][o] = @ + (IF TypeOf[o] \in {"pointer", About[n]} THEN 1 ELSE 0)]
    /\ UNCHANGED <<observers, panicked, registrations, notifications, count, due>>

Next == \/ \E o \in Observers : Register(o) \/ Unregister(o)
        \/ \E n \in Notifiers : Notify(n) \/ CallObserver(n)
Spec == Init /\ [][Next]_vars

-----------------------------------------------------------------------------
\* Whoever is registered or unregistered while a change is told, each observer hears of
\* it once for every registration it had at the start, if it listens to that kind of key.
EachIsToldOnce ==
    \A n \in Notifiers : left[n] = <<>> =>
        \A o \in Observers :
            told[n][o] = IF TypeOf[o] \in {"pointer", About[n]} THEN due[n][o] ELSE 0
=============================================================================
