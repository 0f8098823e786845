---------------------------- MODULE ConfigReload ----------------------------
(***************************************************************************)
(* config/: one hot-reloadable variable looked up under an ordered list of  *)
(* keys, and the detection of changes of the keys read without reloading.   *)
(* Each change of the configuration (Set, or viper's watcher goroutine      *)
(* after a change of the file) runs onConfigChange in its own goroutine's   *)
(* time: it reads the value under vLock, and stores it later under the      *)
(* variable's own lock, while other changes do the same.                    *)
(*                                                                         *)
(* The two RWMutexes that are held across steps are modelled with Go's      *)
(* rule that a writer that has announced itself, one at a time, keeps new   *)
(* readers out and waits for those that are in.  The advanced detection     *)
(* (CONFIG_ADVANCED_DETECTION) is off, as it is by default.                 *)
(***************************************************************************)
EXTENDS Integers, Sequences, FiniteSets

CONSTANTS Threads,     \* goroutines that call Set or GetReloadable...Var
          Watcher,     \* viper's goroutine that watches the file
          Keys,        \* the ordered keys of the variable, as a sequence
          Values,      \* the values a key can have
          Default,     \* the default value of the variable
          Zero,        \* the zero value of a new Reloadable
          Unset,
          Registered,  \* the variable is registered from the start
          CallbackReads, \* an observer of non-reloadable changes reads the key: Get...Var
          MaxCalls     \* bound: calls of Set and changes of the file

VARIABLES overrides, file,  \* viper: what Set stored, what the file says
          value,            \* Reloadable.value
          known,            \* the variable is in hotReloadableConfig
          settings,         \* currentSettings
          hotR, hotW,       \* readers; the writer that has announced itself, of hotReloadableConfigLock
          nonR, nonW,       \* the same of nonReloadableConfigLock
          pc, key, val, snap,  \* each goroutine's position and local variables
          hasPtr,           \* goroutines that GetReloadable...Var has returned to
          told,             \* history: the value the observers were last told
          overlapped,       \* history: changes, or a change and the registration, overlapped
          calls

conf == <<overrides, file>>
locks == <<hotR, hotW, nonR, nonW>>
vars == <<conf, value, known, settings, locks, pc, key, val, snap, hasPtr, told, overlapped, calls>>

Procs == Threads \cup {Watcher}
KeySet == {Keys[i] : i \in DOMAIN Keys}
Layer == [KeySet -> Values \cup {Unset}]
Labels == {"idle", "hot", "scan", "get", "swap", "notify", "snap", "diff", "non", "nonSame", "observers",
           "assign", "regKey", "reg", "create", "initScan", "initGet", "store"}

\* viper: an override goes before the file.
Effective == [k \in KeySet |-> IF overrides[k] # Unset THEN overrides[k] ELSE file[k]]
IsSet(k) == Effective[k] # Unset

\* The value the variable should have: that of the first key that is set.
Configured == LET set == {i \in DOMAIN Keys : IsSet(Keys[i])}
              IN  IF set = {} THEN Default
                  ELSE Effective[Keys[CHOOSE i \in set : \A j \in set : i <= j]]

TypeOK == /\ overrides \in Layer /\ file \in Layer /\ settings \in Layer
          /\ value \in Values \cup {Default, Zero}
          /\ known \in BOOLEAN
          /\ hotR \subseteq Procs /\ hotW \subseteq Procs
          /\ nonR \subseteq Procs /\ nonW \subseteq Procs
          /\ pc \in [Procs -> Labels]
          /\ key \in [Procs -> 0..Len(Keys)]
          /\ val \in [Procs -> Values \cup {Default, Zero}]
          /\ snap \in [Procs -> Layer]
          /\ hasPtr \subseteq Procs
          /\ told \in Values \cup {Default, Zero}
          /\ overlapped \in BOOLEAN /\ calls \in 0..MaxCalls

AllUnset == [k \in KeySet |-> Unset]

Init == /\ overrides = AllUnset /\ file \in Layer /\ settings = Effective
        /\ known = Registered
        /\ value = IF Registered THEN Configured ELSE Zero
        /\ told = value
        /\ hotR = {} /\ hotW = {} /\ nonR = {} /\ nonW = {}
        /\ pc = [p \in Procs |-> "idle"]
        /\ key = [p \in Procs |-> 0]
        /\ val = [p \in Procs |-> Zero]
        /\ snap = [p \in Procs |-> AllUnset]
        /\ hasPtr = {} /\ overlapped = FALSE /\ calls = 0

Goto(p, label) == pc' = [pc EXCEPT ![p] = label]

\* A call ends, and with it the local variables.
Return(p) == /\ Goto(p, "idle")
             /\ key' = [key EXCEPT ![p] = 0]
             /\ val' = [val EXCEPT ![p] = Zero]
             /\ snap' = [snap EXCEPT ![p] = AllUnset]

-----------------------------------------------------------------------------
\* Somebody processes a change or stores the variable's first value.
Busy == \E p \in Procs : pc[p] \notin {"idle", "reg", "regKey"}

\* A change begins.
Change(p) == /\ pc[p] = "idle" /\ calls < MaxCalls
             /\ calls' = calls + 1
             /\ overlapped' = (overlapped \/ Busy)
             /\ Goto(p, "hot")

\* Set(k, x): the value is stored under vLock, then onConfigChange is called.
Set(t, k, x) == /\ Change(t)
                /\ overrides' = [overrides EXCEPT ![k] = x]
                /\ UNCHANGED <<file, value, known, settings, locks, key, val, snap, hasPtr, told>>

\* The file has changed: viper reads it, without vLock, and calls onConfigChange.
FileChanges(f) == /\ Change(Watcher)
                  /\ f # file /\ file' = f
                  /\ UNCHANGED <<overrides, value, known, settings, locks, key, val, snap, hasPtr, told>>

\* onConfigChange: hotReloadableConfigLock.RLock(), the range over the map begins.
HotRLock(p) == /\ pc[p] = "hot" /\ hotW = {}
               /\ IF known THEN hotR' = hotR \cup {p} /\ Goto(p, "scan")
                           ELSE UNCHANGED hotR /\ Goto(p, "snap")
               /\ key' = [key EXCEPT ![p] = 1]
               /\ UNCHANGED <<conf, value, known, settings, hotW, nonR, nonW, val, snap, hasPtr, told, overlapped, calls>>

\* Fault: only the first key is looked up.
LastKey_First(p) == TRUE

\* There is no other key to look up.
LastKey(p) == key[p] = Len(Keys)

\* The loop over the ordered keys: IsSet of one key, under vLock.
Scan(p, here, there, done) ==
  /\ pc[p] = here
  /\ \/ /\ IsSet(Keys[key[p]])
        /\ Goto(p, there)
        /\ UNCHANGED <<key, val>>
     \/ /\ ~IsSet(Keys[key[p]]) /\ ~LastKey(p)
        /\ key' = [key EXCEPT ![p] = @ + 1]
        /\ UNCHANGED <<pc, val>>
     \/ /\ ~IsSet(Keys[key[p]]) /\ LastKey(p)
        /\ val' = [val EXCEPT ![p] = Default]
        /\ Goto(p, done)
        /\ UNCHANGED key
  /\ UNCHANGED <<conf, value, known, settings, locks, snap, hasPtr, told, overlapped, calls>>

\* get...Internal: vLock again, and the default if the key is not set any more.
ReadKey(p, here, done) ==
  /\ pc[p] = here
  /\ val' = [val EXCEPT ![p] = IF IsSet(Keys[key[p]]) THEN Effective[Keys[key[p]]] ELSE Default]
  /\ Goto(p, done)
  /\ UNCHANGED <<conf, value, known, settings, locks, key, snap, hasPtr, told, overlapped, calls>>

\* compare(a.value, new) is false.
Changed(p) == value # val[p]

\* swapIfNotEqual, under the variable's lock.
Swap(p) == /\ pc[p] = "swap"
           /\ value' = val[p]
           /\ IF Changed(p) THEN Goto(p, "notify") /\ UNCHANGED hotR
                                ELSE Goto(p, "snap") /\ hotR' = hotR \ {p}
           /\ UNCHANGED <<conf, known, settings, hotW, nonR, nonW, key, val, snap, hasPtr, told, overlapped, calls>>

\* Fault: hotReloadableConfigLock is not released.
Notify_KeepsLock(p) == /\ pc[p] = "notify"
                       /\ told' = val[p]
                       /\ Goto(p, "snap")
                       /\ UNCHANGED <<conf, value, known, settings, locks, key, val, snap, hasPtr, overlapped, calls>>

\* notifyReloadableConfigChange, and hotReloadableConfigLock.RUnlock().
Notify(p) == /\ pc[p] = "notify"
             /\ told' = val[p]
             /\ hotR' = hotR \ {p}
             /\ Goto(p, "snap")
             /\ UNCHANGED <<conf, value, known, settings, hotW, nonR, nonW, key, val, snap, hasPtr, overlapped, calls>>

\* checkAndNotifyNonReloadableConfig: newConfig := getCurrentSettings(), under vLock.
Snapshot(p) == /\ pc[p] = "snap"
               /\ snap' = [snap EXCEPT ![p] = Effective]
               /\ Goto(p, "diff")
               /\ UNCHANGED <<conf, value, known, settings, locks, key, val, hasPtr, told, overlapped, calls>>

\* The changed keys are computed against currentSettings, which no lock protects.
Diff(p) == /\ pc[p] = "diff"
           /\ Goto(p, IF snap[p] # settings THEN "non" ELSE "nonSame")
           /\ UNCHANGED <<conf, value, known, settings, locks, key, val, snap, hasPtr, told, overlapped, calls>>

\* nonReloadableConfigLock.RLock().  The observers are called with the lock held; it
\* is released at once if there is nothing to tell them.
NonRLock(p) == /\ nonW = {}
               /\ \/ /\ pc[p] = "non"
                     /\ nonR' = nonR \cup {p}
                     /\ Goto(p, "observers")
                  \/ /\ pc[p] = "nonSame"
                     /\ Goto(p, "assign")
                     /\ UNCHANGED nonR
               /\ UNCHANGED <<conf, value, known, settings, hotR, hotW, nonW, key, val, snap, hasPtr, told, overlapped, calls>>

\* The observers return, RUnlock(); or one reads the key, see GetVar.
CallObservers(p) == /\ pc[p] = "observers"
                    /\ IF CallbackReads THEN nonW = {} /\ nonW' = {p} /\ Goto(p, "regKey") /\ UNCHANGED nonR
                                        ELSE nonR' = nonR \ {p} /\ Goto(p, "assign") /\ UNCHANGED nonW
                    /\ UNCHANGED <<conf, value, known, settings, hotR, hotW, key, val, snap, hasPtr, told,
                                  overlapped, calls>>

\* currentSettings = newConfig.
Assign(p) == /\ pc[p] = "assign"
             /\ settings' = snap[p]
             /\ Return(p)
             /\ UNCHANGED <<conf, value, known, locks, hasPtr, told, overlapped, calls>>

-----------------------------------------------------------------------------
\* GetReloadable...Var: getOrCreatePointer waits for hotReloadableConfigLock.
Register(t) == /\ pc[t] = "idle" /\ t \notin hasPtr
               /\ hotW = {} /\ hotW' = {t}
               /\ Goto(t, "reg")
               /\ UNCHANGED <<conf, value, known, settings, hotR, nonR, nonW, key, val, snap, hasPtr, told, overlapped, calls>>

\* The pointer exists already: it is returned, whatever it holds by now.
FindPointer(t) == /\ pc[t] = "reg" /\ hotR = {} /\ known
                  /\ hotW' = {}
                  /\ hasPtr' = hasPtr \cup {t}
                  /\ Goto(t, "idle")
                  /\ UNCHANGED <<conf, value, known, settings, hotR, nonR, nonW, key, val, snap, told, overlapped, calls>>

\* It is created, with the zero value, and the lock is released: storeIntVar begins.
CreatePointer(t) == /\ pc[t] = "reg" /\ hotR = {} /\ ~known
                    /\ hotW' = {}
                    /\ known' = TRUE
                    /\ overlapped' = (overlapped \/ Busy)
                    /\ key' = [key EXCEPT ![t] = 1]
                    /\ Goto(t, "initScan")
                    /\ UNCHANGED <<conf, value, settings, hotR, nonR, nonW, val, snap, hasPtr, told, calls>>

\* store: the variable's first value, which nobody is told of.
Store(t) == /\ pc[t] = "store"
            /\ value' = val[t]
            /\ told' = IF told = Zero THEN val[t] ELSE told
            /\ hasPtr' = hasPtr \cup {t}
            /\ Return(t)
            /\ UNCHANGED <<conf, known, settings, locks, overlapped, calls>>

\* A variable that is not reloadable is read: registerNonReloadableConfigKeys takes
\* nonReloadableConfigLock.Lock() ...
GetVar(t) == /\ pc[t] = "idle"
             /\ nonW = {} /\ nonW' = {t}
             /\ Goto(t, "regKey")
             /\ UNCHANGED <<conf, value, known, settings, hotR, hotW, nonR, key, val, snap, hasPtr, told, overlapped, calls>>

\* ... which waits for every reader to leave.  (An observer that got here waits for itself.)
RegisterKey(p) == /\ pc[p] = "regKey" /\ nonR = {}
                  /\ nonW' = {}
                  /\ Goto(p, "idle")
                  /\ UNCHANGED <<conf, value, known, settings, hotR, hotW, nonR, key, val, snap, hasPtr, told, overlapped, calls>>

ScanChange(p) == Scan(p, "scan", "get", "swap")
ReadChange(p) == ReadKey(p, "get", "swap")
ScanFirst(p) == Scan(p, "initScan", "initGet", "store")
ReadFirst(p) == ReadKey(p, "initGet", "store")

Step(p) == \/ HotRLock(p) \/ ScanChange(p) \/ ReadChange(p) \/ Swap(p) \/ Notify(p)
           \/ Snapshot(p) \/ Diff(p) \/ NonRLock(p) \/ CallObservers(p) \/ Assign(p) \/ RegisterKey(p)
           \/ FindPointer(p) \/ CreatePointer(p) \/ ScanFirst(p) \/ ReadFirst(p) \/ Store(p)

Next == \/ \E p \in Procs : Step(p)
        \/ \E t \in Threads, k \in KeySet, x \in Values : Set(t, k, x)
        \/ \E f \in Layer : FileChanges(f)
        \/ \E t \in Threads : Register(t) \/ GetVar(t)

Spec == Init /\ [][Next]_vars

-----------------------------------------------------------------------------
Quiet == \A p \in Procs : pc[p] \in {"idle", "reg", "regKey"}

\* Once every change has been processed, the variable has the value its keys
\* are configured with (or its default).
QuiescentValue == Quiet /\ known => value = Configured

\* So it is as long as each change is processed before the next, or the
\* registration of the variable, begins.
ValueUpToDate == ~overlapped => QuiescentValue

\* Then the last value its observers were told is the one it has.
ObserverUpToDate == ~overlapped /\ Quiet /\ known => told = value

\* And currentSettings, with which the next change of the file is compared, is
\* the configuration: no change goes unnoticed.
SettingsUpToDate == ~overlapped /\ Quiet => settings = Effective

\* No change that has been processed goes unnoticed, now or at the next.
ChangesNoticed == ObserverUpToDate /\ SettingsUpToDate

\* The call of p is at a lock that somebody else has, or has announced itself for.
WaitsForLock(p) ==
  \/ pc[p] = "hot" /\ hotW # {}
  \/ pc[p] = "reg" /\ hotR # {}
  \/ (pc[p] \in {"non", "nonSame"} \/ (pc[p] = "observers" /\ CallbackReads)) /\ nonW # {}
  \/ pc[p] = "regKey" /\ nonR # {}

\* The two RWMutexes, taken one after the other and each held over calls of other
\* code, do not block everybody: of the calls in progress one is not at a lock ...
NotAllWait == (\E p \in Procs : pc[p] # "idle")
                => \E p \in Procs : pc[p] # "idle" /\ ~WaitsForLock(p)

\* ... and a call stands still at a lock only: whoever waits, somebody can go on.
SomebodyGoesOn ==
  NotAllWait /\ \A p \in Procs : pc[p] = "idle" \/ WaitsForLock(p) \/ ENABLED Step(p)
=============================================================================
