---------------------------- MODULE ConfigProofs ----------------------------
(***************************************************************************)
(* Proofs about the configuration and what follows it. First ConfigReload,  *)
(* for any goroutines, keys, values and changes. Control says who has the   *)
(* locks, with which nobody can be stuck. Flow says how far the one         *)
(* goroutine that processes a change has come while nothing overlaps it: it *)
(* may look a key up and read its value under two different lockings of     *)
(* vLock because nothing changes in between.                                *)
(***************************************************************************)
EXTENDS ConfigReload, FiniteSetTheorems, SequenceTheorems, TLAPS

\* What the proofs need of the constants: the variable has a key, and the observers
\* of the keys read without reloading do not read one themselves.
Constants == /\ Keys \in Seq(KeySet) /\ Keys # <<>>
             /\ Registered \in BOOLEAN /\ ~CallbackReads

\* A goroutine is a reader or a writer of a lock exactly where its call holds it, and one
\* writer at a time has announced itself.
Holders ==
  /\ \A p \in Procs : /\ p \in hotR <=> pc[p] \in {"scan", "get", "swap", "notify"}
                      /\ p \in hotW <=> pc[p] = "reg"
                      /\ p \in nonR <=> pc[p] = "observers"
                      /\ p \in nonW <=> pc[p] = "regKey"
  /\ \A p, q \in hotW : p = q
  /\ \A p, q \in nonW : p = q

\* The loops over the keys are at one of them.
InLoop == \A p \in Procs : pc[p] \in {"scan", "get", "initScan", "initGet"} => key[p] > 0

\* The types, without those of the variable's value, which the argument does not need.
Typed == /\ overrides \in Layer /\ file \in Layer /\ known \in BOOLEAN
         /\ hotR \subseteq Procs /\ hotW \subseteq Procs
         /\ nonR \subseteq Procs /\ nonW \subseteq Procs
         /\ pc \in [Procs -> Labels]
         /\ key \in [Procs -> 0..Len(Keys)]
         /\ val \in [Procs -> Values \cup {Default, Zero}]
         /\ snap \in [Procs -> Layer]

Control == Typed /\ Holders /\ InLoop

-----------------------------------------------------------------------------
\* Where a change, or the first value, is being processed.
BusyLabels == Labels \ {"idle", "reg", "regKey"}

\* The observers have been told the variable's value.
Told == known => told = value

\* The variable and its observers have what is configured.
Follows == known => value = Configured /\ told = value

\* Nothing is left to process.
Settled == Follows /\ settings = Effective

\* The keys before the one the loop is at are not set.
Before(p) == \A j \in 1..Len(Keys) : j < key[p] => ~IsSet(Keys[j])

\* Who looks the variable up knows it.
Looking == {"scan", "get", "swap", "notify", "initScan", "initGet", "store"}

\* How far the one goroutine that processes a change has come.
StageOf(p) ==
  /\ pc[p] \in {"hot", "scan", "get", "swap"} => Told
  /\ pc[p] \in Looking => known
  /\ pc[p] \in {"scan", "get", "initScan", "initGet"} => Before(p)
  /\ pc[p] \in {"get", "initGet"} => IsSet(Keys[key[p]])
  /\ pc[p] \in {"swap", "store", "notify"} => val[p] = Configured
  /\ pc[p] = "notify" => value = Configured
  /\ pc[p] \in {"snap", "diff", "non", "nonSame", "observers", "assign"} => Follows
  /\ pc[p] \in {"diff", "non", "nonSame", "observers", "assign"} => snap[p] = Effective
  /\ pc[p] \in {"initScan", "initGet", "store"} => told = Zero /\ settings = Effective

\* Nobody else processes anything.
Alone(p) == \A q \in Procs : q # p => pc[q] \notin BusyLabels

\* One goroutine at a time processes something; before the variable is known it has the
\* zero value, and nobody was told anything.
InTurn == /\ \A p \in Procs : pc[p] \in BusyLabels => Alone(p) /\ StageOf(p)
          /\ (\A p \in Procs : pc[p] \notin BusyLabels) => Settled
          /\ ~known => value = Zero /\ told = Zero

\* So it is as long as nothing overlaps.
Flow == ~overlapped => InTurn

-----------------------------------------------------------------------------
\* The keys of the variable by their places.
LEMMA KeysAre ==
  ASSUME Constants
  PROVE  /\ Len(Keys) \in Nat \ {0} /\ DOMAIN Keys = 1..Len(Keys)
         /\ \A i \in 1..Len(Keys) : Keys[i] \in KeySet
<1>1. Len(Keys) \in Nat /\ DOMAIN Keys = 1..Len(Keys) /\ \A i \in 1..Len(Keys) : Keys[i] \in KeySet
  BY LenProperties DEF Constants
<1>2. Len(Keys) # 0
  BY EmptySeq DEF Constants
<1> QED
  BY <1>1, <1>2

\* Viper's values of the keys.
LEMMA EffectiveIs ==
  ASSUME overrides \in Layer, file \in Layer
  PROVE  Effective \in Layer /\ \A k \in KeySet : IsSet(k) => Effective[k] \in Values
BY DEF Effective, Layer, IsSet

\* The first key that is set is the one that counts.
LEMMA ConfiguredIs ==
  ASSUME Constants, NEW i \in 1..Len(Keys), IsSet(Keys[i]),
         \A j \in 1..Len(Keys) : j < i => ~IsSet(Keys[j])
  PROVE  Configured = Effective[Keys[i]]
<1> DEFINE set == {j \in DOMAIN Keys : IsSet(Keys[j])}
           first == CHOOSE j \in set : \A k \in set : j <= k
<1>1. DOMAIN Keys = 1..Len(Keys) /\ Len(Keys) \in Nat
  BY KeysAre
<1>2. i \in set /\ \A k \in set : i <= k
  BY <1>1
<1>3. first \in set /\ \A k \in set : first <= k
  BY <1>2
<1>4. first = i
  BY <1>1, <1>2, <1>3
<1>5. set # {}
  BY <1>2
<1> QED
  BY <1>4, <1>5 DEF Configured

\* Without a key that is set it is the default that counts.
LEMMA ConfiguredDefault ==
  ASSUME Constants, \A j \in 1..Len(Keys) : ~IsSet(Keys[j])
  PROVE  Configured = Default
BY KeysAre DEF Configured

\* What is configured changes with the configuration only.
LEMMA ConfKept ==
  ASSUME UNCHANGED conf
  PROVE  Effective' = Effective /\ Configured' = Configured /\ \A k : IsSet(k)' = IsSet(k)
BY DEF conf, Effective, Configured, IsSet

-----------------------------------------------------------------------------
\* A step of one goroutine that takes or gives back no lock of the other goroutines.
Moves(p, label) == /\ pc' = [pc EXCEPT ![p] = label] /\ label \in Labels
                   /\ hotR' = IF label \in {"scan", "get", "swap", "notify"} THEN hotR \cup {p} ELSE hotR \ {p}
                   /\ hotW' = IF label = "reg" THEN hotW \cup {p} ELSE hotW \ {p}
                   /\ nonR' = IF label = "observers" THEN nonR \cup {p} ELSE nonR \ {p}
                   /\ nonW' = IF label = "regKey" THEN nonW \cup {p} ELSE nonW \ {p}

\* The holders of the locks stay those that their calls say, if a writer announces itself
\* only when there is none.
LEMMA MovesKeeps ==
  ASSUME Control, NEW p \in Procs, NEW label, Moves(p, label),
         label = "reg" => hotW \subseteq {p}, label = "regKey" => nonW \subseteq {p}
  PROVE  /\ Holders' /\ pc' \in [Procs -> Labels]
         /\ hotR' \subseteq Procs /\ hotW' \subseteq Procs
         /\ nonR' \subseteq Procs /\ nonW' \subseteq Procs
         /\ pc'[p] = label /\ \A q \in Procs : q # p => pc'[q] = pc[q]
<1>1. pc' \in [Procs -> Labels] /\ pc'[p] = label /\ \A q \in Procs : q # p => pc'[q] = pc[q]
  BY DEF Moves, Control, Typed
<1>2. ASSUME NEW q \in Procs, q # p
      PROVE  /\ q \in hotR' <=> q \in hotR
             /\ q \in hotW' <=> q \in hotW
             /\ q \in nonR' <=> q \in nonR
             /\ q \in nonW' <=> q \in nonW
  BY <1>2 DEF Moves
<1>3. /\ p \in hotR' <=> label \in {"scan", "get", "swap", "notify"}
      /\ p \in hotW' <=> label = "reg"
      /\ p \in nonR' <=> label = "observers"
      /\ p \in nonW' <=> label = "regKey"
  BY DEF Moves
<1>4. ASSUME NEW q \in Procs
      PROVE  /\ q \in hotR' <=> pc'[q] \in {"scan", "get", "swap", "notify"}
             /\ q \in hotW' <=> pc'[q] = "reg"
             /\ q \in nonR' <=> pc'[q] = "observers"
             /\ q \in nonW' <=> pc'[q] = "regKey"
  BY <1>1, <1>2, <1>3 DEF Control, Holders
<1>5. (\A q, r \in hotW' : q = r) /\ (\A q, r \in nonW' : q = r)
  BY DEF Moves, Control, Holders
<1>6. hotR' \subseteq Procs /\ hotW' \subseteq Procs /\ nonR' \subseteq Procs /\ nonW' \subseteq Procs
  BY DEF Moves, Control, Typed
<1> QED
  BY <1>1, <1>4, <1>5, <1>6 DEF Holders

\* The local variables keep their types, and the loops are at a key.
Locals == /\ overrides' \in Layer /\ file' \in Layer /\ known' \in BOOLEAN
          /\ key' \in [Procs -> 0..Len(Keys)]
          /\ val' \in [Procs -> Values \cup {Default, Zero}]
          /\ snap' \in [Procs -> Layer]

\* The step that Moves describes, with what its action does to the rest.
LEMMA MovesControl ==
  ASSUME Control, NEW p \in Procs, NEW label, Moves(p, label), Locals,
         label = "reg" => hotW \subseteq {p}, label = "regKey" => nonW \subseteq {p},
         label \in {"scan", "get", "initScan", "initGet"} => key'[p] > 0,
         \A q \in Procs : q # p => key'[q] = key[q]
  PROVE  Control'
<1>1. /\ Holders' /\ pc' \in [Procs -> Labels]
      /\ hotR' \subseteq Procs /\ hotW' \subseteq Procs
      /\ nonR' \subseteq Procs /\ nonW' \subseteq Procs
      /\ pc'[p] = label /\ \A q \in Procs : q # p => pc'[q] = pc[q]
  BY MovesKeeps
<1>2. Typed'
  BY <1>1 DEF Typed, Locals
<1>3. InLoop'
  BY <1>1 DEF Control, InLoop
<1> QED
  BY <1>1, <1>2, <1>3 DEF Control

\* The call of p ends.
LEMMA ReturnLocals ==
  ASSUME Constants, Control, NEW p \in Procs, Return(p), UNCHANGED <<conf, known>>
  PROVE  Locals /\ \A q \in Procs : q # p => key'[q] = key[q]
<1>1. 0 \in 0..Len(Keys) /\ AllUnset \in Layer
  BY KeysAre DEF AllUnset, Layer
<1> QED
  BY <1>1 DEF Return, Locals, Control, Typed, conf

\* The steps of the loops over the keys.
LEMMA ScanControl ==
  ASSUME Constants, Control, NEW p \in Procs,
         ScanChange(p) \/ ReadChange(p) \/ ScanFirst(p) \/ ReadFirst(p)
  PROVE  Control'
<1> USE DEF ScanChange, ReadChange, ScanFirst, ReadFirst
<1>1. /\ pc[p] \in {"scan", "get", "initScan", "initGet"}
      /\ key[p] \in 1..Len(Keys) /\ Len(Keys) \in Nat /\ Keys[key[p]] \in KeySet
  <2>1. pc[p] \in {"scan", "get", "initScan", "initGet"}
    BY DEF Scan, ReadKey
  <2>2. key[p] \in 1..Len(Keys) /\ Len(Keys) \in Nat
    BY <2>1, KeysAre DEF Control, InLoop, Typed
  <2> QED
    BY <2>1, <2>2, KeysAre
<1>2. UNCHANGED <<conf, known, locks, snap>>
  BY DEF Scan, ReadKey
<1>3. key' \in [Procs -> 0..Len(Keys)] /\ key'[p] > 0 /\ \A q \in Procs : q # p => key'[q] = key[q]
  <2>1. CASE UNCHANGED key
    BY <1>1, <2>1 DEF Control, Typed
  <2>2. CASE ~LastKey(p) /\ key' = [key EXCEPT ![p] = @ + 1]
    BY <1>1, <2>2 DEF Control, Typed, LastKey
  <2> QED
    BY <2>1, <2>2 DEF Scan, ReadKey
<1>4. val' \in [Procs -> Values \cup {Default, Zero}]
  <2>1. \A k \in KeySet : IsSet(k) => Effective[k] \in Values
    BY EffectiveIs DEF Control, Typed
  <2>2. CASE UNCHANGED val
    BY <2>2 DEF Control, Typed
  <2>3. CASE val' = [val EXCEPT ![p] = Default]
    BY <2>3 DEF Control, Typed
  <2>4. CASE val' = [val EXCEPT ![p] = IF IsSet(Keys[key[p]]) THEN Effective[Keys[key[p]]] ELSE Default]
    BY <1>1, <2>1, <2>4 DEF Control, Typed
  <2> QED
    BY <2>2, <2>3, <2>4 DEF Scan, ReadKey
<1>5. Locals
  BY <1>2, <1>3, <1>4 DEF Locals, Control, Typed, conf
<1>6. PICK label \in {"scan", "get", "swap", "initScan", "initGet", "store"} :
        /\ pc' = [pc EXCEPT ![p] = label]
        /\ pc[p] \in {"scan", "get"} <=> label \in {"scan", "get", "swap"}
  <2>1. UNCHANGED pc => pc' = [pc EXCEPT ![p] = pc[p]]
    BY DEF Control, Typed
  <2> QED
    BY <2>1 DEF Scan, ReadKey, Goto
<1>7. Moves(p, label)
  <2>1. p \in hotR <=> label \in {"scan", "get", "swap"}
    BY <1>1, <1>6 DEF Control, Holders
  <2>2. p \notin hotW /\ p \notin nonR /\ p \notin nonW
    BY <1>1 DEF Control, Holders
  <2> QED
    BY <1>2, <1>6, <2>1, <2>2 DEF Moves, Labels, locks
<1> QED
  BY <1>3, <1>5, <1>6, <1>7, MovesControl

\* The steps of a change before and after the loop.
LEMMA ChangeControl ==
  ASSUME Constants, Control, NEW p \in Procs,
         HotRLock(p) \/ Swap(p) \/ Notify(p) \/ Snapshot(p) \/ Diff(p) \/ NonRLock(p)
           \/ CallObservers(p)
  PROVE  Control'
<1> USE DEF HotRLock, Swap, Notify, Snapshot, Diff, NonRLock, CallObservers
<1>1. UNCHANGED <<conf, known, val, hotW>>
  BY DEF conf, locks
<1>2. Locals /\ \A q \in Procs : q # p => key'[q] = key[q]
  <2>1. 1 \in 0..Len(Keys)
    BY KeysAre
  <2>2. key' \in [Procs -> 0..Len(Keys)] /\ \A q \in Procs : q # p => key'[q] = key[q]
    BY <2>1 DEF Control, Typed
  <2>3. snap' \in [Procs -> Layer]
    BY EffectiveIs DEF Control, Typed
  <2> QED
    BY <1>1, <2>2, <2>3 DEF Locals, Control, Typed, conf
<1>3. PICK label \in {"scan", "notify", "snap", "diff", "non", "nonSame", "observers", "assign"} :
        pc' = [pc EXCEPT ![p] = label] /\ (label = "scan" => key'[p] > 0)
        /\ hotR' = (IF label \in {"scan", "notify"} THEN hotR \cup {p} ELSE hotR \ {p})
        /\ nonR' = (IF label = "observers" THEN nonR \cup {p} ELSE nonR \ {p})
        /\ UNCHANGED <<hotW, nonW>> /\ pc[p] \notin {"reg", "regKey"}
  <2>1. CASE HotRLock(p)
    BY <2>1 DEF Goto, Control, Typed, Holders
  <2>2. CASE Swap(p)
    BY <2>2 DEF Goto, Control, Holders
  <2>3. CASE Notify(p)
    BY <2>3 DEF Goto, Control, Holders
  <2>4. CASE Snapshot(p)
    <3>1. p \notin hotR /\ p \notin nonR
      BY <2>4 DEF Control, Holders
    <3>2. /\ pc' = [pc EXCEPT ![p] = "diff"] /\ pc[p] \notin {"reg", "regKey"}
          /\ hotR' = hotR \ {p} /\ nonR' = nonR \ {p} /\ UNCHANGED <<hotW, nonW>>
      BY <2>4, <3>1 DEF Goto, locks
    <3> QED
      BY <3>2
  <2>5. CASE Diff(p)
    <3>1. p \notin hotR /\ p \notin nonR
      BY <2>5 DEF Control, Holders
    <3>2. /\ pc' = [pc EXCEPT ![p] = IF snap[p] # settings THEN "non" ELSE "nonSame"]
          /\ pc[p] \notin {"reg", "regKey"}
          /\ hotR' = hotR \ {p} /\ nonR' = nonR \ {p} /\ UNCHANGED <<hotW, nonW>>
      BY <2>5, <3>1 DEF Goto, locks
    <3>3. CASE snap[p] # settings
      BY <3>2, <3>3
    <3>4. CASE snap[p] = settings
      BY <3>2, <3>4
    <3> QED
      BY <3>3, <3>4
  <2>6. CASE NonRLock(p)
    BY <2>6 DEF Goto, Control, Holders
  <2>7. CASE CallObservers(p)
    BY <2>7 DEF Goto, Control, Holders, Constants
  <2> QED
    BY <2>1, <2>2, <2>3, <2>4, <2>5, <2>6, <2>7
<1>4. Moves(p, label)
  BY <1>3 DEF Moves, Labels, Control, Holders
<1> QED
  BY <1>2, <1>3, <1>4, MovesControl

\* A change of the configuration begins.
LEMMA BeginControl ==
  ASSUME Control, NEW p \in Procs, Change(p), UNCHANGED <<known, locks, key, val, snap>>,
         overrides' \in Layer, file' \in Layer
  PROVE  Control'
<1>1. Moves(p, "hot")
  <2>1. p \notin hotR /\ p \notin hotW /\ p \notin nonR /\ p \notin nonW
    BY DEF Change, Control, Holders
  <2> QED
    BY <2>1 DEF Change, Goto, Moves, Labels, locks
<1>2. Locals /\ \A q \in Procs : q # p => key'[q] = key[q]
  BY DEF Locals, Control, Typed
<1> QED
  BY <1>1, <1>2, MovesControl

\* A call waits for one of the locks as its writer.
LEMMA AnnounceControl ==
  ASSUME Control, NEW p \in Procs, Register(p) \/ GetVar(p)
  PROVE  Control'
<1>1. Locals /\ \A q \in Procs : q # p => key'[q] = key[q]
  BY DEF Register, GetVar, Locals, Control, Typed, conf
<1>2. p \notin hotR /\ p \notin hotW /\ p \notin nonR /\ p \notin nonW
  BY DEF Register, GetVar, Control, Holders
<1>3. CASE Register(p)
  <2>1. Moves(p, "reg") /\ hotW = {}
    BY <1>2, <1>3 DEF Register, Goto, Moves, Labels
  <2> QED
    BY <1>1, <2>1, MovesControl
<1>4. CASE GetVar(p)
  <2>1. Moves(p, "regKey") /\ nonW = {}
    BY <1>2, <1>4 DEF GetVar, Goto, Moves, Labels
  <2> QED
    BY <1>1, <2>1, MovesControl
<1> QED
  BY <1>3, <1>4

\* The writer has had the lock, and gives it back.
LEMMA WriterControl ==
  ASSUME Constants, Control, NEW p \in Procs,
         FindPointer(p) \/ CreatePointer(p) \/ RegisterKey(p)
  PROVE  Control'
<1>1. Locals /\ \A q \in Procs : q # p => key'[q] = key[q]
  <2>1. 1 \in 0..Len(Keys)
    BY KeysAre
  <2> QED
    BY <2>1 DEF FindPointer, CreatePointer, RegisterKey, Locals, Control, Typed, conf
<1>2. p \notin hotR /\ p \notin nonR
  BY DEF FindPointer, CreatePointer, RegisterKey, Control, Holders
<1>3. PICK label \in {"idle", "initScan"} :
        /\ pc' = [pc EXCEPT ![p] = label] /\ (label = "initScan" => key'[p] > 0)
        /\ UNCHANGED <<hotR, nonR>> /\ hotW' = hotW \ {p} /\ nonW' = nonW \ {p}
  <2>1. CASE FindPointer(p)
    <3>1. hotW = {p} /\ p \notin nonW
      BY <2>1 DEF FindPointer, Control, Holders
    <3> QED
      BY <2>1, <3>1 DEF FindPointer, Goto
  <2>2. CASE CreatePointer(p)
    <3>1. hotW = {p} /\ p \notin nonW
      BY <2>2 DEF CreatePointer, Control, Holders
    <3> QED
      BY <2>2, <3>1 DEF CreatePointer, Goto, Control, Typed
  <2>3. CASE RegisterKey(p)
    <3>1. nonW = {p} /\ p \notin hotW
      BY <2>3 DEF RegisterKey, Control, Holders
    <3> QED
      BY <2>3, <3>1 DEF RegisterKey, Goto
  <2> QED
    BY <2>1, <2>2, <2>3
<1>4. Moves(p, label)
  BY <1>2, <1>3 DEF Moves, Labels
<1> QED
  BY <1>1, <1>3, <1>4, MovesControl

\* A call ends that has no lock.
LEMMA EndControl ==
  ASSUME Constants, Control, NEW p \in Procs, Assign(p) \/ Store(p)
  PROVE  Control'
<1>1. Return(p) /\ UNCHANGED <<conf, known, locks>> /\ pc[p] \in {"assign", "store"}
  BY DEF Assign, Store
<1>2. Locals /\ \A q \in Procs : q # p => key'[q] = key[q]
  BY <1>1, ReturnLocals
<1>3. Moves(p, "idle")
  <2>1. p \notin hotR /\ p \notin hotW /\ p \notin nonR /\ p \notin nonW
    BY <1>1 DEF Control, Holders
  <2> QED
    BY <1>1, <2>1 DEF Return, Goto, Moves, Labels, locks
<1> QED
  BY <1>2, <1>3, MovesControl

\* Nobody has a lock at first.
LEMMA InitControl ==
  ASSUME Constants, Init
  PROVE  Control
<1>1. AllUnset \in Layer
  BY DEF AllUnset, Layer
<1>2. Effective \in Layer /\ (Registered => known) /\ known \in BOOLEAN
  BY <1>1, EffectiveIs DEF Init, Constants
<1>3. Typed
  BY <1>1, <1>2, KeysAre DEF Init, Typed, Labels
<1> QED
  BY <1>3 DEF Init, Control, Holders, InLoop

\* Every action keeps the locks with those that hold them.
LEMMA NextControl ==
  ASSUME Constants, Control, [Next]_vars
  PROVE  Control'
<1>1. CASE UNCHANGED vars
  BY <1>1 DEF vars, conf, locks, Control, Typed, Holders, InLoop
<1>2. ASSUME NEW p \in Procs, Step(p)
      PROVE  Control'
  BY <1>2, ScanControl, ChangeControl, WriterControl, EndControl DEF Step
<1>3. ASSUME NEW t \in Threads, NEW k \in KeySet, NEW x \in Values, Set(t, k, x)
      PROVE  Control'
  <2>1. overrides' \in Layer /\ file' \in Layer /\ t \in Procs
    BY <1>3 DEF Set, Control, Typed, Layer, Procs
  <2> QED
    BY <1>3, <2>1, BeginControl DEF Set
<1>4. ASSUME NEW f \in Layer, FileChanges(f)
      PROVE  Control'
  <2>1. overrides' \in Layer /\ file' \in Layer /\ Watcher \in Procs
    BY <1>4 DEF FileChanges, Control, Typed, Procs
  <2> QED
    BY <1>4, <2>1, BeginControl DEF FileChanges
<1>5. ASSUME NEW t \in Threads, Register(t) \/ GetVar(t)
      PROVE  Control'
  BY <1>5, AnnounceControl DEF Procs
<1> QED
  BY <1>1, <1>2, <1>3, <1>4, <1>5 DEF Next

-----------------------------------------------------------------------------
\* Where a goroutine that goes on, and the others, are.
LEMMA GoesTo ==
  ASSUME Control, NEW p \in Procs, NEW label, Goto(p, label)
  PROVE  pc'[p] = label /\ \A q \in Procs : q # p => pc'[q] = pc[q]
BY DEF Goto, Control, Typed

\* The only goroutine that processes something does a step.
LEMMA BusyStep ==
  ASSUME InTurn, NEW p \in Procs, Alone(p),
         \A q \in Procs : q # p => pc'[q] = pc[q],
         pc'[p] \in BusyLabels => StageOf(p)',
         pc'[p] \notin BusyLabels => Settled',
         ~known' => value' = Zero /\ told' = Zero
  PROVE  InTurn'
<1>1. \A q \in Procs : q # p => pc'[q] \notin BusyLabels
  BY DEF Alone
<1>2. Alone(p)'
  BY <1>1 DEF Alone, BusyLabels, Labels
<1>3. ASSUME NEW q \in Procs, pc'[q] \in BusyLabels
      PROVE  Alone(q)' /\ StageOf(q)'
  BY <1>1, <1>2, <1>3
<1> QED
  BY <1>3 DEF InTurn, BusyLabels, Labels

\* A call that processes nothing does a step.
LEMMA QuietFlow ==
  ASSUME Control, InTurn, NEW p \in Procs,
         Register(p) \/ FindPointer(p) \/ GetVar(p) \/ RegisterKey(p)
  PROVE  InTurn'
<1> USE DEF Register, FindPointer, GetVar, RegisterKey
<1>1. UNCHANGED <<conf, value, known, settings, told, key, val, snap>>
  OBVIOUS
<1>2. Effective' = Effective /\ Configured' = Configured /\ \A k : IsSet(k)' = IsSet(k)
  BY <1>1, ConfKept DEF conf
<1>3. pc'[p] \notin BusyLabels /\ pc[p] \notin BusyLabels /\ \A q \in Procs : q # p => pc'[q] = pc[q]
  BY GoesTo DEF BusyLabels
<1>4. Settled => Settled'
  BY <1>1, <1>2 DEF Settled, Follows
<1>5. ASSUME NEW q \in Procs, pc'[q] \in BusyLabels
      PROVE  Alone(q)' /\ StageOf(q)'
  <2>1. pc'[q] = pc[q] /\ Alone(q) /\ StageOf(q)
    BY <1>3, <1>5 DEF InTurn
  <2>2. Alone(q)'
    BY <1>3, <2>1 DEF Alone, BusyLabels, Labels
  <2>3. StageOf(q)'
    BY <1>1, <1>2, <2>1 DEF StageOf, Told, Follows, Before, Looking
  <2> QED
    BY <2>2, <2>3
<1>6. (\A q \in Procs : pc'[q] \notin BusyLabels) => Settled'
  BY <1>3, <1>4 DEF InTurn
<1> QED
  BY <1>1, <1>5, <1>6 DEF InTurn, BusyLabels, Labels

\* A change begins when no other is being processed.
LEMMA BeginFlow ==
  ASSUME Control, InTurn, NEW p \in Procs, Change(p), ~overlapped',
         UNCHANGED <<value, known, told>>
  PROVE  InTurn'
<1>1. \A q \in Procs : pc[q] \notin BusyLabels
  BY DEF Change, Busy, BusyLabels
<1>2. Settled
  BY <1>1 DEF InTurn
<1>3. pc'[p] = "hot" /\ \A q \in Procs : q # p => pc'[q] = pc[q]
  BY GoesTo DEF Change
<1>4. StageOf(p)'
  BY <1>2, <1>3 DEF StageOf, Settled, Follows, Told, Looking
<1> QED
  BY <1>1, <1>3, <1>4, BusyStep DEF Alone, InTurn, BusyLabels, Labels

\* The keys are looked up while the configuration stays as it is.
LEMMA LookUpFlow ==
  ASSUME Constants, Control, InTurn, NEW p \in Procs,
         ScanChange(p) \/ ReadChange(p) \/ ScanFirst(p) \/ ReadFirst(p)
  PROVE  InTurn'
<1> USE DEF ScanChange, ReadChange, ScanFirst, ReadFirst
<1>1. UNCHANGED <<conf, value, known, settings, told>>
  BY DEF Scan, ReadKey
<1>2. Effective' = Effective /\ Configured' = Configured /\ \A k : IsSet(k)' = IsSet(k)
  BY <1>1, ConfKept DEF conf
<1>3. /\ pc[p] \in {"scan", "get", "initScan", "initGet"}
      /\ key[p] \in 1..Len(Keys) /\ Len(Keys) \in Nat
  <2>1. pc[p] \in {"scan", "get", "initScan", "initGet"}
    BY DEF Scan, ReadKey
  <2> QED
    BY <2>1, KeysAre DEF Control, InLoop, Typed
<1>4. Alone(p) /\ StageOf(p) /\ known /\ Before(p)
  BY <1>3 DEF InTurn, StageOf, BusyLabels, Labels, Looking
<1>5. /\ pc[p] = "scan" => Told
      /\ pc[p] = "get" => Told /\ IsSet(Keys[key[p]])
      /\ pc[p] = "initScan" => told = Zero /\ settings = Effective
      /\ pc[p] = "initGet" => told = Zero /\ settings = Effective /\ IsSet(Keys[key[p]])
  BY <1>4 DEF StageOf
<1>6. Told => Told'
  BY <1>1 DEF Told
<1>7. /\ \A q \in Procs : q # p => pc'[q] = pc[q]
      /\ pc'[p] \in BusyLabels /\ StageOf(p)'
  <2>1. ASSUME NEW here, NEW there, NEW done, Scan(p, here, there, done),
               <<here, there, done>> \in {<<"scan", "get", "swap">>, <<"initScan", "initGet", "store">>}
        PROVE  /\ \A q \in Procs : q # p => pc'[q] = pc[q]
               /\ pc'[p] \in BusyLabels /\ StageOf(p)'
    <3>1. CASE IsSet(Keys[key[p]]) /\ Goto(p, there) /\ UNCHANGED <<key, val>>
      <4>1. Before(p)' /\ IsSet(Keys[key[p]])'
        BY <1>2, <1>4, <3>1 DEF Before
      <4>2. pc'[p] = there /\ \A q \in Procs : q # p => pc'[q] = pc[q]
        BY <3>1, GoesTo
      <4>3. pc[p] = here
        BY <2>1 DEF Scan
      <4> QED
        BY <1>1, <1>2, <1>4, <1>5, <1>6, <2>1, <4>1, <4>2, <4>3 DEF StageOf, BusyLabels, Labels, Looking
    <3>2. CASE ~IsSet(Keys[key[p]]) /\ key' = [key EXCEPT ![p] = @ + 1] /\ UNCHANGED <<pc, val>>
      <4>1. key'[p] = key[p] + 1
        BY <3>2 DEF Control, Typed
      <4>2. \A j \in 1..Len(Keys) : j < key'[p] => ~IsSet(Keys[j])
        BY <1>3, <1>4, <3>2, <4>1 DEF Before
      <4>3. Before(p)'
        BY <1>2, <4>2 DEF Before
      <4>4. pc[p] = here
        BY <2>1 DEF Scan
      <4> QED
        BY <1>1, <1>2, <1>4, <1>5, <1>6, <2>1, <3>2, <4>3, <4>4 DEF StageOf, BusyLabels, Labels, Looking
    <3>3. CASE /\ ~IsSet(Keys[key[p]]) /\ LastKey(p) /\ Goto(p, done)
               /\ val' = [val EXCEPT ![p] = Default] /\ UNCHANGED key
      <4>1. \A j \in 1..Len(Keys) : ~IsSet(Keys[j])
        BY <1>3, <1>4, <3>3 DEF Before, LastKey
      <4>2. val'[p] = Configured'
        BY <1>2, <3>3, <4>1, ConfiguredDefault DEF Control, Typed
      <4>3. pc'[p] = done /\ \A q \in Procs : q # p => pc'[q] = pc[q]
        BY <3>3, GoesTo
      <4>4. pc[p] = here
        BY <2>1 DEF Scan
      <4> QED
        BY <1>1, <1>2, <1>4, <1>5, <1>6, <2>1, <4>2, <4>3, <4>4 DEF StageOf, BusyLabels, Labels, Looking
    <3> QED
      BY <2>1, <3>1, <3>2, <3>3 DEF Scan
  <2>2. ASSUME NEW here, NEW done, ReadKey(p, here, done),
               <<here, done>> \in {<<"get", "swap">>, <<"initGet", "store">>}
        PROVE  /\ \A q \in Procs : q # p => pc'[q] = pc[q]
               /\ pc'[p] \in BusyLabels /\ StageOf(p)'
    <3>1. pc[p] = here /\ pc[p] \in {"get", "initGet"} /\ IsSet(Keys[key[p]])
      BY <1>5, <2>2 DEF ReadKey
    <3>2. Configured = Effective[Keys[key[p]]]
      BY <1>3, <1>4, <3>1, ConfiguredIs DEF Before
    <3>3. val'[p] = Configured'
      BY <1>2, <2>2, <3>1, <3>2 DEF ReadKey, Control, Typed
    <3>4. pc'[p] = done /\ \A q \in Procs : q # p => pc'[q] = pc[q]
      BY <2>2, GoesTo DEF ReadKey
    <3> QED
      BY <1>1, <1>2, <1>4, <1>5, <1>6, <2>2, <3>1, <3>3, <3>4 DEF StageOf, BusyLabels, Labels, Looking
  <2> QED
    BY <2>1, <2>2
<1> QED
  BY <1>1, <1>4, <1>7, BusyStep

\* The variable gets what was looked up, and its observers are told.
LEMMA TellFlow ==
  ASSUME Constants, Control, InTurn, NEW p \in Procs, HotRLock(p) \/ Swap(p) \/ Notify(p)
  PROVE  InTurn'
<1>1. UNCHANGED <<conf, known, settings, val, snap>>
  BY DEF HotRLock, Swap, Notify
<1>2. Effective' = Effective /\ Configured' = Configured /\ \A k : IsSet(k)' = IsSet(k)
  BY <1>1, ConfKept DEF conf
<1>3. Alone(p) /\ StageOf(p) /\ (~known => value = Zero /\ told = Zero)
  BY DEF HotRLock, Swap, Notify, InTurn, BusyLabels, Labels
<1>4. ASSUME NEW label \in {"scan", "notify", "snap"}, Goto(p, label),
             label = "scan" => known /\ Told' /\ Before(p)',
             label = "notify" => known /\ val[p] = Configured /\ value' = Configured,
             label = "snap" => Follows',
             ~known => value' = Zero /\ told' = Zero
      PROVE  InTurn'
  <2>1. pc'[p] = label /\ \A q \in Procs : q # p => pc'[q] = pc[q]
    BY <1>4, GoesTo
  <2>2. pc'[p] \in BusyLabels
    BY <2>1 DEF BusyLabels, Labels
  <2>3. StageOf(p)'
    BY <1>1, <1>2, <1>4, <2>1 DEF StageOf, Looking
  <2> QED
    BY <1>1, <1>3, <1>4, <2>1, <2>2, <2>3, BusyStep
<1>5. CASE HotRLock(p)
  <2>1. Told /\ UNCHANGED <<value, told>> /\ key'[p] = 1
    BY <1>3, <1>5 DEF HotRLock, StageOf, Control, Typed
  <2>2. Told' /\ (~known => Follows')
    BY <1>1, <2>1 DEF Told, Follows
  <2>3. Before(p)'
    BY <2>1 DEF Before
  <2>4. CASE known
    BY <1>3, <1>4, <1>5, <2>2, <2>3, <2>4 DEF HotRLock
  <2>5. CASE ~known
    BY <1>3, <1>4, <1>5, <2>1, <2>2, <2>5 DEF HotRLock
  <2> QED
    BY <2>4, <2>5
<1>6. CASE Swap(p)
  <2>1. /\ known /\ Told /\ val[p] = Configured
        /\ value' = val[p] /\ UNCHANGED told
    BY <1>3, <1>6 DEF Swap, StageOf, Looking
  <2>2. CASE Changed(p)
    BY <1>4, <1>6, <2>1, <2>2 DEF Swap
  <2>3. CASE ~Changed(p)
    <3>1. Follows'
      BY <1>1, <1>2, <2>1, <2>3 DEF Changed, Follows, Told
    <3> QED
      BY <1>4, <1>6, <2>1, <2>3, <3>1 DEF Swap
  <2> QED
    BY <2>2, <2>3
<1>7. CASE Notify(p)
  <2>1. /\ known /\ val[p] = Configured /\ value = Configured
        /\ told' = val[p] /\ UNCHANGED value
    BY <1>3, <1>7 DEF Notify, StageOf, Looking
  <2>2. Follows'
    BY <1>1, <1>2, <2>1 DEF Follows
  <2> QED
    BY <1>4, <1>7, <2>1, <2>2 DEF Notify
<1> QED
  BY <1>5, <1>6, <1>7

\* The keys read without reloading are compared, and their new values kept.
LEMMA NoticeFlow ==
  ASSUME Constants, Control, InTurn, NEW p \in Procs,
         Snapshot(p) \/ Diff(p) \/ NonRLock(p) \/ CallObservers(p) \/ Assign(p)
  PROVE  InTurn'
<1> USE DEF Snapshot, Diff, NonRLock, CallObservers, Assign
<1>1. UNCHANGED <<conf, value, known, told>>
  OBVIOUS
<1>2. Effective' = Effective /\ Configured' = Configured /\ \A k : IsSet(k)' = IsSet(k)
  BY <1>1, ConfKept DEF conf
<1>3. pc[p] \in {"snap", "diff", "non", "nonSame", "observers", "assign"}
  OBVIOUS
<1>4. /\ Alone(p) /\ Follows /\ (pc[p] # "snap" => snap[p] = Effective)
      /\ (~known => value = Zero /\ told = Zero)
  BY <1>3 DEF InTurn, StageOf, BusyLabels, Labels
<1>5. Follows'
  BY <1>1, <1>2, <1>4 DEF Follows
<1>6. CASE Assign(p)
  <2>1. Settled'
    BY <1>2, <1>4, <1>5, <1>6 DEF Settled
  <2>2. pc'[p] = "idle" /\ \A q \in Procs : q # p => pc'[q] = pc[q]
    BY <1>6, GoesTo DEF Return
  <2>3. pc'[p] \notin BusyLabels
    BY <2>2 DEF BusyLabels
  <2> QED
    BY <1>1, <1>4, <2>1, <2>2, <2>3, BusyStep
<1>7. CASE ~Assign(p)
  <2>1. PICK label \in {"diff", "non", "nonSame", "observers", "assign"} : Goto(p, label)
    BY <1>7 DEF Constants
  <2>2. snap'[p] = Effective
    BY <1>4, <1>7 DEF Control, Typed
  <2>3. pc'[p] = label /\ \A q \in Procs : q # p => pc'[q] = pc[q]
    BY <2>1, GoesTo
  <2>4. pc'[p] \in BusyLabels
    BY <2>3 DEF BusyLabels, Labels
  <2>5. StageOf(p)'
    BY <1>2, <1>5, <2>2, <2>3 DEF StageOf, Looking
  <2> QED
    BY <1>1, <1>4, <2>3, <2>4, <2>5, BusyStep
<1> QED
  BY <1>6, <1>7

\* The variable is registered while no change is processed, and gets its first value.
LEMMA FirstFlow ==
  ASSUME Constants, Control, InTurn, NEW p \in Procs, ~overlapped',
         CreatePointer(p) \/ Store(p)
  PROVE  InTurn'
<1>1. UNCHANGED <<conf, settings>> /\ known' = TRUE
  <2>1. Store(p) => known
    BY DEF Store, InTurn, StageOf, BusyLabels, Labels, Looking
  <2> QED
    BY <2>1 DEF CreatePointer, Store, Control, Typed
<1>2. Effective' = Effective /\ Configured' = Configured /\ \A k : IsSet(k)' = IsSet(k)
  BY <1>1, ConfKept DEF conf
<1>3. CASE CreatePointer(p)
  <2>1. \A q \in Procs : pc[q] \notin BusyLabels
    BY <1>3 DEF CreatePointer, Busy, BusyLabels
  <2>2. Settled /\ told = Zero
    BY <1>3, <2>1 DEF InTurn, CreatePointer
  <2>3. pc'[p] = "initScan" /\ \A q \in Procs : q # p => pc'[q] = pc[q]
    BY <1>3, GoesTo DEF CreatePointer
  <2>4. Before(p)' /\ UNCHANGED told
    BY <1>3 DEF CreatePointer, Before, Control, Typed
  <2>5. StageOf(p)'
    BY <1>1, <1>2, <2>2, <2>3, <2>4 DEF StageOf, Settled, Looking
  <2> QED
    BY <1>1, <2>1, <2>3, <2>5, BusyStep DEF Alone, BusyLabels, Labels
<1>4. CASE Store(p)
  <2>1. Alone(p) /\ StageOf(p)
    BY <1>4 DEF Store, InTurn, BusyLabels, Labels
  <2>2. val[p] = Configured /\ told = Zero /\ settings = Effective
    BY <1>4, <2>1 DEF Store, StageOf
  <2>3. Settled'
    BY <1>1, <1>2, <1>4, <2>2 DEF Store, Settled, Follows
  <2>4. pc'[p] = "idle" /\ \A q \in Procs : q # p => pc'[q] = pc[q]
    BY <1>4, GoesTo DEF Store, Return
  <2>5. pc'[p] \notin BusyLabels
    BY <2>4 DEF BusyLabels
  <2> QED
    BY <1>1, <2>1, <2>3, <2>4, <2>5, BusyStep
<1> QED
  BY <1>3, <1>4

\* At first nothing is left to process.
LEMMA InitFlow ==
  ASSUME Constants, Init
  PROVE  Flow
BY DEF Init, Constants, Flow, InTurn, Settled, Follows, BusyLabels

\* Every action keeps the changes in turn, or is one that overlaps another.
LEMMA NextFlow ==
  ASSUME Constants, Control, Flow, [Next]_vars
  PROVE  Flow'
<1> SUFFICES ASSUME ~overlapped'
             PROVE  InTurn'
  BY DEF Flow
<1>1. CASE UNCHANGED vars
  <2>1. UNCHANGED conf /\ ~overlapped
    BY <1>1 DEF vars
  <2>2. Effective' = Effective /\ Configured' = Configured /\ \A k : IsSet(k)' = IsSet(k)
    BY <2>1, ConfKept
  <2> QED
    BY <1>1, <2>1, <2>2 DEF vars, Flow, InTurn, Alone, StageOf, Settled, Follows, Told, Before
<1>2. ASSUME NEW p \in Procs, Step(p)
      PROVE  InTurn'
  <2>1. ~overlapped
    BY <1>2 DEF Step, HotRLock, ScanChange, ReadChange, Scan, ReadKey, Swap, Notify, Snapshot, Diff,
                NonRLock, CallObservers, Assign, RegisterKey, FindPointer, CreatePointer, ScanFirst,
                ReadFirst, Store
  <2>2. InTurn
    BY <2>1 DEF Flow
  <2> QED
    BY <1>2, <2>2, LookUpFlow, TellFlow, NoticeFlow, FirstFlow, QuietFlow DEF Step
<1>3. ASSUME NEW t \in Threads, NEW k \in KeySet, NEW x \in Values, Set(t, k, x)
      PROVE  InTurn'
  <2>1. ~overlapped /\ t \in Procs
    BY <1>3 DEF Set, Change, Procs
  <2> QED
    BY <1>3, <2>1, BeginFlow DEF Set, Flow
<1>4. ASSUME NEW f \in Layer, FileChanges(f)
      PROVE  InTurn'
  <2>1. ~overlapped /\ Watcher \in Procs
    BY <1>4 DEF FileChanges, Change, Procs
  <2> QED
    BY <1>4, <2>1, BeginFlow DEF FileChanges, Flow
<1>5. ASSUME NEW t \in Threads, Register(t) \/ GetVar(t)
      PROVE  InTurn'
  <2>1. ~overlapped /\ t \in Procs
    BY <1>5 DEF Register, GetVar, Procs
  <2> QED
    BY <1>5, <2>1, QuietFlow DEF Flow
<1> QED
  BY <1>1, <1>2, <1>3, <1>4, <1>5 DEF Next

-----------------------------------------------------------------------------
\* While the changes come one at a time, the variable has the value that is configured
\* whenever nothing is being processed, its observers were told that value last, and
\* the next change of the keys read without reloading will be noticed: for any number of
\* goroutines, keys, values and changes.
THEOREM ChangesArrive ==
  ASSUME Constants
  PROVE  Spec => [](ValueUpToDate /\ ChangesNoticed)
<1>1. Init => Control /\ Flow
  BY InitControl, InitFlow
<1>2. Control /\ Flow /\ [Next]_vars => (Control /\ Flow)'
  BY NextControl, NextFlow
<1>3. Control /\ Flow => ValueUpToDate /\ ChangesNoticed
  <2>1. Quiet => \A p \in Procs : pc[p] \notin BusyLabels
    BY DEF Quiet, BusyLabels
  <2> QED
    BY <2>1 DEF Flow, InTurn, Settled, Follows, ValueUpToDate, QuiescentValue, ChangesNoticed,
                ObserverUpToDate, SettingsUpToDate
<1> QED
  BY <1>1, <1>2, <1>3, PTL DEF Spec

\* The two locks, taken one after the other, never make all the calls in progress wait:
\* the writer of one waits for readers that are not waiting, or that wait for the
\* other lock, whose writer waits for readers that are not.
THEOREM LocksLetSomebodyOn ==
  ASSUME Constants
  PROVE  Spec => []NotAllWait
<1>1. Init => Control
  BY InitControl
<1>2. Control /\ [Next]_vars => Control'
  BY NextControl
<1>3. Control => NotAllWait
  <2> SUFFICES ASSUME Control, NEW p \in Procs, pc[p] # "idle", WaitsForLock(p)
               PROVE  \E q \in Procs : pc[q] # "idle" /\ ~WaitsForLock(q)
    BY DEF NotAllWait
  <2>1. \A q \in hotR : q \in Procs /\ pc[q] # "idle" /\ ~WaitsForLock(q)
    BY DEF Control, Typed, Holders, WaitsForLock
  <2>2. \A q \in nonR : q \in Procs /\ pc[q] # "idle" /\ ~WaitsForLock(q)
    BY DEF Control, Typed, Holders, WaitsForLock, Constants
  <2>3. \A q \in hotW : q \in Procs /\ pc[q] = "reg"
    BY DEF Control, Typed, Holders
  <2>4. \A q \in nonW : q \in Procs /\ pc[q] = "regKey"
    BY DEF Control, Typed, Holders
  <2>5. CASE hotR # {} \/ nonR # {}
    BY <2>1, <2>2, <2>5
  <2>6. CASE hotR = {} /\ nonR = {}
    <3>1. \A q \in hotW \cup nonW : q \in Procs /\ pc[q] # "idle" /\ ~WaitsForLock(q)
      BY <2>3, <2>4, <2>6 DEF WaitsForLock
    <3>2. hotW # {} \/ nonW # {}
      BY <2>6 DEF WaitsForLock
    <3> QED
      BY <3>1, <3>2
  <2> QED
    BY <2>5, <2>6
<1> QED
  BY <1>1, <1>2, <1>3, PTL DEF Spec

-----------------------------------------------------------------------------
(***************************************************************************)
(* ConfigNotify. For each notifier and observer, the calls made and those   *)
(* still to make are as many as were due when it took its copy of the       *)
(* observers.                                                               *)
(***************************************************************************)
CONSTANTS Observers, TypeOf, Notifiers, About, MaxRegistrations, MaxNotifications
VARIABLES observers, left, panicked, registrations, notifications, count, due

Observed == INSTANCE ConfigNotify

\* Where an observer is in a sequence of observers, and whether a notifier calls it.
Places(s, o) == {i \in DOMAIN s : s[i] = o}
Listens(n, o) == TypeOf[o] \in {"pointer", About[n]}

NotifyTypes == /\ observers \in Seq(Observers)
               /\ left \in [Notifiers -> Seq(Observers)]
               /\ count \in [Observers -> Int]
               /\ due \in [Notifiers -> [Observers -> Int]]
               /\ told \in [Notifiers -> [Observers -> Int]]

\* count is how often each is registered; the calls made and those still to make are
\* those that were due.
Counted == \A o \in Observers : count[o] = Cardinality(Places(observers, o))
CallsAddUp == \A n \in Notifiers, o \in Observers :
                IF Listens(n, o) THEN told[n][o] + Cardinality(Places(left[n], o)) = due[n][o]
                ELSE told[n][o] = 0

NotifyInv == NotifyTypes /\ Counted /\ CallsAddUp

\* The places of a sequence are a finite set.
LEMMA PlacesFinite ==
  ASSUME NEW s \in Seq(Observers), NEW o
  PROVE  IsFiniteSet(Places(s, o)) /\ Cardinality(Places(s, o)) \in Nat
<1>1. IsFiniteSet(1..Len(s)) /\ Places(s, o) \subseteq 1..Len(s)
  BY FS_Interval DEF Places
<1> QED
  BY <1>1, FS_Subset, FS_CardinalityType

\* An observer registered once more has a place more.
LEMMA PlacesAppend ==
  ASSUME NEW s \in Seq(Observers), NEW x \in Observers, NEW o
  PROVE  Cardinality(Places(Append(s, x), o)) =
           Cardinality(Places(s, o)) + (IF x = o THEN 1 ELSE 0)
<1> DEFINE t == Append(s, x)
<1>1. /\ DOMAIN t = 1..(Len(s) + 1) /\ t[Len(s) + 1] = x
      /\ \A i \in 1..Len(s) : t[i] = s[i]
  OBVIOUS
<1> HIDE DEF t
<1>2. CASE x = o
  <2>1. Places(t, o) = Places(s, o) \cup {Len(s) + 1} /\ Len(s) + 1 \notin Places(s, o)
    BY <1>1, <1>2 DEF Places
  <2> QED
    BY <1>2, <2>1, PlacesFinite, FS_AddElement DEF t
<1>3. CASE x # o
  <2>1. Places(t, o) = Places(s, o)
    BY <1>1, <1>3 DEF Places
  <2> QED
    BY <1>3, <2>1, PlacesFinite DEF t
<1> QED
  BY <1>2, <1>3

\* Calling the first of those left leaves one place less of it.
LEMMA PlacesTail ==
  ASSUME NEW s \in Seq(Observers), s # <<>>, NEW o
  PROVE  Cardinality(Places(s, o)) =
           Cardinality(Places(Tail(s), o)) + (IF Head(s) = o THEN 1 ELSE 0)
<1> DEFINE t == Tail(s)
<1>1. /\ t \in Seq(Observers) /\ DOMAIN t = 1..(Len(s) - 1) /\ Len(s) \in Nat \ {0} /\ Head(s) = s[1]
      /\ DOMAIN s = 1..Len(s) /\ \A i \in 1..(Len(s) - 1) : t[i] = s[i + 1]
  OBVIOUS
<1> HIDE DEF t
<1> DEFINE moved == {i \in Places(s, o) : i # 1}
           f == [i \in Places(t, o) |-> i + 1]
<1>2. f \in Bijection(Places(t, o), moved)
  <2>1. \A i \in Places(t, o) : i \in Int /\ f[i] = i + 1 /\ f[i] \in moved
    BY <1>1 DEF Places
  <2>2. \A j \in moved : j - 1 \in Places(t, o) /\ f[j - 1] = j
    BY <1>1 DEF Places
  <2>3. f \in [Places(t, o) -> moved]
    BY <2>1
  <2>4. \A i, j \in Places(t, o) : f[i] = f[j] => i = j
    BY <2>1
  <2> HIDE DEF f, moved
  <2> QED
    BY <2>2, <2>3, <2>4 DEF Bijection, Injection, Surjection, IsInjective
<1>3. IsFiniteSet(moved) /\ Cardinality(moved) = Cardinality(Places(t, o))
  <2> HIDE DEF f, moved
  <2>1. ExistsBijection(Places(t, o), moved)
    BY <1>2 DEF ExistsBijection
  <2> QED
    BY <1>1, <2>1, PlacesFinite, FS_Bijection
<1>4. CASE Head(s) = o
  <2>1. Places(s, o) = moved \cup {1} /\ 1 \notin moved
    BY <1>1, <1>4 DEF Places
  <2> HIDE DEF moved
  <2>2. Cardinality(Places(s, o)) = Cardinality(moved) + 1
    BY <1>3, <2>1, FS_AddElement
  <2> QED
    BY <1>3, <1>4, <2>2 DEF t
<1>5. CASE Head(s) # o
  <2>1. Places(s, o) = moved
    BY <1>1, <1>5 DEF Places
  <2> HIDE DEF moved
  <2> QED
    BY <1>1, <1>3, <1>5, <2>1, PlacesFinite DEF t
<1> QED
  BY <1>4, <1>5

\* The last one taking the place of the one removed: that one has a place less, the others
\* as many as before.
LEMMA PlacesRemoved ==
  ASSUME NEW s \in Seq(Observers), NEW i \in DOMAIN s, NEW o
  PROVE  LET t == Observed!Front([s EXCEPT ![i] = Observed!Last(s)])
         IN  /\ t \in Seq(Observers)
             /\ Cardinality(Places(t, o)) = Cardinality(Places(s, o)) - (IF s[i] = o THEN 1 ELSE 0)
<1> DEFINE n == Len(s)
           r == [s EXCEPT ![i] = s[n]]
           t == SubSeq(r, 1, n - 1)
<1>1. /\ n \in Nat \ {0} /\ i \in 1..n /\ s[n] \in Observers
      /\ \A j \in 1..n : s[j] \in Observers
  OBVIOUS
<1>2. r \in Seq(Observers) /\ Len(r) = n
  BY <1>1
<1>3. /\ t \in Seq(Observers) /\ DOMAIN t = 1..(n - 1)
      /\ \A j \in 1..(n - 1) : t[j] = IF j = i THEN s[n] ELSE s[j]
  <2>1. \A j \in 1..n : r[j] = IF j = i THEN s[n] ELSE s[j]
    BY <1>1
  <2> HIDE DEF r
  <2>2. t \in Seq(Observers) /\ DOMAIN t = 1..(n - 1) /\ \A j \in 1..(n - 1) : t[j] = r[j]
    BY <1>1, <1>2
  <2> HIDE DEF t
  <2> QED
    BY <1>1, <2>1, <2>2
<1>4. Observed!Front([s EXCEPT ![i] = Observed!Last(s)]) = t
  BY <1>2 DEF Observed!Front, Observed!Last
<1>5. DOMAIN s = 1..n
  OBVIOUS
<1> HIDE DEF r, t, n
<1>6. Cardinality(Places(t, o)) = Cardinality(Places(s, o)) - (IF s[i] = o THEN 1 ELSE 0)
  <2>1. CASE s[i] = o /\ s[n] = o
    <3>1. Places(t, o) = Places(s, o) \ {n} /\ n \in Places(s, o)
      BY <1>1, <1>3, <1>5, <2>1 DEF Places
    <3>2. Cardinality(Places(s, o) \ {n}) = Cardinality(Places(s, o)) - 1
      BY <3>1, PlacesFinite, FS_RemoveElement
    <3> QED
      BY <2>1, <3>1, <3>2
  <2>2. CASE s[i] = o /\ s[n] # o
    <3>1. Places(t, o) = Places(s, o) \ {i} /\ i \in Places(s, o)
      BY <1>1, <1>3, <1>5, <2>2 DEF Places
    <3>2. Cardinality(Places(s, o) \ {i}) = Cardinality(Places(s, o)) - 1
      BY <3>1, PlacesFinite, FS_RemoveElement
    <3> QED
      BY <2>2, <3>1, <3>2
  <2>3. CASE s[i] # o /\ s[n] = o
    <3> DEFINE rest == Places(s, o) \ {n}
    <3>1. Places(t, o) = rest \cup {i} /\ i \notin rest /\ n \in Places(s, o)
      BY <1>1, <1>3, <1>5, <2>3 DEF Places
    <3>2. /\ IsFiniteSet(rest)
          /\ Cardinality(rest) = Cardinality(Places(s, o)) - 1
      BY <3>1, PlacesFinite, FS_RemoveElement
    <3> HIDE DEF rest
    <3>3. Cardinality(rest \cup {i}) = Cardinality(rest) + 1
      BY <3>1, <3>2, FS_AddElement
    <3>4. Cardinality(Places(s, o)) \in Nat
      BY PlacesFinite
    <3> QED
      BY <2>3, <3>1, <3>2, <3>3, <3>4
  <2>4. CASE s[i] # o /\ s[n] # o
    <3>1. Places(t, o) = Places(s, o)
      BY <1>1, <1>3, <1>5, <2>4 DEF Places
    <3> QED
      BY <2>4, <3>1, PlacesFinite
  <2> QED
    BY <2>1, <2>2, <2>3, <2>4
<1> QED
  BY <1>3, <1>4, <1>6

\* Nothing is registered, and nothing told, at first.
LEMMA NotifyInit == ASSUME Observed!Init PROVE NotifyInv
<1>1. \A o \in Observers : Places(<<>>, o) = {}
  BY DEF Places
<1>2. Cardinality({}) = 0 /\ <<>> \in Seq(Observers)
  BY FS_EmptySet
<1>3. NotifyTypes
  BY <1>2 DEF Observed!Init, Observed!Zero, NotifyTypes
<1>4. \A o \in Observers :
        /\ count[o] = 0 /\ \A n \in Notifiers : told[n][o] = 0 /\ due[n][o] = 0 /\ left[n] = <<>>
  BY DEF Observed!Init, Observed!Zero
<1>5. observers = <<>>
  BY DEF Observed!Init
<1>6. Counted
  BY <1>1, <1>2, <1>4, <1>5 DEF Counted
<1>7. ASSUME NEW n \in Notifiers, NEW o \in Observers
      PROVE  /\ told[n][o] = 0 /\ due[n][o] = 0
             /\ Cardinality(Places(left[n], o)) = 0
  BY <1>1, <1>2, <1>4
<1>8. CallsAddUp
  BY <1>7 DEF CallsAddUp
<1> QED
  BY <1>3, <1>6, <1>8 DEF NotifyInv

\* Registering and unregistering.
LEMMA RegisterPreserves ==
  ASSUME NotifyInv, NEW o \in Observers, Observed!Register(o) \/ Observed!Unregister(o)
  PROVE  NotifyInv'
<1>1. NotifyTypes /\ Counted /\ CallsAddUp /\ UNCHANGED <<left, due, told>>
  BY DEF NotifyInv, Observed!Register, Observed!Unregister
<1>2. CallsAddUp'
  BY <1>1 DEF CallsAddUp
<1>3. CASE Observed!Register(o)
  <2>1. observers' = Append(observers, o) /\ count' = [count EXCEPT ![o] = @ + 1]
    BY <1>3 DEF Observed!Register
  <2>2. NotifyTypes'
    BY <1>1, <2>1 DEF NotifyTypes
  <2>3. Counted'
    <3> SUFFICES ASSUME NEW x \in Observers PROVE count'[x] = Cardinality(Places(observers', x))
      BY DEF Counted
    <3>1. Cardinality(Places(observers', x)) =
            Cardinality(Places(observers, x)) + (IF o = x THEN 1 ELSE 0)
      BY <1>1, <2>1, PlacesAppend DEF NotifyTypes
    <3> QED
      BY <1>1, <2>1, <3>1 DEF Counted, NotifyTypes
  <2> QED
    BY <1>2, <2>2, <2>3 DEF NotifyInv
<1>4. CASE Observed!Unregister(o)
  <2>1. PICK i \in Observed!Stops(o) :
          IF Observed!Compare(observers[i], o) = "panic"
          THEN UNCHANGED <<observers, count>>
          ELSE observers' = Observed!Removed(i) /\ count' = [count EXCEPT ![o] = @ - 1]
    BY <1>4 DEF Observed!Unregister
  <2>2. CASE UNCHANGED <<observers, count>>
    BY <1>1, <1>2, <2>2 DEF NotifyInv, NotifyTypes, Counted
  <2>3. CASE /\ Observed!Compare(observers[i], o) # "panic"
             /\ observers' = Observed!Removed(i) /\ count' = [count EXCEPT ![o] = @ - 1]
    <3>1. i \in DOMAIN observers /\ observers[i] = o
      BY <2>1, <2>3 DEF Observed!Stops, Observed!Compare
    <3>2. /\ observers' \in Seq(Observers)
          /\ \A x \in Observers : Cardinality(Places(observers', x)) =
                                    Cardinality(Places(observers, x)) - (IF o = x THEN 1 ELSE 0)
      BY <1>1, <2>3, <3>1, PlacesRemoved DEF Observed!Removed, NotifyTypes
    <3>3. NotifyTypes' /\ Counted'
      BY <1>1, <2>3, <3>2 DEF NotifyTypes, Counted
    <3> QED
      BY <1>2, <3>3 DEF NotifyInv
  <2> QED
    BY <2>1, <2>2, <2>3
<1> QED
  BY <1>3, <1>4

\* Beginning to tell a change, and a call.
LEMMA TellPreserves ==
  ASSUME NotifyInv, NEW n \in Notifiers, Observed!Notify(n) \/ Observed!CallObserver(n)
  PROVE  NotifyInv'
<1>1. NotifyTypes /\ Counted /\ CallsAddUp /\ UNCHANGED <<observers, count>>
  BY DEF NotifyInv, Observed!Notify, Observed!CallObserver
<1>2. Counted'
  BY <1>1 DEF Counted
<1>3. CASE Observed!Notify(n)
  <2>1. /\ left' = [left EXCEPT ![n] = observers] /\ due' = [due EXCEPT ![n] = count]
        /\ told' = [told EXCEPT ![n] = [o \in Observers |-> 0]]
    BY <1>3 DEF Observed!Notify, Observed!Zero
  <2>2. NotifyTypes'
    BY <1>1, <2>1 DEF NotifyTypes
  <2>3. CallsAddUp'
    <3> SUFFICES ASSUME NEW u \in Notifiers, NEW o \in Observers
                 PROVE  IF Listens(u, o) THEN told'[u][o] + Cardinality(Places(left'[u], o)) = due'[u][o]
                        ELSE told'[u][o] = 0
      BY DEF CallsAddUp
    <3>1. CASE u = n
      <4>1. left'[n] = observers /\ due'[n][o] = count[o] /\ told'[n][o] = 0
        BY <1>1, <2>1 DEF NotifyTypes
      <4> QED
        BY <1>1, <3>1, <4>1 DEF Counted, NotifyTypes
    <3>2. CASE u # n
      BY <1>1, <2>1, <3>2 DEF CallsAddUp, NotifyTypes
    <3> QED
      BY <3>1, <3>2
  <2> QED
    BY <1>2, <2>2, <2>3 DEF NotifyInv
<1>4. CASE Observed!CallObserver(n)
  <2> DEFINE x == Head(left[n])
             more == IF Listens(n, x) THEN 1 ELSE 0
  <2>1. /\ left[n] # <<>> /\ left' = [left EXCEPT ![n] = Tail(left[n])]
        /\ told' = [told EXCEPT ![n] = [told[n] EXCEPT ![x] = told[n][x] + more]] /\ due' = due
    BY <1>4 DEF Observed!CallObserver, Observed!Remaining, Listens
  <2>2. left[n] \in Seq(Observers) /\ x \in Observers /\ Tail(left[n]) \in Seq(Observers) /\ more \in Int
    BY <1>1, <2>1 DEF NotifyTypes
  <2>3. NotifyTypes'
    BY <1>1, <2>1, <2>2 DEF NotifyTypes
  <2>4. CallsAddUp'
    <3> SUFFICES ASSUME NEW u \in Notifiers, NEW o \in Observers
                 PROVE  IF Listens(u, o) THEN told'[u][o] + Cardinality(Places(left'[u], o)) = due'[u][o]
                        ELSE told'[u][o] = 0
      BY DEF CallsAddUp
    <3>1. CASE u # n
      BY <1>1, <2>1, <3>1 DEF CallsAddUp, NotifyTypes
    <3>2. CASE u = n
      <4>1. left'[n] = Tail(left[n]) /\ due'[n][o] = due[n][o]
        BY <1>1, <2>1 DEF NotifyTypes
      <4>2. told'[n][o] = told[n][o] + (IF o = x THEN more ELSE 0)
        <5>1. told'[n] = [told[n] EXCEPT ![x] = told[n][x] + more] /\ told[n] \in [Observers -> Int]
          BY <1>1, <2>1 DEF NotifyTypes
        <5> HIDE DEF more, x
        <5> QED
          BY <2>2, <5>1
      <4>3. Cardinality(Places(left[n], o)) =
              Cardinality(Places(Tail(left[n]), o)) + (IF x = o THEN 1 ELSE 0)
        BY <2>1, <2>2, PlacesTail
      <4>4. Cardinality(Places(Tail(left[n]), o)) \in Nat /\ told[n][o] \in Int /\ due[n][o] \in Int
        BY <1>1, <2>2, PlacesFinite DEF NotifyTypes
      <4>5. more = IF Listens(n, x) THEN 1 ELSE 0
        OBVIOUS
      <4> HIDE DEF more, x
      <4>6. CASE o = x
        BY <1>1, <3>2, <4>1, <4>2, <4>3, <4>4, <4>5, <4>6 DEF CallsAddUp
      <4>7. CASE o # x
        BY <1>1, <3>2, <4>1, <4>2, <4>3, <4>4, <4>7 DEF CallsAddUp
      <4> QED
        BY <4>6, <4>7
    <3> QED
      BY <3>1, <3>2
  <2> QED
    BY <1>2, <2>3, <2>4 DEF NotifyInv
<1> QED
  BY <1>3, <1>4

\* Whoever is registered or unregistered while a change is told, and however often, each
\* observer is told once for every registration it had when it began.
THEOREM EachToldOnce == Observed!Spec => []Observed!EachIsToldOnce
<1>1. Observed!Init => NotifyInv
  BY NotifyInit
<1>2. NotifyInv /\ [Observed!Next]_(Observed!vars) => NotifyInv'
  <2>1. ASSUME NotifyInv, UNCHANGED Observed!vars PROVE NotifyInv'
    BY <2>1 DEF Observed!vars, NotifyInv, NotifyTypes, Counted, CallsAddUp
  <2> QED
    BY <2>1, RegisterPreserves, TellPreserves DEF Observed!Next
<1>3. NotifyInv => Observed!EachIsToldOnce
  <2> SUFFICES ASSUME NotifyInv, NEW n \in Notifiers, left[n] = <<>>, NEW o \in Observers
               PROVE  told[n][o] = IF Listens(n, o) THEN due[n][o] ELSE 0
    BY DEF Observed!EachIsToldOnce, Listens
  <2>1. Places(left[n], o) = {}
    BY DEF Places
  <2>2. Cardinality(Places(left[n], o)) = 0
    BY <2>1, FS_EmptySet
  <2>3. told[n][o] \in Int
    BY DEF NotifyInv, NotifyTypes
  <2> QED
    BY <2>2, <2>3 DEF NotifyInv, CallsAddUp
<1> QED
  BY <1>1, <1>2, <1>3, PTL DEF Observed!Spec

-----------------------------------------------------------------------------
(***************************************************************************)
(* MaxProcs and MemoryLimits, whose argument is what a process has read at  *)
(* each of its steps. For the processors: GOMAXPROCS is as the file says,   *)
(* unless the file has an event waiting, or was written between its reading *)
(* and the watch. For the memory: used and available make the total at each *)
(* step of Get.                                                             *)
(***************************************************************************)
CONSTANTS Contents, Empty, Wrong, Requests, Multipliers, Bounds, Initial, MaxWrites,
          Files, Total, Free, Percents, MaxChanges
VARIABLES multiplier, limits, watch, events, watching, watcher, GOMAXPROCS, writes, missed,
          files, percent, poller, stat, lastMemoryLimit, ch, applier, GOMEMLIMIT, done, changes

Cpus == INSTANCE MaxProcs

\* GOMAXPROCS is what the file asks for, if it asks for something.
AsTheFile == Cpus!CpuRequests(file) > 0 => GOMAXPROCS = Cpus!Procs(Cpus!CpuRequests(file))

\* There is a watch only after the first reading, and what it has not told of has an event.
ProcsInv == /\ events \in Nat /\ file \in Contents \cup {Empty}
            /\ missed \in BOOLEAN /\ watching \in BOOLEAN
            /\ watching => watcher = "watch"
            /\ watcher \in {"start", "none"} => ~missed
            /\ watcher = "add" /\ ~missed => AsTheFile
            /\ watching /\ events = 0 /\ ~missed => AsTheFile

\* Set does what the file asks for.
LEMMA SetsAsTheFile ==
  ASSUME Contents \subseteq Int \cup {Empty, Wrong}, file \in Contents \cup {Empty}, Cpus!Set(file),
         UNCHANGED <<multiplier, limits, file>>
  PROVE  AsTheFile'
<1>1. Cpus!CpuRequests(file) \in Int
  BY DEF Cpus!CpuRequests, Cpus!None
<1>2. Cpus!CpuRequests(file) > 0 => GOMAXPROCS' = Cpus!Procs(Cpus!CpuRequests(file))
  BY <1>1 DEF Cpus!Set
<1> QED
  BY <1>2 DEF AsTheFile, Cpus!CpuRequests, Cpus!Procs, Cpus!Clamped, Cpus!roundQuotaCeil

\* Once every event is handled GOMAXPROCS is what the file asks for, whatever is asked for
\* in whatever bounds, if the file was not changed between the first reading and the watch.
THEOREM ProcessorsFollow ==
  ASSUME Contents \subseteq Int \cup {Empty, Wrong}
  PROVE  Cpus!Spec => []Cpus!ProcsFollow
<1>0. ASSUME NEW c \in Contents \cup {Empty} PROVE Cpus!CpuRequests(c) \in Int
  BY <1>0 DEF Cpus!CpuRequests, Cpus!None
<1>1. ASSUME Cpus!Init PROVE ProcsInv
  <2>1. /\ events = 0 /\ file \in Contents /\ missed = FALSE /\ watching = FALSE
        /\ watcher = "start"
    BY <1>1 DEF Cpus!Init
  <2> QED
    BY <2>1 DEF ProcsInv
<1>2. ASSUME ProcsInv, [Cpus!Next]_(Cpus!vars) PROVE ProcsInv'
  <2>1. CASE Cpus!SetWithConfig
    <3>1. /\ watcher = "start" /\ ~watching /\ ~missed
          /\ UNCHANGED <<multiplier, limits, file, events, watching, missed>>
      BY <1>2, <2>1 DEF Cpus!SetWithConfig, Cpus!conf, ProcsInv
    <3>2. watcher' = "add" => file # Empty /\ Cpus!Set(file)
      BY <2>1 DEF Cpus!SetWithConfig
    <3>3. watcher' \in {"add", "none"}
      BY <2>1 DEF Cpus!SetWithConfig
    <3>4. ASSUME watcher' = "add" PROVE AsTheFile'
      BY <1>2, <3>1, <3>2, <3>4, SetsAsTheFile DEF ProcsInv
    <3> QED
      BY <1>2, <3>1, <3>3, <3>4 DEF ProcsInv
  <2>2. CASE Cpus!Add
    BY <1>2, <2>2 DEF Cpus!Add, Cpus!conf, ProcsInv, AsTheFile, Cpus!CpuRequests, Cpus!Procs,
                      Cpus!Clamped, Cpus!roundQuotaCeil
  <2>3. CASE Cpus!HandleEvent
    <3>1. /\ watcher = "watch" /\ events' = events - 1 /\ events > 0 /\ missed' = FALSE
          /\ UNCHANGED <<multiplier, limits, file, watching, watcher>>
          /\ IF file = Empty THEN UNCHANGED GOMAXPROCS ELSE Cpus!Set(file)
      BY <2>3 DEF Cpus!HandleEvent, Cpus!conf
    <3>1a. /\ events' \in Nat /\ file' \in Contents \cup {Empty} /\ missed' \in BOOLEAN /\ watching' \in BOOLEAN
           /\ watcher' = "watch"
      <4>1. events' \in Nat /\ file' \in Contents \cup {Empty}
        BY <1>2, <3>1 DEF ProcsInv
      <4>2. missed' \in BOOLEAN
        BY <3>1
      <4>3. watching' \in BOOLEAN /\ watcher' = "watch"
        BY <1>2, <3>1 DEF ProcsInv
      <4> QED
        BY <4>1, <4>2, <4>3
    <3>2. CASE file = Empty
      <4>1. ~(Cpus!CpuRequests(file') > 0)
        BY <3>1, <3>2 DEF Cpus!CpuRequests, Cpus!None
      <4> QED
        BY <3>1a, <4>1 DEF ProcsInv, AsTheFile
    <3>3. CASE file # Empty
      <4>1. AsTheFile'
        BY <1>2, <3>1, <3>3, SetsAsTheFile DEF ProcsInv
      <4> QED
        BY <3>1a, <4>1 DEF ProcsInv
    <3> QED
      BY <3>2, <3>3
  <2>4. CASE Cpus!StopSignal
    BY <1>2, <2>4 DEF Cpus!StopSignal, ProcsInv
  <2>5. ASSUME NEW c \in Contents \cup {Empty}, Cpus!Written(c, watching), watching' = watching PROVE ProcsInv'
    <3>1. /\ file' = c /\ watcher' = watcher /\ (watching => events' = events + 1)
          /\ (~watching => events' = events)
          /\ missed' \in BOOLEAN /\ (watcher = "add" => missed') /\ (watcher # "add" => missed' = missed)
      BY <1>2, <2>5 DEF Cpus!Written, ProcsInv
    <3> QED
      BY <1>2, <2>5, <3>1 DEF ProcsInv
  <2>6. CASE Cpus!Replace
    <3>1. /\ file' \in Contents /\ watcher' = watcher /\ events' = events /\ watching' = FALSE
          /\ missed' \in BOOLEAN /\ (watcher = "add" => missed') /\ (watcher # "add" => missed' = missed)
      BY <1>2, <2>6 DEF Cpus!Replace, Cpus!Written, ProcsInv
    <3> QED
      BY <1>2, <3>1 DEF ProcsInv
  <2>7. CASE Cpus!Truncate
    BY <2>5, <2>7 DEF Cpus!Truncate
  <2>8. CASE UNCHANGED Cpus!vars
    BY <1>2, <2>8 DEF Cpus!vars, Cpus!conf, ProcsInv, AsTheFile, Cpus!CpuRequests, Cpus!Procs,
                      Cpus!Clamped, Cpus!roundQuotaCeil
  <2> QED
    BY <1>2, <2>1, <2>2, <2>3, <2>4, <2>5, <2>6, <2>7, <2>8 DEF Cpus!Next, Cpus!Fill
<1>3. ProcsInv => Cpus!ProcsFollow
  <2>1. Cpus!CpuRequests(file) > 0 => Cpus!CpuRequests(file) = file
    BY DEF Cpus!CpuRequests, Cpus!None
  <2> QED
    BY <2>1 DEF ProcsInv, AsTheFile, Cpus!ProcsFollow
<1> QED
  BY <1>1, <1>2, <1>3, PTL DEF Cpus!Spec

-----------------------------------------------------------------------------
(* The memory statistics. *)

Memory == INSTANCE MemoryLimits

\* Sizes are not negative, but for limits, where that means none.
MemoryConstants ==
  /\ \A f \in Files : /\ f.limit \in Int /\ f.hierarchical \in Int
                      /\ f.usage \in Nat /\ f.inactive \in Nat /\ f.rss \in Nat
  /\ Total \in Nat \ {0} /\ Free \in 0..Total

Stats == [total : Nat, used : Nat, rss : Nat, available : Nat]

\* While the files are read the total is that of a limit, the rest is in range when all is read.
MemoryInv == /\ files \in Files /\ stat \in Stats
             /\ poller \in {"usage", "inactive", "total_rss", "rss"} => stat.total \in 1..Total
             /\ Memory!StatFits

\* The greatest and the least of two sizes.
LEMMA OfTwo ==
  ASSUME NEW a \in Nat, NEW b \in Nat
  PROVE  /\ Memory!Max({a, b}) = IF a >= b THEN a ELSE b
         /\ Memory!Min({a, b}) = IF a <= b THEN a ELSE b
<1>1. \A x \in {a, b} : (\A y \in {a, b} : x >= y) <=> x = IF a >= b THEN a ELSE b
  OBVIOUS
<1>2. \A x \in {a, b} : (\A y \in {a, b} : x <= y) <=> x = IF a <= b THEN a ELSE b
  OBVIOUS
<1>3. (IF a >= b THEN a ELSE b) \in {a, b} /\ (IF a <= b THEN a ELSE b) \in {a, b}
  OBVIOUS
<1> QED
  BY <1>1, <1>2, <1>3 DEF Memory!Max, Memory!Min

\* The limit is one of the host if the cgroup has none.
LEMMA LimitInRange == ASSUME MemoryConstants, files \in Files PROVE Memory!GetMemoryLimit \in 1..Total
BY DEF MemoryConstants, Memory!GetMemoryLimit, Memory!Bounded

\* One file more is read.
LEMMA ReadPreserves ==
  ASSUME MemoryConstants, MemoryInv,
         \/ Memory!ReadLimit \/ Memory!ReadUsage \/ Memory!ReadInactive
         \/ Memory!ReadTotalRss \/ Memory!ReadRss
  PROVE  MemoryInv'
<1>1. /\ files \in Files /\ stat \in Stats /\ files' = files
      /\ files.usage \in Nat /\ files.inactive \in Nat /\ files.rss \in Nat
  BY DEF MemoryConstants, MemoryInv, Memory!ReadLimit, Memory!ReadUsage, Memory!ReadInactive,
         Memory!ReadTotalRss, Memory!ReadRss, Memory!Reading, Memory!environment
<1>2. CASE Memory!ReadLimit
  <2>1. Memory!GetMemoryLimit \in 1..Total
    BY <1>1, LimitInRange
  <2> DEFINE limit == Memory!GetMemoryLimit
  <2>2. CASE limit < Total
    <3>1. poller' = "usage" /\ stat' = [total |-> limit, used |-> 0, rss |-> 0, available |-> 0]
      BY <1>2, <2>2 DEF Memory!ReadLimit, Memory!Poll, Memory!NoStat
    <3> QED
      BY <1>1, <2>1, <3>1 DEF MemoryInv, Stats, Memory!StatFits
  <2>3. CASE ~(limit < Total)
    <3>1. /\ poller' = "compare"
          /\ stat' = [total |-> Total, available |-> Free, used |-> Total - Free, rss |-> Total - Free]
      BY <1>2, <2>3 DEF Memory!ReadLimit, Memory!Poll
    <3> QED
      BY <1>1, <3>1 DEF MemoryConstants, MemoryInv, Stats, Memory!StatFits
  <2> QED
    BY <2>2, <2>3
<1>3. ASSUME NEW u \in Nat, stat' = [stat EXCEPT !.used = u],
             poller \in {"usage", "inactive", "total_rss"}, poller' \in {"inactive", "total_rss", "rss"}
      PROVE  MemoryInv'
  <2>1. stat' \in Stats /\ stat'.total = stat.total
    BY <1>1, <1>3 DEF Stats
  <2> QED
    BY <1>1, <1>3, <2>1 DEF MemoryInv, Memory!StatFits
<1>4. CASE Memory!ReadUsage
  BY <1>1, <1>3, <1>4 DEF Memory!ReadUsage, Memory!Poll
<1>5. CASE Memory!ReadInactive
  <2>1. Memory!WSS(stat.used, files.inactive) \in Nat
    BY <1>1 DEF Memory!WSS, Stats
  <2> QED
    BY <1>3, <1>5, <2>1 DEF Memory!ReadInactive, Memory!Poll
<1>6. CASE Memory!ReadTotalRss
  <2>1. Memory!Max({stat.used, files.rss}) \in Nat
    BY <1>1, OfTwo DEF Stats
  <2> QED
    BY <1>3, <1>6, <2>1 DEF Memory!ReadTotalRss, Memory!Poll
<1>7. CASE Memory!ReadRss
  <2> DEFINE used == Memory!Min({stat.used, stat.total})
             rss == IF files.rss = 0 \/ files.rss > used THEN used ELSE files.rss
  <2>1. /\ stat.total \in 1..Total /\ stat.total \in Nat /\ stat.used \in Nat /\ Total \in Nat
    BY <1>1, <1>7 DEF MemoryConstants, MemoryInv, Stats, Memory!ReadRss, Memory!Poll
  <2>2. used \in 0..stat.total /\ used \in Nat
    <3>1. used = IF stat.used <= stat.total THEN stat.used ELSE stat.total
      BY <2>1, OfTwo
    <3> HIDE DEF used
    <3> QED
      BY <2>1, <3>1
  <2>3. poller' = "compare"
    BY <1>7 DEF Memory!ReadRss, Memory!Poll
  <2>4. stat' = [stat EXCEPT !.used = used, !.available = stat.total - used, !.rss = rss]
    BY <1>7 DEF Memory!ReadRss, Memory!Poll, Memory!Completed
  <2> DEFINE room == stat.total - used
  <2>5. rss \in 0..used
    BY <1>1, <2>1, <2>2
  <2>5a. rss \in Nat /\ room \in Nat /\ stat' = [stat EXCEPT !.used = used, !.available = room, !.rss = rss]
    BY <2>1, <2>2, <2>4, <2>5
  <2>5b. room = stat.total - used
    OBVIOUS
  <2> HIDE DEF used, rss, room
  <2>6. /\ stat' \in Stats /\ stat'.used = used /\ stat'.rss = rss
        /\ stat'.total = stat.total /\ stat'.available = stat.total - used
    BY <1>1, <2>2, <2>5a, <2>5b DEF Stats
  <2> QED
    BY <1>1, <2>1, <2>2, <2>3, <2>5, <2>6 DEF MemoryInv, Memory!StatFits
<1> QED
  BY <1>2, <1>4, <1>5, <1>6, <1>7

\* However the files change while they are read one by one: the statistics fit together,
\* and no difference or percentage computed of them is negative.
THEOREM StatisticsFit == ASSUME MemoryConstants PROVE Memory!Spec => []Memory!StatFits
<1>1. Memory!Init => MemoryInv
  BY DEF Memory!Init, Memory!NoStat, MemoryInv, Stats, Memory!StatFits
<1>2. ASSUME MemoryInv, [Memory!Next]_(Memory!vars) PROVE MemoryInv'
  <2>1. CASE \/ Memory!ReadLimit \/ Memory!ReadUsage \/ Memory!ReadInactive
             \/ Memory!ReadTotalRss \/ Memory!ReadRss
    BY <1>2, <2>1, ReadPreserves
  <2>2. CASE Memory!Compare \/ Memory!Send \/ Memory!Wait
    <3>1. /\ files' = files /\ stat' \in {stat, Memory!NoStat}
          /\ poller' \in {"send", "wait", "closed", "limit"}
      BY <2>2 DEF Memory!Compare, Memory!Send, Memory!Wait, Memory!Poll, Memory!Reading, Memory!environment
    <3>2. stat' \in Stats
      BY <1>2, <3>1 DEF MemoryInv, Stats, Memory!NoStat
    <3> QED
      BY <1>2, <3>1, <3>2 DEF MemoryInv, Memory!StatFits
  <2>3. CASE Memory!Receive \/ Memory!Change \/ Memory!CtxEnds \/ UNCHANGED Memory!vars
    <3>1. files' \in Files /\ UNCHANGED <<stat, poller>>
      BY <1>2, <2>3 DEF Memory!Receive, Memory!Change, Memory!CtxEnds, Memory!vars,
                        Memory!environment, MemoryInv
    <3> QED
      BY <1>2, <3>1 DEF MemoryInv, Memory!StatFits
  <2> QED
    BY <1>2, <2>1, <2>2, <2>3 DEF Memory!Next, Memory!Goroutine
<1>3. MemoryInv => Memory!StatFits
  BY DEF MemoryInv
<1> QED
  BY <1>1, <1>2, <1>3, PTL DEF Memory!Spec

-----------------------------------------------------------------------------
(***************************************************************************)
(* ConfigValues. What the getter of a type stores and what the detection of *)
(* changes works out are the same value, and between two changes nothing    *)
(* that they are made of changes; so a value can only differ where a change *)
(* is still to be processed. The settings that were taken last are those of *)
(* the overrides, the file and the bound variables of that time; a key that *)
(* is looked up in one spelling only keeps the variable it is bound to.     *)
(***************************************************************************)
CONSTANTS Spellings, Id, EnvOf, Env, Texts, Number, Period, Boolean, None, Vars
VARIABLES override, hot, fixed, names, current, advanced, changed, bound, holders, spelled,
          taken, wasHot, wasFixed, wasTaken, wasNames

Variables == INSTANCE ConfigValues WITH Keys <- Spellings

Numeric == {"int", "int64", "float64"}

\* The types there are getters for.
ValueConstants == \A v \in Vars :
  v.type \in Numeric \cup {"bool", "string", "[]string", "map[string]any", "time.Duration"}

\* A variable is bound to a spelling it was looked up under, and with one spelling to it
\* for good; the name that is kept of a key is a spelling of it.
Bindings == \A i \in Variables!Ids :
  /\ {bound[i], taken.bound[i], wasTaken.bound[i]} \subseteq spelled[i] \cup {None}
  /\ \A k : k # None /\ spelled[i] = {k} /\ taken.bound[i] = k => bound[i] = k
  /\ \A k \in spelled[i] : Id[k] = i
  /\ names[i] # None => Id[names[i]] = i

\* Whoever holds a pointer holds that of a registered variable of its type, keys and default.
Shared == /\ holders \subseteq Vars
          /\ \A v \in holders : \E w \in DOMAIN hot : Variables!SameEntry(v, w)

Recorded == /\ \A v \in DOMAIN hot : hot[v] = Variables!Stored(v)
            /\ \A v \in DOMAIN fixed : fixed[v] = Variables!Stored(v)

\* With simple detection no value of a variable read without reloading is kept.
ValuesInv == /\ DOMAIN hot \subseteq Vars /\ DOMAIN fixed \subseteq Vars
             /\ DOMAIN wasHot \subseteq Vars /\ DOMAIN wasFixed \subseteq Vars
             /\ ~advanced => DOMAIN fixed = {}
             /\ ~advanced => current = Variables!Settings(taken.override, taken.file, taken.bound)
             /\ Bindings /\ Shared
             /\ ~changed => Recorded /\ Variables!ChangesTold /\ Variables!KeysTold

\* The change detection works out the value that the getter of the type does.
LEMMA CheckedIsStored ==
  ASSUME ValueConstants, NEW v \in Vars
  PROVE  Variables!Checked(v) = Variables!Stored(v)
<1>1. CASE v.type \in Numeric
  BY <1>1 DEF Numeric, Variables!Checked, Variables!Stored, Variables!OfKeys, Variables!IntVar,
              Variables!Int64Var, Variables!Float64Var
<1>2. CASE v.type = "bool"
  BY <1>2 DEF Variables!Checked, Variables!Stored, Variables!OfKeys, Variables!BoolVar
<1>3. CASE v.type \in {"string", "[]string", "map[string]any"}
  BY <1>3 DEF Variables!Checked, Variables!Stored, Variables!OfKeys, Variables!StringVar,
              Variables!StringSliceVar, Variables!StringMapVar
<1>4. CASE v.type = "time.Duration"
  BY <1>4 DEF Variables!Checked, Variables!Stored
<1> QED
  BY <1>1, <1>2, <1>3, <1>4 DEF ValueConstants

\* Variables of one type, keys, default and scale have one value.
LEMMA StoredAlike ==
  ASSUME ValueConstants, NEW v \in Vars, NEW w \in Vars, Variables!SameEntry(v, w), v.scale = w.scale
  PROVE  Variables!Stored(v) = Variables!Stored(w)
<1>1. v.type = w.type /\ v.keys = w.keys /\ Variables!Default(v) = Variables!Default(w)
  BY DEF Variables!SameEntry, Variables!SamePointer
<1>2. CASE v.type \in Numeric
  <2>1. v.def * v.scale = w.def * w.scale
    BY <1>1, <1>2 DEF Numeric, Variables!Default
  <2> QED
    BY <1>1, <1>2, <2>1 DEF Numeric, Variables!Stored, Variables!OfKeys, Variables!IntVar,
                            Variables!Int64Var, Variables!Float64Var
<1>3. CASE v.type \in {"bool", "string", "[]string", "map[string]any"}
  <2>1. v.def = w.def
    BY <1>1, <1>3 DEF Variables!Default
  <2> QED
    BY <1>1, <1>3, <2>1 DEF Variables!Stored, Variables!OfKeys, Variables!StringVar, Variables!BoolVar,
                            Variables!StringSliceVar, Variables!StringMapVar
<1>4. CASE v.type = "time.Duration"
  <2>1. v.def * v.scale = w.def * w.scale
    BY <1>1, <1>4 DEF Variables!Default
  <2> QED
    BY <1>1, <1>4, <2>1 DEF Variables!Stored, Variables!OfKeys, Variables!DurationVar
<1> QED
  BY <1>2, <1>3, <1>4 DEF ValueConstants

\* What is looked up depends on the overrides, the file and the environment only.
LEMMA TextsStay ==
  ASSUME UNCHANGED <<override, file>>
  PROVE  /\ \A k : Variables!Text(k)' = Variables!Text(k)
         /\ \A v \in Vars : Variables!Stored(v)' = Variables!Stored(v)
<1>1. \A k : Variables!Text(k)' = Variables!Text(k)
  BY DEF Variables!Text, Variables!Layers
<1>2. \A keys : Variables!FirstSet(keys)' = Variables!FirstSet(keys)
  BY <1>1 DEF Variables!FirstSet, Variables!SelectInSeq, Variables!IsSet
<1> QED
  BY <1>1, <1>2 DEF Variables!Stored, Variables!IntVar, Variables!Int64Var, Variables!Float64Var,
            Variables!BoolVar, Variables!StringVar, Variables!StringSliceVar, Variables!StringMapVar,
            Variables!DurationVar, Variables!OfKeys

\* The latest spelling of a key among some is one of them, or the one before.
LEMMA LatestIsOne ==
  ASSUME NEW ks, NEW i, NEW before
  PROVE  \/ Variables!Latest(ks, i, before) = before
         \/ /\ Variables!Latest(ks, i, before) \in Variables!Range(ks)
            /\ Id[Variables!Latest(ks, i, before)] = i
<1> DEFINE last == {j \in DOMAIN ks : /\ Id[ks[j]] = i
                                      /\ \A l \in DOMAIN ks : l > j => Id[ks[l]] # i}
           c == CHOOSE j \in last : TRUE
<1>1. Variables!Latest(ks, i, before) = IF last = {} THEN before ELSE ks[c]
  BY DEF Variables!Latest
<1>2. last # {} => c \in last
  OBVIOUS
<1>3. last # {} => c \in DOMAIN ks /\ Id[ks[c]] = i
  BY <1>2
<1> HIDE DEF last, c
<1> QED
  BY <1>1, <1>3 DEF Variables!Range

\* A key is bound to the spelling it was, or to one of those just looked up.
LEMMA BindBinds ==
  ASSUME NEW ks, Variables!Bind(ks), NEW i \in Variables!Ids
  PROVE  /\ spelled[i] \subseteq spelled'[i]
         /\ bound'[i] \in {bound[i]} \cup spelled'[i]
         /\ \A k \in spelled'[i] : k \in spelled[i] \/ Id[k] = i
<1>1. /\ bound'[i] = Variables!Latest(ks, i, bound[i])
      /\ spelled'[i] = spelled[i] \cup {k \in Variables!Range(ks) : Id[k] = i}
  BY DEF Variables!Bind
<1> QED
  BY <1>1, LatestIsOne

\* Where a key was and is looked up in one spelling, the settings differ exactly if what
\* the look-up gives does, or if the key was added or removed.
LEMMA SettingsDiffer ==
  ASSUME NEW o, NEW f, NEW b, NEW p, NEW g, NEW c, NEW k, NEW i \in Variables!Ids,
         k # None, b[i] = k, c[i] = k
  PROVE  Variables!Settings(o, f, b)[i] # Variables!Settings(p, g, c)[i] <=>
           \/ Variables!Layers(o, f, k, i) # Variables!Layers(p, g, k, i)
           \/ Variables!Given(o, f, i) # Variables!Given(p, g, i)
<1>1. /\ Variables!Settings(o, f, b)[i] =
           IF Variables!Given(o, f, i) THEN Variables!Layers(o, f, k, i) ELSE Unset
      /\ Variables!Settings(p, g, c)[i] =
           IF Variables!Given(p, g, i) THEN Variables!Layers(p, g, k, i) ELSE Unset
  BY DEF Variables!Settings
<1> QED
  BY <1>1 DEF Variables!Given, Variables!Layers

\* onConfigChange leaves each variable with the value its getter gives, and tells what it was.
LEMMA ChangeRecords ==
  ASSUME ValueConstants, ValuesInv, Variables!OnConfigChange
  PROVE  /\ DOMAIN hot' \subseteq Vars /\ DOMAIN fixed' \subseteq Vars
         /\ DOMAIN wasHot' \subseteq Vars /\ DOMAIN wasFixed' \subseteq Vars
         /\ (~advanced => DOMAIN fixed = {})'
         /\ Shared' /\ Recorded' /\ Variables!ChangesTold'
<1>1. /\ hot' = [v \in DOMAIN hot |-> Variables!Checked(v)]
      /\ fixed' = IF advanced THEN [v \in DOMAIN fixed |-> Variables!Checked(v)] ELSE fixed
      /\ wasHot' = hot /\ wasFixed' = fixed
      /\ told'.hot = Variables!Told(hot)
      /\ advanced => told'.fixed = {t[1] : t \in Variables!Told(fixed)}
      /\ UNCHANGED <<override, file, advanced, holders>>
  BY DEF Variables!OnConfigChange, Variables!Swapped
<1>2. PICK old, given : old = hot /\ given = fixed
  OBVIOUS
<1>3. \A v \in Vars : Variables!Checked(v) = Variables!Stored(v)
  BY CheckedIsStored
<1>4. \A v \in Vars : Variables!Stored(v)' = Variables!Stored(v)
  BY <1>1, TextsStay
<1>5. DOMAIN hot \subseteq Vars /\ DOMAIN fixed \subseteq Vars
  BY DEF ValuesInv
<1>6. DOMAIN hot' = DOMAIN hot /\ DOMAIN fixed' = DOMAIN fixed
  BY <1>1
<1>7. (~advanced => DOMAIN fixed = {})'
  BY <1>1, <1>6 DEF ValuesInv
<1>8. \A v \in DOMAIN hot' : hot'[v] = Variables!Stored(v)
  BY <1>1, <1>3, <1>5
<1>9. \A v \in DOMAIN fixed' : fixed'[v] = Variables!Stored(v)
  BY <1>1, <1>3, <1>5, <1>7
<1>10. told'.hot = {<<v.keys, old[v], Variables!Stored(v)>> :
                      v \in {w \in DOMAIN old : old[w] # Variables!Stored(w)}}
  BY <1>1, <1>2, <1>3, <1>5 DEF Variables!Told
<1>11. {t[1] : t \in Variables!Told(fixed)} =
         {v.keys : v \in {w \in DOMAIN given : given[w] # Variables!Stored(w)}}
  <2> DEFINE W == {w \in DOMAIN fixed : fixed[w] # Variables!Checked(w)}
  <2>1. Variables!Told(fixed) = {<<v.keys, fixed[v], Variables!Checked(v)>> : v \in W}
    BY DEF Variables!Told
  <2>2. W = {w \in DOMAIN given : given[w] # Variables!Stored(w)}
    BY <1>2, <1>3, <1>5
  <2> HIDE DEF W
  <2>3. {t[1] : t \in {<<v.keys, fixed[v], Variables!Checked(v)>> : v \in W}} = {v.keys : v \in W}
    <3>1. ASSUME NEW k \in {t[1] : t \in {<<v.keys, fixed[v], Variables!Checked(v)>> : v \in W}}
          PROVE  k \in {v.keys : v \in W}
      <4>1. PICK v \in W : k = <<v.keys, fixed[v], Variables!Checked(v)>>[1]
        BY <3>1
      <4> QED
        BY <4>1
    <3>2. ASSUME NEW v \in W
          PROVE  v.keys \in {t[1] : t \in {<<u.keys, fixed[u], Variables!Checked(u)>> : u \in W}}
      <4> DEFINE t == <<v.keys, fixed[v], Variables!Checked(v)>>
      <4>1. t \in {<<u.keys, fixed[u], Variables!Checked(u)>> : u \in W} /\ t[1] = v.keys
        OBVIOUS
      <4> HIDE DEF t
      <4> QED
        BY <4>1
    <3> QED
      BY <3>1, <3>2
  <2> QED
    BY <2>1, <2>2, <2>3
<1>12. {<<v.keys, old[v], Variables!Stored(v)>> :
           v \in {w \in DOMAIN old : old[w] # Variables!Stored(w)}} =
       {<<v.keys, wasHot'[v], Variables!Stored(v)'>> :
           v \in {w \in DOMAIN wasHot' : wasHot'[w] # Variables!Stored(w)'}}
  BY <1>1, <1>2, <1>4, <1>5
<1>13. {v.keys : v \in {w \in DOMAIN given : given[w] # Variables!Stored(w)}} =
       {v.keys : v \in {w \in DOMAIN wasFixed' : wasFixed'[w] # Variables!Stored(w)'}}
  BY <1>1, <1>2, <1>4, <1>5
<1>14. Recorded'
  BY <1>4, <1>5, <1>6, <1>8, <1>9 DEF Recorded
<1>15. Variables!ChangesTold'
  BY <1>1, <1>10, <1>11, <1>12, <1>13 DEF Variables!ChangesTold
<1>16. Shared'
  BY <1>1, <1>6 DEF ValuesInv, Shared, Variables!SameEntry, Variables!SamePointer, Variables!Default
<1> QED
  BY <1>1, <1>5, <1>6, <1>7, <1>14, <1>15, <1>16

\* What is taken of the settings is told by the names of the keys where it differs.
LEMMA ChangeTells ==
  ASSUME ValuesInv, Variables!OnConfigChange
  PROVE  /\ (~advanced => current = Variables!Settings(taken.override, taken.file, taken.bound))'
         /\ Bindings' /\ Variables!KeysTold'
<1>1. /\ UNCHANGED <<override, file, names, advanced>>
      /\ taken' = [override |-> override, file |-> file, bound |-> bound']
      /\ wasTaken' = taken /\ wasNames' = names
      /\ ~advanced => /\ current' = Variables!Settings(override, file, bound')
                      /\ told'.fixed = {names[i] : i \in {j \in Variables!Ids : current[j] # current'[j]}} \ {None}
  BY DEF Variables!OnConfigChange
<1>2. taken'.override = override /\ taken'.file = file /\ taken'.bound = bound'
  BY <1>1
<1>3. (~advanced => current = Variables!Settings(taken.override, taken.file, taken.bound))'
  BY <1>1, <1>2 DEF Variables!Settings, Variables!Given, Variables!Layers, Variables!Ids
<1>4. PICK ks : Variables!Bind(ks)
  BY DEF Variables!OnConfigChange
<1>5. \A i \in Variables!Ids : spelled[i] \subseteq spelled'[i] /\ bound'[i] \in {bound[i]} \cup spelled'[i]
                               /\ \A k \in spelled'[i] : k \in spelled[i] \/ Id[k] = i
  BY <1>4, BindBinds
<1>6. Variables!Ids' = Variables!Ids
  BY DEF Variables!Ids
<1>7. Bindings'
  <2> SUFFICES ASSUME NEW i \in Variables!Ids
               PROVE  /\ {bound'[i], taken'.bound[i], wasTaken'.bound[i]} \subseteq spelled'[i] \cup {None}
                      /\ \A k : k # None /\ spelled'[i] = {k} /\ taken'.bound[i] = k => bound'[i] = k
                      /\ \A k \in spelled'[i] : Id[k] = i
                      /\ names'[i] # None => Id[names'[i]] = i
    BY <1>6 DEF Bindings
  <2>1. /\ {bound[i], taken.bound[i], wasTaken.bound[i]} \subseteq spelled[i] \cup {None}
        /\ \A k \in spelled[i] : Id[k] = i
        /\ names[i] # None => Id[names[i]] = i
    BY DEF ValuesInv, Bindings
  <2> QED
    BY <1>1, <1>2, <1>5, <2>1
<1>8. Variables!KeysTold'
  <2> SUFFICES ASSUME ~advanced
               PROVE  /\ told'.fixed \subseteq {wasNames'[i] : i \in Variables!Ids} \ {None}
                      /\ \A i \in Variables!Ids, k \in Spellings :
                           spelled'[i] = {k} /\ wasTaken'.bound[i] # None /\ wasNames'[i] # None =>
                             (wasNames'[i] \in told'.fixed <=>
                                \/ Variables!Layers(wasTaken'.override, wasTaken'.file, k, i) # Variables!Text(k)'
                                \/ Variables!Given(wasTaken'.override, wasTaken'.file, i) # Variables!Given(override, file, i))
    BY <1>1, <1>6 DEF Variables!KeysTold, Variables!Given, Variables!Layers
  <2>1. told'.fixed = {names[i] : i \in {j \in Variables!Ids : current[j] # current'[j]}} \ {None}
    BY <1>1
  <2>2. ASSUME NEW i \in Variables!Ids, NEW k \in Spellings,
               spelled'[i] = {k}, taken.bound[i] # None, names[i] # None
        PROVE  names[i] \in told'.fixed <=>
                 \/ Variables!Layers(taken.override, taken.file, k, i) # Variables!Text(k)'
                 \/ Variables!Given(taken.override, taken.file, i) # Variables!Given(override, file, i)
    <3>1. taken.bound[i] = k /\ spelled[i] = {k} /\ k # None
      BY <1>5, <2>2 DEF ValuesInv, Bindings
    <3>2. bound[i] = k
      BY <3>1 DEF ValuesInv, Bindings
    <3>3. bound'[i] = k
      BY <1>5, <2>2, <3>2
    <3>4. /\ current = Variables!Settings(taken.override, taken.file, taken.bound)
          /\ current' = Variables!Settings(override, file, bound')
      BY <1>1 DEF ValuesInv
    <3>5. current[i] # current'[i] <=>
             \/ Variables!Layers(taken.override, taken.file, k, i) # Variables!Layers(override, file, k, i)
             \/ Variables!Given(taken.override, taken.file, i) # Variables!Given(override, file, i)
      BY <3>1, <3>3, <3>4, SettingsDiffer
    <3>6. names[i] \in told'.fixed <=> current[i] # current'[i]
      <4>1. \A j \in Variables!Ids : names[j] = names[i] => j = i
        BY <2>2 DEF ValuesInv, Bindings
      <4> QED
        BY <2>1, <2>2, <4>1
    <3>7. Variables!Text(k)' = Variables!Layers(override, file, k, i)
      <4>1. Id[k] = i
        BY <1>6, <1>7, <2>2 DEF Bindings
      <4> QED
        BY <1>1, <4>1 DEF Variables!Text, Variables!Layers
    <3> QED
      BY <3>5, <3>6, <3>7
  <2>3. told'.fixed \subseteq {names[i] : i \in Variables!Ids} \ {None}
    BY <2>1
  <2> QED
    BY <1>1, <2>2, <2>3
<1> QED
  BY <1>3, <1>7, <1>8

\* A variable is registered with the value its getter gives, and who asks for one that is
\* there already gets the same, but for another scale; the other calls change no value.
LEMMA CallsPreserve ==
  ASSUME ValueConstants, ValuesInv, NEW v,
         UNCHANGED <<override, file, told, taken, current, wasHot, wasFixed, wasTaken, wasNames,
                     advanced, changed>>,
         hot' = hot \/ (v \in Vars /\ hot' = Variables!Added(hot, v)),
         fixed' = fixed \/ (v \in Vars /\ advanced /\ fixed' = Variables!Added(fixed, v)),
         holders' = holders \/ (v \in Vars /\ holders' = holders \cup {v}),
         v \in holders' \ holders => \E w \in DOMAIN hot' : Variables!SameEntry(v, w),
         UNCHANGED <<bound, spelled>> \/ \E ks : Variables!Bind(ks),
         \A i \in Variables!Ids : names'[i] = names[i] \/ Id[names'[i]] = i
  PROVE  ValuesInv'
<1>1. /\ \A k : Variables!Text(k)' = Variables!Text(k)
      /\ \A w \in Vars : Variables!Stored(w)' = Variables!Stored(w)
  BY TextsStay
<1>2. \A i \in Variables!Ids : spelled[i] \subseteq spelled'[i] /\ bound'[i] \in {bound[i]} \cup spelled'[i]
                               /\ \A k \in spelled'[i] : k \in spelled[i] \/ Id[k] = i
  BY BindBinds
<1>3. Variables!Ids' = Variables!Ids
  BY DEF Variables!Ids
<1>4. Bindings'
  <2> SUFFICES ASSUME NEW i \in Variables!Ids
               PROVE  /\ {bound'[i], taken'.bound[i], wasTaken'.bound[i]} \subseteq spelled'[i] \cup {None}
                      /\ \A k : k # None /\ spelled'[i] = {k} /\ taken'.bound[i] = k => bound'[i] = k
                      /\ \A k \in spelled'[i] : Id[k] = i
                      /\ names'[i] # None => Id[names'[i]] = i
    BY <1>3 DEF Bindings
  <2>1. /\ {bound[i], taken.bound[i], wasTaken.bound[i]} \subseteq spelled[i] \cup {None}
        /\ \A k : k # None /\ spelled[i] = {k} /\ taken.bound[i] = k => bound[i] = k
        /\ \A k \in spelled[i] : Id[k] = i
        /\ names[i] # None => Id[names[i]] = i
    BY DEF ValuesInv, Bindings
  <2> QED
    BY <1>2, <2>1
<1>5. /\ DOMAIN hot \subseteq DOMAIN hot' /\ DOMAIN hot' \subseteq Vars
      /\ DOMAIN fixed' \subseteq Vars /\ DOMAIN wasHot' \subseteq Vars /\ DOMAIN wasFixed' \subseteq Vars
      /\ (~advanced => DOMAIN fixed = {})'
  BY DEF ValuesInv, Variables!Added
<1>6. Shared'
  BY <1>5 DEF ValuesInv, Shared, Variables!SameEntry, Variables!SamePointer, Variables!Default
<1>7. ASSUME ~changed PROVE Recorded'
  <2>1. \A w \in DOMAIN hot' : hot'[w] = Variables!Stored(w)
    BY <1>7 DEF ValuesInv, Recorded, Variables!Added
  <2>2. \A w \in DOMAIN fixed' : fixed'[w] = Variables!Stored(w)
    BY <1>7 DEF ValuesInv, Recorded, Variables!Added
  <2> QED
    BY <1>1, <1>5, <2>1, <2>2 DEF Recorded
<1>8. ASSUME ~changed PROVE Variables!ChangesTold'
  <2>1. Variables!ChangesTold
    BY <1>8 DEF ValuesInv
  <2>2. DOMAIN wasHot \subseteq Vars /\ DOMAIN wasFixed \subseteq Vars
    BY DEF ValuesInv
  <2>3. {<<w.keys, wasHot[w], Variables!Stored(w)>> :
           w \in {u \in DOMAIN wasHot : wasHot[u] # Variables!Stored(u)}} =
        {<<w.keys, wasHot'[w], Variables!Stored(w)'>> :
           w \in {u \in DOMAIN wasHot' : wasHot'[u] # Variables!Stored(u)'}}
    BY <1>1, <2>2
  <2>4. {w.keys : w \in {u \in DOMAIN wasFixed : wasFixed[u] # Variables!Stored(u)}} =
        {w.keys : w \in {u \in DOMAIN wasFixed' : wasFixed'[u] # Variables!Stored(u)'}}
    BY <1>1, <2>2
  <2> QED
    BY <2>1, <2>3, <2>4 DEF Variables!ChangesTold
<1>9. ASSUME ~changed PROVE Variables!KeysTold'
  <2> SUFFICES ASSUME ~advanced
               PROVE  /\ told.fixed \subseteq {wasNames[i] : i \in Variables!Ids} \ {None}
                      /\ \A i \in Variables!Ids, k \in Spellings :
                           spelled'[i] = {k} /\ wasTaken.bound[i] # None /\ wasNames[i] # None =>
                             (wasNames[i] \in told.fixed <=>
                                \/ Variables!Layers(wasTaken.override, wasTaken.file, k, i) # Variables!Text(k)
                                \/ Variables!Given(wasTaken.override, wasTaken.file, i) # Variables!Given(override, file, i))
    BY <1>1, <1>3 DEF Variables!KeysTold, Variables!Given, Variables!Layers
  <2>1. Variables!KeysTold
    BY <1>9 DEF ValuesInv
  <2>2. \A i \in Variables!Ids, k \in Spellings :
          spelled'[i] = {k} /\ wasTaken.bound[i] # None => spelled[i] = {k}
    BY <1>2 DEF ValuesInv, Bindings
  <2> QED
    BY <2>1, <2>2 DEF Variables!KeysTold
<1>10. (~advanced => current = Variables!Settings(taken.override, taken.file, taken.bound))'
  BY DEF ValuesInv, Variables!Settings, Variables!Given, Variables!Layers, Variables!Ids
<1> QED
  BY <1>4, <1>5, <1>6, <1>7, <1>8, <1>9, <1>10 DEF ValuesInv

LEMMA OthersPreserve ==
  ASSUME ValueConstants, ValuesInv,
         \/ Variables!Change
         \/ \E v \in Vars : Variables!GetReloadable(v) \/ Variables!Get(v)
         \/ UNCHANGED Variables!vars
  PROVE  ValuesInv'
<1>1. ASSUME changed', UNCHANGED <<hot, fixed, names, current, advanced, bound, holders, spelled,
                                   taken, wasTaken, wasHot, wasFixed>>
      PROVE  ValuesInv'
  BY <1>1 DEF ValuesInv, Bindings, Shared, Variables!SameEntry, Variables!SamePointer,
              Variables!Default, Variables!Settings, Variables!Given, Variables!Layers, Variables!Ids
<1>2. CASE Variables!Change
  BY <1>1, <1>2 DEF Variables!Change, Variables!maps, Variables!was
<1>3. ASSUME NEW v \in Vars, Variables!GetReloadable(v) PROVE ValuesInv'
  <2>1. v \in holders' \ holders => \E w \in DOMAIN hot' : Variables!SameEntry(v, w)
    BY <1>3 DEF Variables!GetReloadable, Variables!Added, Variables!SameEntry, Variables!SamePointer
  <2> QED
    BY <1>3, <2>1, CallsPreserve DEF Variables!GetReloadable, Variables!was
<1>4. ASSUME NEW v \in Vars, Variables!Get(v) PROVE ValuesInv'
  <2>1. \A i \in Variables!Ids : names'[i] = names[i] \/ Id[names'[i]] = i
    BY <1>4, LatestIsOne DEF Variables!Get
  <2> QED
    BY <1>4, <2>1, CallsPreserve DEF Variables!Get, Variables!was
<1>5. CASE UNCHANGED Variables!vars
  BY <1>5, CallsPreserve DEF Variables!vars, Variables!maps, Variables!was
<1> QED
  BY <1>2, <1>3, <1>4, <1>5

\* Whatever the variables, their types and keys, and wherever they are set: who holds a
\* pointer finds the value the getter would give now, but for another scale, observers are
\* told of the values that changed and no others, and of the names of the keys read without
\* reloading where what their look-up gives, or its presence, changed.
THEOREM VariablesFollow == ASSUME ValueConstants PROVE Variables!Spec => []Variables!ValuesFollow
<1>1. Variables!Init => ValuesInv
  BY DEF Variables!Init, ValuesInv, Bindings, Shared, Recorded, Variables!ChangesTold, Variables!KeysTold,
         Variables!Settings, Variables!Given, Variables!AllNone
<1>2. ASSUME ValuesInv, [Variables!Next]_(Variables!vars) PROVE ValuesInv'
  <2>1. CASE Variables!OnConfigChange
    BY <1>2, <2>1, ChangeRecords, ChangeTells DEF ValuesInv
  <2> QED
    BY <1>2, <2>1, OthersPreserve DEF Variables!Next
<1>3. ValuesInv => Variables!ValuesFollow
  <2> SUFFICES ASSUME ValuesInv, ~changed, NEW v \in holders
               PROVE  \E w \in DOMAIN hot : /\ Variables!SamePointer(v, w)
                                            /\ Variables!Default(v) = Variables!Default(w)
                                            /\ v.scale = w.scale => hot[w] = Variables!Stored(v)
    BY DEF ValuesInv, Recorded, Variables!ValuesFollow, Variables!HoldersFollow
  <2>1. PICK w \in DOMAIN hot : Variables!SameEntry(v, w)
    BY DEF ValuesInv, Shared
  <2>2. v \in Vars /\ w \in Vars /\ hot[w] = Variables!Stored(w)
    BY DEF ValuesInv, Shared, Recorded
  <2> QED
    BY <2>1, <2>2, StoredAlike DEF Variables!SameEntry
<1> QED
  BY <1>1, <1>2, <1>3, PTL DEF Variables!Spec

-----------------------------------------------------------------------------
(***************************************************************************)
(* LoggerLevels. A caller is always at a logger that has the level of the   *)
(* one it called, and so has every logger whose level it is about to cache. *)
(* That a logger has the level of its parent, or its own, is what the       *)
(* recursion up the tree says, once it is known to define a function: that  *)
(* is proved here by the least depth at which it would not.                 *)
(***************************************************************************)
CONSTANTS Callers, Names, Root, Parent, Levels, Pairs, MaxSets
VARIABLES rootLevel, levelConfig, cache, at, path, level, logger, setter, sets, clean

Levelled == INSTANCE LoggerLevels

\* A set of naturals that is not empty has a least element: of the initial parts of the
\* set, up to one of its elements, none has a smaller one inside it.
LEMMA Least ==
  ASSUME NEW T \in SUBSET Nat, T # {}
  PROVE  \E x \in T : \A y \in T : x <= y
<1> DEFINE Part(x) == {y \in T : y <= x}
<1>1. PICK a \in T : TRUE
  OBVIOUS
<1> DEFINE S == 0..a
           Parts == {Part(x) : x \in {y \in T : y <= a}}
           R == StrictSubsetOrdering(S)
<1>2. ASSUME NEW x \in T, x <= a PROVE Part(x) \subseteq S
  <2> SUFFICES ASSUME NEW y \in T, y <= x PROVE y \in 0..a
    OBVIOUS
  <2>1. y \in Nat /\ x \in Nat /\ a \in Nat
    OBVIOUS
  <2> QED
    BY <2>1, <1>2
<1>3. Parts \subseteq FiniteSubsetsOf(S)
  <2>1. IsFiniteSet(S)
    BY FS_Interval
  <2> QED
    BY <1>2, <2>1, FS_FiniteSubsetsOfFinite
<1>4. \E U \in Parts : \A V \in Parts : ~(<<V, U>> \in R)
  <2>1. IsWellFoundedOn(R, FiniteSubsetsOf(S))
    BY FS_StrictSubsetOrderingWellFounded
  <2>2. Part(a) \in Parts
    <3>1. a \in Nat /\ a <= a
      OBVIOUS
    <3> QED
      BY <3>1
  <2> HIDE DEF R, Parts, S
  <2> QED
    BY <1>3, <2>1, <2>2, WFMin
<1>5. PICK x \in T : x <= a /\ \A V \in Parts : ~(<<V, Part(x)>> \in R)
  BY <1>4
<1>6. ASSUME NEW y \in T, ~(x <= y) PROVE FALSE
  <2>0. x \in Nat /\ y \in Nat /\ a \in Nat
    OBVIOUS
  <2>1. y < x /\ y <= a
    BY <1>5, <1>6, <2>0
  <2>2. Part(y) \in Parts 
    BY <2>1
  <2>3. Part(y) \subseteq Part(x) /\ x \in Part(x) /\ x \notin Part(y)
    <3>1. \A z \in T : z \in Nat /\ (z <= y => z <= x)
      BY <2>0, <2>1
    <3>2. x <= x /\ ~(x <= y)
      BY <2>0, <2>1
    <3> QED
      BY <3>1, <3>2, Zenon
  <2>4. Part(x) \subseteq S /\ Part(y) \subseteq S
    BY <1>2, <1>5, <2>1
  <2>5. <<Part(y), Part(x)>> \in R
    <3> HIDE DEF Part, S
    <3> QED
      BY <2>3, <2>4 DEF StrictSubsetOrdering
  <2> QED
    BY <1>5, <2>2, <2>5
<1> QED
  BY <1>6

\* The loggers are a tree: each but the root is further down than its parent.
LoggerConstants == /\ Root \in Names
                   /\ \E depth \in [Names -> Nat] :
                        \A n \in Names \ {Root} : Parent[n] \in Names /\ depth[Parent[n]] < depth[n]

\* f gives the loggers in S the levels they inherit or have.
Gives(f, S, r, c) == \A m \in S : f[m] = IF m = Root THEN r ELSE IF c[m] # None THEN c[m] ELSE f[Parent[m]]

\* Whatever is configured, there is a function that gives every logger its level: one for
\* each depth, extended from the one above, which agree where they meet.
LEMMA LevelsExist ==
  ASSUME LoggerConstants, NEW r, NEW c
  PROVE  \E f : f = [m \in Names |-> f[m]] /\ Gives(f, Names, r, c)
<1>1. PICK depth \in [Names -> Nat] :
        \A n \in Names \ {Root} : Parent[n] \in Names /\ depth[Parent[n]] < depth[n]
  BY DEF LoggerConstants
<1> DEFINE Upper(k) == {m \in Names : depth[m] < k}
           Fs(k) == {f \in [Upper(k) -> {c[m] : m \in Names} \cup {r}] : Gives(f, Upper(k), r, c)}
<1>2. \A k \in Nat : Fs(k) # {}
  <2> SUFFICES ASSUME {k \in Nat : Fs(k) = {}} # {} PROVE FALSE
    OBVIOUS
  <2>1. PICK k \in {i \in Nat : Fs(i) = {}} : \A j \in {i \in Nat : Fs(i) = {}} : k <= j
    <3> DEFINE T == {i \in Nat : Fs(i) = {}}
    <3>1. T \in SUBSET Nat /\ T # {}
      OBVIOUS
    <3> HIDE DEF T
    <3>2. \E x \in T : \A y \in T : x <= y
      BY <3>1, Least
    <3> QED
      BY <3>2 DEF T
  <2>2. CASE k = 0
    <3>1. Upper(k) = {}
      BY <2>2, <1>1
    <3> DEFINE f == [m \in Upper(k) |-> r]
    <3>2. f \in Fs(k)
      BY <3>1 DEF Gives
    <3> QED
      BY <2>1, <3>2
  <2>3. CASE k # 0
    <3>1. k - 1 \in Nat /\ ~(k <= k - 1)
      BY <2>1, <2>3
    <3>1a. Fs(k - 1) # {}
      <4> HIDE DEF Fs
      <4> QED
        BY <2>1, <3>1
    <3>2. PICK g \in Fs(k - 1) : TRUE
      BY <3>1a
    <3> DEFINE f == [m \in Upper(k) |-> IF m = Root THEN r ELSE IF c[m] # None THEN c[m] ELSE g[Parent[m]]]
    <3>3. \A m \in Upper(k) : m # Root => Parent[m] \in Upper(k - 1) /\ Parent[m] \in Upper(k)
      <4> SUFFICES ASSUME NEW m \in Names, m # Root, depth[m] < k
                   PROVE  Parent[m] \in Upper(k - 1) /\ Parent[m] \in Upper(k)
        OBVIOUS
      <4>1. depth[Parent[m]] < depth[m] /\ depth[m] \in Nat /\ depth[Parent[m]] \in Nat
            /\ Parent[m] \in Names /\ k \in Nat
        BY <1>1, <2>1
      <4> QED
        BY <4>1
    <3>4. \A m \in Upper(k - 1) : f[m] = g[m]
      <4>1. \A m \in Upper(k - 1) : m \in Upper(k)
        BY <1>1, <2>1
      <4>2. Gives(g, Upper(k - 1), r, c)
        BY <3>2
      <4> QED
        BY <4>1, <4>2 DEF Gives
    <3>5. f \in [Upper(k) -> {c[m] : m \in Names} \cup {r}]
      <4> SUFFICES ASSUME NEW m \in Upper(k) PROVE f[m] \in {c[n] : n \in Names} \cup {r}
        OBVIOUS
      <4> QED
        BY <3>2, <3>3
    <3>6. Gives(f, Upper(k), r, c)
      BY <3>3, <3>4 DEF Gives
    <3>7. f \in Fs(k)
      BY <3>5, <3>6
    <3> QED
      BY <2>1, <3>7
  <2> QED
    BY <2>2, <2>3
<1> DEFINE F == [k \in Nat |-> CHOOSE f \in Fs(k) : TRUE]
<1>3. \A k \in Nat : F[k] \in Fs(k)
  BY <1>2
<1> HIDE DEF F
\* What two of them have in common they agree on.
<1>4. \A j, k \in Nat : \A m \in Upper(j) \cap Upper(k) : F[j][m] = F[k][m]
  <2> SUFFICES ASSUME NEW j \in Nat, NEW k \in Nat,
                      {d \in Nat : \E m \in Upper(j) \cap Upper(k) : depth[m] = d /\ F[j][m] # F[k][m]} # {}
               PROVE  FALSE
    BY <1>1
  <2> DEFINE T == {d \in Nat : \E m \in Upper(j) \cap Upper(k) : depth[m] = d /\ F[j][m] # F[k][m]}
  <2>1. T \in SUBSET Nat /\ T # {}
    OBVIOUS
  <2>2. PICK d \in T : \A e \in T : d <= e
    <3> HIDE DEF T
    <3> QED
      BY <2>1, Least
  <2>3. PICK m \in Upper(j) \cap Upper(k) : depth[m] = d /\ F[j][m] # F[k][m]
    BY <2>2
  <2>4. Gives(F[j], Upper(j), r, c) /\ Gives(F[k], Upper(k), r, c)
    BY <1>3
  <2>5. m # Root /\ F[j][m] = F[j][Parent[m]] /\ F[k][m] = F[k][Parent[m]]
    BY <2>3, <2>4 DEF Gives
  <2>6. /\ Parent[m] \in Names /\ depth[Parent[m]] \in Nat /\ depth[Parent[m]] < depth[m]
        /\ depth[m] \in Nat /\ depth[m] < j /\ depth[m] < k
    BY <1>1, <2>3, <2>5
  <2>7. Parent[m] \in Upper(j) \cap Upper(k)
    BY <2>6
  <2>8. depth[Parent[m]] \in T
    BY <2>3, <2>5, <2>6, <2>7
  <2> QED
    BY <2>2, <2>3, <2>6, <2>8
<1> DEFINE up == [m \in Names |-> F[depth[m] + 1][m]]
<1>5. \A m \in Names : up[m] = IF m = Root THEN r ELSE IF c[m] # None THEN c[m] ELSE up[Parent[m]]
  <2> SUFFICES ASSUME NEW m \in Names
               PROVE  up[m] = IF m = Root THEN r ELSE IF c[m] # None THEN c[m] ELSE up[Parent[m]]
    OBVIOUS
  <2>1. depth[m] \in Nat /\ depth[m] + 1 \in Nat /\ m \in Upper(depth[m] + 1)
    BY <1>1
  <2>2. Gives(F[depth[m] + 1], Upper(depth[m] + 1), r, c)
    BY <1>3, <2>1
  <2>3. up[m] = IF m = Root THEN r ELSE IF c[m] # None THEN c[m] ELSE F[depth[m] + 1][Parent[m]]
    BY <2>1, <2>2 DEF Gives
  <2>4. CASE m # Root
    <3> DEFINE q == Parent[m]
    <3>1. q \in Names /\ depth[q] \in Nat /\ depth[q] < depth[m]
      BY <1>1, <2>4
    <3>2. depth[q] + 1 \in Nat /\ q \in Upper(depth[q] + 1) \cap Upper(depth[m] + 1)
      BY <2>1, <3>1
    <3>3. F[depth[q] + 1][q] = F[depth[m] + 1][q]
      BY <1>4, <2>1, <3>2
    <3>4. up[q] = F[depth[m] + 1][q]
      BY <3>1, <3>3
    <3> QED
      BY <2>3, <3>4
  <2>5. CASE m = Root
    BY <2>3, <2>5
  <2> QED
    BY <2>4, <2>5
<1>6. up = [m \in Names |-> up[m]] /\ Gives(up, Names, r, c)
  BY <1>5 DEF Gives
<1> QED
  BY <1>6

\* A logger has its own level, or its parent's.
LEMMA LevelIs ==
  ASSUME LoggerConstants, NEW n \in Names
  PROVE  Levelled!LevelOf(n) = IF n = Root THEN rootLevel ELSE IF levelConfig[n] # None THEN levelConfig[n]
                               ELSE Levelled!LevelOf(Parent[n])
<1> DEFINE up == CHOOSE f : f = [m \in Names |-> IF m = Root THEN rootLevel
                                   ELSE IF levelConfig[m] # None THEN levelConfig[m] ELSE f[Parent[m]]]
<1>1. up = [m \in Names |-> IF m = Root THEN rootLevel
                                   ELSE IF levelConfig[m] # None THEN levelConfig[m] ELSE up[Parent[m]]]
  <2>1. PICK f : f = [m \in Names |-> f[m]] /\ Gives(f, Names, rootLevel, levelConfig)
    BY LevelsExist
  <2>2. f = [m \in Names |-> IF m = Root THEN rootLevel
                            ELSE IF levelConfig[m] # None THEN levelConfig[m] ELSE f[Parent[m]]]
    BY <2>1 DEF Gives
  <2> QED
    BY <2>2
<1>2. \A m : Levelled!LevelOf(m) = up[m]
  BY DEF Levelled!LevelOf
<1> HIDE DEF up
<1> QED
  BY <1>1, <1>2

\* A caller looks for the level of a logger that has the level of the one it called, and
\* so have those whose level it is to cache.
LevelTypes ==
  /\ DOMAIN cache = Names
  /\ pc \in [Callers -> {"idle", "get", "config", "return"}] /\ DOMAIN level = Callers
  /\ at \in [Callers -> Names] /\ logger \in [Callers -> Names]
  /\ path \in [Callers -> Seq(Names)]
  /\ \A t \in Callers : /\ pc[t] # "return" => level[t] = None
                        /\ pc[t] = "idle" => path[t] = <<>>
                        /\ pc[t] = "config" => at[t] # Root

Theirs(t) == /\ pc[t] \in {"get", "config"} => Levelled!LevelOf(at[t]) = Levelled!LevelOf(logger[t])
             /\ pc[t] = "return" => level[t] = Levelled!LevelOf(logger[t])
             /\ \A i \in DOMAIN path[t] : Levelled!LevelOf(path[t][i]) = Levelled!LevelOf(logger[t])

\* The cache holds what the configuration gives, or nothing.
CacheFollows == \A n \in Names : cache[n] \in {None, Levelled!LevelOf(n)}

Inherited == clean => IF setter = None THEN CacheFollows /\ \A t \in Callers : Theirs(t)
                      ELSE \A t \in Callers : pc[t] = "idle"

LevelsInv == LevelTypes /\ Inherited

\* Nothing but SetLogLevel changes what the configuration gives.
LEMMA LevelsStay ==
  ASSUME UNCHANGED <<rootLevel, levelConfig>>
  PROVE  \A n : Levelled!LevelOf(n)' = Levelled!LevelOf(n)
  BY DEF Levelled!LevelOf

\* What the first of a path keeps when it is taken away, and one is put before it.
LEMMA PathSteps ==
  ASSUME NEW S, NEW s \in Seq(S), NEW x \in S
  PROVE  /\ <<x>> \o s \in Seq(S)
         /\ \A i \in DOMAIN (<<x>> \o s) : (<<x>> \o s)[i] = x \/ \E j \in DOMAIN s : (<<x>> \o s)[i] = s[j]
         /\ s # <<>> => /\ Head(s) = s[1] /\ 1 \in DOMAIN s /\ Head(s) \in S /\ Tail(s) \in Seq(S)
                        /\ \A i \in DOMAIN Tail(s) : \E j \in DOMAIN s : Tail(s)[i] = s[j]
<1>1. Len(s) \in Nat /\ <<x>> \in Seq(S) /\ Len(<<x>>) = 1 /\ DOMAIN s = 1..Len(s)
  OBVIOUS
<1>2. <<x>> \o s \in Seq(S) /\ Len(<<x>> \o s) = Len(s) + 1
  BY <1>1
<1>3. ASSUME NEW i \in DOMAIN (<<x>> \o s)
      PROVE  (<<x>> \o s)[i] = x \/ \E j \in DOMAIN s : (<<x>> \o s)[i] = s[j]
  <2>1. i \in 1..(Len(s) + 1)
    BY <1>2
  <2>2. CASE i = 1
    BY <1>1, <2>1, <2>2
  <2>3. CASE i # 1
    <3>1. i - 1 \in DOMAIN s /\ (<<x>> \o s)[i] = s[i - 1]
      BY <1>1, <2>1, <2>3
    <3> QED
      BY <3>1
  <2> QED
    BY <2>2, <2>3
<1>4. ASSUME s # <<>>
      PROVE  /\ Head(s) = s[1] /\ 1 \in DOMAIN s /\ Head(s) \in S /\ Tail(s) \in Seq(S)
             /\ \A i \in DOMAIN Tail(s) : \E j \in DOMAIN s : Tail(s)[i] = s[j]
  <2>1. Len(s) > 0 /\ Head(s) = s[1] /\ Head(s) \in S /\ Tail(s) \in Seq(S) /\ Len(Tail(s)) = Len(s) - 1
    BY <1>1, <1>4
  <2>2. \A i \in 1..(Len(s) - 1) : i + 1 \in DOMAIN s /\ Tail(s)[i] = s[i + 1]
    BY <1>1, <1>4
  <2>3. DOMAIN Tail(s) = 1..(Len(s) - 1)
    BY <2>1
  <2> QED
    BY <1>1, <2>1, <2>2, <2>3
<1> QED
  BY <1>2, <1>3, <1>4

\* A call looks for the level of its logger, at whatever it finds in the cache.
LEMMA CallPreserves ==
  ASSUME LoggerConstants, LevelsInv, NEW t \in Callers,
         \/ \E n \in Names : Levelled!Call(t, n)
         \/ Levelled!CacheGet(t) \/ Levelled!ConfigGet(t) \/ Levelled!CacheSet(t) \/ Levelled!Log(t)
  PROVE  LevelsInv'
<1>1. UNCHANGED <<rootLevel, levelConfig, setter, sets>>
  BY DEF Levelled!Call, Levelled!CacheGet, Levelled!ConfigGet, Levelled!CacheSet, Levelled!Log, Levelled!config
<1>2. \A n : Levelled!LevelOf(n)' = Levelled!LevelOf(n)
  BY <1>1, LevelsStay
\* It suffices to look at the caller itself, and at the cache.
<1>3. ASSUME LevelTypes', clean' => clean, clean' /\ setter # None => pc'[t] = "idle",
             \A u \in Callers : u # t => /\ pc'[u] = pc[u] /\ at'[u] = at[u] /\ level'[u] = level[u]
                                         /\ path'[u] = path[u] /\ logger'[u] = logger[u],
             clean' /\ setter = None /\ CacheFollows /\ Theirs(t) => CacheFollows' /\ Theirs(t)'
      PROVE  LevelsInv'
  <2>1. CASE clean' /\ setter = None
    <3>1. \A u \in Callers : u # t => Theirs(u)'
      BY <1>2, <1>3, <2>1 DEF LevelsInv, Inherited, Theirs
    <3> QED
      BY <1>1, <1>3, <2>1, <3>1 DEF LevelsInv, Inherited
  <2>2. CASE clean' /\ setter # None
    BY <1>1, <1>3, <2>2 DEF LevelsInv, Inherited
  <2>3. CASE ~clean'
    BY <1>3, <2>3 DEF LevelsInv, Inherited
  <2> QED
    BY <2>1, <2>2, <2>3
<1>4. ASSUME NEW n \in Names, Levelled!Call(t, n) PROVE LevelsInv'
  <2>1. /\ pc[t] = "idle" /\ pc' = [pc EXCEPT ![t] = "get"] /\ at' = [at EXCEPT ![t] = n]
        /\ logger' = [logger EXCEPT ![t] = n] /\ clean' = (clean /\ setter = None)
        /\ UNCHANGED <<cache, path, level>>
    BY <1>4 DEF Levelled!Call, Levelled!Goto
  <2>2. LevelTypes'
    BY <2>1 DEF LevelsInv, LevelTypes
  <2>3. \A u \in Callers : u # t => /\ pc'[u] = pc[u] /\ at'[u] = at[u] /\ level'[u] = level[u]
                                    /\ path'[u] = path[u] /\ logger'[u] = logger[u]
    BY <2>1 DEF LevelsInv, LevelTypes
  <2>4. clean' /\ CacheFollows => CacheFollows'
    BY <1>2, <2>1 DEF CacheFollows
  <2>5. Theirs(t)'
    BY <1>2, <2>1, <2>2 DEF Theirs, LevelsInv, LevelTypes
  <2> QED
    BY <1>3, <2>1, <2>2, <2>3, <2>4, <2>5
<1>5. CASE Levelled!CacheGet(t)
  <2>1. /\ pc[t] = "get" /\ UNCHANGED <<cache, at, path, logger, clean>>
        /\ \/ /\ at[t] = Root /\ level' = [level EXCEPT ![t] = rootLevel]
              /\ pc' = [pc EXCEPT ![t] = "return"]
           \/ /\ cache[at[t]] # None /\ level' = [level EXCEPT ![t] = cache[at[t]]]
              /\ pc' = [pc EXCEPT ![t] = "return"]
           \/ /\ at[t] # Root /\ pc' = [pc EXCEPT ![t] = "config"] /\ UNCHANGED level
    BY <1>5 DEF Levelled!CacheGet, Levelled!Found, Levelled!Goto
  <2>2. LevelTypes'
    BY <2>1 DEF LevelsInv, LevelTypes
  <2>3. \A u \in Callers : u # t => /\ pc'[u] = pc[u] /\ at'[u] = at[u] /\ level'[u] = level[u]
                                    /\ path'[u] = path[u] /\ logger'[u] = logger[u]
    BY <2>1 DEF LevelsInv, LevelTypes
  <2>4. CacheFollows => CacheFollows'
    BY <1>2, <2>1 DEF CacheFollows
  <2>5. ASSUME CacheFollows, Theirs(t) PROVE Theirs(t)'
    <3>1. at[t] \in Names /\ Levelled!LevelOf(at[t]) = Levelled!LevelOf(logger[t])
      BY <2>1, <2>5 DEF LevelsInv, LevelTypes, Theirs
    <3>2. at[t] = Root => Levelled!LevelOf(at[t]) = rootLevel
      BY <3>1, LevelIs
    <3>3. cache[at[t]] # None => cache[at[t]] = Levelled!LevelOf(at[t])
      BY <2>5, <3>1 DEF CacheFollows
    <3>4. \A i \in DOMAIN path[t] : Levelled!LevelOf(path[t][i]) = Levelled!LevelOf(logger[t])
      BY <2>5 DEF Theirs
    <3> QED
      BY <1>2, <2>1, <3>1, <3>2, <3>3, <3>4 DEF Theirs, LevelsInv, LevelTypes
  <2>6. clean' /\ setter # None => FALSE
    BY <2>1 DEF LevelsInv, Inherited
  <2> QED
    BY <1>3, <2>1, <2>2, <2>3, <2>4, <2>5, <2>6
<1>6. CASE Levelled!ConfigGet(t)
  <2>1. /\ pc[t] = "config" /\ path' = [path EXCEPT ![t] = <<at[t]>> \o path[t]]
        /\ \/ /\ levelConfig[at[t]] # None /\ level' = [level EXCEPT ![t] = levelConfig[at[t]]]
              /\ pc' = [pc EXCEPT ![t] = "return"] /\ UNCHANGED at
           \/ /\ levelConfig[at[t]] = None /\ at' = [at EXCEPT ![t] = Parent[at[t]]]
              /\ pc' = [pc EXCEPT ![t] = "get"] /\ UNCHANGED level
        /\ UNCHANGED <<cache, logger, clean>>
    BY <1>6 DEF Levelled!ConfigGet, Levelled!Found, Levelled!Goto, LevelsInv, LevelTypes
  <2>2. at[t] \in Names /\ at[t] # Root /\ Parent[at[t]] \in Names
    BY <2>1 DEF LevelsInv, LevelTypes, LoggerConstants
  <2>3. PICK p : p = <<at[t]>> \o path[t]
    OBVIOUS
  <2>4. p \in Seq(Names) /\ \A i \in DOMAIN p : p[i] = at[t] \/ \E j \in DOMAIN path[t] : p[i] = path[t][j]
    BY <2>2, <2>3, PathSteps DEF LevelsInv, LevelTypes
  <2>5. path' = [path EXCEPT ![t] = p]
    BY <2>1, <2>3
  <2>6. LevelTypes'
    <3>1. path' \in [Callers -> Seq(Names)]
      BY <2>4, <2>5 DEF LevelsInv, LevelTypes
    <3>2. \A u \in Callers : pc'[u] = "idle" => path'[u] = <<>>
      BY <2>1, <2>5 DEF LevelsInv, LevelTypes
    <3> QED
      BY <2>1, <2>2, <3>1, <3>2 DEF LevelsInv, LevelTypes
  <2>7. \A u \in Callers : u # t => /\ pc'[u] = pc[u] /\ at'[u] = at[u] /\ level'[u] = level[u]
                                    /\ path'[u] = path[u] /\ logger'[u] = logger[u]
    BY <2>1, <2>5 DEF LevelsInv, LevelTypes
  <2>8. CacheFollows => CacheFollows'
    BY <1>2, <2>1 DEF CacheFollows
  <2>9. ASSUME Theirs(t) PROVE Theirs(t)'
    <3>1. /\ Levelled!LevelOf(at[t]) = Levelled!LevelOf(logger[t])
          /\ \A i \in DOMAIN path[t] : Levelled!LevelOf(path[t][i]) = Levelled!LevelOf(logger[t])
      BY <2>1, <2>9 DEF Theirs
    <3>2. Levelled!LevelOf(at[t]) = IF levelConfig[at[t]] # None THEN levelConfig[at[t]]
                                    ELSE Levelled!LevelOf(Parent[at[t]])
      BY <2>2, LevelIs
    <3>3. path'[t] = p /\ logger'[t] = logger[t]
      BY <2>1, <2>5 DEF LevelsInv, LevelTypes
    <3>4. \A i \in DOMAIN p : Levelled!LevelOf(p[i]) = Levelled!LevelOf(logger[t])
      BY <2>4, <3>1
    <3>5. /\ pc'[t] \in {"get", "config"} => Levelled!LevelOf(at'[t]) = Levelled!LevelOf(logger[t])
          /\ pc'[t] = "return" => level'[t] = Levelled!LevelOf(logger[t])
      BY <2>1, <3>1, <3>2 DEF LevelsInv, LevelTypes
    <3> QED
      BY <1>2, <3>3, <3>4, <3>5 DEF Theirs
  <2>10. clean' /\ setter # None => FALSE
    BY <2>1 DEF LevelsInv, Inherited
  <2> QED
    BY <1>3, <2>1, <2>6, <2>7, <2>8, <2>9, <2>10
<1>7. CASE Levelled!CacheSet(t)
  <2>1. /\ pc[t] = "return" /\ path[t] # <<>>
        /\ cache' = [cache EXCEPT ![Head(path[t])] = level[t]]
        /\ path' = [path EXCEPT ![t] = Tail(path[t])] /\ UNCHANGED <<pc, at, level, logger, clean>>
    BY <1>7 DEF Levelled!CacheSet, LevelsInv, LevelTypes
  <2>2. PICK h, p : h = Head(path[t]) /\ p = Tail(path[t])
    OBVIOUS
  <2>3. /\ path[t] \in Seq(Names) /\ h = path[t][1] /\ 1 \in DOMAIN path[t] /\ h \in Names
        /\ p \in Seq(Names) /\ \A i \in DOMAIN p : \E j \in DOMAIN path[t] : p[i] = path[t][j]
    <3>1. path[t] \in Seq(Names) /\ at[t] \in Names
      BY DEF LevelsInv, LevelTypes
    <3> QED
      BY <2>1, <2>2, <3>1, PathSteps
  <2>4. path' = [path EXCEPT ![t] = p] /\ cache' = [cache EXCEPT ![h] = level[t]]
    BY <2>1, <2>2
  <2>5. LevelTypes'
    BY <2>1, <2>3, <2>4 DEF LevelsInv, LevelTypes
  <2>6. \A u \in Callers : u # t => /\ pc'[u] = pc[u] /\ at'[u] = at[u] /\ level'[u] = level[u]
                                    /\ path'[u] = path[u] /\ logger'[u] = logger[u]
    BY <2>1, <2>4 DEF LevelsInv, LevelTypes
  <2>7. ASSUME CacheFollows, Theirs(t) PROVE CacheFollows' /\ Theirs(t)'
    <3>1. level[t] = Levelled!LevelOf(logger[t]) /\ Levelled!LevelOf(h) = Levelled!LevelOf(logger[t])
      BY <2>1, <2>3, <2>7 DEF Theirs
    <3>2. CacheFollows'
      BY <1>2, <2>3, <2>4, <2>7, <3>1 DEF CacheFollows, LevelsInv, LevelTypes
    <3>3. path'[t] = p
      BY <2>4 DEF LevelsInv, LevelTypes
    <3>4. \A i \in DOMAIN p : Levelled!LevelOf(p[i]) = Levelled!LevelOf(logger[t])
      BY <2>3, <2>7 DEF Theirs
    <3> QED
      BY <1>2, <2>1, <2>7, <3>2, <3>3, <3>4 DEF Theirs
  <2>8. clean' /\ setter # None => FALSE
    BY <2>1 DEF LevelsInv, Inherited
  <2> QED
    BY <1>3, <2>1, <2>5, <2>6, <2>7, <2>8
<1>8. CASE Levelled!Log(t)
  <2>1. /\ pc[t] = "return" /\ path[t] = <<>> /\ pc' = [pc EXCEPT ![t] = "idle"]
        /\ level' = [level EXCEPT ![t] = None] /\ UNCHANGED <<cache, at, path, logger, clean>>
    BY <1>8 DEF Levelled!Log, Levelled!Goto
  <2>2. LevelTypes'
    BY <2>1 DEF LevelsInv, LevelTypes
  <2>3. \A u \in Callers : u # t => /\ pc'[u] = pc[u] /\ at'[u] = at[u] /\ level'[u] = level[u]
                                    /\ path'[u] = path[u] /\ logger'[u] = logger[u]
    BY <2>1 DEF LevelsInv, LevelTypes
  <2>4. CacheFollows => CacheFollows'
    BY <1>2, <2>1 DEF CacheFollows
  <2>5. Theirs(t) => Theirs(t)'
    BY <1>2, <2>1 DEF Theirs, LevelsInv, LevelTypes
  <2>6. clean' /\ setter # None => FALSE
    BY <2>1 DEF LevelsInv, Inherited
  <2> QED
    BY <1>3, <2>1, <2>2, <2>3, <2>4, <2>5, <2>6
<1> QED
  BY <1>4, <1>5, <1>6, <1>7, <1>8

\* SetLogLevel and the dropping of the cache, with no call in between, leave nothing stale.
LEMMA SetPreserves ==
  ASSUME LevelsInv, None \notin Names,
         \/ \E n \in Names, s \in Levels : Levelled!SetLogLevel(n, s)
         \/ Levelled!DropCache \/ UNCHANGED Levelled!vars
  PROVE  LevelsInv'
<1>1. CASE \E n \in Names, s \in Levels : Levelled!SetLogLevel(n, s)
  <2>1. setter' # None /\ clean' = (\A t \in Callers : pc[t] = "idle")
        /\ UNCHANGED <<cache, pc, at, path, level, logger>>
    BY <1>1 DEF Levelled!SetLogLevel, Levelled!callers
  <2> QED
    BY <2>1 DEF LevelsInv, LevelTypes, Inherited
<1>2. CASE Levelled!DropCache
  <2>1. /\ setter # None /\ setter' = None /\ cache' = [n \in Names |-> None]
        /\ UNCHANGED <<rootLevel, levelConfig, pc, at, path, level, logger, clean>>
    BY <1>2 DEF Levelled!DropCache, Levelled!NewCache, Levelled!config, Levelled!callers
  <2>2. LevelTypes'
    BY <2>1 DEF LevelsInv, LevelTypes
  <2>3. CacheFollows'
    BY <2>1 DEF CacheFollows
  <2>4. ASSUME clean PROVE \A t \in Callers : Theirs(t)'
    BY <2>1, <2>4 DEF LevelsInv, LevelTypes, Inherited, Theirs
  <2> QED
    BY <2>1, <2>2, <2>3, <2>4 DEF LevelsInv, Inherited
<1>3. CASE UNCHANGED Levelled!vars
  <2>1. UNCHANGED <<rootLevel, levelConfig, cache, pc, at, path, level, logger, setter, sets, clean>>
    BY <1>3 DEF Levelled!vars, Levelled!config, Levelled!callers
  <2>2. \A n : Levelled!LevelOf(n)' = Levelled!LevelOf(n)
    BY <2>1, LevelsStay
  <2> QED
    BY <2>1, <2>2 DEF LevelsInv, LevelTypes, Inherited, Theirs, CacheFollows
<1> QED
  BY <1>1, <1>2, <1>3

\* However deep the loggers inherit and many callers share the cache: it holds, and they
\* found out, what the configuration gives, unless SetLogLevel overlapped a call.
THEOREM LevelsFollow ==
  ASSUME LoggerConstants, None \notin Names
  PROVE  Levelled!Spec => []Levelled!LevelsFollowConfig
<1>1. Levelled!Init => LevelsInv
  <2> SUFFICES ASSUME Levelled!Init PROVE LevelsInv
    OBVIOUS
  <2>1. /\ cache = [n \in Names |-> None] /\ pc = [t \in Callers |-> "idle"]
        /\ at = [t \in Callers |-> Root] /\ path = [t \in Callers |-> <<>>]
        /\ level = [t \in Callers |-> None] /\ logger = at /\ setter = None
    BY DEF Levelled!Init, Levelled!NewCache
  <2>2. <<>> \in Seq(Names)
    OBVIOUS
  <2>3. LevelTypes
    BY <2>1, <2>2 DEF LevelTypes, LoggerConstants
  <2> QED
    BY <2>1, <2>3 DEF LevelsInv, Inherited, CacheFollows, Theirs
<1>2. ASSUME LevelsInv, [Levelled!Next]_(Levelled!vars) PROVE LevelsInv'
  BY <1>2, CallPreserves, SetPreserves DEF Levelled!Next
<1>3. LevelsInv => Levelled!LevelsFollowConfig
  BY DEF LevelsInv, LevelTypes, Inherited, CacheFollows, Theirs, Levelled!LevelsFollowConfig
<1> QED
  BY <1>1, <1>2, <1>3, PTL DEF Levelled!Spec

=============================================================================
