---------------------------- MODULE ResourceCache ----------------------------
(***************************************************************************)
(* resourcettl/cache.go: resources shared by key, kept for a ttl, cleaned   *)
(* up when they have expired and nobody uses them.  Three locks are        *)
(* involved: one per key (sync.PartitionLocker, what KeyedMutex promises), *)
(* the mutex of the ttl cache, held by Get while it calls onEvicted, and   *)
(* c.mu, which protects resources, checkouts and expiries and is held by   *)
(* newResource while it calls ttlcache.Put.                                *)
(*                                                                         *)
(* A member of Threads is a goroutine that makes one call at a time:       *)
(* Checkout(key), later the checkin function it got, or Invalidate(key).   *)
(* A critical section that cannot block is one step; the two that take a   *)
(* second lock, Get with onEvicted and newResource with Put, are several.  *)
(* The clock moves between any two steps: two calls of now() in one Get    *)
(* may differ, what a look-up found may be evicted before it is used, and  *)
(* the clock may stand at an expiration.                                   *)
(***************************************************************************)
EXTENDS TTLList, FiniteSets

CONSTANTS Threads, Keys,
          MaxResources,  \* bound: how many resources new() creates
          TTL,         \* the ttl of the cache
          MaxTime,     \* bound: the last reading of the clock
          RefreshTTL,  \* cachettl.WithNoRefreshTTL not given
          NoThread, NoKey

ASSUME ConstantsAssumption ==
         /\ NoThread \notin Threads /\ NoKey \notin Keys
         /\ MaxResources \in Nat
         /\ TTL \in Nat \ {0} /\ MaxTime \in Nat
         /\ RefreshTTL \in BOOLEAN

NoRes == 0                       \* the resourceID ""
Resources == 1..MaxResources     \* the uuids, in the order in which they are drawn

VARIABLES now,
          keyMu,      \* keyMu[k]: the goroutine that holds the lock of k
          tmu,        \* the goroutine that holds ttlcache.mu
          cmu,        \* the goroutine that holds c.mu over several steps
          list,       \* the nodes of the ttl cache, head first
          resources,  \* ids in c.resources
          checkouts,  \* c.checkouts; -1: no entry
          expiries,   \* c.expiries
          pc, call, karg,
          got,        \* the id Get returned, or is about to
          evicted,    \* the id onEvicted is called with
          inUse,      \* the id a goroutine has checked out and not checked in
          owner,      \* history: the key an id was created for
          cleaned,    \* history: how many cleanups of an id were started
          overtaken,  \* history: ids cleaned up while a call that had found them in
                      \* the ttl cache was still to use them
          replaced    \* history: ids whose node a new resource of the key was put into

locks == <<keyMu, tmu, cmu>>
maps == <<resources, checkouts, expiries>>
history == <<owner, cleaned, overtaken, replaced>>
vars == <<now, locks, list, maps, pc, call, karg, got, evicted, inUse, history>>

Labels == {"idle", "get", "evict", "onEvicted", "found", "new", "put",
           "notFound", "invalidated"}

TypeOK == /\ now \in 0..MaxTime
          /\ keyMu \in [Keys -> Threads \cup {NoThread}]
          /\ tmu \in Threads \cup {NoThread}
          /\ cmu \in Threads \cup {NoThread}
          /\ \A i \in DOMAIN list : /\ list[i].key \in Keys
                                    /\ list[i].value \in Resources \cup {NoRes}
                                    /\ list[i].expiration \in Int
          /\ resources \subseteq Resources
          /\ checkouts \in [Resources -> -1..Cardinality(Threads)]
          /\ expiries \subseteq Resources
          /\ pc \in [Threads -> Labels]
          /\ call \in [Threads -> {"checkout", "invalidate"}]
          /\ karg \in [Threads -> Keys \cup {NoKey}]
          /\ got \in [Threads -> Resources \cup {NoRes}]
          /\ evicted \in [Threads -> Resources \cup {NoRes}]
          /\ inUse \in [Threads -> Resources \cup {NoRes}]
          /\ owner \in [Resources -> Keys \cup {NoKey}]
          /\ cleaned \in [Resources -> Nat]
          /\ overtaken \subseteq Resources /\ replaced \subseteq Resources

Init == /\ now = 0
        /\ keyMu = [k \in Keys |-> NoThread]
        /\ tmu = NoThread /\ cmu = NoThread
        /\ list = <<>>
        /\ resources = {} /\ expiries = {}
        /\ checkouts = [r \in Resources |-> -1]
        /\ pc = [t \in Threads |-> "idle"]
        /\ call = [t \in Threads |-> "checkout"]
        /\ karg = [t \in Threads |-> NoKey]
        /\ got = [t \in Threads |-> NoRes]
        /\ evicted = [t \in Threads |-> NoRes]
        /\ inUse = [t \in Threads |-> NoRes]
        /\ owner = [r \in Resources |-> NoKey]
        /\ cleaned = [r \in Resources |-> 0]
        /\ overtaken = {} /\ replaced = {}

Goto(t, label) == pc' = [pc EXCEPT ![t] = label]

\* The call of t returns, its deferred keyMu.Unlock included.
Return(t) == /\ Goto(t, "idle")
             /\ keyMu' = [keyMu EXCEPT ![karg[t]] = NoThread]
             /\ karg' = [karg EXCEPT ![t] = NoKey]
             /\ got' = [got EXCEPT ![t] = NoRes]

-----------------------------------------------------------------------------
\* Fault: the lock of the key is not waited for.
LockKey_Barges(t, k) == keyMu' = [keyMu EXCEPT ![k] = t]

\* lockKey, with the guarantee of KeyedMutex.
LockKey(t, k) == keyMu[k] = NoThread /\ keyMu' = [keyMu EXCEPT ![k] = t]

\* Checkout(k) or Invalidate(k) is called and gets the lock of the key.  The
\* goroutine has nothing checked out, or it invalidates while it has.
Begin(t, c, k) ==
  /\ pc[t] = "idle"
  /\ c = "checkout" => inUse[t] = NoRes
  /\ LockKey(t, k)
  /\ call' = [call EXCEPT ![t] = c]
  /\ karg' = [karg EXCEPT ![t] = k]
  /\ Goto(t, "get")
  /\ UNCHANGED <<now, tmu, cmu, list, maps, got, evicted, inUse, history>>

\* ttlcache.Get(key): lock the ttl cache, look the key up, refresh the ttl of a hit.
Get(t) ==
  /\ pc[t] = "get"
  /\ tmu = NoThread
  /\ tmu' = t
  /\ LET hits == {n \in NodesOf(list, karg[t]) : Valid(n, now)}
     IN  \/ /\ hits = {}
            /\ UNCHANGED <<list, got>>
         \/ \E n \in hits : /\ got' = [got EXCEPT ![t] = n.value]
                            /\ list' = IF RefreshTTL THEN Refresh(list, n, now) ELSE list
  /\ Goto(t, "evict")
  /\ UNCHANGED <<now, keyMu, cmu, maps, call, karg, evicted, inUse, history>>

\* The deferred loop of Get: the head has expired, it is removed and onEvicted called.
EvictHead(t) ==
  /\ pc[t] = "evict"
  /\ list # <<>>
  /\ Expired(Head(list), now)
  /\ evicted' = [evicted EXCEPT ![t] = Head(list).value]
  /\ list' = Tail(list)
  /\ Goto(t, "onEvicted")
  /\ UNCHANGED <<now, locks, maps, call, karg, got, inUse, history>>

\* Fault: Get returns without unlocking the ttl cache.
EvictEnd_KeepsLock(t) ==
  /\ pc[t] = "evict"
  /\ list # <<>> => ~Expired(Head(list), now)
  /\ Goto(t, IF got[t] # NoRes THEN "found"
             ELSE IF call[t] = "checkout" THEN "new" ELSE "notFound")
  /\ UNCHANGED <<now, locks, list, maps, call, karg, got, evicted, inUse, history>>

\* The deferred loop ends, Get unlocks the ttl cache and returns.
EvictEnd(t) ==
  /\ pc[t] = "evict"
  /\ list # <<>> => ~Expired(Head(list), now)
  /\ tmu' = NoThread
  /\ Goto(t, IF got[t] # NoRes THEN "found"
             ELSE IF call[t] = "checkout" THEN "new" ELSE "notFound")
  /\ UNCHANGED <<now, keyMu, cmu, list, maps, call, karg, got, evicted, inUse, history>>

\* go c.cleanup(r).  A call that has found r has been overtaken, be it one that waits for
\* c.mu or the Get that evicts r itself.
CleanUp(r) == /\ cleaned' = [cleaned EXCEPT ![r] = @ + 1]
              /\ overtaken' = IF \E t \in Threads : got'[t] = r THEN overtaken \cup {r}
                              ELSE overtaken

\* Fault: the checkouts are not looked at.
OnEvictedBody_AtOnce(r) ==
  \/ /\ r = NoRes
     /\ UNCHANGED <<maps, cleaned, overtaken>>
  \/ /\ r # NoRes
     /\ resources' = resources \ {r}
     /\ checkouts' = [checkouts EXCEPT ![r] = -1]
     /\ CleanUp(r)
     /\ UNCHANGED expiries

\* onEvicted(_, r): nothing if c.checkouts has no entry, a cleanup if nobody has
\* checked r out, else r is marked for the last checkin.
OnEvictedBody(r) ==
  \/ /\ (IF r = NoRes THEN -1 ELSE checkouts[r]) = -1
     /\ UNCHANGED <<maps, cleaned, overtaken>>
  \/ /\ r # NoRes /\ checkouts[r] = 0
     /\ resources' = resources \ {r}
     /\ checkouts' = [checkouts EXCEPT ![r] = -1]
     /\ CleanUp(r)
     /\ UNCHANGED expiries
  \/ /\ r # NoRes /\ checkouts[r] > 0
     /\ expiries' = expiries \cup {r}
     /\ UNCHANGED <<resources, checkouts, cleaned, overtaken>>

\* onEvicted, called by Get, that is with the ttl cache locked.
OnEvicted(t) ==
  /\ pc[t] = "onEvicted"
  /\ cmu = NoThread
  /\ UNCHANGED got
  /\ OnEvictedBody(evicted[t])
  /\ evicted' = [evicted EXCEPT ![t] = NoRes]
  /\ Goto(t, "evict")
  /\ UNCHANGED <<now, locks, list, call, karg, inUse, owner, replaced>>

\* c.checkouts[resourceID]++, which starts from 0 for an id that has no entry.
OneMore(n) == IF n = -1 THEN 1 ELSE n + 1

\* Checkout, hit: r := c.resources[resourceID] and one checkout more, under c.mu.
\* Nothing looks whether the id is still in the maps.
CheckoutHit(t) ==
  /\ pc[t] = "found" /\ call[t] = "checkout"
  /\ cmu = NoThread
  /\ checkouts' = [checkouts EXCEPT ![got[t]] = OneMore(@)]
  /\ inUse' = [inUse EXCEPT ![t] = got[t]]
  /\ Return(t)
  /\ UNCHANGED <<now, tmu, cmu, list, resources, expiries, call, evicted, history>>

\* newResource: new() returned an error.
NewFails(t) ==
  /\ pc[t] = "new"
  /\ Return(t)
  /\ UNCHANGED <<now, tmu, cmu, list, maps, call, evicted, inUse, history>>

\* newResource: new() returned a resource, which is registered under c.mu.
New(t) ==
  /\ pc[t] = "new"
  /\ cmu = NoThread
  /\ cmu' = t
  /\ \E r \in Resources :
       /\ owner[r] = NoKey /\ \A q \in Resources : q < r => owner[q] # NoKey
       /\ owner' = [owner EXCEPT ![r] = karg[t]]
       /\ resources' = resources \cup {r}
       /\ checkouts' = [checkouts EXCEPT ![r] = 1]
       /\ inUse' = [inUse EXCEPT ![t] = r]
  /\ Goto(t, "put")
  /\ UNCHANGED <<now, keyMu, tmu, list, expiries, call, karg, got, evicted, cleaned, overtaken,
                 replaced>>

\* newResource: ttlcache.Put(key, resourceID, ttl), still under c.mu.
Put(t) ==
  /\ pc[t] = "put"
  /\ tmu = NoThread
  /\ list' = PutNode(list, karg[t], inUse[t], TTL, now)
  /\ replaced' = replaced \cup ({n.value : n \in NodesOf(list, karg[t])} \ {NoRes})
  /\ cmu' = NoThread
  /\ Return(t)
  /\ UNCHANGED <<now, tmu, maps, call, evicted, inUse, owner, cleaned, overtaken>>

\* Invalidate, hit: ttlcache.Put(key, "", -1).
PutInvalid(t) ==
  /\ pc[t] = "found" /\ call[t] = "invalidate"
  /\ tmu = NoThread
  /\ list' = PutNode(list, karg[t], NoRes, -1, now)
  /\ Goto(t, "invalidated")
  /\ UNCHANGED <<now, locks, maps, call, karg, got, evicted, inUse, history>>

\* Invalidate, hit: onEvicted(key, resourceID).
InvalidateEvicts(t) ==
  /\ pc[t] = "invalidated"
  /\ cmu = NoThread
  /\ Return(t)
  /\ OnEvictedBody(got[t])
  /\ UNCHANGED <<now, tmu, cmu, list, call, evicted, inUse, owner, replaced>>

\* Invalidate of a key without a resource.
InvalidateNothing(t) ==
  /\ pc[t] = "notFound"
  /\ Return(t)
  /\ UNCHANGED <<now, tmu, cmu, list, maps, call, evicted, inUse, history>>

\* Fault: the count is looked at before it is decremented.
LastCheckin_TooSoon(r) == r \in expiries /\ checkouts[r] = 0

\* The resource has expired and nobody else uses it.
LastCheckin(r) == r \in expiries /\ checkouts[r] = 1

\* The checkin function; sync.Once makes a second call a no-op.
Checkin(t) ==
  /\ pc[t] = "idle" /\ inUse[t] # NoRes
  /\ cmu = NoThread
  /\ UNCHANGED got
  /\ LET r == inUse[t]
     IN  /\ checkouts' = [checkouts EXCEPT ![r] = @ - 1]
         /\ IF LastCheckin(r) THEN expiries' = expiries \ {r} /\ CleanUp(r)
            ELSE UNCHANGED <<expiries, cleaned, overtaken>>
  /\ inUse' = [inUse EXCEPT ![t] = NoRes]
  /\ UNCHANGED <<now, locks, list, resources, pc, call, karg, evicted, owner, replaced>>

\* The clock moves.
Tick == /\ now < MaxTime
        /\ now' = now + 1
        /\ UNCHANGED <<locks, list, maps, pc, call, karg, got, evicted, inUse, history>>

Step(t) == \/ Get(t) \/ EvictHead(t) \/ EvictEnd(t) \/ OnEvicted(t) \/ CheckoutHit(t)
           \/ NewFails(t) \/ New(t) \/ Put(t)
           \/ PutInvalid(t) \/ InvalidateEvicts(t) \/ InvalidateNothing(t)

Next == \/ \E t \in Threads : \/ \E c \in {"checkout", "invalidate"}, k \in Keys : Begin(t, c, k)
                              \/ Step(t)
                              \/ Checkin(t)
        \/ Tick

Spec == Init /\ [][Next]_vars

-----------------------------------------------------------------------------
Users(r) == {t \in Threads : inUse[t] = r}

\* What Checkout returned is the resource, and it has not been cleaned up.
Kept(r) == cleaned[r] = 0 /\ r \in resources

\* Doc of Cache (cache.go:46-48): expired resources are not cleaned up while they are still
\* in use.  The code cleans up one that a paused Checkout has found.
InUseNotCleaned == \A t \in Threads : inUse[t] # NoRes => Kept(inUse[t])

\* A resource that is checked out is kept until it is checked in, unless a clean-up has
\* overtaken a call that had found it: nothing else takes a resource from who uses it.
CheckedOutIsKept ==
  \A t \in Threads : inUse[t] # NoRes /\ inUse[t] \notin overtaken => Kept(inUse[t])

\* A resource that was not overtaken is closed once, whatever the order of evictions,
\* invalidations and checkins.
CleanedOnce == \A r \in Resources \ overtaken : cleaned[r] <= 1

\* Somebody will still clean up every resource that has not been and whose node was not
\* given to the next one: the ttl cache knows it, or a call is about to handle it, or it
\* waits for its last checkin.
NoResourceLost ==
  \A r \in Resources \ replaced : owner[r] # NoKey =>
     \/ cleaned[r] > 0
     \/ \E i \in DOMAIN list : list[i].value = r
     \/ \E t \in Threads : \/ evicted[t] = r
                          \/ (pc[t] = "put" /\ inUse[t] = r)
                          \/ (pc[t] = "invalidated" /\ got[t] = r)
     \/ (r \in expiries /\ Users(r) # {})

\* Every resource is cleaned up once, never twice and never not at all, but for one that a
\* clean-up overtook and one that was found at its expiration.
CleanedExactlyOnce == CleanedOnce /\ NoResourceLost

\* checkouts is the number of callers that use the resource; an id without an
\* entry is used by nobody.
CheckoutsCountUsers ==
  \A r \in Resources : IF checkouts[r] = -1 THEN Users(r) = {}
                       ELSE checkouts[r] = Cardinality(Users(r))

\* The maps of the cache agree with what its callers have.
RecordsExact == TypeOK /\ CheckoutsCountUsers

\* A resource that was created and that neither the clock nor a call has begun to get rid of.
Live(r) == /\ owner[r] # NoKey /\ cleaned[r] = 0 /\ r \notin expiries \cup replaced
           /\ \A n \in NodesOf(list, owner[r]) : n.value = r => Valid(n, now)
           /\ ~\E t \in Threads : evicted[t] = r \/ (pc[t] = "invalidated" /\ got[t] = r)

\* Comment of keyMu: goroutines do not create several resources for one key; a
\* new one exists only when the one before it has expired or been invalidated.
OneLivePerKey ==
  \A q, r \in Resources : Live(q) /\ Live(r) /\ owner[q] = owner[r] => q = r

\* A key has at most one resource that is not on its way out, counted by its checkouts.
OneResourcePerKey == OneLivePerKey /\ RecordsExact

\* Two calls do not wait for each other: one in newResource, with c.mu, for the
\* ttl cache, the other in Get, with the ttl cache, for c.mu.
NoLockCycle == ~\E t, u \in Threads : /\ pc[t] = "put" /\ tmu = u
                                     /\ pc[u] = "onEvicted" /\ cmu = t

\* The call of t is at a lock that somebody has: Get and Put at that of the ttl cache,
\* the others at c.mu, newResource too, as new() need not fail.
WaitsForLock(t) ==
  IF pc[t] \in {"get", "put"} \/ (pc[t] = "found" /\ call[t] = "invalidate") THEN tmu # NoThread
  ELSE pc[t] \in {"onEvicted", "found", "new", "invalidated"} /\ cmu # NoThread

\* Nothing else blocks the cache: when every call in progress is at a lock that somebody
\* has, that cycle is there.
OnlyCycleBlocks ==
  (\E t \in Threads : pc[t] # "idle") /\ (\A t \in Threads : pc[t] = "idle" \/ WaitsForLock(t))
    => ~NoLockCycle

\* A call never stands still but at a lock, so only the cycle can stop all of them.
BlockedOnlyByCycle ==
  /\ \A t \in Threads : pc[t] = "idle" \/ WaitsForLock(t) \/ ENABLED Step(t)
  /\ OnlyCycleBlocks
=============================================================================
