-------------------------- MODULE OperatorManager ---------------------------
(***************************************************************************)
(* The operator process: the manager started by main.go, its one worker    *)
(* and its work queue, shared by all ProxmoxClusters, and the objects each *)
(* cluster owns, over the whole life of a name: created, edited, deleted   *)
(* and created again under a new UID while what its predecessor owned has  *)
(* not been collected yet.                                                 *)
(*                                                                         *)
(* ClusterReconcile models what one pass does with one cluster.  Here a    *)
(* pass is reduced to what it does to the objects in the API server: the   *)
(* finalizer, the owned objects in order, a status write, the ProxmoxNodes *)
(* and the requeue.                                                        *)
(*                                                                         *)
(*   obj, cache      the ProxmoxClusters in the API server / the informer  *)
(*   res, resCache   the owned objects / the informers' copies             *)
(*   queue           the work queue: keys waiting for the worker           *)
(*   again           keys woken during their own pass                      *)
(*   timer           keys to be added later (RequeueAfter, back-off)       *)
(*   pass            per key: Nil, or its pass: step and copy of the object*)
(*   born            the number of objects created under each name (UIDs)  *)
(*   buried          the UIDs whose finalizer the operator has removed     *)
(*   ops, faults     how often users and failures have acted (bounds)      *)
(***************************************************************************)
EXTENDS Naturals, Sequences, FiniteSets, Functions

CONSTANTS Clusters,   \* the names of the ProxmoxClusters
          Ensured,    \* the owned objects in the order a pass ensures them
          Specs,      \* the specs users may store
          FirstSpec,  \* the spec each cluster is first created with
          MaxOps,     \* bound, for each name: what users do under it
          MaxFaults,  \* bound: failed calls and crashes
          Nil

ServiceKinds == {"headless", "ui"}
EnsuredKinds == ServiceKinds \cup {"config", "statefulset"}

ASSUME ManagerAssumption ==
    /\ IsFiniteSet(Clusters)
    /\ Ensured \in Seq(EnsuredKinds) /\ Ensured # <<>> /\ IsInjective(Ensured)
    /\ \A s \in Specs : s.ok \in BOOLEAN
    /\ FirstSpec \in [Clusters -> Specs]
    /\ MaxOps \in [Clusters -> Nat] /\ MaxFaults \in Nat

VARIABLES obj, cache, res, resCache, queue, again, timer, pass, born, buried, ops, faults

queueVars == <<queue, again, timer, pass>>
vars == <<obj, cache, res, resCache, queueVars, born, buried, ops, faults>>

------------------------------------------------------------------------------
\* What a cluster owns.  The ProxmoxNodes are not among the kinds the
\* controller watches.
Watched == Range(Ensured)
Kinds   == Watched \cup {"nodes"}

\* One worker: main.go parses max-concurrent-reconciles and hands it to nobody.
Workers == 1

Running == {c \in Clusters : pass[c] # Nil}

\* The part of an owned object that the operator keeps up to date: ports and
\* selector of a service, the data of the ConfigMap, replicas and template of
\* the StatefulSet.
Content(k, s) ==
    IF k \in {"config", "statefulset"} THEN s.data ELSE "constant"

\* The part only its creation sets: the claim templates of the StatefulSet.
Fixed(k, s) == IF k = "statefulset" THEN s.claims ELSE "constant"

NewObject(uid, s) ==
    [uid |-> uid, gen |-> 1, spec |-> s, deleting |-> FALSE, fin |-> FALSE, seen |-> 0]

\* Mutant of NewOwned: no controller reference is set.
Mutant_NewOwnedUnowned(k, o) ==
    [owner |-> 0, data |-> Content(k, o.spec), fixed |-> Fixed(k, o.spec)]

\* Created with the pass's copy as the owner (SetControllerReference).
NewOwned(k, o) ==
    [owner |-> o.uid, data |-> Content(k, o.spec), fixed |-> Fixed(k, o.spec)]

Init ==
    /\ obj = [c \in Clusters |-> NewObject(1, FirstSpec[c])]
    /\ cache = [c \in Clusters |-> Nil]
    /\ res = [c \in Clusters |-> [k \in Kinds |-> Nil]]
    /\ resCache = res
    /\ queue = <<>> /\ again = {} /\ timer = {}
    /\ pass = [c \in Clusters |-> Nil]
    /\ born = [c \in Clusters |-> 1]
    /\ buried = [c \in Clusters |-> {}]
    /\ ops = [c \in Clusters |-> 0] /\ faults = 0

Fault == faults < MaxFaults /\ faults' = faults + 1

------------------------------------------------------------------------------
(* The work queue.                                                          *)

\* Mutant of Enqueue: a key whose pass is under way is not remembered.
Mutant_EnqueueBusyForgotten(c) ==
    /\ queue' = IF pass[c] # Nil \/ c \in Range(queue) THEN queue ELSE Append(queue, c)
    /\ UNCHANGED again

\* Add: a key that is waiting is not added twice; one whose pass is under way
\* is remembered for later.
Enqueue(c) ==
    /\ again' = IF pass[c] # Nil THEN again \cup {c} ELSE again
    /\ queue' = IF pass[c] # Nil \/ c \in Range(queue) THEN queue ELSE Append(queue, c)

\* A pass returns: with an error or RequeueAfter the key is added later; a key
\* woken in the meantime is added now.
Return(c, requeue) ==
    /\ pass' = [pass EXCEPT ![c] = Nil]
    /\ again' = again \ {c}
    /\ queue' = IF c \in again THEN Append(queue, c) ELSE queue
    /\ timer' = IF requeue THEN timer \cup {c} ELSE timer

GoTo(c, step) ==
    /\ pass' = [pass EXCEPT ![c].pc = step]
    /\ UNCHANGED <<queue, again, timer>>

TimerFires(c) ==
    /\ c \in timer
    /\ timer' = timer \ {c}
    /\ Enqueue(c)
    /\ UNCHANGED <<obj, cache, res, resCache, pass, born, buried, ops, faults>>

------------------------------------------------------------------------------
(* A pass.                                                                  *)

Validated(s) == IF s.ok THEN Ensured[1] ELSE "invalid"

\* Mutant of FirstStep: a cluster that cannot be built is released.
Mutant_FirstStepReleaseInvalid(o) ==
    IF o = Nil THEN "notFound"
    ELSE IF o.deleting \/ ~o.spec.ok THEN "removeFinalizer"
    ELSE IF ~o.fin THEN "addFinalizer"
    ELSE Validated(o.spec)

FirstStep(o) ==
    IF o = Nil THEN "notFound"
    ELSE IF o.deleting THEN "removeFinalizer"
    ELSE IF ~o.fin THEN "addFinalizer"
    ELSE Validated(o.spec)

\* What later steps use of the copy a pass begins with.
Copy(o) == IF o = Nil THEN Nil ELSE [uid |-> o.uid, gen |-> o.gen, spec |-> o.spec]

\* The worker takes the key at the head of the queue; steps 1 and 2.
Fetch(c) ==
    /\ Cardinality(Running) < Workers
    /\ queue # <<>> /\ Head(queue) = c
    /\ queue' = Tail(queue)
    /\ pass' = [pass EXCEPT ![c] = [pc |-> FirstStep(cache[c]), mem |-> Copy(cache[c])]]
    /\ UNCHANGED <<obj, cache, res, resCache, again, timer, born, buried, ops, faults>>

At(c, step) == pass[c] # Nil /\ pass[c].pc = step

Finalized(o) == o # Nil /\ o.fin

\* A write built on the cached object is accepted.
Current(c) == cache[c] # Nil /\ cache[c] = obj[c]

notFound(c) ==
    /\ At(c, "notFound")
    /\ Return(c, FALSE)
    /\ UNCHANGED <<obj, cache, res, resCache, born, buried, ops, faults>>

\* The finalizer is added to what the cache holds under the name by now; an
\* update from an old copy is refused (conflict, or not found).
addFinalizer(c) ==
    /\ At(c, "addFinalizer")
    /\ \/ /\ Finalized(cache[c])
          /\ GoTo(c, Validated(pass[c].mem.spec))
          /\ UNCHANGED obj
       \/ /\ ~Finalized(cache[c]) /\ Current(c)
          /\ obj' = [obj EXCEPT ![c].fin = TRUE]
          /\ GoTo(c, Validated(pass[c].mem.spec))
       \/ /\ ~Finalized(cache[c]) /\ ~Current(c)
          /\ Return(c, TRUE)
          /\ UNCHANGED obj
    /\ UNCHANGED <<cache, res, resCache, born, buried, ops, faults>>

\* Mutant of removeFinalizer: the pass goes on after the deletion.
Mutant_removeFinalizerGoesOn(c) ==
    /\ At(c, "removeFinalizer")
    /\ Finalized(cache[c]) /\ Current(c)
    /\ obj' = [obj EXCEPT ![c] = Nil]
    /\ buried' = [buried EXCEPT ![c] = @ \cup {obj[c].uid}]
    /\ GoTo(c, Validated(pass[c].mem.spec))
    /\ UNCHANGED <<cache, res, resCache, born, ops, faults>>

\* reconcileDelete.  An object marked for deletion goes with its finalizer.
removeFinalizer(c) ==
    /\ At(c, "removeFinalizer")
    /\ \/ /\ ~Finalized(cache[c])
          /\ Return(c, FALSE)
          /\ UNCHANGED <<obj, buried>>
       \/ /\ Finalized(cache[c]) /\ Current(c)
          /\ obj' = [obj EXCEPT ![c] = IF @.deleting THEN Nil ELSE [@ EXCEPT !.fin = FALSE]]
          /\ buried' = [buried EXCEPT ![c] = @ \cup {obj[c].uid}]
          /\ Return(c, FALSE)
       \/ /\ Finalized(cache[c]) /\ ~Current(c)
          /\ Return(c, TRUE)
          /\ UNCHANGED <<obj, buried>>
    /\ UNCHANGED <<cache, res, resCache, born, ops, faults>>

Position(k) == CHOOSE n \in 1..Len(Ensured) : Ensured[n] = k

AfterEnsured(k) ==
    IF Position(k) = Len(Ensured) THEN "status" ELSE Ensured[Position(k) + 1]

\* ensureService, ensureConfigMap, ensureStatefulSet: created if the cache has
\* none, else merge-patched.  The patch is the difference between the cached
\* copy and the wanted one, names the object and not its UID, and leaves the
\* owner alone.  Creating one that exists or patching one that is gone is an
\* error, except that a ConfigMap whose cached copy is right is not patched.
ensure(c, k) ==
    LET o      == pass[c].mem
        cached == resCache[c][k]
        same   == cached.data = Content(k, o.spec)
    IN  /\ At(c, k)
        /\ \/ /\ cached = Nil /\ res[c][k] = Nil
              /\ res' = [res EXCEPT ![c][k] = NewOwned(k, o)]
              /\ GoTo(c, AfterEnsured(k))
           \/ /\ cached # Nil /\ same
              /\ k = "config" \/ res[c][k] # Nil
              /\ GoTo(c, AfterEnsured(k))
              /\ UNCHANGED res
           \/ /\ cached # Nil /\ ~same /\ res[c][k] # Nil
              /\ res' = [res EXCEPT ![c][k].data = Content(k, o.spec)]
              /\ GoTo(c, AfterEnsured(k))
           \/ /\ \/ cached = Nil /\ res[c][k] # Nil
                 \/ cached # Nil /\ res[c][k] = Nil /\ ~(k = "config" /\ same)
              /\ Return(c, TRUE)
              /\ UNCHANGED res
        /\ UNCHANGED <<obj, cache, resCache, born, buried, ops, faults>>

\* updateStatus: the status computed from the pass's copy is written to what
\* the cache holds under the name by now.
StatusWritten(c) ==
    /\ Current(c)
    /\ obj' = [obj EXCEPT ![c].seen = pass[c].mem.gen]

StatusRefused(c) ==
    /\ ~Current(c)
    /\ UNCHANGED obj

\* Step 3: an invalid spec is reported and not requeued.
reportInvalid(c) ==
    /\ At(c, "invalid")
    /\ \/ StatusWritten(c) /\ Return(c, FALSE)
       \/ StatusRefused(c) /\ Return(c, TRUE)
    /\ UNCHANGED <<cache, res, resCache, born, buried, ops, faults>>

\* Steps 7 to 11 as this module sees them: whatever was waited for or run, a
\* status write ends the pass.
updateStatus(c) ==
    /\ At(c, "status")
    /\ StatusWritten(c) \/ StatusRefused(c)
    /\ GoTo(c, "nodes")
    /\ UNCHANGED <<cache, res, resCache, born, buried, ops, faults>>

\* Mutant of reconcileNodes: a cluster that is ready is not requeued.
Mutant_reconcileNodesRests(c) ==
    /\ At(c, "nodes")
    /\ res' = [res EXCEPT ![c]["nodes"] =
                   IF resCache[c]["nodes"] = Nil /\ @ = Nil
                   THEN NewOwned("nodes", pass[c].mem) ELSE @]
    /\ Return(c, FALSE)
    /\ UNCHANGED <<obj, cache, resCache, born, buried, ops, faults>>

\* The deferred reconcileNodes, which fails no pass, and the return: after an
\* error or with RequeueAfter, the key is due again.
reconcileNodes(c) ==
    /\ At(c, "nodes")
    /\ res' = [res EXCEPT ![c]["nodes"] =
                   IF resCache[c]["nodes"] = Nil /\ @ = Nil
                   THEN NewOwned("nodes", pass[c].mem) ELSE @]
    /\ Return(c, TRUE)
    /\ UNCHANGED <<obj, cache, resCache, born, buried, ops, faults>>

\* A call to the API server fails and the error ends the pass.
APIError(c) ==
    /\ pass[c] # Nil /\ pass[c].pc # "notFound"
    /\ Fault
    /\ Return(c, TRUE)
    /\ UNCHANGED <<obj, cache, res, resCache, born, buried, ops>>

PassStep(c) ==
    \/ notFound(c) \/ addFinalizer(c) \/ removeFinalizer(c)
    \/ \E k \in Watched : ensure(c, k)
    \/ reportInvalid(c) \/ updateStatus(c) \/ reconcileNodes(c)

------------------------------------------------------------------------------
(* The informers, Kubernetes, users and failures.                           *)

\* For: every change of a ProxmoxCluster wakes its key.
CacheSync(c) ==
    /\ cache[c] # obj[c]
    /\ cache' = [cache EXCEPT ![c] = obj[c]]
    /\ Enqueue(c)
    /\ UNCHANGED <<obj, res, resCache, timer, pass, born, buried, ops, faults>>

\* Owns: every change of a watched object wakes the key its owner reference
\* names, whichever UID the reference holds.  ProxmoxNodes wake nobody.
OwnedCacheSync(c, k) ==
    /\ resCache[c][k] # res[c][k]
    /\ resCache' = [resCache EXCEPT ![c][k] = res[c][k]]
    /\ IF k \in Watched THEN Enqueue(c) ELSE UNCHANGED <<queue, again>>
    /\ UNCHANGED <<obj, cache, res, timer, pass, born, buried, ops, faults>>

Lives(c, uid) == obj[c] # Nil /\ obj[c].uid = uid

\* An object whose owner's UID is gone is collected.
GarbageCollect(c, k) ==
    /\ res[c][k] # Nil
    /\ ~Lives(c, res[c][k].owner)
    /\ res' = [res EXCEPT ![c][k] = Nil]
    /\ UNCHANGED <<obj, cache, resCache, queueVars, born, buried, ops, faults>>

UserActs(c) == ops[c] < MaxOps[c] /\ ops' = [ops EXCEPT ![c] = @ + 1]

UserCreates(c, s) ==
    /\ UserActs(c)
    /\ obj[c] = Nil
    /\ obj' = [obj EXCEPT ![c] = NewObject(born[c] + 1, s)]
    /\ born' = [born EXCEPT ![c] = @ + 1]
    /\ UNCHANGED <<cache, res, resCache, queueVars, buried, faults>>

\* Every change of the spec is a new generation, and so is the deletion.
Edited(o, s) == [o EXCEPT !.spec = s, !.gen = o.gen + 1]
Condemned(o) == [o EXCEPT !.deleting = TRUE, !.gen = o.gen + 1]

UserEdits(c, s) ==
    /\ UserActs(c)
    /\ obj[c] # Nil /\ obj[c].spec # s
    /\ obj' = [obj EXCEPT ![c] = Edited(@, s)]
    /\ UNCHANGED <<cache, res, resCache, queueVars, born, buried, faults>>

UserDeletes(c) ==
    /\ UserActs(c)
    /\ obj[c] # Nil /\ ~obj[c].deleting
    /\ obj' = [obj EXCEPT ![c] = IF @.fin THEN Condemned(@) ELSE Nil]
    /\ UNCHANGED <<cache, res, resCache, queueVars, born, buried, faults>>

\* The keys that the lists of a starting operator name.
Listed == {c \in Clusters : obj[c] # Nil \/ \E k \in Watched : res[c][k] # Nil}

\* The process dies, or loses the lease and exits; its successor fills its
\* caches before the worker starts, and the lists wake every key they name.
OperatorRestarts ==
    /\ Fault
    /\ cache' = obj /\ resCache' = res
    /\ pass' = [c \in Clusters |-> Nil]
    /\ again' = {} /\ timer' = {}
    /\ \E q \in UNION {[1..n -> Clusters] : n \in 0..Cardinality(Clusters)} :
           /\ IsInjective(q) /\ Range(q) = Listed
           /\ queue' = q
    /\ UNCHANGED <<obj, res, born, buried, ops>>

Operator(c)   == Fetch(c) \/ PassStep(c) \/ APIError(c) \/ TimerFires(c)
Kubernetes(c) == CacheSync(c) \/ \E k \in Kinds : OwnedCacheSync(c, k) \/ GarbageCollect(c, k)
User(c)       == \/ UserDeletes(c)
                 \/ \E s \in Specs : UserCreates(c, s) \/ UserEdits(c, s)

Next ==
    \/ \E c \in Clusters : Operator(c) \/ Kubernetes(c) \/ User(c)
    \/ OperatorRestarts

Spec == Init /\ [][Next]_vars

\* The worker goes on while there are keys, and every pass ends (the scripts it
\* runs come to an end); timers fire; the watch on the clusters delivers, and
\* so do the other watches and the garbage collector between them.
Fairness ==
    /\ WF_vars(\E c \in Clusters : Fetch(c) \/ PassStep(c))
    /\ \A c \in Clusters : WF_vars(TimerFires(c))
    /\ WF_vars(\E c \in Clusters : CacheSync(c))
    /\ WF_vars(\E c \in Clusters, k \in Kinds : OwnedCacheSync(c, k) \/ GarbageCollect(c, k))

FairSpec == Spec /\ Fairness

------------------------------------------------------------------------------
UIDs == Nat \ {0}

Objects == [uid : UIDs, gen : Nat, spec : Specs, deleting : BOOLEAN, fin : BOOLEAN, seen : Nat]

Copies == [uid : UIDs, gen : Nat, spec : Specs]

Owned == [owner : UIDs,
          data  : {"constant"} \cup {s.data : s \in Specs},
          fixed : {"constant"} \cup {s.claims : s \in Specs}]

Steps == Watched \cup {"notFound", "addFinalizer", "removeFinalizer", "invalid",
                       "status", "nodes"}

Passes == [pc : Steps, mem : Copies \cup {Nil}]

\* What is not there differs from everything that is.
ASSUME NilAssumption == Nil \notin Objects \cup Copies \cup Owned \cup Passes

TypeOK ==
    /\ obj \in [Clusters -> Objects \cup {Nil}]
    /\ cache \in [Clusters -> Objects \cup {Nil}]
    /\ res \in [Clusters -> [Kinds -> Owned \cup {Nil}]]
    /\ resCache \in [Clusters -> [Kinds -> Owned \cup {Nil}]]
    /\ queue \in Seq(Clusters)
    /\ again \subseteq Clusters
    /\ timer \subseteq Clusters
    /\ pass \in [Clusters -> Passes \cup {Nil}]
    /\ born \in [Clusters -> Nat]
    /\ buried \in [Clusters -> SUBSET UIDs]
    /\ ops \in [Clusters -> Nat] /\ \A c \in Clusters : ops[c] <= MaxOps[c]
    /\ faults \in 0..MaxFaults

\* No pass acts for a cluster whose finalizer has been removed: neither a
\* stale copy, nor a key that was woken late, nor an object created again
\* under the name makes the operator ensure anything for the old one.
NoPassForTheBuried ==
    \A c \in Clusters :
        (pass[c] # Nil /\ pass[c].pc \in Kinds \cup {"status", "invalid"}) =>
            pass[c].mem.uid \notin buried[c]

\* The finalizer is taken only from an object that is being deleted.  The
\* code removes it from whatever the cache holds under the name when it gets
\* there, without looking at the UID or the deletion timestamp again.
FinalizerGuardsTheLiving ==
    [][\A c \in Clusters :
           (obj[c] # Nil /\ obj[c].fin /\ (obj[c]' = Nil \/ ~obj[c]'.fin)) => obj[c].deleting]_vars

\* A cluster and what it owns as they should be: everything of the present
\* incarnation and in accordance with its spec, nothing of an earlier one.
Settled(c) ==
    IF obj[c] = Nil THEN \A k \in Kinds : res[c][k] = Nil
    ELSE /\ ~obj[c].deleting /\ obj[c].fin /\ obj[c].seen = obj[c].gen
         /\ \A k \in Kinds : res[c][k] # Nil => res[c][k].owner = obj[c].uid
         /\ obj[c].spec.ok =>
                \A k \in Kinds :
                    /\ res[c][k] # Nil
                    /\ res[c][k].data = Content(k, obj[c].spec)
                    /\ obj[c].gen = 1 => res[c][k].fixed = Fixed(k, obj[c].spec)

\* Nobody is going to look at the cluster: no pass is under way, owed or due
\* after a delay, the watch on it has delivered its last change, and there is
\* nothing of it to collect.
Quiet(c) ==
    /\ pass[c] = Nil /\ c \notin Range(queue) \cup again \cup timer
    /\ cache[c] = obj[c]
    /\ \A k \in Kinds : res[c][k] # Nil => Lives(c, res[c][k].owner)

\* No cluster is forgotten: whatever conflicts, failures, restarts and changes
\* of the name's owner came in between, the operator leaves one alone only
\* when there is nothing left to do for it.  That rests on what each return of
\* Reconcile requeues and on the watch on the clusters alone: a change of an
\* owned object that has not been delivered counts as no wake-up here, and of
\* the ProxmoxNodes, which nothing watches, an old incarnation's are collected
\* after the pass that took them for its own.
QuietMeansSettled == \A c \in Clusters : Quiet(c) => Settled(c)

\* When users and failures have stopped, every cluster settles: what a new
\* incarnation found of the old one and patched as its own is collected and
\* made again, a patch against an old copy is made up for, a verdict on an old
\* spec does not stick, what a deleted cluster leaves is collected, and no
\* cluster is kept from its pass by another that keeps waking itself.
ClustersSettle == <>[](\A c \in Clusters : Settled(c))
=============================================================================
