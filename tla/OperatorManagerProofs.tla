----------------------- MODULE OperatorManagerProofs ------------------------
(***************************************************************************)
(* Proofs about OperatorManager for any number of clusters, specs, user    *)
(* operations and failures.                                                *)
(***************************************************************************)
EXTENDS OperatorManager, FiniteSetTheorems, TLAPS

------------------------------------------------------------------------------
(* Invariants.                                                              *)

Distinct(q) == \A i, j \in 1..Len(q) : q[i] = q[j] => i = j

\* The work queue: no key waits twice, none waits while it is being worked
\* on, and only such a key can be woken again.
QueueSound ==
    /\ Distinct(queue)
    /\ \A c \in Range(queue) : pass[c] = Nil
    /\ \A c \in again : pass[c] # Nil

\* The work queue's part of the type invariant, and that every pass that
\* found its cluster holds a copy of it.
WorkType ==
    /\ queue \in Seq(Clusters)
    /\ again \subseteq Clusters
    /\ timer \subseteq Clusters
    /\ pass \in [Clusters -> Passes \cup {Nil}]
    /\ \A c \in Clusters : (pass[c] # Nil /\ pass[c].pc # "notFound") => pass[c].mem # Nil

WorkInv == WorkType /\ QueueSound

\* One cluster, over the lives of its name: o and p are the stored and the
\* cached object, w the pass, b the number of objects created, d the UIDs
\* that went with their finalizer.
UIDsKnown(o, p, w, b, d) ==
    /\ \A u \in d : u <= b
    /\ o # Nil => o.uid <= b /\ o.uid \notin d
    /\ p # Nil => p.uid <= b
    /\ (w # Nil /\ w.mem # Nil) => w.mem.uid <= b

\* The cache knows of the deletion before the finalizer goes, the store keeps
\* what the cache knows, and a finalizer is put only on an object the cache
\* has seen.
DeletionSeen(o, p, d) ==
    /\ (p # Nil /\ p.uid \in d) => p.deleting
    /\ (o # Nil /\ p # Nil /\ o.uid = p.uid /\ p.deleting) => o.deleting
    /\ (o # Nil /\ o.fin) => (p # Nil /\ p.uid = o.uid)

\* A pass that ensures anything is for an object that is not buried.  While
\* one removes a finalizer, any other object under the name has none.
Harmless(x, uid) == x # Nil => IF x.uid = uid THEN x.deleting ELSE ~x.fin

PassSound(o, p, w, d) ==
    w # Nil =>
        /\ w.pc # "notFound" => w.mem # Nil
        /\ w.pc \notin {"notFound", "removeFinalizer"} => w.mem.uid \notin d
        /\ w.pc = "removeFinalizer" => Harmless(o, w.mem.uid) /\ Harmless(p, w.mem.uid)

LifeSound(o, p, w, b, d) ==
    UIDsKnown(o, p, w, b, d) /\ DeletionSeen(o, p, d) /\ PassSound(o, p, w, d)

LivesSound ==
    \A c \in Clusters : LifeSound(obj[c], cache[c], pass[c], born[c], buried[c])

------------------------------------------------------------------------------
(* Types.                                                                   *)

LEMMA EnsuredFacts ==
    /\ Len(Ensured) \in Nat \ {0}
    /\ Ensured \in [1..Len(Ensured) -> EnsuredKinds]
    /\ Watched = {Ensured[n] : n \in 1..Len(Ensured)}
    /\ \A n \in 1..Len(Ensured) : Ensured[n] \in Watched
<1>1. Ensured \in Seq(EnsuredKinds) /\ Ensured # <<>>
  BY ManagerAssumption
<1>2. Len(Ensured) \in Nat /\ DOMAIN Ensured = 1..Len(Ensured)
      /\ Ensured \in [1..Len(Ensured) -> EnsuredKinds]
  BY <1>1
<1>3. Len(Ensured) # 0
  BY <1>1
<1> QED
  BY <1>2, <1>3 DEF Watched, Range

\* After an owned object comes the next one, or the status.
LEMMA NextStepType ==
    ASSUME NEW k \in Watched
    PROVE  AfterEnsured(k) \in Watched \cup {"status"}
<1>1. \E n \in 1..Len(Ensured) : Ensured[n] = k
  BY EnsuredFacts
<1>2. Position(k) \in 1..Len(Ensured)
  BY <1>1 DEF Position
<1> HIDE DEF Position
<1>3. CASE Position(k) = Len(Ensured)
  BY <1>3 DEF AfterEnsured
<1>4. CASE Position(k) # Len(Ensured)
  <2>1. Position(k) + 1 \in 1..Len(Ensured)
    <3>1. \A l \in Nat : \A p \in 1..l : p # l => p + 1 \in 1..l
      OBVIOUS
    <3>2. Len(Ensured) \in Nat
      BY EnsuredFacts
    <3> QED
      BY <1>2, <1>4, <3>1, <3>2
  <2> QED
    BY <1>4, <2>1, EnsuredFacts DEF AfterEnsured
<1> QED
  BY <1>3, <1>4

LEMMA FirstStepsType ==
    /\ \A s : Validated(s) \in Watched \cup {"invalid"}
    /\ \A o : FirstStep(o) \in Steps
<1>1. Ensured[1] \in Watched
  BY EnsuredFacts
<1> QED
  BY <1>1 DEF Validated, FirstStep, Steps

\* What a pass creates has the type of an owned object, and can be patched.
LEMMA OwnedType ==
    ASSUME NEW k \in Kinds, NEW o \in Copies
    PROVE  /\ NewOwned(k, o) \in Owned
           /\ \A r \in Owned : [r EXCEPT !.data = Content(k, o.spec)] \in Owned
<1>1. o.uid \in UIDs /\ o.spec \in Specs
  BY DEF Copies
<1>2. /\ Content(k, o.spec) \in {"constant"} \cup {s.data : s \in Specs}
      /\ Fixed(k, o.spec) \in {"constant"} \cup {s.claims : s \in Specs}
  BY <1>1 DEF Content, Fixed
<1> QED
  BY <1>1, <1>2 DEF NewOwned, Owned

LEMMA CopyType ==
    ASSUME NEW o \in Objects \cup {Nil}
    PROVE  Copy(o) \in Copies \cup {Nil}
BY DEF Copy, Copies, Objects

------------------------------------------------------------------------------
(* The work queue.                                                          *)

LEMMA QueueRange ==
    ASSUME NEW q \in Seq(Clusters)
    PROVE  Range(q) = {q[i] : i \in 1..Len(q)}
<1>1. DOMAIN q = 1..Len(q)
  OBVIOUS
<1> QED
  BY <1>1 DEF Range

LEMMA QueueAppend ==
    ASSUME NEW q \in Seq(Clusters), NEW c \in Clusters
    PROVE  /\ Append(q, c) \in Seq(Clusters)
           /\ Range(Append(q, c)) = Range(q) \cup {c}
           /\ (Distinct(q) /\ c \notin Range(q)) => Distinct(Append(q, c))
<1>1. /\ Append(q, c) \in Seq(Clusters) /\ Len(q) \in Nat
      /\ Len(Append(q, c)) = Len(q) + 1
      /\ \A i \in 1..Len(q) : Append(q, c)[i] = q[i]
      /\ Append(q, c)[Len(q) + 1] = c
  OBVIOUS
<1>2. /\ Range(q) = {q[i] : i \in 1..Len(q)}
      /\ Range(Append(q, c)) = {Append(q, c)[i] : i \in 1..Len(q) + 1}
  BY <1>1 DEF Range
<1>3. 1..Len(q) + 1 = (1..Len(q)) \cup {Len(q) + 1}
  BY <1>1
<1>4. Range(Append(q, c)) = Range(q) \cup {c}
  BY <1>1, <1>2, <1>3
<1>5. ASSUME Distinct(q), c \notin Range(q) PROVE Distinct(Append(q, c))
  BY <1>1, <1>2, <1>3, <1>5 DEF Distinct
<1> QED
  BY <1>1, <1>4, <1>5

LEMMA QueueTail ==
    ASSUME NEW q \in Seq(Clusters), q # <<>>, Distinct(q)
    PROVE  /\ Head(q) \in Clusters /\ Head(q) \in Range(q)
           /\ Tail(q) \in Seq(Clusters) /\ Distinct(Tail(q))
           /\ Range(Tail(q)) = Range(q) \ {Head(q)}
<1>1. /\ Len(q) \in Nat \ {0} /\ Head(q) = q[1] /\ Head(q) \in Clusters
      /\ Tail(q) \in Seq(Clusters) /\ Len(Tail(q)) = Len(q) - 1
      /\ \A i \in 1..Len(q) - 1 : Tail(q)[i] = q[i + 1]
  OBVIOUS
<1>2. /\ Range(q) = {q[i] : i \in 1..Len(q)}
      /\ Range(Tail(q)) = {Tail(q)[i] : i \in 1..Len(q) - 1}
  BY <1>1, QueueRange
<1>3. Distinct(Tail(q))
  BY <1>1 DEF Distinct
<1>4. Range(Tail(q)) = Range(q) \ {Head(q)}
  <2>1. ASSUME NEW x \in Range(Tail(q)) PROVE x \in Range(q) \ {Head(q)}
    <3>1. PICK i \in 1..Len(q) - 1 : x = q[i + 1]
      BY <1>1, <1>2
    <3>2. i + 1 \in 1..Len(q) /\ i + 1 # 1 /\ 1 \in 1..Len(q)
      BY <1>1
    <3> QED
      BY <1>1, <1>2, <3>1, <3>2 DEF Distinct
  <2>2. ASSUME NEW x \in Range(q), x # Head(q) PROVE x \in Range(Tail(q))
    <3>1. PICK i \in 1..Len(q) : x = q[i]
      BY <1>2
    <3>2. i - 1 \in 1..Len(q) - 1 /\ (i - 1) + 1 = i
      BY <1>1, <2>2, <3>1
    <3>3. Tail(q)[i - 1] = x
      BY <1>1, <3>1, <3>2
    <3> QED
      BY <1>2, <3>2, <3>3
  <2> QED
    BY <2>1, <2>2
<1> QED
  BY <1>1, <1>2, <1>3, <1>4

\* Waking a key.
LEMMA EnqueueEffect ==
    ASSUME WorkInv, NEW c \in Clusters, Enqueue(c), pass' = pass,
           timer' \subseteq Clusters
    PROVE  WorkInv'
<1>1. /\ Append(queue, c) \in Seq(Clusters)
      /\ Range(Append(queue, c)) = Range(queue) \cup {c}
      /\ c \notin Range(queue) => Distinct(Append(queue, c))
  BY QueueAppend DEF WorkInv, WorkType, QueueSound
<1>2. CASE pass[c] # Nil
  BY <1>2 DEF Enqueue, WorkInv, WorkType, QueueSound
<1>3. CASE pass[c] = Nil /\ c \in Range(queue)
  BY <1>3 DEF Enqueue, WorkInv, WorkType, QueueSound
<1>4. CASE pass[c] = Nil /\ c \notin Range(queue)
  <2>1. queue' = Append(queue, c) /\ again' = again
    BY <1>4 DEF Enqueue
  <2> QED
    BY <1>1, <1>4, <2>1 DEF WorkInv, WorkType, QueueSound
<1> QED
  BY <1>2, <1>3, <1>4

\* The end of a pass.
LEMMA ReturnEffect ==
    ASSUME WorkInv, NEW c \in Clusters, pass[c] # Nil, NEW r, Return(c, r)
    PROVE  WorkInv' /\ pass' = [pass EXCEPT ![c] = Nil]
<1>1. /\ Append(queue, c) \in Seq(Clusters)
      /\ Range(Append(queue, c)) = Range(queue) \cup {c}
      /\ c \notin Range(queue) => Distinct(Append(queue, c))
  BY QueueAppend DEF WorkInv, WorkType, QueueSound
<1>2. c \notin Range(queue)
  BY DEF WorkInv, QueueSound
<1>3. /\ pass' \in [Clusters -> Passes \cup {Nil}] /\ pass'[c] = Nil
      /\ \A d \in Clusters \ {c} : pass'[d] = pass[d]
      /\ timer' \subseteq Clusters /\ again' = again \ {c}
  BY DEF Return, WorkInv, WorkType
<1>4. CASE c \in again
  <2>1. queue' = Append(queue, c)
    BY <1>4 DEF Return
  <2> QED
    BY <1>1, <1>2, <1>3, <1>4, <2>1 DEF Return, WorkInv, WorkType, QueueSound
<1>5. CASE c \notin again
  <2>1. queue' = queue
    BY <1>5 DEF Return
  <2> QED
    BY <1>2, <1>3, <1>5, <2>1 DEF Return, WorkInv, WorkType, QueueSound
<1> QED
  BY <1>4, <1>5

\* The next step of a pass.
LEMMA GoToEffect ==
    ASSUME WorkInv, NEW c \in Clusters, pass[c] # Nil, pass[c].pc # "notFound",
           NEW step \in Steps, step # "notFound", GoTo(c, step)
    PROVE  WorkInv' /\ pass' = [pass EXCEPT ![c] = [pc |-> step, mem |-> pass[c].mem]]
<1>1. pass[c] \in Passes /\ pass[c].mem # Nil
  BY DEF WorkInv, WorkType
<1>2. pass' = [pass EXCEPT ![c] = [pc |-> step, mem |-> pass[c].mem]]
  <2>1. [pass[c] EXCEPT !.pc = step] = [pc |-> step, mem |-> pass[c].mem]
    BY <1>1 DEF Passes
  <2>2. pass' = [pass EXCEPT ![c] = [pass[c] EXCEPT !.pc = step]]
    BY DEF GoTo
  <2> QED
    BY <2>1, <2>2
<1>3. [pc |-> step, mem |-> pass[c].mem] \in Passes
  BY <1>1 DEF Passes
<1>4. [pc |-> step, mem |-> pass[c].mem] # Nil
  BY <1>3, NilAssumption
<1>5. /\ pass' \in [Clusters -> Passes \cup {Nil}]
      /\ pass'[c] = [pc |-> step, mem |-> pass[c].mem]
      /\ \A d \in Clusters \ {c} : pass'[d] = pass[d]
  BY <1>2, <1>3 DEF WorkInv, WorkType
<1>6. \A d \in Clusters : (pass'[d] # Nil) <=> (pass[d] # Nil)
  BY <1>4, <1>5
<1>7. queue' = queue /\ again' = again /\ timer' = timer
  BY DEF GoTo
<1>8. WorkType'
  BY <1>1, <1>5, <1>7 DEF WorkInv, WorkType
<1>9. Range(queue) \subseteq Clusters
  BY DEF WorkInv, WorkType, Range
<1> QED
  BY <1>2, <1>6, <1>7, <1>8, <1>9 DEF WorkInv, WorkType, QueueSound

\* The begin of a pass.
LEMMA FetchEffect ==
    ASSUME WorkInv, NEW c \in Clusters, Fetch(c), cache[c] \in Objects \cup {Nil}
    PROVE  WorkInv'
<1> DEFINE w == [pc |-> FirstStep(cache[c]), mem |-> Copy(cache[c])]
<1>1. w \in Passes
  BY FirstStepsType, CopyType DEF Passes
<1>2. w.pc # "notFound" => w.mem # Nil
  <2>1. ASSUME cache[c] # Nil PROVE Copy(cache[c]) # Nil
    <3>1. Copy(cache[c]) \in Copies
      BY <2>1 DEF Copy, Copies, Objects
    <3> QED
      BY <3>1, NilAssumption
  <2> QED
    BY <2>1 DEF FirstStep
<1>3. w # Nil
  BY <1>1, NilAssumption
<1>4. /\ c \in Clusters /\ c \in Range(queue)
      /\ queue' \in Seq(Clusters) /\ Distinct(queue') /\ Range(queue') = Range(queue) \ {c}
  BY QueueTail DEF Fetch, WorkInv, WorkType, QueueSound
<1>5. /\ pass' = [pass EXCEPT ![c] = w] /\ again' = again /\ timer' = timer
  BY DEF Fetch
<1> HIDE DEF w
<1>6. /\ pass' \in [Clusters -> Passes \cup {Nil}] /\ pass'[c] = w
      /\ \A d \in Clusters \ {c} : pass'[d] = pass[d]
  BY <1>1, <1>5 DEF WorkInv, WorkType
<1>7. WorkType'
  BY <1>2, <1>4, <1>5, <1>6 DEF WorkInv, WorkType
<1>8. Range(queue) \subseteq Clusters /\ again \subseteq Clusters
  BY DEF WorkInv, WorkType, Range
<1>9. QueueSound'
  BY <1>3, <1>4, <1>5, <1>6, <1>8 DEF WorkInv, QueueSound
<1> QED
  BY <1>7, <1>9 DEF WorkInv

\* The steps of a pass have names of their own; none leads back to the first.
Onward == Steps \ {"notFound", "removeFinalizer"}

LEMMA StepNames ==
    /\ \A k \in Watched : AfterEnsured(k) \in Onward
    /\ \A x : Validated(x) \in Onward
    /\ Watched \cup {"addFinalizer", "status", "nodes"} \subseteq Onward
<1>1. /\ Watched \subseteq EnsuredKinds
      /\ "notFound" \notin EnsuredKinds /\ "removeFinalizer" \notin EnsuredKinds
  BY EnsuredFacts DEF EnsuredKinds, ServiceKinds
<1>2. \A k \in Watched : AfterEnsured(k) \in Watched \cup {"status"}
  BY NextStepType
<1>3. \A x : Validated(x) \in Watched \cup {"invalid"}
  BY FirstStepsType
<1> QED
  BY <1>1, <1>2, <1>3 DEF Steps, Onward

\* Only a spec that is not accepted leads to the report of an invalid one.
LEMMA VerdictNames ==
    /\ \A x : Validated(x) = "invalid" => ~x.ok
    /\ \A k \in Watched : k \notin {"invalid", "addFinalizer"} /\ AfterEnsured(k) # "invalid"
<1>1. /\ Watched \subseteq EnsuredKinds
      /\ "invalid" \notin EnsuredKinds /\ "addFinalizer" \notin EnsuredKinds
  BY EnsuredFacts DEF EnsuredKinds, ServiceKinds
<1>2. Ensured[1] \in Watched
  BY EnsuredFacts
<1>3. \A k \in Watched : AfterEnsured(k) \in Watched \cup {"status"}
  BY NextStepType
<1> QED
  BY <1>1, <1>2, <1>3 DEF Validated

\* A step of a pass that is under way ends it or leads to its next step.
EndsPass(c) == pass' = [pass EXCEPT ![c] = Nil]

GoesOn(c) ==
    /\ pass[c] # Nil /\ pass[c].pc \in Onward
    /\ \E step \in Onward :
           pass' = [pass EXCEPT ![c] = [pc |-> step, mem |-> pass[c].mem]]

LEMMA ReturnEnds ==
    ASSUME WorkInv, NEW c \in Clusters, pass[c] # Nil, NEW r, Return(c, r)
    PROVE  WorkInv' /\ EndsPass(c)
BY ReturnEffect DEF EndsPass

LEMMA GoToGoesOn ==
    ASSUME WorkInv, NEW c \in Clusters, pass[c] # Nil, pass[c].pc \in Onward,
           NEW step \in Onward, GoTo(c, step)
    PROVE  WorkInv' /\ GoesOn(c)
<1>1. /\ WorkInv'
      /\ pass' = [pass EXCEPT ![c] = [pc |-> step, mem |-> pass[c].mem]]
  BY GoToEffect DEF Onward
<1> QED
  BY <1>1 DEF GoesOn

LEMMA PassStepWork ==
    ASSUME WorkInv, NEW c \in Clusters, PassStep(c) \/ APIError(c)
    PROVE  WorkInv' /\ (EndsPass(c) \/ GoesOn(c))
<1>1. CASE notFound(c) \/ APIError(c)
  <2>1. pass[c] # Nil /\ \E r : Return(c, r)
    BY <1>1 DEF notFound, APIError, At
  <2> QED
    BY <2>1, ReturnEnds
<1>2. CASE addFinalizer(c)
  <2>1. /\ pass[c] # Nil /\ pass[c].pc \in Onward
        /\ (\E r : Return(c, r)) \/ GoTo(c, Validated(pass[c].mem.spec))
    BY <1>2, StepNames DEF addFinalizer, At
  <2>2. Validated(pass[c].mem.spec) \in Onward
    BY StepNames
  <2> QED
    BY <2>1, <2>2, ReturnEnds, GoToGoesOn
<1>3. CASE removeFinalizer(c) \/ reportInvalid(c)
  <2>1. pass[c] # Nil /\ \E r : Return(c, r)
    BY <1>3 DEF removeFinalizer, reportInvalid, At
  <2> QED
    BY <2>1, ReturnEnds
<1>4. ASSUME NEW k \in Watched, ensure(c, k)
      PROVE  WorkInv' /\ (EndsPass(c) \/ GoesOn(c))
  <2>1. /\ pass[c] # Nil /\ pass[c].pc = k
        /\ (\E r : Return(c, r)) \/ GoTo(c, AfterEnsured(k))
    BY <1>4 DEF ensure, At
  <2>2. AfterEnsured(k) \in Onward /\ k \in Onward
    BY StepNames
  <2> QED
    BY <2>1, <2>2, ReturnEnds, GoToGoesOn
<1>5. CASE updateStatus(c)
  <2>1. pass[c] # Nil /\ pass[c].pc \in Onward /\ GoTo(c, "nodes")
    BY <1>5, StepNames DEF updateStatus, At
  <2> QED
    BY <2>1, StepNames, GoToGoesOn
<1>6. CASE reconcileNodes(c)
  <2>1. pass[c] # Nil /\ Return(c, TRUE)
    BY <1>6 DEF reconcileNodes, At
  <2> QED
    BY <2>1, ReturnEnds
<1> QED
  BY <1>1, <1>2, <1>3, <1>4, <1>5, <1>6 DEF PassStep

\* A restart.
LEMMA RestartWork ==
    ASSUME OperatorRestarts
    PROVE  WorkInv' /\ Range(queue') = Listed
<1>1. PICK q \in UNION {[1..n -> Clusters] : n \in 0..Cardinality(Clusters)} :
          IsInjective(q) /\ Range(q) = Listed /\ queue' = q
  BY DEF OperatorRestarts
<1>2. PICK n \in 0..Cardinality(Clusters) : q \in [1..n -> Clusters]
  BY <1>1
<1>3. n \in Nat
  BY <1>2, FS_CardinalityType, ManagerAssumption
<1>4. q \in Seq(Clusters) /\ Len(q) = n
  BY <1>2, <1>3
<1>5. Distinct(q)
  BY <1>1, <1>2, <1>4 DEF Distinct, IsInjective
<1>6. /\ pass' = [c \in Clusters |-> Nil] /\ again' = {} /\ timer' = {}
  BY DEF OperatorRestarts
<1>7. Listed \subseteq Clusters
  BY DEF Listed
<1> QED
  BY <1>1, <1>4, <1>5, <1>6, <1>7 DEF WorkInv, WorkType, QueueSound

\* Every step keeps the work queue sound.
LEMMA WorkStep ==
    ASSUME TypeOK, WorkInv, [Next]_vars
    PROVE  WorkInv'
<1>1. ASSUME NEW c \in Clusters, Fetch(c) PROVE WorkInv'
  <2>1. cache[c] \in Objects \cup {Nil}
    BY DEF TypeOK
  <2> QED
    BY <1>1, <2>1, FetchEffect
<1>2. ASSUME NEW c \in Clusters, PassStep(c) \/ APIError(c) PROVE WorkInv'
  BY <1>2, PassStepWork
<1>3. ASSUME NEW c \in Clusters, TimerFires(c) \/ CacheSync(c) PROVE WorkInv'
  <2>1. Enqueue(c) /\ pass' = pass /\ timer' \subseteq Clusters
    BY <1>3 DEF TimerFires, CacheSync, TypeOK
  <2> QED
    BY <2>1, EnqueueEffect
<1>4. ASSUME NEW c \in Clusters, NEW k \in Kinds, OwnedCacheSync(c, k) PROVE WorkInv'
  <2>1. pass' = pass /\ timer' = timer /\ timer' \subseteq Clusters
    BY <1>4 DEF OwnedCacheSync, TypeOK
  <2>2. Enqueue(c) \/ UNCHANGED <<queue, again>>
    BY <1>4 DEF OwnedCacheSync
  <2> QED
    BY <2>1, <2>2, EnqueueEffect DEF WorkInv, WorkType, QueueSound
<1>5. ASSUME UNCHANGED queueVars PROVE WorkInv'
  BY <1>5 DEF queueVars, WorkInv, WorkType, QueueSound
<1>6. CASE OperatorRestarts
  BY <1>6, RestartWork
<1>7. ASSUME NEW c \in Clusters, (\E k \in Kinds : GarbageCollect(c, k)) \/ User(c)
      PROVE  UNCHANGED queueVars
  BY <1>7 DEF GarbageCollect, User, UserDeletes, UserCreates, UserEdits
<1> QED
  BY <1>1, <1>2, <1>3, <1>4, <1>5, <1>6, <1>7 DEF Next, Operator, Kubernetes, vars

------------------------------------------------------------------------------
(* Types of what the API server and the caches hold.                        *)

StoreType ==
    /\ obj \in [Clusters -> Objects \cup {Nil}]
    /\ cache \in [Clusters -> Objects \cup {Nil}]
    /\ res \in [Clusters -> [Kinds -> Owned \cup {Nil}]]
    /\ resCache \in [Clusters -> [Kinds -> Owned \cup {Nil}]]

CountType ==
    /\ born \in [Clusters -> Nat]
    /\ buried \in [Clusters -> SUBSET UIDs]
    /\ ops \in [Clusters -> Nat] /\ \A c \in Clusters : ops[c] <= MaxOps[c]
    /\ faults \in 0..MaxFaults

LEMMA TypeParts ==
    /\ TypeOK => StoreType /\ CountType
    /\ (StoreType /\ WorkType /\ CountType) => TypeOK
BY DEF TypeOK, StoreType, WorkType, CountType

\* The changes users make to a ProxmoxCluster.
LEMMA ObjectEdits ==
    ASSUME NEW o \in Objects, NEW x \in Specs
    PROVE  Edited(o, x) \in Objects /\ Condemned(o) \in Objects
<1>1. o.gen + 1 \in Nat
  BY DEF Objects
<1> QED
  BY <1>1 DEF Objects, Edited, Condemned

LEMMA NewObjectType ==
    ASSUME NEW u \in UIDs, NEW x \in Specs
    PROVE  NewObject(u, x) \in Objects
BY DEF NewObject, Objects

\* Any copy a pass goes by is a copy of some object.
LEMMA MemType ==
    ASSUME WorkInv, NEW c \in Clusters, pass[c] # Nil, pass[c].pc # "notFound"
    PROVE  pass[c].mem \in Copies /\ pass[c].mem.gen \in Nat /\ pass[c].mem.spec \in Specs
<1>1. pass[c] \in Passes /\ pass[c].mem # Nil
  BY DEF WorkInv, WorkType
<1> QED
  BY <1>1 DEF Passes, Copies

LEMMA StatusType ==
    ASSUME StoreType, NEW c \in Clusters, NEW n \in Nat,
           obj' = obj \/ (obj[c] # Nil /\ obj' = [obj EXCEPT ![c].seen = n])
    PROVE  obj' \in [Clusters -> Objects \cup {Nil}]
<1>1. CASE obj' = obj
  BY <1>1 DEF StoreType
<1>2. CASE obj[c] # Nil /\ obj' = [obj EXCEPT ![c].seen = n]
  <2>1. obj[c] \in Objects
    BY <1>2 DEF StoreType
  <2>2. [obj[c] EXCEPT !.seen = n] \in Objects
    BY <2>1 DEF Objects
  <2> QED
    BY <1>2, <2>2 DEF StoreType
<1> QED
  BY <1>1, <1>2

LEMMA PassStepStore ==
    ASSUME StoreType, WorkInv, NEW c \in Clusters, PassStep(c)
    PROVE  StoreType'
<1>1. CASE notFound(c)
  BY <1>1 DEF notFound, StoreType
<1>2. CASE addFinalizer(c)
  <2>1. CASE obj' = obj
    BY <1>2, <2>1 DEF addFinalizer, StoreType
  <2>2. CASE Current(c) /\ obj' = [obj EXCEPT ![c].fin = TRUE]
    <3>1. obj[c] \in Objects
      BY <2>2 DEF Current, StoreType
    <3>2. [obj[c] EXCEPT !.fin = TRUE] \in Objects
      BY <3>1 DEF Objects
    <3>3. obj' = [obj EXCEPT ![c] = [obj[c] EXCEPT !.fin = TRUE]]
      BY <2>2
    <3> QED
      BY <1>2, <3>2, <3>3 DEF addFinalizer, StoreType
  <2> QED
    BY <1>2, <2>1, <2>2 DEF addFinalizer
<1>3. CASE removeFinalizer(c)
  <2>1. CASE obj' = obj
    BY <1>3, <2>1 DEF removeFinalizer, StoreType
  <2>2. CASE Current(c) /\ obj' = [obj EXCEPT ![c] =
                               IF @.deleting THEN Nil ELSE [@ EXCEPT !.fin = FALSE]]
    <3>1. obj[c] \in Objects
      BY <2>2 DEF Current, StoreType
    <3>2. [obj[c] EXCEPT !.fin = FALSE] \in Objects
      BY <3>1 DEF Objects
    <3> QED
      BY <1>3, <2>2, <3>2 DEF removeFinalizer, StoreType
  <2> QED
    BY <1>3, <2>1, <2>2 DEF removeFinalizer
<1>4. ASSUME NEW k \in Watched, ensure(c, k) PROVE StoreType'
  <2>1. /\ pass[c] # Nil /\ pass[c].pc = k /\ k \in Kinds
        /\ UNCHANGED <<obj, cache, resCache>>
    BY <1>4 DEF ensure, At, Kinds
  <2>2. k # "notFound"
    BY EnsuredFacts DEF EnsuredKinds, ServiceKinds
  <2>3. pass[c].mem \in Copies
    BY <2>1, <2>2, MemType
  <2>4. CASE res' = res
    BY <2>1, <2>4 DEF StoreType
  <2>5. CASE res' = [res EXCEPT ![c][k] = NewOwned(k, pass[c].mem)]
    <3>1. NewOwned(k, pass[c].mem) \in Owned
      BY <2>1, <2>3, OwnedType
    <3> QED
      BY <2>1, <2>5, <3>1 DEF StoreType
  <2>6. CASE /\ res[c][k] # Nil
             /\ res' = [res EXCEPT ![c][k].data = Content(k, pass[c].mem.spec)]
    <3>1. res[c][k] \in Owned
      BY <2>1, <2>6 DEF StoreType
    <3>2. [res[c][k] EXCEPT !.data = Content(k, pass[c].mem.spec)] \in Owned
      BY <2>1, <2>3, <3>1, OwnedType
    <3>3. res' = [res EXCEPT ![c][k] =
                      [res[c][k] EXCEPT !.data = Content(k, pass[c].mem.spec)]]
      BY <2>6
    <3> QED
      BY <2>1, <3>2, <3>3 DEF StoreType
  <2> QED
    BY <1>4, <2>4, <2>5, <2>6 DEF ensure
<1>5. CASE reportInvalid(c) \/ updateStatus(c)
  <2>1. /\ pass[c] # Nil /\ pass[c].pc # "notFound"
        /\ UNCHANGED <<cache, res, resCache>>
    BY <1>5 DEF reportInvalid, updateStatus, At
  <2>2. pass[c].mem.gen \in Nat
    BY <2>1, MemType
  <2>3. obj' = obj \/ (obj[c] # Nil /\ obj' = [obj EXCEPT ![c].seen = pass[c].mem.gen])
    BY <1>5 DEF reportInvalid, updateStatus, StatusWritten, StatusRefused, Current
  <2> QED
    BY <2>1, <2>2, <2>3, StatusType DEF StoreType
<1>6. CASE reconcileNodes(c)
  <2>1. /\ pass[c] # Nil /\ pass[c].pc # "notFound" /\ "nodes" \in Kinds
        /\ UNCHANGED <<obj, cache, resCache>>
        /\ \/ res' = [res EXCEPT ![c]["nodes"] = NewOwned("nodes", pass[c].mem)]
           \/ res' = [res EXCEPT ![c]["nodes"] = @]
    BY <1>6 DEF reconcileNodes, At, Kinds
  <2>2. NewOwned("nodes", pass[c].mem) \in Owned
    BY <2>1, MemType, OwnedType
  <2>3. res \in [Clusters -> [Kinds -> Owned \cup {Nil}]]
    BY DEF StoreType
  <2>4. res' \in [Clusters -> [Kinds -> Owned \cup {Nil}]]
    <3>1. CASE res' = [res EXCEPT ![c]["nodes"] = NewOwned("nodes", pass[c].mem)]
      BY <2>1, <2>2, <2>3, <3>1
    <3>2. CASE res' = [res EXCEPT ![c]["nodes"] = @]
      BY <2>1, <2>3, <3>2
    <3> QED
      BY <2>1, <3>1, <3>2
  <2> QED
    BY <2>1, <2>4 DEF StoreType
<1> QED
  BY <1>1, <1>2, <1>3, <1>4, <1>5, <1>6 DEF PassStep

LEMMA UserStore ==
    ASSUME StoreType, CountType, NEW c \in Clusters, User(c)
    PROVE  StoreType'
<1>1. UNCHANGED <<cache, res, resCache>>
  BY DEF User, UserDeletes, UserCreates, UserEdits
<1>2. CASE UserDeletes(c)
  <2>1. obj[c] \in Objects
    BY <1>2 DEF UserDeletes, StoreType
  <2>2. Condemned(obj[c]) \in Objects
    BY <2>1, ObjectEdits DEF Objects
  <2> QED
    BY <1>1, <1>2, <2>2 DEF UserDeletes, StoreType
<1>3. ASSUME NEW x \in Specs, UserCreates(c, x) PROVE StoreType'
  <2>1. born[c] + 1 \in UIDs
    BY DEF CountType, UIDs
  <2>2. NewObject(born[c] + 1, x) \in Objects
    BY <2>1, NewObjectType
  <2> QED
    BY <1>1, <1>3, <2>2 DEF UserCreates, StoreType
<1>4. ASSUME NEW x \in Specs, UserEdits(c, x) PROVE StoreType'
  <2>1. obj[c] \in Objects
    BY <1>4 DEF UserEdits, StoreType
  <2>2. Edited(obj[c], x) \in Objects
    BY <2>1, ObjectEdits
  <2> QED
    BY <1>1, <1>4, <2>2 DEF UserEdits, StoreType
<1> QED
  BY <1>2, <1>3, <1>4 DEF User

LEMMA CountStep ==
    ASSUME TypeOK, Next
    PROVE  CountType'
<1>1. CountType
  BY TypeParts
<1>2. CASE faults' = faults + 1 /\ faults < MaxFaults /\ UNCHANGED <<born, buried, ops>>
  BY <1>1, <1>2, ManagerAssumption DEF CountType
<1>3. ASSUME NEW c \in Clusters, User(c) PROVE CountType'
  <2>1. /\ UserActs(c) /\ UNCHANGED <<buried, faults>>
        /\ born' = born \/ born' = [born EXCEPT ![c] = @ + 1]
    BY <1>3 DEF User, UserDeletes, UserCreates, UserEdits
  <2>2. ops' \in [Clusters -> Nat] /\ \A d \in Clusters : ops'[d] <= MaxOps[d]
    <3>1. /\ ops' = [ops EXCEPT ![c] = ops[c] + 1] /\ ops[c] < MaxOps[c]
          /\ ops \in [Clusters -> Nat] /\ \A d \in Clusters : ops[d] <= MaxOps[d]
      BY <1>1, <2>1 DEF UserActs, CountType
    <3>2. ops' \in [Clusters -> Nat]
      BY <3>1
    <3>3. \A d \in Clusters : ops'[d] = IF d = c THEN ops[c] + 1 ELSE ops[d]
      BY <3>1
    <3>4. ops[c] \in Nat /\ MaxOps[c] \in Nat
      BY <3>1, ManagerAssumption
    <3> QED
      BY <3>1, <3>2, <3>3, <3>4
  <2>3. born' \in [Clusters -> Nat]
    BY <1>1, <2>1 DEF CountType
  <2> QED
    BY <1>1, <2>1, <2>2, <2>3 DEF CountType
<1>4. ASSUME NEW c \in Clusters, removeFinalizer(c) PROVE CountType'
  <2>1. UNCHANGED <<born, ops, faults>>
    BY <1>4 DEF removeFinalizer
  <2>2. CASE buried' = buried
    BY <1>1, <2>1, <2>2 DEF CountType
  <2>3. CASE Current(c) /\ buried' = [buried EXCEPT ![c] = @ \cup {obj[c].uid}]
    <3>1. obj[c].uid \in UIDs
      BY <2>3 DEF Current, TypeOK, Objects
    <3> QED
      BY <1>1, <2>1, <2>3, <3>1 DEF CountType
  <2> QED
    BY <1>4, <2>2, <2>3 DEF removeFinalizer
<1>5. CASE UNCHANGED <<born, buried, ops, faults>>
  BY <1>1, <1>5 DEF CountType
<1>6. ASSUME NEW c \in Clusters, Operator(c), ~removeFinalizer(c), ~APIError(c)
      PROVE  UNCHANGED <<born, buried, ops, faults>>
  BY <1>6 DEF Operator, PassStep, Fetch, TimerFires, notFound, addFinalizer,
              ensure, reportInvalid, updateStatus, reconcileNodes
<1>7. ASSUME NEW c \in Clusters, Kubernetes(c)
      PROVE  UNCHANGED <<born, buried, ops, faults>>
  BY <1>7 DEF Kubernetes, CacheSync, OwnedCacheSync, GarbageCollect
<1>8. ASSUME (\E c \in Clusters : APIError(c)) \/ OperatorRestarts
      PROVE  faults' = faults + 1 /\ faults < MaxFaults /\ UNCHANGED <<born, buried, ops>>
  BY <1>8 DEF APIError, OperatorRestarts, Fault
<1> QED
  BY <1>2, <1>3, <1>4, <1>5, <1>6, <1>7, <1>8 DEF Next

LEMMA StoreStep ==
    ASSUME TypeOK, WorkInv, Next
    PROVE  StoreType'
<1>1. StoreType /\ CountType
  BY TypeParts
<1>2. ASSUME NEW c \in Clusters, Operator(c) PROVE StoreType'
  <2>1. CASE PassStep(c)
    BY <1>1, <2>1, PassStepStore
  <2>2. CASE Fetch(c) \/ APIError(c) \/ TimerFires(c)
    BY <1>1, <2>2 DEF Fetch, APIError, TimerFires, StoreType
  <2> QED
    BY <1>2, <2>1, <2>2 DEF Operator
<1>3. ASSUME NEW c \in Clusters, CacheSync(c) PROVE StoreType'
  BY <1>1, <1>3 DEF CacheSync, StoreType
<1>4. ASSUME NEW c \in Clusters, NEW k \in Kinds,
             OwnedCacheSync(c, k) \/ GarbageCollect(c, k)
      PROVE  StoreType'
  <2>1. CASE OwnedCacheSync(c, k)
    BY <1>1, <2>1 DEF OwnedCacheSync, StoreType
  <2>2. CASE GarbageCollect(c, k)
    BY <1>1, <2>2 DEF GarbageCollect, StoreType
  <2> QED
    BY <1>4, <2>1, <2>2
<1>5. ASSUME NEW c \in Clusters, User(c) PROVE StoreType'
  BY <1>1, <1>5, UserStore
<1>6. CASE OperatorRestarts
  BY <1>1, <1>6 DEF OperatorRestarts, StoreType
<1> QED
  BY <1>2, <1>3, <1>4, <1>5, <1>6 DEF Next, Kubernetes

LEMMA InitTyped ==
    ASSUME Init
    PROVE  TypeOK /\ WorkInv
<1>1. \A c \in Clusters : NewObject(1, FirstSpec[c]) \in Objects
  BY ManagerAssumption, NewObjectType DEF UIDs
<1>2. StoreType
  BY <1>1 DEF Init, StoreType
<1>3. CountType
  BY ManagerAssumption DEF Init, CountType
<1>4. WorkInv
  BY DEF Init, WorkInv, WorkType, QueueSound, Distinct, Range
<1> QED
  BY <1>2, <1>3, <1>4, TypeParts DEF WorkInv

LEMMA TypedStep ==
    ASSUME TypeOK, WorkInv, [Next]_vars
    PROVE  TypeOK' /\ WorkInv'
<1>1. WorkInv'
  BY WorkStep
<1>2. CASE Next
  <2>1. StoreType' /\ CountType'
    BY <1>2, StoreStep, CountStep
  <2> QED
    BY <1>1, <2>1, TypeParts DEF TypeOK, StoreType, CountType, WorkInv, WorkType
<1>3. CASE UNCHANGED vars
  BY <1>1, <1>3 DEF vars, queueVars, TypeOK
<1> QED
  BY <1>2, <1>3

\* The types of the operator's state, whatever users and failures do.
THEOREM TypeCorrect == Spec => []TypeOK
<1>1. Init => TypeOK /\ WorkInv
  BY InitTyped
<1>2. (TypeOK /\ WorkInv) /\ [Next]_vars => (TypeOK /\ WorkInv)'
  BY TypedStep
<1> QED
  BY <1>1, <1>2, PTL DEF Spec

------------------------------------------------------------------------------
(* The lives of a name.                                                     *)

\* A step that concerns one cluster is judged by that cluster alone.
LEMMA OneLife ==
    ASSUME LivesSound, NEW c \in Clusters,
           \A e \in Clusters \ {c} :
               /\ obj'[e] = obj[e] /\ cache'[e] = cache[e] /\ pass'[e] = pass[e]
               /\ born'[e] = born[e] /\ buried'[e] = buried[e],
           LifeSound(obj'[c], cache'[c], pass'[c], born'[c], buried'[c])
    PROVE  LivesSound'
BY DEF LivesSound

\* A pass begins.
LEMMA LifeFetch ==
    ASSUME NEW o \in Objects \cup {Nil}, NEW p \in Objects \cup {Nil},
           NEW w, NEW b, NEW d, LifeSound(o, p, w, b, d)
    PROVE  LifeSound(o, p, [pc |-> FirstStep(p), mem |-> Copy(p)], b, d)
<1> DEFINE v == [pc |-> FirstStep(p), mem |-> Copy(p)]
<1> SUFFICES LifeSound(o, p, v, b, d)
  OBVIOUS
<1>1. CASE p = Nil
  <2>1. v.pc = "notFound" /\ v.mem = Nil
    BY <1>1 DEF FirstStep, Copy
  <2> QED
    BY <2>1 DEF LifeSound, UIDsKnown, DeletionSeen, PassSound
<1>2. CASE p # Nil
  <2>1. v.mem = [uid |-> p.uid, gen |-> p.gen, spec |-> p.spec] /\ v.mem.uid = p.uid
    BY <1>2 DEF Copy
  <2>2. v.pc = FirstStep(p) /\ v.mem # Nil
    BY <1>2, <2>1, NilAssumption DEF Copies, Objects
  <2>3. CASE p.deleting
    <3>1. v.pc = "removeFinalizer"
      BY <1>2, <2>2, <2>3 DEF FirstStep
    <3>2. Harmless(o, p.uid) /\ Harmless(p, p.uid)
      BY <1>2, <2>3 DEF LifeSound, DeletionSeen, Harmless
    <3> HIDE DEF v
    <3> QED
      BY <1>2, <2>1, <2>2, <3>1, <3>2 DEF LifeSound, UIDsKnown, PassSound
  <2>4. CASE ~p.deleting
    <3>1. v.pc # "removeFinalizer"
      <4>1. Validated(p.spec) # "removeFinalizer"
        BY StepNames DEF Onward
      <4> QED
        BY <1>2, <2>2, <2>4, <4>1 DEF FirstStep
    <3>2. p.uid \notin d
      BY <1>2, <2>4 DEF LifeSound, DeletionSeen
    <3> HIDE DEF v
    <3> QED
      BY <1>2, <2>1, <2>2, <3>1, <3>2 DEF LifeSound, UIDsKnown, PassSound
  <2> QED
    BY <2>3, <2>4
<1> QED
  BY <1>1, <1>2

\* A pass ends or goes on, and the object changes in nothing that matters
\* here, or the cached object, being the stored one, gets the finalizer.
LEMMA LifePass ==
    ASSUME NEW o, NEW p, NEW w, NEW b, NEW d, LifeSound(o, p, w, b, d),
           NEW v, v = Nil \/ (/\ w # Nil /\ w.pc \in Onward
                              /\ v.pc \in Onward /\ v.mem = w.mem),
           NEW n, \/ n = o
                  \/ /\ o # Nil /\ p = o
                     /\ n # Nil /\ n.uid = o.uid /\ n.deleting = o.deleting
    PROVE  LifeSound(n, p, v, b, d)
<1>1. UIDsKnown(n, p, v, b, d)
  BY DEF LifeSound, UIDsKnown
<1>2. DeletionSeen(n, p, d)
  BY DEF LifeSound, DeletionSeen
<1>3. PassSound(n, p, v, d)
  BY DEF LifeSound, PassSound, Onward
<1> QED
  BY <1>1, <1>2, <1>3 DEF LifeSound

\* The cache catches up, with or without the loss of the pass.
LEMMA LifeSync ==
    ASSUME NEW o, NEW p, NEW w, NEW b, NEW d, LifeSound(o, p, w, b, d),
           NEW v, v = w \/ v = Nil
    PROVE  LifeSound(o, o, v, b, d)
BY DEF LifeSound, UIDsKnown, DeletionSeen, PassSound, Harmless

\* The finalizer goes, and the object with it: it was being deleted.
LEMMA LifeBuried ==
    ASSUME NEW o, NEW p, NEW w, NEW b, NEW d, LifeSound(o, p, w, b, d),
           w # Nil, w.pc = "removeFinalizer", p # Nil, p = o, p.fin
    PROVE  o.deleting /\ LifeSound(Nil, p, Nil, b, d \cup {o.uid})
<1>1. o.deleting
  BY DEF LifeSound, PassSound, Harmless
<1> QED
  BY <1>1 DEF LifeSound, UIDsKnown, DeletionSeen, PassSound

\* A user creates the object again.
LEMMA LifeCreated ==
    ASSUME NEW p \in Objects \cup {Nil}, NEW w \in Passes \cup {Nil},
           NEW b \in Nat, NEW d \in SUBSET UIDs,
           LifeSound(Nil, p, w, b, d), NEW x
    PROVE  LifeSound(NewObject(b + 1, x), p, w, b + 1, d)
<1> DEFINE n == NewObject(b + 1, x)
<1>1. n.uid = b + 1 /\ n.fin = FALSE /\ n.deleting = FALSE
  BY DEF NewObject
<1> HIDE DEF n
<1>2. /\ \A u \in d : u \in Nat /\ u <= b
      /\ p # Nil => p.uid \in Nat /\ p.uid <= b
      /\ (w # Nil /\ w.mem # Nil) => w.mem.uid \in Nat /\ w.mem.uid <= b
  BY DEF LifeSound, UIDsKnown, UIDs, Objects, Passes, Copies
<1>3. UIDsKnown(n, p, w, b + 1, d)
  BY <1>1, <1>2 DEF UIDsKnown
<1>4. DeletionSeen(n, p, d)
  BY <1>1, <1>2 DEF LifeSound, DeletionSeen
<1>5. PassSound(n, p, w, d)
  <2>1. ASSUME w # Nil, w.pc = "removeFinalizer", w.mem # Nil PROVE Harmless(n, w.mem.uid)
    BY <1>1, <1>2, <2>1 DEF Harmless
  <2> QED
    BY <2>1 DEF LifeSound, PassSound
<1> QED
  BY <1>3, <1>4, <1>5 DEF LifeSound, n

\* A user condemns the object, which goes at once if it has no finalizer.
LEMMA LifeDeleted ==
    ASSUME NEW o \in Objects, NEW p, NEW w, NEW b, NEW d, LifeSound(o, p, w, b, d),
           NEW n, n = IF o.fin THEN Condemned(o) ELSE Nil
    PROVE  LifeSound(n, p, w, b, d)
<1>1. CASE o.fin
  <2>1. n # Nil /\ n.uid = o.uid /\ n.deleting = TRUE /\ n.fin = o.fin
    <3>1. n = Condemned(o)
      BY <1>1
    <3>2. n \in Objects /\ n # Nil
      <4>1. o.spec \in Specs
        BY DEF Objects
      <4> QED
        BY <3>1, <4>1, ObjectEdits, NilAssumption
    <3>3. n.uid = o.uid /\ n.deleting = TRUE /\ n.fin = o.fin
      BY <3>1 DEF Condemned, Objects
    <3> QED
      BY <3>2, <3>3
  <2>2. o # Nil
    BY NilAssumption
  <2> QED
    BY <1>1, <2>1, <2>2
       DEF LifeSound, UIDsKnown, DeletionSeen, PassSound, Harmless
<1>2. CASE ~o.fin
  BY <1>2 DEF LifeSound, UIDsKnown, DeletionSeen, PassSound, Harmless
<1> QED
  BY <1>1, <1>2

LEMMA LifeEdited ==
    ASSUME NEW o \in Objects, NEW p, NEW w, NEW b, NEW d, LifeSound(o, p, w, b, d), NEW x
    PROVE  LifeSound(Edited(o, x), p, w, b, d)
<1> DEFINE n == Edited(o, x)
<1> SUFFICES LifeSound(n, p, w, b, d)
  OBVIOUS
<1>1. o # Nil
  BY NilAssumption
<1>2. n.uid = o.uid /\ n.deleting = o.deleting /\ n.fin = o.fin
  BY DEF Edited, Objects
<1> HIDE DEF n
<1> QED
  BY <1>1, <1>2 DEF LifeSound, UIDsKnown, DeletionSeen, PassSound, Harmless

\* What the steps of a pass do to the stored object.
LEMMA PassStepObject ==
    ASSUME StoreType, WorkInv, NEW c \in Clusters,
           PassStep(c) \/ APIError(c), ~removeFinalizer(c)
    PROVE  /\ UNCHANGED <<cache, born, buried>>
           /\ \/ obj' = obj
              \/ /\ obj[c] # Nil /\ cache[c] = obj[c]
                 /\ \E n \in Objects :
                       /\ n.uid = obj[c].uid /\ n.deleting = obj[c].deleting
                       /\ obj[c].fin => n.fin
                       /\ obj' = [obj EXCEPT ![c] = n]
<1>1. UNCHANGED <<cache, born, buried>>
  BY DEF PassStep, APIError, notFound, addFinalizer, ensure, reportInvalid,
         updateStatus, reconcileNodes
<1>2. CASE obj' = obj
  BY <1>1, <1>2
<1>3. CASE Current(c) /\ obj' = [obj EXCEPT ![c].fin = TRUE]
  <2>1. obj[c] \in Objects /\ obj[c] # Nil /\ cache[c] = obj[c]
    BY <1>3 DEF Current, StoreType
  <2> DEFINE n == [obj[c] EXCEPT !.fin = TRUE]
  <2>2. n \in Objects /\ n.uid = obj[c].uid /\ n.deleting = obj[c].deleting /\ n.fin
    BY <2>1 DEF Objects
  <2>3. obj' = [obj EXCEPT ![c] = n]
    BY <1>3
  <2> HIDE DEF n
  <2> QED
    BY <1>1, <2>1, <2>2, <2>3
<1>4. CASE Current(c) /\ obj' = [obj EXCEPT ![c].seen = pass[c].mem.gen] /\ pass[c].mem.gen \in Nat
  <2>1. obj[c] \in Objects /\ obj[c] # Nil /\ cache[c] = obj[c]
    BY <1>4 DEF Current, StoreType
  <2> DEFINE n == [obj[c] EXCEPT !.seen = pass[c].mem.gen]
  <2>2. n \in Objects /\ n.uid = obj[c].uid /\ n.deleting = obj[c].deleting /\ n.fin = obj[c].fin
    BY <1>4, <2>1 DEF Objects
  <2>3. obj' = [obj EXCEPT ![c] = n]
    BY <1>4
  <2> HIDE DEF n
  <2> QED
    BY <1>1, <2>1, <2>2, <2>3
<1> QED
  <2>1. CASE addFinalizer(c)
    BY <1>2, <1>3, <2>1 DEF addFinalizer
  <2>2. CASE reportInvalid(c) \/ updateStatus(c)
    <3>1. pass[c] # Nil /\ pass[c].pc # "notFound"
      BY <2>2 DEF reportInvalid, updateStatus, At
    <3>2. pass[c].mem.gen \in Nat
      BY <3>1, MemType
    <3> QED
      BY <1>2, <1>4, <2>2, <3>2 DEF reportInvalid, updateStatus, StatusWritten, StatusRefused
  <2>3. CASE ~addFinalizer(c) /\ ~reportInvalid(c) /\ ~updateStatus(c)
    <3>1. obj' = obj
      BY <2>3 DEF PassStep, APIError, notFound, ensure, reconcileNodes
    <3> QED
      BY <1>2, <3>1
  <2> QED
    BY <2>1, <2>2, <2>3

\* What removeFinalizer does: nothing, or to an object that is being deleted.
LEMMA RemoveFinalizerObject ==
    ASSUME StoreType, WorkInv, LivesSound, NEW c \in Clusters, removeFinalizer(c)
    PROVE  /\ UNCHANGED <<cache, born>> /\ pass' = [pass EXCEPT ![c] = Nil]
           /\ \/ UNCHANGED <<obj, buried>>
              \/ /\ obj[c] # Nil /\ obj[c].deleting /\ obj' = [obj EXCEPT ![c] = Nil]
                 /\ buried' = [buried EXCEPT ![c] = @ \cup {obj[c].uid}]
                 /\ LifeSound(Nil, cache[c], Nil, born[c], buried[c] \cup {obj[c].uid})
<1>1. pass[c] # Nil /\ pass[c].pc = "removeFinalizer" /\ UNCHANGED <<cache, born>>
  BY DEF removeFinalizer, At
<1>2. pass' = [pass EXCEPT ![c] = Nil]
  BY DEF removeFinalizer, Return
<1>3. CASE UNCHANGED <<obj, buried>>
  BY <1>1, <1>2, <1>3
<1>4. CASE /\ Finalized(cache[c]) /\ Current(c)
           /\ obj' = [obj EXCEPT ![c] = IF @.deleting THEN Nil ELSE [@ EXCEPT !.fin = FALSE]]
           /\ buried' = [buried EXCEPT ![c] = @ \cup {obj[c].uid}]
  <2>1. cache[c] # Nil /\ cache[c].fin /\ cache[c] = obj[c]
    BY <1>4 DEF Finalized, Current
  <2>2. LifeSound(obj[c], cache[c], pass[c], born[c], buried[c])
    BY DEF LivesSound
  <2>3. obj[c].deleting /\ LifeSound(Nil, cache[c], Nil, born[c], buried[c] \cup {obj[c].uid})
    BY <1>1, <2>1, <2>2, LifeBuried
  <2> QED
    BY <1>1, <1>2, <1>4, <2>1, <2>3
<1> QED
  BY <1>3, <1>4 DEF removeFinalizer

LEMMA PassStepLives ==
    ASSUME StoreType, WorkInv, CountType, LivesSound, NEW c \in Clusters,
           PassStep(c) \/ APIError(c)
    PROVE  LivesSound'
<1>1. LifeSound(obj[c], cache[c], pass[c], born[c], buried[c])
  BY DEF LivesSound
<1>2. CASE removeFinalizer(c)
  <2>1. /\ cache' = cache /\ born' = born /\ pass' = [pass EXCEPT ![c] = Nil]
        /\ \/ obj' = obj /\ buried' = buried
           \/ /\ obj' = [obj EXCEPT ![c] = Nil]
              /\ buried' = [buried EXCEPT ![c] = @ \cup {obj[c].uid}]
              /\ LifeSound(Nil, cache[c], Nil, born[c], buried[c] \cup {obj[c].uid})
    BY <1>2, RemoveFinalizerObject
  <2>2. LifeSound(obj[c], cache[c], Nil, born[c], buried[c])
    BY <1>1, LifePass
  <2>3. /\ pass'[c] = Nil
        /\ \A e \in Clusters \ {c} : /\ obj'[e] = obj[e] /\ pass'[e] = pass[e]
                                     /\ buried'[e] = buried[e]
    BY <2>1 DEF StoreType, WorkInv, WorkType, CountType
  <2>4. LifeSound(obj'[c], cache'[c], pass'[c], born'[c], buried'[c])
    BY <2>1, <2>2, <2>3 DEF StoreType, CountType
  <2> QED
    BY <2>1, <2>3, <2>4, OneLife
<1>3. CASE ~removeFinalizer(c)
  <2>1. /\ cache' = cache /\ born' = born /\ buried' = buried
        /\ \/ obj' = obj
           \/ /\ obj[c] # Nil /\ cache[c] = obj[c]
              /\ \E n \in Objects :
                    /\ n.uid = obj[c].uid /\ n.deleting = obj[c].deleting
                    /\ obj' = [obj EXCEPT ![c] = n]
    BY <1>3, PassStepObject
  <2>2. /\ \A e \in Clusters \ {c} : obj'[e] = obj[e]
        /\ \/ obj'[c] = obj[c]
           \/ /\ obj[c] # Nil /\ cache[c] = obj[c] /\ obj'[c] # Nil
              /\ obj'[c].uid = obj[c].uid /\ obj'[c].deleting = obj[c].deleting
    BY <2>1, NilAssumption DEF StoreType
  <2>3. EndsPass(c) \/ GoesOn(c)
    BY PassStepWork
  <2>4. /\ \A e \in Clusters \ {c} : pass'[e] = pass[e]
        /\ \/ pass'[c] = Nil
           \/ /\ pass[c] # Nil /\ pass[c].pc \in Onward
              /\ pass'[c].pc \in Onward /\ pass'[c].mem = pass[c].mem
    BY <2>3 DEF EndsPass, GoesOn, WorkInv, WorkType
  <2>5. LifeSound(obj'[c], cache[c], pass'[c], born[c], buried[c])
    BY <1>1, <2>2, <2>4, LifePass
  <2> QED
    BY <2>1, <2>2, <2>4, <2>5, OneLife
<1> QED
  BY <1>2, <1>3

LEMMA UserLives ==
    ASSUME StoreType, WorkInv, CountType, LivesSound, NEW c \in Clusters, User(c)
    PROVE  LivesSound'
<1>1. LifeSound(obj[c], cache[c], pass[c], born[c], buried[c])
  BY DEF LivesSound
<1>2. cache' = cache /\ pass' = pass /\ buried' = buried
  BY DEF User, UserDeletes, UserCreates, UserEdits, queueVars
<1>3. CASE UserDeletes(c)
  <2>1. /\ obj[c] \in Objects /\ born' = born
        /\ obj' = [obj EXCEPT ![c] = IF obj[c].fin THEN Condemned(obj[c]) ELSE Nil]
    BY <1>3 DEF UserDeletes, StoreType
  <2>2. LifeSound(obj'[c], cache[c], pass[c], born[c], buried[c])
    BY <1>1, <2>1, LifeDeleted DEF StoreType
  <2> QED
    BY <1>2, <2>1, <2>2, OneLife DEF StoreType
<1>4. ASSUME NEW x \in Specs, UserEdits(c, x) PROVE LivesSound'
  <2>1. /\ obj[c] \in Objects /\ born' = born
        /\ obj' = [obj EXCEPT ![c] = Edited(obj[c], x)]
    BY <1>4 DEF UserEdits, StoreType
  <2>2. LifeSound(obj'[c], cache[c], pass[c], born[c], buried[c])
    BY <1>1, <2>1, LifeEdited DEF StoreType
  <2> QED
    BY <1>2, <2>1, <2>2, OneLife DEF StoreType
<1>5. ASSUME NEW x \in Specs, UserCreates(c, x) PROVE LivesSound'
  <2>1. /\ obj[c] = Nil /\ obj' = [obj EXCEPT ![c] = NewObject(born[c] + 1, x)]
        /\ born' = [born EXCEPT ![c] = born[c] + 1]
    BY <1>5 DEF UserCreates
  <2>2. /\ cache[c] \in Objects \cup {Nil} /\ pass[c] \in Passes \cup {Nil}
        /\ born[c] \in Nat /\ buried[c] \in SUBSET UIDs
    BY DEF StoreType, WorkInv, WorkType, CountType
  <2>3. LifeSound(NewObject(born[c] + 1, x), cache[c], pass[c], born[c] + 1, buried[c])
    BY <1>1, <2>1, <2>2, LifeCreated
  <2>4. /\ obj'[c] = NewObject(born[c] + 1, x) /\ born'[c] = born[c] + 1
        /\ \A e \in Clusters \ {c} : obj'[e] = obj[e] /\ born'[e] = born[e]
    BY <2>1 DEF StoreType, CountType
  <2> QED
    BY <1>2, <2>3, <2>4, OneLife
<1> QED
  BY <1>3, <1>4, <1>5 DEF User

Inv == TypeOK /\ WorkInv /\ LivesSound

LEMMA LivesStep ==
    ASSUME Inv, [Next]_vars
    PROVE  LivesSound'
<1>0. StoreType /\ CountType /\ WorkInv /\ LivesSound
  BY TypeParts DEF Inv
<1>1. ASSUME NEW c \in Clusters, PassStep(c) \/ APIError(c) PROVE LivesSound'
  BY <1>0, <1>1, PassStepLives
<1>2. ASSUME NEW c \in Clusters, Fetch(c) PROVE LivesSound'
  <2>1. /\ pass' = [pass EXCEPT ![c] = [pc |-> FirstStep(cache[c]), mem |-> Copy(cache[c])]]
        /\ obj' = obj /\ cache' = cache /\ born' = born /\ buried' = buried
    BY <1>2 DEF Fetch
  <2>2. /\ obj[c] \in Objects \cup {Nil} /\ cache[c] \in Objects \cup {Nil}
        /\ LifeSound(obj[c], cache[c], pass[c], born[c], buried[c])
    BY <1>0 DEF StoreType, LivesSound
  <2>3. LifeSound(obj[c], cache[c], [pc |-> FirstStep(cache[c]), mem |-> Copy(cache[c])],
                  born[c], buried[c])
    BY <2>2, LifeFetch
  <2>4. /\ pass'[c] = [pc |-> FirstStep(cache[c]), mem |-> Copy(cache[c])]
        /\ \A e \in Clusters \ {c} : pass'[e] = pass[e]
    BY <1>0, <2>1 DEF WorkInv, WorkType
  <2> QED
    BY <1>0, <2>1, <2>3, <2>4, OneLife
<1>3. ASSUME NEW c \in Clusters, CacheSync(c) PROVE LivesSound'
  <2>1. /\ cache' = [cache EXCEPT ![c] = obj[c]]
        /\ obj' = obj /\ pass' = pass /\ born' = born /\ buried' = buried
    BY <1>3 DEF CacheSync
  <2>2. LifeSound(obj[c], obj[c], pass[c], born[c], buried[c])
    BY <1>0, LifeSync DEF LivesSound
  <2> QED
    BY <1>0, <2>1, <2>2, OneLife DEF StoreType
<1>4. ASSUME NEW c \in Clusters, User(c) PROVE LivesSound'
  BY <1>0, <1>4, UserLives
<1>5. ASSUME UNCHANGED <<obj, cache, pass, born, buried>> PROVE LivesSound'
  BY <1>0, <1>5 DEF LivesSound
<1>6. CASE OperatorRestarts
  <2>1. /\ cache' = obj /\ pass' = [c \in Clusters |-> Nil]
        /\ obj' = obj /\ born' = born /\ buried' = buried
    BY <1>6 DEF OperatorRestarts
  <2>2. \A c \in Clusters : LifeSound(obj[c], obj[c], Nil, born[c], buried[c])
    BY <1>0, LifeSync DEF LivesSound
  <2> QED
    BY <2>1, <2>2 DEF LivesSound
<1>7. ASSUME NEW c \in Clusters,
             TimerFires(c) \/ \E k \in Kinds : OwnedCacheSync(c, k) \/ GarbageCollect(c, k)
      PROVE  UNCHANGED <<obj, cache, pass, born, buried>>
  BY <1>7 DEF TimerFires, OwnedCacheSync, GarbageCollect, queueVars
<1>8. CASE UNCHANGED vars
  BY <1>5, <1>8 DEF vars, queueVars
<1> QED
  BY <1>1, <1>2, <1>3, <1>4, <1>5, <1>6, <1>7, <1>8 DEF Next, Operator, Kubernetes

LEMMA InitLives ==
    ASSUME Init
    PROVE  LivesSound
<1>1. ASSUME NEW c \in Clusters
      PROVE  LifeSound(obj[c], cache[c], pass[c], born[c], buried[c])
  <2>1. /\ obj[c] = NewObject(1, FirstSpec[c]) /\ cache[c] = Nil /\ pass[c] = Nil
        /\ born[c] = 1 /\ buried[c] = {}
    BY DEF Init
  <2>2. obj[c].uid = 1 /\ obj[c].fin = FALSE
    BY <2>1 DEF NewObject
  <2> QED
    BY <2>1, <2>2 DEF LifeSound, UIDsKnown, DeletionSeen, PassSound
<1> QED
  BY <1>1 DEF LivesSound

\* Inv is inductive.
LEMMA InvInductive ==
    /\ Init => Inv
    /\ Inv /\ [Next]_vars => Inv'
<1>1. Init => Inv
  BY InitTyped, InitLives DEF Inv
<1>2. ASSUME Inv, [Next]_vars PROVE Inv'
  <2>1. TypeOK' /\ WorkInv'
    BY <1>2, TypedStep DEF Inv
  <2>2. LivesSound'
    BY <1>2, LivesStep
  <2> QED
    BY <2>1, <2>2 DEF Inv
<1> QED
  BY <1>1, <1>2

\* A pass that goes on is for an object whose finalizer is still there: for
\* any number of clusters, deletions and re-creations, and with caches
\* arbitrarily far behind.
THEOREM NoPassForBuriedObjects == Spec => []NoPassForTheBuried
<1>1. ASSUME Inv PROVE NoPassForTheBuried
  <2> SUFFICES ASSUME NEW c \in Clusters, pass[c] # Nil,
                      pass[c].pc \in Kinds \cup {"status", "invalid"}
               PROVE  pass[c].mem.uid \notin buried[c]
    BY DEF NoPassForTheBuried
  <2>1. pass[c].pc \notin {"notFound", "removeFinalizer"}
    BY StepNames DEF Onward, Kinds
  <2>2. PassSound(obj[c], cache[c], pass[c], buried[c])
    BY <1>1 DEF Inv, LivesSound, LifeSound
  <2> QED
    BY <2>1, <2>2 DEF PassSound
<1> QED
  BY <1>1, InvInductive, PTL DEF Spec

\* The finalizer is only ever taken from an object that is being deleted,
\* although the code neither compares UIDs nor looks at the deletion
\* timestamp of what it updates.
THEOREM FinalizerKept == Spec => FinalizerGuardsTheLiving
<1> DEFINE Kept == \A c \in Clusters :
                      (obj[c] # Nil /\ obj[c].fin /\ (obj[c]' = Nil \/ ~obj[c]'.fin))
                          => obj[c].deleting
<1>1. ASSUME Inv, Next PROVE Kept
  <2>0. StoreType /\ CountType /\ WorkInv /\ LivesSound
    BY <1>1, TypeParts DEF Inv
  <2>1. ASSUME UNCHANGED obj PROVE Kept
    BY <2>1
  <2>2. ASSUME NEW c \in Clusters, removeFinalizer(c) PROVE Kept
    <3>1. \/ obj' = obj
          \/ obj[c].deleting /\ obj' = [obj EXCEPT ![c] = Nil]
      BY <2>0, <2>2, RemoveFinalizerObject
    <3> QED
      BY <2>0, <3>1 DEF StoreType
  <2>3. ASSUME NEW c \in Clusters, PassStep(c) \/ APIError(c), ~removeFinalizer(c)
        PROVE  Kept
    <3>1. \/ obj' = obj
          \/ /\ obj[c] # Nil
             /\ \E n \in Objects : (obj[c].fin => n.fin) /\ obj' = [obj EXCEPT ![c] = n]
      BY <2>0, <2>3, PassStepObject
    <3> QED
      BY <2>0, <3>1, NilAssumption DEF StoreType
  <2>4. ASSUME NEW c \in Clusters, User(c) PROVE Kept
    <3>1. CASE UserDeletes(c)
      <4>1. obj[c] \in Objects /\ obj[c].spec \in Specs
        BY <2>0, <3>1 DEF UserDeletes, StoreType, Objects
      <4>2. Condemned(obj[c]) # Nil /\ Condemned(obj[c]).fin = obj[c].fin
        <5>1. Condemned(obj[c]) \in Objects
          BY <4>1, ObjectEdits
        <5>2. Condemned(obj[c]).fin = obj[c].fin
          BY <4>1 DEF Condemned, Objects
        <5> QED
          BY <5>1, <5>2, NilAssumption
      <4>3. obj' = [obj EXCEPT ![c] = IF obj[c].fin THEN Condemned(obj[c]) ELSE Nil]
        BY <3>1 DEF UserDeletes
      <4> QED
        BY <2>0, <4>2, <4>3 DEF StoreType
    <3>2. ASSUME NEW x \in Specs, UserEdits(c, x) PROVE Kept
      <4>1. obj[c] \in Objects
        BY <2>0, <3>2 DEF UserEdits, StoreType
      <4>2. Edited(obj[c], x) # Nil /\ Edited(obj[c], x).fin = obj[c].fin
        <5>1. Edited(obj[c], x) \in Objects
          BY <4>1, ObjectEdits
        <5>2. Edited(obj[c], x).fin = obj[c].fin
          BY <4>1 DEF Edited, Objects
        <5> QED
          BY <5>1, <5>2, NilAssumption
      <4>3. obj' = [obj EXCEPT ![c] = Edited(obj[c], x)]
        BY <3>2 DEF UserEdits
      <4> QED
        BY <2>0, <4>2, <4>3 DEF StoreType
    <3>3. ASSUME NEW x \in Specs, UserCreates(c, x) PROVE Kept
      <4>1. obj[c] = Nil /\ obj' = [obj EXCEPT ![c] = NewObject(born[c] + 1, x)]
        BY <3>3 DEF UserCreates
      <4> QED
        BY <2>0, <4>1 DEF StoreType
    <3> QED
      BY <2>4, <3>1, <3>2, <3>3 DEF User
  <2>5. ASSUME NEW c \in Clusters, Fetch(c) \/ TimerFires(c) \/ Kubernetes(c)
        PROVE  UNCHANGED obj
    BY <2>5 DEF Fetch, TimerFires, Kubernetes, CacheSync, OwnedCacheSync, GarbageCollect
  <2>6. ASSUME OperatorRestarts PROVE UNCHANGED obj
    BY <2>6 DEF OperatorRestarts
  <2> QED
    BY <1>1, <2>1, <2>2, <2>3, <2>4, <2>5, <2>6 DEF Next, Operator
<1>2. Inv /\ [Next]_vars => [Kept]_vars
  BY <1>1
<1> QED
  BY <1>2, InvInductive, PTL DEF Spec, FinalizerGuardsTheLiving

------------------------------------------------------------------------------
(* Nobody is forgotten.                                                     *)

\* The keys that wait for the worker, will be added after the pass that is
\* under way, or after a delay.
Due == Range(queue) \cup again \cup timer

\* o, p and w are the stored object, the cached one and the pass of a cluster.
\* What is being deleted has its finalizer, and a cached copy of the stored
\* object is not ahead of it.
CopyKept(o, p) ==
    /\ (o # Nil /\ o.deleting) => o.fin
    /\ (o # Nil /\ p # Nil /\ o.uid = p.uid) => p.gen <= o.gen /\ (p.fin => o.fin)

\* A pass that no change of the cache has woken again goes by what the cache
\* holds now, and is past the finalizer only if the stored object has it.
PassUpToDate(o, p, w) ==
    /\ w.pc = "notFound" => p = Nil
    /\ w.pc = "removeFinalizer" => p # Nil /\ p.deleting
    /\ w.pc \notin {"notFound", "removeFinalizer"} =>
           p # Nil /\ ~p.deleting /\ w.mem = Copy(p)
    /\ w.pc = "invalid" => ~p.spec.ok
    /\ (w.pc \notin {"notFound", "removeFinalizer", "addFinalizer"}
            /\ o # Nil /\ o.uid = p.uid) => o.fin

\* The only cluster that is left alone while it exists: one with an invalid
\* spec that its status reports.
Reported(o) == ~o.deleting /\ o.fin /\ o.seen = o.gen /\ ~o.spec.ok

RestSound(o, p, w, woken, due) ==
    /\ CopyKept(o, p)
    /\ (w # Nil /\ ~woken) => PassUpToDate(o, p, w)
    /\ (w = Nil /\ ~due /\ p = o /\ o # Nil) => Reported(o)

RestsSound ==
    \A c \in Clusters : RestSound(obj[c], cache[c], pass[c], c \in again, c \in Due)

\* A step that concerns one cluster is judged by that cluster alone, if it
\* takes no wake-up from another.
LEMMA OneRest ==
    ASSUME RestsSound, NEW c \in Clusters,
           \A e \in Clusters \ {c} :
               obj'[e] = obj[e] /\ cache'[e] = cache[e] /\ pass'[e] = pass[e],
           again \ {c} \subseteq again', Due \ {c} \subseteq Due',
           RestSound(obj'[c], cache'[c], pass'[c], c \in again', c \in Due')
    PROVE  RestsSound'
<1>1. ASSUME NEW e \in Clusters, e # c
      PROVE  RestSound(obj'[e], cache'[e], pass'[e], e \in again', e \in Due')
  <2>1. RestSound(obj[e], cache[e], pass[e], e \in again, e \in Due)
    BY DEF RestsSound
  <2>2. /\ obj'[e] = obj[e] /\ cache'[e] = cache[e] /\ pass'[e] = pass[e]
        /\ e \in again => e \in again'
        /\ e \in Due => e \in Due'
    BY <1>1
  <2> QED
    BY <2>1, <2>2 DEF RestSound
<1> QED
  BY <1>1 DEF RestsSound

\* What waking a key, the end and the begin of a pass do to the keys that are
\* due.
LEMMA EnqueueDue ==
    ASSUME WorkInv, NEW c \in Clusters, Enqueue(c), timer \ {c} \subseteq timer'
    PROVE  /\ again \subseteq again' /\ Due \ {c} \subseteq Due' /\ c \in Due'
           /\ pass[c] # Nil => c \in again'
<1>1. Range(Append(queue, c)) = Range(queue) \cup {c}
  BY QueueAppend DEF WorkInv, WorkType
<1> QED
  BY <1>1 DEF Enqueue, Due

LEMMA ReturnDue ==
    ASSUME WorkInv, NEW c \in Clusters, NEW r, Return(c, r)
    PROVE  /\ again \ {c} \subseteq again' /\ Due \subseteq Due'
           /\ r => c \in Due'
<1>1. Range(Append(queue, c)) = Range(queue) \cup {c}
  BY QueueAppend DEF WorkInv, WorkType
<1>2. /\ Range(queue) \subseteq Range(queue')
      /\ c \in again => c \in Range(queue')
      /\ again' = again \ {c}
      /\ timer \subseteq timer' /\ (r => c \in timer')
  BY <1>1 DEF Return
<1> QED
  BY <1>2 DEF Due

\* What was woken during the pass that ends is due.
LEMMA WokenDue ==
    ASSUME WorkInv, NEW c \in Clusters, NEW r, Return(c, r)
    PROVE  pass'[c] = Nil /\ (c \in again => c \in Due')
<1>1. Range(Append(queue, c)) = Range(queue) \cup {c}
  BY QueueAppend DEF WorkInv, WorkType
<1> QED
  BY <1>1 DEF Return, WorkInv, WorkType, Due

LEMMA FetchDue ==
    ASSUME WorkInv, NEW c \in Clusters, Fetch(c)
    PROVE  again' = again /\ Due \ {c} \subseteq Due'
<1>1. Range(Tail(queue)) = Range(queue) \ {Head(queue)}
  BY QueueTail DEF Fetch, WorkInv, WorkType, QueueSound
<1> QED
  BY <1>1 DEF Fetch, Due

\* A pass begins.
LEMMA RestFetch ==
    ASSUME NEW o \in Objects \cup {Nil}, NEW p \in Objects \cup {Nil}, CopyKept(o, p),
           NEW w, w = [pc |-> FirstStep(p), mem |-> Copy(p)]
    PROVE  PassUpToDate(o, p, w)
<1>1. w.pc = FirstStep(p) /\ w.mem = Copy(p)
  OBVIOUS
<1>2. CASE p = Nil
  BY <1>1, <1>2 DEF FirstStep, PassUpToDate
<1>3. CASE p # Nil /\ p.deleting
  BY <1>1, <1>3 DEF FirstStep, PassUpToDate
<1>4. CASE p # Nil /\ ~p.deleting /\ ~p.fin
  BY <1>1, <1>4 DEF FirstStep, PassUpToDate
<1>5. CASE p # Nil /\ ~p.deleting /\ p.fin
  <2>1. w.pc = Validated(p.spec)
    BY <1>1, <1>5 DEF FirstStep
  <2>2. /\ Validated(p.spec) \in Onward
        /\ Validated(p.spec) = "invalid" => ~p.spec.ok
    BY StepNames, VerdictNames
  <2> QED
    BY <1>1, <1>5, <2>1, <2>2 DEF PassUpToDate, CopyKept, Onward
<1> QED
  BY <1>2, <1>3, <1>4, <1>5

\* A pass goes on from a step after the finalizer.
LEMMA RestGoesOn ==
    ASSUME NEW o, NEW p, NEW w, PassUpToDate(o, p, w),
           w.pc \in Onward, w.pc # "addFinalizer",
           NEW v, v.pc \in Onward, v.pc # "invalid", v.mem = w.mem,
           NEW n, n = o \/ (o # Nil /\ n.uid = o.uid /\ n.fin = o.fin)
    PROVE  PassUpToDate(n, p, v)
BY DEF PassUpToDate, Onward

\* A pass goes on from the finalizer.
LEMMA RestFinalized ==
    ASSUME NEW o, NEW p \in Objects \cup {Nil}, NEW w, CopyKept(o, p), PassUpToDate(o, p, w),
           w.pc = "addFinalizer",
           NEW v, v.pc = Validated(w.mem.spec), v.mem = w.mem,
           NEW n, (n = o /\ p.fin) \/ n.fin
    PROVE  PassUpToDate(n, p, v)
<1>1. p # Nil /\ ~p.deleting /\ w.mem = Copy(p)
  BY DEF PassUpToDate
<1>2. w.mem.spec = p.spec
  BY <1>1 DEF Copy
<1>3. v.pc \in Onward /\ (v.pc = "invalid" => ~p.spec.ok)
  BY <1>2, StepNames, VerdictNames
<1> QED
  BY <1>1, <1>3 DEF PassUpToDate, CopyKept, Onward

\* The stored object is what it was, or has a new status.
SameButSeen(n, o) ==
    \/ n = o
    \/ /\ o # Nil /\ n # Nil /\ n.uid = o.uid /\ n.gen = o.gen
       /\ n.deleting = o.deleting /\ n.fin = o.fin

LEMMA StatusSame ==
    ASSUME StoreType, WorkInv, NEW c \in Clusters, pass[c] # Nil, pass[c].pc # "notFound",
           StatusWritten(c) \/ StatusRefused(c)
    PROVE  /\ SameButSeen(obj'[c], obj[c])
           /\ \A e \in Clusters \ {c} : obj'[e] = obj[e]
           /\ StatusWritten(c) => /\ cache[c] # Nil /\ cache[c] = obj[c]
                                  /\ obj'[c].seen = pass[c].mem.gen
                                  /\ obj'[c].spec = obj[c].spec
<1>1. CASE StatusRefused(c)
  BY <1>1 DEF StatusRefused, StatusWritten, Current, SameButSeen
<1>2. CASE StatusWritten(c)
  <2>1. cache[c] # Nil /\ cache[c] = obj[c] /\ obj[c] \in Objects
    BY <1>2 DEF StatusWritten, Current, StoreType
  <2>2. pass[c].mem.gen \in Nat
    BY MemType
  <2> DEFINE n == [obj[c] EXCEPT !.seen = pass[c].mem.gen]
  <2>3. /\ n \in Objects /\ n.uid = obj[c].uid /\ n.gen = obj[c].gen /\ n.spec = obj[c].spec
        /\ n.deleting = obj[c].deleting /\ n.fin = obj[c].fin /\ n.seen = pass[c].mem.gen
    BY <2>1, <2>2 DEF Objects
  <2>4. obj' = [obj EXCEPT ![c] = n]
    BY <1>2 DEF StatusWritten
  <2> HIDE DEF n
  <2>5. n # Nil
    BY <2>3, NilAssumption
  <2> QED
    BY <2>1, <2>3, <2>4, <2>5 DEF StoreType, SameButSeen
<1> QED
  BY <1>1, <1>2

LEMMA KeptSame ==
    ASSUME NEW o, NEW p, CopyKept(o, p), NEW n, SameButSeen(n, o)
    PROVE  CopyKept(n, p)
BY DEF CopyKept, SameButSeen

\* A pass that returns with an error or RequeueAfter leaves its key due.
LEMMA RestRequeue ==
    ASSUME WorkInv, NEW c \in Clusters, Return(c, TRUE), CopyKept(obj'[c], cache'[c])
    PROVE  RestSound(obj'[c], cache'[c], pass'[c], c \in again', c \in Due')
<1>1. c \in Due'
  BY ReturnDue
<1>2. pass'[c] = Nil
  BY DEF Return, WorkInv, WorkType
<1> QED
  BY <1>1, <1>2 DEF RestSound

\* One that goes on is not over.
LEMMA RestGoTo ==
    ASSUME WorkInv, NEW c \in Clusters, pass[c] # Nil, pass[c].pc \in Onward,
           NEW step \in Onward, GoTo(c, step), CopyKept(obj'[c], cache'[c]),
           c \notin again => PassUpToDate(obj'[c], cache'[c], [pc |-> step, mem |-> pass[c].mem])
    PROVE  RestSound(obj'[c], cache'[c], pass'[c], c \in again', c \in Due')
<1>1. WorkInv' /\ pass' = [pass EXCEPT ![c] = [pc |-> step, mem |-> pass[c].mem]]
  BY GoToEffect DEF Onward
<1>2. pass'[c] = [pc |-> step, mem |-> pass[c].mem]
  BY <1>1 DEF WorkInv, WorkType
<1>3. pass'[c] # Nil
  <2>1. pass[c] \in Passes
    BY DEF WorkInv, WorkType
  <2>2. [pc |-> step, mem |-> pass[c].mem] \in Passes
    BY <2>1 DEF Passes, Onward
  <2> QED
    BY <1>2, <2>2, NilAssumption
<1>4. again' = again
  BY DEF GoTo
<1> QED
  BY <1>2, <1>3, <1>4 DEF RestSound

\* The steps of a pass, one after the other.
LEMMA RestPass ==
    ASSUME Inv, RestsSound, NEW c \in Clusters, PassStep(c) \/ APIError(c)
    PROVE  RestSound(obj'[c], cache'[c], pass'[c], c \in again', c \in Due')
<1> DEFINE o == obj[c]
           p == cache[c]
           w == pass[c]
           Goal == RestSound(obj'[c], cache'[c], pass'[c], c \in again', c \in Due')
<1>0. /\ StoreType /\ WorkInv
      /\ o \in Objects \cup {Nil} /\ p \in Objects \cup {Nil}
      /\ CopyKept(o, p)
      /\ (w # Nil /\ c \notin again) => PassUpToDate(o, p, w)
  BY TypeParts DEF Inv, RestsSound, RestSound, StoreType
<1>1. CASE APIError(c)
  <2>1. Return(c, TRUE) /\ obj' = obj /\ cache' = cache
    BY <1>1 DEF APIError
  <2> QED
    BY <1>0, <2>1, RestRequeue
<1>2. CASE notFound(c)
  <2>1. w # Nil /\ w.pc = "notFound" /\ Return(c, FALSE) /\ obj' = obj /\ cache' = cache
    BY <1>2 DEF notFound, At
  <2>2. pass'[c] = Nil /\ (c \in again => c \in Due')
    BY <1>0, <2>1, WokenDue
  <2>3. c \notin again => p = Nil
    BY <1>0, <2>1 DEF PassUpToDate
  <2> QED
    BY <1>0, <2>1, <2>2, <2>3 DEF RestSound
<1>3. CASE addFinalizer(c)
  <2>0. w # Nil /\ w.pc = "addFinalizer" /\ cache' = cache /\ w.pc \in Onward
    BY <1>3, StepNames DEF addFinalizer, At
  <2>1. CASE Finalized(p) /\ GoTo(c, Validated(w.mem.spec)) /\ obj' = obj
    <3> DEFINE v == [pc |-> Validated(w.mem.spec), mem |-> w.mem]
    <3>1. v.pc = Validated(w.mem.spec) /\ v.mem = w.mem /\ Validated(w.mem.spec) \in Onward
      BY StepNames
    <3> HIDE DEF v
    <3>2. c \notin again => PassUpToDate(o, p, v)
      BY <1>0, <2>0, <2>1, <3>1, RestFinalized DEF Finalized
    <3> QED
      BY <1>0, <2>0, <2>1, <3>1, <3>2, RestGoTo DEF v
  <2>2. CASE /\ ~Finalized(p) /\ Current(c) /\ obj' = [obj EXCEPT ![c].fin = TRUE]
             /\ GoTo(c, Validated(w.mem.spec))
    <3> DEFINE v == [pc |-> Validated(w.mem.spec), mem |-> w.mem]
               n == [o EXCEPT !.fin = TRUE]
    <3>1. v.pc = Validated(w.mem.spec) /\ v.mem = w.mem /\ Validated(w.mem.spec) \in Onward
      BY StepNames
    <3>2. /\ o \in Objects /\ p = o /\ obj'[c] = n
          /\ n.uid = o.uid /\ n.gen = o.gen /\ n.fin
      BY <1>0, <2>2 DEF Current, StoreType, Objects
    <3>3. p.gen <= n.gen
      BY <3>2 DEF Objects
    <3> HIDE DEF v, n
    <3>4. CopyKept(n, p)
      BY <3>2, <3>3 DEF CopyKept
    <3>5. c \notin again => PassUpToDate(n, p, v)
      BY <1>0, <2>0, <3>1, <3>2, RestFinalized
    <3> QED
      BY <1>0, <2>0, <2>2, <3>1, <3>2, <3>4, <3>5, RestGoTo DEF v
  <2>3. CASE Return(c, TRUE) /\ obj' = obj
    BY <1>0, <2>0, <2>3, RestRequeue
  <2> QED
    BY <1>3, <2>1, <2>2, <2>3 DEF addFinalizer
<1>4. CASE removeFinalizer(c)
  <2>0. w # Nil /\ w.pc = "removeFinalizer" /\ cache' = cache
    BY <1>4 DEF removeFinalizer, At
  <2>1. CASE ~Finalized(p) /\ Return(c, FALSE) /\ obj' = obj
    <3>1. pass'[c] = Nil /\ (c \in again => c \in Due')
      BY <1>0, <2>0, <2>1, WokenDue
    <3>2. c \notin again => p # Nil /\ p.deleting /\ ~p.fin
      BY <1>0, <2>0, <2>1 DEF PassUpToDate, Finalized
    <3>3. c \notin again => p # o
      BY <1>0, <3>2 DEF CopyKept
    <3> QED
      BY <1>0, <2>0, <2>1, <3>1, <3>3 DEF RestSound
  <2>2. CASE Finalized(p) /\ Current(c)
             /\ obj' = [obj EXCEPT ![c] = IF @.deleting THEN Nil ELSE [@ EXCEPT !.fin = FALSE]]
             /\ Return(c, FALSE)
    <3>1. p # Nil /\ p = o /\ p.fin
      BY <2>2 DEF Finalized, Current
    <3>2. LifeSound(o, p, w, born[c], buried[c])
      BY DEF Inv, LivesSound
    <3>3. o.deleting
      BY <2>0, <3>1, <3>2, LifeBuried
    <3>4. obj'[c] = Nil /\ pass'[c] = Nil
      BY <1>0, <2>2, <3>3 DEF StoreType, Return, WorkInv, WorkType
    <3> QED
      BY <3>4 DEF RestSound, CopyKept
  <2>3. CASE Return(c, TRUE) /\ obj' = obj
    BY <1>0, <2>0, <2>3, RestRequeue
  <2> QED
    BY <1>4, <2>1, <2>2, <2>3 DEF removeFinalizer
<1>5. ASSUME NEW k \in Watched, ensure(c, k) PROVE Goal
  <2>1. /\ w # Nil /\ w.pc = k /\ obj' = obj /\ cache' = cache
        /\ Return(c, TRUE) \/ GoTo(c, AfterEnsured(k))
    BY <1>5 DEF ensure, At
  <2>2. CASE Return(c, TRUE)
    BY <1>0, <2>1, <2>2, RestRequeue
  <2>3. CASE GoTo(c, AfterEnsured(k))
    <3> DEFINE v == [pc |-> AfterEnsured(k), mem |-> w.mem]
    <3>1. /\ v.pc = AfterEnsured(k) /\ v.mem = w.mem
          /\ AfterEnsured(k) \in Onward /\ AfterEnsured(k) # "invalid"
          /\ w.pc \in Onward /\ w.pc # "addFinalizer"
      BY <2>1, StepNames, VerdictNames
    <3> HIDE DEF v
    <3>2. c \notin again => PassUpToDate(o, p, v)
      BY <1>0, <2>1, <3>1, RestGoesOn
    <3> QED
      BY <1>0, <2>1, <2>3, <3>1, <3>2, RestGoTo DEF v
  <2> QED
    BY <2>1, <2>2, <2>3
<1>6. CASE reportInvalid(c)
  <2>0. /\ w # Nil /\ w.pc = "invalid" /\ cache' = cache
        /\ \/ StatusWritten(c) /\ Return(c, FALSE)
           \/ StatusRefused(c) /\ Return(c, TRUE)
    BY <1>6 DEF reportInvalid, At
  <2>1. SameButSeen(obj'[c], o) /\ CopyKept(obj'[c], p)
    BY <1>0, <2>0, StatusSame, KeptSame
  <2>2. CASE StatusRefused(c) /\ Return(c, TRUE)
    BY <1>0, <2>0, <2>1, <2>2, RestRequeue
  <2>3. CASE StatusWritten(c) /\ Return(c, FALSE)
    <3>1. /\ p # Nil /\ p = o /\ obj'[c].seen = w.mem.gen /\ obj'[c].spec = o.spec
          /\ pass'[c] = Nil /\ (c \in again => c \in Due')
      BY <1>0, <2>0, <2>3, StatusSame, WokenDue
    <3>2. ASSUME c \notin again PROVE Reported(obj'[c])
      <4>1. PassUpToDate(o, p, w)
        BY <1>0, <2>0, <3>2
      <4>2. /\ ~p.deleting /\ w.mem = Copy(p) /\ ~p.spec.ok /\ o.fin
        BY <2>0, <3>1, <4>1 DEF PassUpToDate
      <4>3. w.mem.gen = o.gen
        BY <3>1, <4>2 DEF Copy
      <4> QED
        BY <2>1, <3>1, <4>2, <4>3 DEF Reported, SameButSeen
    <3> QED
      BY <2>0, <2>1, <3>1, <3>2 DEF RestSound
  <2> QED
    BY <2>0, <2>2, <2>3
<1>7. CASE updateStatus(c)
  <2>0. /\ w # Nil /\ w.pc = "status" /\ cache' = cache
        /\ StatusWritten(c) \/ StatusRefused(c)
        /\ GoTo(c, "nodes")
    BY <1>7 DEF updateStatus, At
  <2>1. SameButSeen(obj'[c], o) /\ CopyKept(obj'[c], p)
    BY <1>0, <2>0, StatusSame, KeptSame
  <2> DEFINE v == [pc |-> "nodes", mem |-> w.mem]
  <2>2. v.pc = "nodes" /\ v.mem = w.mem /\ "nodes" \in Onward /\ w.pc \in Onward
    BY <2>0, StepNames
  <2> HIDE DEF v
  <2>3. c \notin again => PassUpToDate(obj'[c], p, v)
    BY <1>0, <2>0, <2>1, <2>2, RestGoesOn DEF SameButSeen
  <2> QED
    BY <1>0, <2>0, <2>1, <2>2, <2>3, RestGoTo DEF v
<1>8. CASE reconcileNodes(c)
  <2>1. Return(c, TRUE) /\ obj' = obj /\ cache' = cache
    BY <1>8 DEF reconcileNodes
  <2> QED
    BY <1>0, <2>1, RestRequeue
<1> QED
  BY <1>1, <1>2, <1>3, <1>4, <1>5, <1>6, <1>7, <1>8 DEF PassStep

\* What users do to a cluster.
LEMMA RestUser ==
    ASSUME Inv, RestsSound, NEW c \in Clusters, User(c)
    PROVE  RestSound(obj'[c], cache'[c], pass'[c], c \in again', c \in Due')
<1> DEFINE o == obj[c]
           p == cache[c]
           w == pass[c]
           n == obj'[c]
<1>0. /\ o \in Objects \cup {Nil} /\ p \in Objects \cup {Nil} /\ born[c] \in Nat
      /\ LifeSound(o, p, w, born[c], buried[c])
      /\ RestSound(o, p, w, c \in again, c \in Due)
      /\ StoreType
  BY TypeParts DEF Inv, RestsSound, LivesSound, StoreType, CountType
<1>1. cache' = cache /\ pass' = pass /\ again' = again /\ Due' = Due
  BY DEF User, UserDeletes, UserCreates, UserEdits, queueVars, Due
<1>2. CASE n = Nil
  BY <1>0, <1>1, <1>2 DEF RestSound, CopyKept, PassUpToDate
<1>3. CASE \E x : o = Nil /\ n = NewObject(born[c] + 1, x)
  <2>1. o = Nil /\ n.uid = born[c] + 1 /\ ~n.deleting
    BY <1>3 DEF NewObject
  <2>2. p # Nil => p.uid # n.uid
    <3>1. p # Nil => p.uid \in Nat /\ p.uid <= born[c]
      BY <1>0 DEF LifeSound, UIDsKnown, Objects, UIDs
    <3> QED
      BY <1>0, <2>1, <3>1
  <2> HIDE DEF n
  <2> QED
    BY <1>0, <1>1, <2>1, <2>2 DEF RestSound, CopyKept, PassUpToDate, n
<1>4. CASE /\ o # Nil /\ n # Nil /\ n.uid = o.uid /\ n.gen = o.gen + 1 /\ n.fin = o.fin
           /\ n.deleting = o.deleting \/ n.fin
  <2>1. /\ CopyKept(o, p) /\ o.gen \in Nat
        /\ (p # Nil) => p.gen \in Nat
    BY <1>0, <1>4 DEF RestSound, Objects
  <2>2. (p # Nil /\ p.uid = n.uid) => p.gen < n.gen
    BY <1>4, <2>1 DEF CopyKept
  <2>3. CopyKept(n, p)
    BY <1>4, <2>1, <2>2 DEF CopyKept
  <2>4. p # n
    <3>1. p = n => p.gen < p.gen
      BY <1>4, <2>2
    <3> QED
      BY <1>4, <2>1, <3>1
  <2> HIDE DEF n
  <2> QED
    BY <1>0, <1>1, <1>4, <2>3, <2>4 DEF RestSound, PassUpToDate, n
<1>5. CASE UserDeletes(c)
  <2>1. o \in Objects /\ n = IF o.fin THEN Condemned(o) ELSE Nil
    BY <1>0, <1>5 DEF UserDeletes, StoreType
  <2>2. o.fin => Condemned(o) # Nil /\ Condemned(o).uid = o.uid /\ Condemned(o).gen = o.gen + 1
                 /\ Condemned(o).fin = o.fin
    <3>1. Condemned(o) \in Objects
      BY <2>1, ObjectEdits DEF Objects
    <3> QED
      BY <2>1, <3>1, NilAssumption DEF Condemned, Objects
  <2>3. o # Nil
    BY <2>1, NilAssumption
  <2> QED
    BY <1>2, <1>4, <2>1, <2>2, <2>3
<1>6. ASSUME NEW x \in Specs, UserEdits(c, x) 
      PROVE  RestSound(n, cache'[c], pass'[c], c \in again', c \in Due')
  <2>1. o \in Objects /\ o # Nil /\ n = Edited(o, x)
    BY <1>0, <1>6 DEF UserEdits, StoreType
  <2>2. /\ Edited(o, x) # Nil /\ Edited(o, x).uid = o.uid /\ Edited(o, x).gen = o.gen + 1
        /\ Edited(o, x).fin = o.fin /\ Edited(o, x).deleting = o.deleting
    <3>1. Edited(o, x) \in Objects
      BY <2>1, ObjectEdits
    <3> QED
      BY <2>1, <3>1, NilAssumption DEF Edited, Objects
  <2> QED
    BY <1>4, <2>1, <2>2
<1>7. ASSUME NEW x \in Specs, UserCreates(c, x)
      PROVE  o = Nil /\ n = NewObject(born[c] + 1, x)
  BY <1>0, <1>7 DEF UserCreates, StoreType
<1> QED
  BY <1>3, <1>5, <1>6, <1>7 DEF User

\* Every step leaves every cluster due, awaiting news, or reported.
LEMMA RestsStep ==
    ASSUME Inv, RestsSound, [Next]_vars
    PROVE  RestsSound'
<1>0. StoreType /\ WorkInv
  BY TypeParts DEF Inv
<1>1. ASSUME NEW c \in Clusters, PassStep(c) \/ APIError(c) PROVE RestsSound'
  <2>1. RestSound(obj'[c], cache'[c], pass'[c], c \in again', c \in Due')
    BY <1>1, RestPass
  <2>2. /\ \A e \in Clusters \ {c} : obj'[e] = obj[e]
        /\ cache' = cache
    BY <1>0, <1>1 DEF PassStep, APIError, notFound, addFinalizer, removeFinalizer, ensure,
                      reportInvalid, updateStatus, reconcileNodes, StatusWritten,
                      StatusRefused, StoreType
  <2>3. \A e \in Clusters \ {c} : pass'[e] = pass[e]
    BY <1>0, <1>1, PassStepWork DEF EndsPass, GoesOn, WorkInv, WorkType
  <2>4. again \ {c} \subseteq again' /\ Due \ {c} \subseteq Due'
    <3>1. (\E r : Return(c, r)) \/ \E step : GoTo(c, step)
      BY <1>1 DEF PassStep, APIError, notFound, addFinalizer, removeFinalizer, ensure,
                  reportInvalid, updateStatus, reconcileNodes
    <3>2. ASSUME NEW step, GoTo(c, step) PROVE again' = again /\ Due' = Due
      BY <3>2 DEF GoTo, Due
    <3> QED
      BY <1>0, <3>1, <3>2, ReturnDue
  <2> QED
    BY <2>1, <2>2, <2>3, <2>4, OneRest
<1>2. ASSUME NEW c \in Clusters, Fetch(c) PROVE RestsSound'
  <2> DEFINE w == [pc |-> FirstStep(cache[c]), mem |-> Copy(cache[c])]
  <2>1. /\ obj' = obj /\ cache' = cache /\ pass'[c] = w
        /\ \A e \in Clusters \ {c} : pass'[e] = pass[e]
    BY <1>0, <1>2 DEF Fetch, WorkInv, WorkType
  <2>2. w \in Passes /\ w # Nil
    <3>1. w \in Passes
      BY <1>0, FirstStepsType, CopyType DEF Passes, StoreType
    <3> QED
      BY <3>1, NilAssumption
  <2>3. CopyKept(obj[c], cache[c]) /\ PassUpToDate(obj[c], cache[c], w)
    <3>1. CopyKept(obj[c], cache[c])
      BY DEF RestsSound, RestSound
    <3> QED
      BY <1>0, <3>1, RestFetch DEF StoreType
  <2> HIDE DEF w
  <2>4. RestSound(obj'[c], cache'[c], pass'[c], c \in again', c \in Due')
    BY <2>1, <2>2, <2>3 DEF RestSound
  <2> QED
    BY <1>0, <1>2, <2>1, <2>4, FetchDue, OneRest
<1>3. ASSUME NEW c \in Clusters, CacheSync(c) PROVE RestsSound'
  <2>1. /\ obj' = obj /\ cache'[c] = obj[c] /\ pass' = pass
        /\ \A e \in Clusters \ {c} : cache'[e] = cache[e]
        /\ again \subseteq again' /\ Due \ {c} \subseteq Due' /\ c \in Due'
        /\ pass[c] # Nil => c \in again'
    BY <1>0, <1>3, EnqueueDue DEF CacheSync, StoreType
  <2>2. CopyKept(obj[c], obj[c])
    <3>1. obj[c] # Nil => obj[c].gen \in Nat
      BY <1>0 DEF StoreType, Objects
    <3>2. CopyKept(obj[c], cache[c])
      BY DEF RestsSound, RestSound
    <3> QED
      BY <3>1, <3>2 DEF CopyKept
  <2>3. RestSound(obj'[c], cache'[c], pass'[c], c \in again', c \in Due')
    BY <2>1, <2>2 DEF RestSound
  <2> QED
    BY <2>1, <2>3, OneRest
<1>4. ASSUME NEW c \in Clusters, TimerFires(c) \/ \E k \in Kinds : OwnedCacheSync(c, k)
      PROVE  RestsSound'
  <2>1. obj' = obj /\ cache' = cache /\ pass' = pass
    BY <1>4 DEF TimerFires, OwnedCacheSync
  <2>2. /\ again \subseteq again' /\ Due \subseteq Due'
    <3>1. CASE TimerFires(c)
      <4>1. Enqueue(c) /\ timer \ {c} \subseteq timer'
        BY <3>1 DEF TimerFires
      <4> QED
        BY <1>0, <4>1, EnqueueDue
    <3>2. ASSUME NEW k \in Kinds, OwnedCacheSync(c, k)
          PROVE  again \subseteq again' /\ Due \subseteq Due'
      <4>1. (Enqueue(c) \/ UNCHANGED <<queue, again>>) /\ timer' = timer
        BY <3>2 DEF OwnedCacheSync
      <4>2. CASE Enqueue(c)
        BY <1>0, <4>1, <4>2, EnqueueDue
      <4>3. CASE UNCHANGED <<queue, again>>
        BY <4>1, <4>3 DEF Due
      <4> QED
        BY <4>1, <4>2, <4>3
    <3> QED
      BY <1>4, <3>1, <3>2
  <2>3. RestSound(obj'[c], cache'[c], pass'[c], c \in again', c \in Due')
    <3>1. RestSound(obj[c], cache[c], pass[c], c \in again, c \in Due)
      BY DEF RestsSound
    <3> QED
      BY <2>1, <2>2, <3>1 DEF RestSound
  <2> QED
    BY <2>1, <2>2, <2>3, OneRest
<1>5. ASSUME NEW c \in Clusters, User(c) PROVE RestsSound'
  <2>1. RestSound(obj'[c], cache'[c], pass'[c], c \in again', c \in Due')
    BY <1>5, RestUser
  <2>2. /\ \A e \in Clusters \ {c} : obj'[e] = obj[e]
        /\ cache' = cache /\ pass' = pass /\ again' = again /\ Due' = Due
    BY <1>0, <1>5 DEF User, UserDeletes, UserCreates, UserEdits, queueVars, Due, StoreType
  <2> QED
    BY <2>1, <2>2, OneRest
<1>6. CASE OperatorRestarts
  <2>1. /\ cache' = obj /\ obj' = obj /\ pass' = [c \in Clusters |-> Nil] /\ again' = {}
    BY <1>6 DEF OperatorRestarts
  <2>2. \A c \in Clusters : obj[c] # Nil => c \in Due'
    BY <1>6, RestartWork DEF Listed, Due
  <2>3. ASSUME NEW c \in Clusters
        PROVE  RestSound(obj'[c], cache'[c], pass'[c], c \in again', c \in Due')
    <3>1. obj[c] # Nil => obj[c].gen \in Nat
      BY <1>0 DEF StoreType, Objects
    <3>2. CopyKept(obj[c], obj[c])
      BY <3>1 DEF RestsSound, RestSound, CopyKept
    <3> QED
      BY <2>1, <2>2, <3>2 DEF RestSound
  <2> QED
    BY <2>3 DEF RestsSound
<1>7. ASSUME UNCHANGED <<obj, cache, queueVars>> PROVE RestsSound'
  BY <1>7 DEF RestsSound, RestSound, Due, queueVars
<1>8. ASSUME NEW c \in Clusters, NEW k \in Kinds, GarbageCollect(c, k)
      PROVE  UNCHANGED <<obj, cache, queueVars>>
  BY <1>8 DEF GarbageCollect
<1> QED
  BY <1>1, <1>2, <1>3, <1>4, <1>5, <1>6, <1>7, <1>8 DEF Next, Operator, Kubernetes, vars

LEMMA InitRests ==
    ASSUME Init
    PROVE  RestsSound
<1>1. ASSUME NEW c \in Clusters
      PROVE  RestSound(obj[c], cache[c], pass[c], c \in again, c \in Due)
  <2>1. obj[c] = NewObject(1, FirstSpec[c]) /\ cache[c] = Nil /\ pass[c] = Nil
    BY <1>1 DEF Init
  <2>2. ~obj[c].deleting
    BY <2>1 DEF NewObject
  <2> QED
    BY <2>1, <2>2 DEF RestSound, CopyKept
<1> QED
  BY <1>1 DEF RestsSound

\* The operator leaves a cluster alone, no pass under way, owed or due and no
\* news of it to come, only when there is nothing left to do for it: for any
\* number of clusters, edits, deletions, failures and restarts, and without
\* counting on the watches on owned objects.
THEOREM QuietClustersAreSettled == Spec => []QuietMeansSettled
<1>1. Init => Inv /\ RestsSound
  BY InvInductive, InitRests
<1>2. (Inv /\ RestsSound) /\ [Next]_vars => (Inv /\ RestsSound)'
  BY InvInductive, RestsStep
<1>3. ASSUME Inv, RestsSound PROVE QuietMeansSettled
  <2> SUFFICES ASSUME NEW c \in Clusters, Quiet(c) PROVE Settled(c)
    BY DEF QuietMeansSettled
  <2>1. /\ pass[c] = Nil /\ c \notin Due /\ cache[c] = obj[c]
        /\ \A k \in Kinds : res[c][k] # Nil => obj[c] # Nil /\ res[c][k].owner = obj[c].uid
    BY DEF Quiet, Lives, Due
  <2>2. obj[c] # Nil => Reported(obj[c])
    BY <1>3, <2>1 DEF RestsSound, RestSound
  <2> QED
    BY <2>1, <2>2 DEF Settled, Reported
<1> QED
  BY <1>1, <1>2, <1>3, PTL DEF Spec
=============================================================================
