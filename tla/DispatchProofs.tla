--------------------------- MODULE DispatchProofs ---------------------------
(***************************************************************************)
(* Proofs about Dispatch, for every set of requests, namespaces and        *)
(* upstreams and every configuration of limits.  The inductive invariant   *)
(* adds to the checked ones how far a request can be at each control point *)
(* (StagesAgree) and that no channel holds more than its capacity          *)
(* (TokensBounded); without them neither the type invariant nor the        *)
(* accounting of slots is preserved by a step.                             *)
(***************************************************************************)
EXTENDS Dispatch, FiniteSetTheorems, TLAPS

StagesAgree ==
    \A c \in Calls :
        /\ pc[c] \in {"idle", "observe"} => got[c] = 0
        /\ pc[c] = "queue" => got[c] \in 0..2
        /\ pc[c] = "upstream" => got[c] = 3
        /\ pc[c] = "unwind" => got[c] \in 1..3

TokensBounded == \A s \in Scopes : Limited(s) => tokens[s] <= Capacity(s)

FailuresBounded == \A u \in Upstreams : Breaking => failures[u] <= Failures

IInv ==
    /\ TypeOK
    /\ StagesAgree
    /\ SlotAccounting
    /\ TokensBounded
    /\ FailuresBounded
    /\ BreakerConsistent

-----------------------------------------------------------------------------
(* Lemmas about the scopes of an upstream and their capacities *)

\* The three semaphores of a call are three different ones, in a fixed order.
LEMMA PathFacts ==
    ASSUME NEW u \in Upstreams
    PROVE  /\ Path(u)[1] = Global /\ Path(u)[2] = NsOf[u] /\ Path(u)[3] = u
           /\ \A i \in 1..3 : Path(u)[i] \in Scopes
           /\ \A i, j \in 1..3 : Path(u)[i] = Path(u)[j] => i = j
<1>1. Path(u)[1] = Global /\ Path(u)[2] = NsOf[u] /\ Path(u)[3] = u
  BY DEF Path
<1>2. NsOf[u] \in Namespaces
  BY LimitsAssumption
<1>3. \A i \in 1..3 : i = 1 \/ i = 2 \/ i = 3
  OBVIOUS
<1>4. \A i \in 1..3 : Path(u)[i] \in Scopes
  BY <1>1, <1>2, <1>3 DEF Scopes
<1>5. Global # NsOf[u] /\ Global # u /\ NsOf[u] # u
  BY <1>2, LimitsAssumption
<1>6. \A i, j \in 1..3 : Path(u)[i] = Path(u)[j] => i = j
  BY <1>1, <1>3, <1>5
<1>7. QED
  BY <1>1, <1>4, <1>6

\* A capacity is an integer, and a limited scope has room for one at least.
LEMMA CapacityType ==
    ASSUME NEW s \in Scopes
    PROVE  Capacity(s) \in Int /\ (Limited(s) => Capacity(s) \in Nat \ {0})
BY LimitsAssumption DEF Scopes, Capacity, namespaceLimit, serverLimit, Limited

\* The holders of a slot are finitely many.
LEMMA HoldersFinite ==
    ASSUME NEW s
    PROVE  IsFiniteSet(Holders(s)) /\ Cardinality(Holders(s)) \in Nat
<1>1. Holders(s) \subseteq Calls
  BY DEF Holders
<1>2. QED
  BY <1>1, LimitsAssumption, FS_Subset, FS_CardinalityType

\* Steps that move nobody past a semaphore leave the holders alone.
LEMMA HoldersUnchanged ==
    ASSUME TypeOK, got' = got,
           \A c \in Calls : got[c] # 0 => target'[c] = target[c]
    PROVE  \A s : Holders(s)' = Holders(s)
<1>1. ASSUME NEW s, NEW c \in Calls
      PROVE  (\E i \in 1..got[c] : Path(target[c])[i] = s)
                <=> (\E i \in 1..got'[c] : Path(target'[c])[i] = s)
  <2>1. CASE got[c] = 0
    BY <2>1
  <2>2. CASE got[c] # 0
    BY <2>2
  <2>3. QED
    BY <2>1, <2>2
<1>2. QED
  BY <1>1 DEF Holders

-----------------------------------------------------------------------------
(* The inductive invariant holds initially *)

\* A gateway just made (New) satisfies the inductive invariant.
LEMMA InitInv == Init => IInv
<1> SUFFICES ASSUME Init PROVE IInv
  OBVIOUS
<1>1. TypeOK
  BY DEF Init, TypeOK, Errors
<1>2. StagesAgree
  BY DEF Init, StagesAgree
<1>3. \A s \in Scopes : Holders(s) = {} /\ tokens[s] = 0
  BY DEF Init, Holders
<1>4. SlotAccounting
  BY <1>3, FS_EmptySet DEF SlotAccounting
<1>5. TokensBounded
  BY <1>3, CapacityType DEF TokensBounded
<1>6. FailuresBounded /\ BreakerConsistent
  BY DispatchAssumption DEF Init, FailuresBounded, BreakerConsistent, Breaking
<1>7. QED
  BY <1>1, <1>2, <1>4, <1>5, <1>6 DEF IInv

-----------------------------------------------------------------------------
(* The breaker's part of the invariant *)

BreakerTypeOK ==
    /\ failures \in [Upstreams -> Nat]
    /\ openedAt \in [Upstreams -> {"zero", "cooling", "cooled"}]
    /\ trial \in [Upstreams -> BOOLEAN]

BreakerInv == BreakerTypeOK /\ FailuresBounded /\ BreakerConsistent

\* A success closes a breaker consistently, whatever state it was in.
LEMMA SuccessKeeps ==
    ASSUME BreakerInv, NEW u \in Upstreams, success(u)
    PROVE  BreakerInv'
<1>1. CASE ~Breaking
  BY <1>1 DEF success, breakers, BreakerInv, BreakerTypeOK, FailuresBounded, BreakerConsistent
<1>2. CASE Breaking
  <2>1. /\ failures' = [failures EXCEPT ![u] = 0]
        /\ openedAt' = [openedAt EXCEPT ![u] = "zero"]
        /\ trial' = [trial EXCEPT ![u] = FALSE]
        /\ Failures \in Nat \ {0}
    BY <1>2, DispatchAssumption DEF success, Breaking
  <2>2. BreakerTypeOK'
    BY <2>1 DEF BreakerInv, BreakerTypeOK
  <2>3. FailuresBounded' /\ BreakerConsistent'
    BY <2>1 DEF BreakerInv, BreakerTypeOK, FailuresBounded, BreakerConsistent, Breaking
  <2>4. QED
    BY <2>2, <2>3 DEF BreakerInv
<1>3. QED
  BY <1>1, <1>2

\* A failure keeps a breaker consistent, also one reported by a call that was
\* admitted before the breaker opened.
LEMMA FailureKeeps ==
    ASSUME BreakerInv, NEW u \in Upstreams, failure(u)
    PROVE  BreakerInv'
<1>1. CASE ~Breaking
  BY <1>1 DEF failure, breakers, BreakerInv, BreakerTypeOK, FailuresBounded, BreakerConsistent
<1>2. CASE Breaking
  <2> DEFINE count == IF failures[u] < Failures THEN failures[u] + 1 ELSE failures[u]
  <2>1. /\ failures' = [failures EXCEPT ![u] = count]
        /\ openedAt' = IF count >= Failures
                       THEN [openedAt EXCEPT ![u] = "cooling"] ELSE openedAt
        /\ trial' = [trial EXCEPT ![u] = FALSE]
    BY <1>2 DEF failure
  <2>2. /\ Failures \in Nat \ {0} /\ count \in 1..Failures
        /\ count < Failures => openedAt[u] = "zero"
    BY <1>2, DispatchAssumption
       DEF BreakerInv, BreakerTypeOK, FailuresBounded, BreakerConsistent, Breaking
  <2> HIDE DEF count
  <2>3. BreakerTypeOK'
    BY <2>1, <2>2 DEF BreakerInv, BreakerTypeOK
  <2>4. FailuresBounded'
    BY <2>1, <2>2 DEF BreakerInv, BreakerTypeOK, FailuresBounded, Breaking
  <2>5. BreakerConsistent'
    BY <1>2, <2>1, <2>2 DEF BreakerInv, BreakerTypeOK, BreakerConsistent, Breaking
  <2>6. QED
    BY <2>3, <2>4, <2>5 DEF BreakerInv
<1>3. QED
  BY <1>1, <1>2

\* Every step of a request keeps the breakers consistent: only Admit and Return
\* write them, through allow, success and failure.
LEMMA BreakerStep ==
    ASSUME TypeOK, BreakerInv, Next
    PROVE  BreakerInv'
<1>1. CASE UNCHANGED breakers
  BY <1>1 DEF breakers, BreakerInv, BreakerTypeOK, FailuresBounded, BreakerConsistent
<1>2. ASSUME NEW u \in Upstreams, Cool(u)
      PROVE  BreakerInv'
  BY <1>2 DEF Cool, BreakerInv, BreakerTypeOK, FailuresBounded, BreakerConsistent
<1>3. ASSUME NEW c \in Calls, NEW u \in Upstreams, Admit(c, u)
      PROVE  BreakerInv'
  <2>1. trial' \in [Upstreams -> BOOLEAN]
    BY <1>3 DEF Admit, BreakerInv, BreakerTypeOK
  <2>2. \A v \in Upstreams : trial'[v] => trial[v] \/ openedAt[v] = "cooled"
    BY <1>3 DEF Admit, IsTrial, TrialDue, BreakerInv, BreakerTypeOK
  <2>3. QED
    BY <1>3, <2>1, <2>2 DEF Admit, BreakerInv, BreakerTypeOK, FailuresBounded, BreakerConsistent
<1>4. ASSUME NEW c \in Calls, NEW e \in Errors, Return(c, e)
      PROVE  BreakerInv'
  <2>1. target[c] \in Upstreams
    BY DEF TypeOK
  <2>2. success(target[c]) \/ failure(target[c]) \/ UNCHANGED breakers
    BY <1>4 DEF Return
  <2>3. QED
    BY <1>1, <2>1, <2>2, SuccessKeeps, FailureKeeps
<1>5. QED
  BY <1>1, <1>2, <1>3, <1>4
     DEF Next, Reject, Expire, Cancel, Acquire, GiveUp, Release, Observe, breakers

-----------------------------------------------------------------------------
(* Who holds a slot *)

\* A send adds the sender to the holders of the semaphore it was waiting for,
\* where it was not one before, and to no others.
LEMMA AcquireHolders ==
    ASSUME TypeOK, StagesAgree, NEW c \in Calls, Acquire(c)
    PROVE  /\ NextScope(c) \in Scopes /\ c \notin Holders(NextScope(c))
           /\ \A s : Holders(s)' = IF s = NextScope(c) THEN Holders(s) \cup {c}
                                   ELSE Holders(s)
<1>1. /\ got[c] \in 0..2 /\ got' = [got EXCEPT ![c] = got[c] + 1]
      /\ target' = target /\ target[c] \in Upstreams
      /\ got \in [Calls -> 0..3]
  BY DEF Acquire, TypeOK, StagesAgree
<1>2. /\ \A i \in 1..3 : Path(target[c])[i] \in Scopes
      /\ \A i, j \in 1..3 : Path(target[c])[i] = Path(target[c])[j] => i = j
  BY <1>1, PathFacts
<1>3. /\ NextScope(c) \in Scopes
      /\ ~ \E i \in 1..got[c] : Path(target[c])[i] = NextScope(c)
  BY <1>1, <1>2 DEF NextScope
<1>4. ASSUME NEW s
      PROVE  (\E i \in 1..got'[c] : Path(target[c])[i] = s)
                <=> (s = NextScope(c) \/ \E i \in 1..got[c] : Path(target[c])[i] = s)
  BY <1>1 DEF NextScope
<1>5. ASSUME NEW s
      PROVE  Holders(s)' = IF s = NextScope(c) THEN Holders(s) \cup {c} ELSE Holders(s)
  <2>1. Holders(s)' = {d \in Calls : \E i \in 1..got'[d] : Path(target[d])[i] = s}
    BY <1>1 DEF Holders
  <2>2. \A d \in Calls : d # c => got'[d] = got[d]
    BY <1>1
  <2>3. QED
    BY <1>4, <2>1, <2>2 DEF Holders
<1>6. QED
  BY <1>3, <1>5 DEF Holders

\* A deferred release gives back the last semaphore taken, which is held.
LEMMA ReleaseHolders ==
    ASSUME TypeOK, StagesAgree, NEW c \in Calls, Release(c),
           NEW last, last = Path(target[c])[got[c]]
    PROVE  /\ last \in Scopes /\ c \in Holders(last)
           /\ \A s : Holders(s)' = IF s = last THEN Holders(s) \ {c} ELSE Holders(s)
<1>1. /\ got[c] \in 1..3 /\ got' = [got EXCEPT ![c] = got[c] - 1]
      /\ target' = target /\ target[c] \in Upstreams
      /\ got \in [Calls -> 0..3]
  BY DEF Release, TypeOK, StagesAgree
<1>2. /\ \A i \in 1..3 : Path(target[c])[i] \in Scopes
      /\ \A i, j \in 1..3 : Path(target[c])[i] = Path(target[c])[j] => i = j
  BY <1>1, PathFacts
<1>3. last \in Scopes /\ \E i \in 1..got[c] : Path(target[c])[i] = last
  BY <1>1, <1>2
<1>4. ASSUME NEW s
      PROVE  (\E i \in 1..got'[c] : Path(target[c])[i] = s)
                <=> (s # last /\ \E i \in 1..got[c] : Path(target[c])[i] = s)
  BY <1>1, <1>2
<1>5. ASSUME NEW s
      PROVE  Holders(s)' = IF s = last THEN Holders(s) \ {c} ELSE Holders(s)
  <2>1. Holders(s)' = {d \in Calls : \E i \in 1..got'[d] : Path(target[d])[i] = s}
    BY <1>1 DEF Holders
  <2>2. \A d \in Calls : d # c => got'[d] = got[d]
    BY <1>1
  <2>3. QED
    BY <1>4, <2>1, <2>2 DEF Holders
<1>6. QED
  BY <1>3, <1>5 DEF Holders

-----------------------------------------------------------------------------
(* Types and control points *)

\* Every step of a request keeps the types, and the place of a request and the
\* number of semaphores it has passed still agree.
LEMMA TypeStep ==
    ASSUME IInv, Next
    PROVE  TypeOK' /\ StagesAgree'
<1> USE DEF IInv
<1>1. BreakerTypeOK'
  BY BreakerStep DEF BreakerInv, BreakerTypeOK, TypeOK
<1>2. ASSUME NEW u \in Upstreams, Cool(u)
      PROVE  TypeOK' /\ StagesAgree'
  BY <1>1, <1>2 DEF Cool, TypeOK, BreakerTypeOK, StagesAgree
<1>3. ASSUME NEW c \in Calls, NEW u \in Upstreams, Admit(c, u)
      PROVE  TypeOK' /\ StagesAgree'
  <2>1. probe' \in [Calls -> BOOLEAN]
    BY <1>3 DEF Admit, TypeOK, IsTrial
  <2>2. QED
    BY <1>1, <1>3, <2>1 DEF Admit, TypeOK, BreakerTypeOK, StagesAgree
<1>4. ASSUME NEW c \in Calls, NEW u \in Upstreams, Reject(c, u)
      PROVE  TypeOK' /\ StagesAgree'
  BY <1>1, <1>4 DEF Reject, TypeOK, BreakerTypeOK, StagesAgree, Errors
<1>5. ASSUME NEW c \in Calls, Expire(c) \/ Cancel(c)
      PROVE  TypeOK' /\ StagesAgree'
  BY <1>1, <1>5 DEF Expire, Cancel, TypeOK, BreakerTypeOK, StagesAgree
<1>6. ASSUME NEW c \in Calls, Acquire(c)
      PROVE  TypeOK' /\ StagesAgree'
  <2>1. acquire(NextScope(c)) /\ NextScope(c) \in Scopes
    BY <1>6, AcquireHolders DEF Acquire
  <2>2. tokens' \in [Scopes -> Nat]
    BY <2>1 DEF acquire, TypeOK
  <2>3. QED
    BY <1>1, <1>6, <2>2 DEF Acquire, TypeOK, BreakerTypeOK, StagesAgree
<1>7. ASSUME NEW c \in Calls, GiveUp(c)
      PROVE  TypeOK' /\ StagesAgree'
  BY <1>1, <1>7 DEF GiveUp, Forget, TypeOK, BreakerTypeOK, StagesAgree, Errors
<1>8. ASSUME NEW c \in Calls, NEW e \in Errors, Return(c, e)
      PROVE  TypeOK' /\ StagesAgree'
  <2>1. /\ pc[c] = "upstream"
        /\ pc' = [pc EXCEPT ![c] = "unwind"]
        /\ err' = [err EXCEPT ![c] = e]
        /\ Forget(c)
        /\ UNCHANGED <<tokens, target, got>>
    BY <1>8 DEF Return
  <2>2. QED
    BY <1>1, <2>1 DEF Forget, TypeOK, BreakerTypeOK, StagesAgree
<1>9. ASSUME NEW c \in Calls, Release(c)
      PROVE  TypeOK' /\ StagesAgree'
  <2> DEFINE last == Path(target[c])[got[c]]
  <2>1. release(last) /\ last \in Scopes
    BY <1>9, ReleaseHolders DEF Release
  <2> HIDE DEF last
  <2>2. tokens' \in [Scopes -> Nat]
    BY <2>1 DEF release, TypeOK
  <2>3. QED
    BY <1>1, <1>9, <2>2 DEF Release, TypeOK, BreakerTypeOK, StagesAgree
<1>10. ASSUME NEW c \in Calls, Observe(c)
       PROVE  TypeOK' /\ StagesAgree'
  BY <1>1, <1>10 DEF Observe, TypeOK, BreakerTypeOK, StagesAgree, Errors
<1>11. QED
  BY <1>2, <1>3, <1>4, <1>5, <1>6, <1>7, <1>8, <1>9, <1>10 DEF Next

-----------------------------------------------------------------------------
(* The accounting of slots *)

\* Every step of a request keeps the accounting of slots: only acquire and the
\* deferred release change a semaphore, each along with the set of its holders.
LEMMA SlotStep ==
    ASSUME IInv, Next
    PROVE  SlotAccounting' /\ TokensBounded'
<1> USE DEF IInv
<1>1. ASSUME tokens' = tokens, \A s : Holders(s)' = Holders(s)
      PROVE  SlotAccounting' /\ TokensBounded'
  <2>1. \A s \in Scopes : Cardinality(Holders(s))' = Cardinality(Holders(s))
    BY <1>1
  <2>2. QED
    BY <1>1, <2>1 DEF SlotAccounting, TokensBounded
<1>2. ASSUME NEW c \in Calls, Acquire(c)
      PROVE  SlotAccounting' /\ TokensBounded'
  <2>1. /\ NextScope(c) \in Scopes /\ c \notin Holders(NextScope(c))
        /\ \A s : Holders(s)' = IF s = NextScope(c) THEN Holders(s) \cup {c}
                                ELSE Holders(s)
    BY <1>2, AcquireHolders
  <2>2. SUFFICES ASSUME NEW s \in Scopes, Limited(s)
                 PROVE  /\ tokens'[s] = Cardinality(Holders(s)')
                        /\ tokens'[s] <= Capacity(s)
    BY DEF SlotAccounting, TokensBounded
  <2>3. tokens[s] = Cardinality(Holders(s)) /\ tokens[s] <= Capacity(s)
    BY <2>2 DEF SlotAccounting, TokensBounded
  <2>4. acquire(NextScope(c)) /\ tokens \in [Scopes -> Nat]
    BY <1>2 DEF Acquire, TypeOK
  <2>5. CASE s = NextScope(c)
    <3>1. Cardinality(Holders(s)') = Cardinality(Holders(s)) + 1
      BY <2>1, <2>5, HoldersFinite, FS_AddElement
    <3>2. tokens[s] < Capacity(s) /\ tokens'[s] = tokens[s] + 1
      BY <2>2, <2>4, <2>5 DEF acquire
    <3>3. QED
      BY <2>3, <2>4, <3>1, <3>2, CapacityType
  <2>6. CASE s # NextScope(c)
    BY <2>1, <2>3, <2>4, <2>6 DEF acquire
  <2>7. QED
    BY <2>5, <2>6
<1>3. ASSUME NEW c \in Calls, Release(c)
      PROVE  SlotAccounting' /\ TokensBounded'
  <2> DEFINE last == Path(target[c])[got[c]]
  <2>1. /\ last \in Scopes /\ c \in Holders(last)
        /\ \A s : Holders(s)' = IF s = last THEN Holders(s) \ {c} ELSE Holders(s)
    BY <1>3, ReleaseHolders
  <2>2. SUFFICES ASSUME NEW s \in Scopes, Limited(s)
                 PROVE  /\ tokens'[s] = Cardinality(Holders(s)')
                        /\ tokens'[s] <= Capacity(s)
    BY DEF SlotAccounting, TokensBounded
  <2>3. tokens[s] = Cardinality(Holders(s)) /\ tokens[s] <= Capacity(s)
    BY <2>2 DEF SlotAccounting, TokensBounded
  <2>4. release(last) /\ tokens \in [Scopes -> Nat]
    BY <1>3 DEF Release, TypeOK
  <2> HIDE DEF last
  <2>5. CASE s = last
    <3>1. Cardinality(Holders(s)') = Cardinality(Holders(s)) - 1
      BY <2>1, <2>5, HoldersFinite, FS_RemoveElement
    <3>2. tokens[s] > 0 /\ tokens'[s] = tokens[s] - 1
      BY <2>2, <2>4, <2>5 DEF release
    <3>3. QED
      BY <2>3, <2>4, <3>1, <3>2, CapacityType
  <2>6. CASE s # last
    BY <2>1, <2>3, <2>4, <2>6 DEF release
  <2>7. QED
    BY <2>5, <2>6
<1>4. ASSUME tokens' = tokens, got' = got,
             \A c \in Calls : got[c] # 0 => target'[c] = target[c]
      PROVE  SlotAccounting' /\ TokensBounded'
  BY <1>1, <1>4, HoldersUnchanged
<1>5. ASSUME NEW c \in Calls, NEW u \in Upstreams, Admit(c, u) \/ Reject(c, u)
      PROVE  SlotAccounting' /\ TokensBounded'
  <2>1. /\ tokens' = tokens /\ got' = got /\ got[c] = 0
        /\ target' = [target EXCEPT ![c] = u]
    BY <1>5 DEF Admit, Reject, StagesAgree
  <2>2. QED
    BY <1>4, <2>1 DEF TypeOK
<1>6. QED
  BY <1>2, <1>3, <1>4, <1>5 DEF Next, Cool, Expire, Cancel, GiveUp, Return, Observe

-----------------------------------------------------------------------------
(* Invariance *)

\* A step that changes nothing keeps the inductive invariant.
LEMMA StutterInv == IInv /\ UNCHANGED vars => IInv'
<1> SUFFICES ASSUME IInv, UNCHANGED vars PROVE IInv'
  OBVIOUS
<1>1. \A s : Holders(s)' = Holders(s)
  BY HoldersUnchanged DEF IInv, vars
<1>2. SlotAccounting'
  <2>1. \A s \in Scopes : Cardinality(Holders(s))' = Cardinality(Holders(s))
    BY <1>1
  <2>2. QED
    BY <2>1 DEF IInv, SlotAccounting, vars
<1>3. TypeOK' /\ StagesAgree'
  BY DEF IInv, TypeOK, StagesAgree, vars
<1>4. TokensBounded' /\ FailuresBounded' /\ BreakerConsistent'
  BY DEF IInv, TokensBounded, FailuresBounded, BreakerConsistent, vars
<1>5. QED
  BY <1>2, <1>3, <1>4 DEF IInv

\* Every step of the dispatch path keeps the inductive invariant.
LEMMA StepInv == IInv /\ [Next]_vars => IInv'
<1>1. IInv => BreakerInv
  BY DEF IInv, BreakerInv, BreakerTypeOK, TypeOK
<1>2. ASSUME IInv, Next PROVE IInv'
  BY <1>1, <1>2, TypeStep, SlotStep, BreakerStep DEF IInv, BreakerInv
<1>3. QED
  BY <1>2, StutterInv

\* The inductive invariant holds in every reachable state of the dispatch path.
THEOREM Invariance == Spec => []IInv
BY InitInv, StepInv, PTL DEF Spec

\* Every variable keeps its type, for every set of requests and every limit.
THEOREM TypeCorrect == Spec => []TypeOK
<1>1. IInv => TypeOK
  BY DEF IInv
<1>2. QED
  BY <1>1, Invariance, PTL

\* Each semaphore channel of Gateway holds exactly one value per request that
\* is between its acquire and its deferred release.
THEOREM SlotsAccounted == Spec => []SlotAccounting
<1>1. IInv => SlotAccounting
  BY DEF IInv
<1>2. QED
  BY <1>1, Invariance, PTL

\* failures, openedAt and trial of every breaker agree, whatever late answers
\* report to it.
THEOREM BreakersConsistent == Spec => []BreakerConsistent
<1>1. IInv => BreakerConsistent
  BY DEF IInv
<1>2. QED
  BY <1>1, Invariance, PTL

\* A request that is upstream has passed all three semaphores.
LEMMA UpstreamHoldsAll ==
    ASSUME IInv, NEW c \in Calls, pc[c] = "upstream", NEW s \in ScopesOf(target[c])
    PROVE  c \in Holders(s)
<1>1. got[c] = 3 /\ target[c] \in Upstreams
  BY DEF IInv, StagesAgree, TypeOK
<1>2. \E i \in 1..3 : Path(target[c])[i] = s
  BY <1>1, PathFacts DEF ScopesOf
<1>3. QED
  BY <1>1, <1>2 DEF Holders

\* The concurrency limits hold: no more calls are upstream than the gateway's,
\* the namespace's and the upstream's capacity allow.
THEOREM InFlightAlwaysBounded == Spec => []InFlightBounded
<1>1. ASSUME IInv, NEW s \in Scopes, Limited(s)
      PROVE  Cardinality({c \in Calls : pc[c] = "upstream" /\ s \in ScopesOf(target[c])})
                <= Capacity(s)
  <2> DEFINE inFlight == {c \in Calls : pc[c] = "upstream" /\ s \in ScopesOf(target[c])}
  <2>1. inFlight \subseteq Holders(s)
    BY <1>1, UpstreamHoldsAll
  <2>2. Cardinality(inFlight) <= Cardinality(Holders(s)) /\ Cardinality(inFlight) \in Nat
    BY <2>1, HoldersFinite, FS_Subset, FS_CardinalityType
  <2>3. Cardinality(Holders(s)) <= Capacity(s)
    BY <1>1 DEF IInv, SlotAccounting, TokensBounded
  <2>4. QED
    BY <2>2, <2>3, HoldersFinite, CapacityType
<1>2. IInv => InFlightBounded
  BY <1>1 DEF InFlightBounded
<1>3. QED
  BY <1>2, Invariance, PTL

\* A breaker's count grows only when a call to its own upstream comes back.
THEOREM OnlyUpstreamsCount == Spec => OnlyUpstreamCounts
<1>1. ASSUME IInv, Next, NEW u \in Upstreams, failures'[u] > failures[u]
      PROVE  \E c \in Calls : /\ pc[c] = "upstream" /\ target[c] = u
                              /\ pc'[c] = "unwind"
  <2>1. PICK c \in Calls, e \in Errors : Return(c, e)
    BY <1>1 DEF Next, Cool, Admit, Reject, Expire, Cancel, Acquire, GiveUp,
                Release, Observe, IInv, TypeOK
  <2>2. success(target[c]) \/ failure(target[c]) \/ UNCHANGED breakers
    BY <2>1 DEF Return
  <2>3. failures'[u] > failures[u] => target[c] = u
    BY <1>1, <2>2 DEF success, failure, breakers, IInv, TypeOK
  <2>4. QED
    BY <1>1, <2>1, <2>3 DEF Return, IInv, TypeOK
<1>2. IInv /\ [Next]_vars =>
        [\A u \in Upstreams : failures[u]' > failures[u] =>
            \E c \in Calls : /\ pc[c] = "upstream" /\ target[c] = u
                             /\ pc'[c] = "unwind"]_vars
  BY <1>1
<1>3. QED
  BY <1>2, Invariance, PTL DEF Spec, OnlyUpstreamCounts

-----------------------------------------------------------------------------
(* Waiting for slots *)

\* A scope is at the same place of every call's path that it is on.
LEMMA PlaceInPath ==
    ASSUME NEW u \in Upstreams, NEW v \in Upstreams, NEW i \in 1..3, NEW j \in 1..3,
           Path(u)[i] = Path(v)[j]
    PROVE  i = j
<1>1. /\ Path(u)[1] = Global /\ Path(u)[2] = NsOf[u] /\ Path(u)[3] = u
      /\ Path(v)[1] = Global /\ Path(v)[2] = NsOf[v] /\ Path(v)[3] = v
  BY PathFacts
<1>2. NsOf[u] \in Namespaces /\ NsOf[v] \in Namespaces
  BY LimitsAssumption
<1>3. /\ Global # NsOf[u] /\ Global # u /\ Global # NsOf[v] /\ Global # v
      /\ NsOf[u] # v /\ NsOf[v] # u
  BY <1>2, LimitsAssumption
<1>4. i \in {1, 2, 3} /\ j \in {1, 2, 3}
  OBVIOUS
<1>5. QED
  BY <1>1, <1>3, <1>4

\* Whoever holds a slot that c waits for has passed more semaphores than c, and
\* there is such a request whenever c waits.
LEMMA HoldersAreAhead ==
    ASSUME IInv, NEW c \in Calls, Waits(c)
    PROVE  /\ Holders(NextScope(c)) # {}
           /\ \A d \in Holders(NextScope(c)) : got[d] > got[c]
<1>1. /\ got[c] \in 0..2 /\ target[c] \in Upstreams /\ got[c] + 1 \in 1..3
      /\ NextScope(c) = Path(target[c])[got[c] + 1]
  BY DEF Waits, NextScope, IInv, StagesAgree, TypeOK
<1>2. NextScope(c) \in Scopes
  BY <1>1, PathFacts
<1>3. Holders(NextScope(c)) # {}
  <2>1. Limited(NextScope(c)) /\ tokens[NextScope(c)] >= Capacity(NextScope(c))
    BY DEF Waits
  <2>2. Cardinality(Holders(NextScope(c))) = tokens[NextScope(c)]
    BY <1>2, <2>1 DEF IInv, SlotAccounting
  <2>3. tokens[NextScope(c)] # 0
    BY <1>2, <2>1, CapacityType DEF IInv, TypeOK
  <2>4. QED
    BY <2>2, <2>3, FS_EmptySet
<1>4. ASSUME NEW d \in Holders(NextScope(c))
      PROVE  got[d] > got[c]
  <2>1. d \in Calls /\ \E i \in 1..got[d] : Path(target[d])[i] = NextScope(c)
    BY DEF Holders
  <2>2. PICK i \in 1..got[d] : Path(target[d])[i] = NextScope(c)
    BY <2>1
  <2>3. got[d] \in 0..3 /\ target[d] \in Upstreams
    BY <2>1 DEF IInv, TypeOK
  <2>4. i \in 1..3
    BY <2>3
  <2>5. i = got[c] + 1
    BY <1>1, <2>2, <2>3, <2>4, PlaceInPath
  <2>6. QED
    BY <1>1, <2>3, <2>5
<1>5. QED
  BY <1>3, <1>4

\* Requests never wait for each other in a circle: of those that wait, one that
\* has come furthest waits for a request outside.
THEOREM NeverCircular == Spec => []NoCircularWait
<1>1. ASSUME IInv, NEW waiting \in SUBSET {c \in Calls : Waits(c)}, waiting # {},
             \A c \in waiting : Holders(NextScope(c)) \subseteq waiting
      PROVE  FALSE
  <2>1. \A c \in waiting : got[c] \in 0..2
    BY <1>1 DEF Waits, IInv, StagesAgree
  <2>2. \A c \in waiting : \E d \in waiting : got[d] > got[c]
    BY <1>1, HoldersAreAhead
  <2>3. \A c \in waiting : got[c] # 2
    BY <2>1, <2>2
  <2>4. \A c \in waiting : got[c] # 1
    BY <2>1, <2>2, <2>3
  <2>5. \A c \in waiting : got[c] # 0
    BY <2>1, <2>2, <2>3, <2>4
  <2>6. QED
    BY <1>1, <2>1, <2>3, <2>4, <2>5
<1>2. IInv => NoCircularWait
  BY <1>1 DEF NoCircularWait
<1>3. QED
  BY <1>2, Invariance, PTL

-----------------------------------------------------------------------------
(* Dispatch implements CallLimits *)

stage == [c \in Calls |-> Stage(pc[c])]

\* A step that only moves c from one stage to another does so in CallLimits.
LEMMA StageMoves ==
    ASSUME TypeOK, NEW c \in Calls, NEW p, pc' = [pc EXCEPT ![c] = p]
    PROVE  stage' = [stage EXCEPT ![c] = Stage(p)]
BY DEF TypeOK, stage

\* CallLimits reads the same configuration.
LEMMA SameLimits ==
    /\ \A u : Promise!ScopesOf(u) = ScopesOf(u)
    /\ \A s : Promise!Limited(s) = Limited(s) /\ Promise!Capacity(s) = Capacity(s)
    /\ \A S : Promise!Cardinality(S) = Cardinality(S)
<1>1. \A u : Promise!ScopesOf(u) = ScopesOf(u)
  BY DEF Promise!ScopesOf, ScopesOf
<1>2. \A s : Promise!Capacity(s) = Capacity(s)
  BY DEF Promise!Capacity, Capacity, Promise!namespaceLimit, namespaceLimit,
         Promise!serverLimit, serverLimit
<1>3. \A s : Promise!Limited(s) = Limited(s)
  BY <1>2 DEF Promise!Limited, Limited
<1>4. \A S : Promise!Cardinality(S) = Cardinality(S)
  BY DEF Promise!Cardinality, Cardinality
<1>5. QED
  BY <1>1, <1>2, <1>3, <1>4

\* With the last semaphore in hand, every scope of the call has room for one
\* more running call: the caller holds a slot there and is not yet running.
LEMMA RoomToEnter ==
    ASSUME IInv, NEW c \in Calls, Acquire(c), got[c] = 2,
           NEW s \in ScopesOf(target[c])
    PROVE  Promise!Room(s)
<1> DEFINE running == {d \in Calls : stage[d] = "running" /\ s \in ScopesOf(target[d])}
<1>1. /\ pc[c] = "queue" /\ target[c] \in Upstreams
      /\ got' = [got EXCEPT ![c] = 3] /\ target' = target
      /\ got \in [Calls -> 0..3] /\ pc \in [Calls -> {"idle", "queue", "upstream", "unwind", "observe"}]
  BY DEF Acquire, IInv, TypeOK
<1>2. s \in Scopes
  BY <1>1, LimitsAssumption DEF ScopesOf, Scopes
<1>3. SUFFICES ASSUME Limited(s) PROVE Cardinality(running) < Capacity(s)
  BY SameLimits DEF Promise!Room, Promise!Running, stage
<1>4. \A d \in Calls : stage[d] = "running" => pc[d] = "upstream"
  BY <1>1 DEF stage, Stage
<1>5. running \subseteq Holders(s)
  BY <1>4, UpstreamHoldsAll
<1>6. c \notin running
  BY <1>1, <1>4
<1>7. /\ IsFiniteSet(running) /\ Cardinality(running) \in Nat
      /\ Cardinality(running) <= Cardinality(Holders(s))
  BY <1>5, HoldersFinite, FS_Subset, FS_CardinalityType
<1>8. /\ Cardinality(Holders(s)) = tokens[s] /\ tokens[s] <= Capacity(s)
      /\ Capacity(s) \in Nat
  BY <1>2, <1>3, CapacityType DEF IInv, SlotAccounting, TokensBounded
<1>9. CASE s = NextScope(c)
  <2>1. tokens[s] < Capacity(s)
    BY <1>3, <1>9 DEF Acquire, acquire
  <2>2. QED
    BY <1>7, <1>8, <2>1, HoldersFinite
<1>10. CASE s # NextScope(c)
  <2>1. c \in Holders(s)
    <3>1. \E i \in 1..3 : Path(target[c])[i] = s
      BY <1>1, PathFacts DEF ScopesOf
    <3>2. Path(target[c])[3] # s
      BY <1>10 DEF NextScope
    <3>3. QED
      BY <3>1, <3>2 DEF Holders
  <2>2. running \subseteq Holders(s) \ {c}
    BY <1>5, <1>6
  <2>3. /\ IsFiniteSet(Holders(s) \ {c})
        /\ Cardinality(Holders(s) \ {c}) = Cardinality(Holders(s)) - 1
    BY <2>1, HoldersFinite, FS_RemoveElement
  <2>4. Cardinality(running) <= Cardinality(Holders(s) \ {c})
    BY <2>2, <2>3, FS_Subset
  <2>5. QED
    BY <1>7, <1>8, <2>3, <2>4, HoldersFinite
<1>11. QED
  BY <1>9, <1>10

\* A gateway with no requests is an initial state of the promise.
LEMMA InitRefines == Init => Promise!Init
<1> SUFFICES ASSUME Init PROVE Promise!Init
  OBVIOUS
<1>1. stage = [c \in Calls |-> "idle"]
  BY DEF Init, stage, Stage
<1>2. QED
  BY <1>1 DEF Init, Promise!Init, stage

\* Every step of the dispatch path is a step of the promise or changes nothing it
\* speaks of.
LEMMA StepRefines == IInv /\ [Next]_vars => [Promise!Next]_(Promise!vars)
<1> SUFFICES ASSUME IInv, [Next]_vars
             PROVE  Promise!Next \/ (stage' = stage /\ target' = target)
  BY DEF Promise!vars, stage
<1>1. TypeOK /\ StagesAgree
  BY DEF IInv
<1>2. \A c \in Calls : stage[c] = Stage(pc[c])
  BY DEF stage
<1>3. ASSUME NEW c \in Calls, NEW u \in Upstreams, Admit(c, u)
      PROVE  Promise!Accept(c, u)
  <2>1. stage[c] = "idle" /\ stage' = [stage EXCEPT ![c] = "accepted"]
    BY <1>1, <1>2, <1>3, StageMoves DEF Admit, Stage
  <2>2. QED
    BY <1>3, <2>1 DEF Admit, Promise!Accept, stage
<1>4. ASSUME NEW c \in Calls, NEW u \in Upstreams, Reject(c, u)
      PROVE  Promise!Refuse(c, u)
  <2>1. stage[c] = "idle" /\ stage' = [stage EXCEPT ![c] = "left"]
    BY <1>1, <1>2, <1>4, StageMoves DEF Reject, Stage
  <2>2. QED
    BY <1>4, <2>1 DEF Reject, Promise!Refuse, stage
<1>5. ASSUME NEW c \in Calls, Acquire(c)
      PROVE  Promise!Enter(c) \/ (stage' = stage /\ target' = target)
  <2>1. CASE got[c] = 2
    <3>1. /\ stage[c] = "accepted" /\ target' = target
          /\ stage' = [stage EXCEPT ![c] = "running"]
      BY <1>1, <1>2, <1>5, <2>1, StageMoves DEF Acquire, Stage
    <3>2. \A s \in ScopesOf(target[c]) : Promise!Room(s)
      BY <1>5, <2>1, RoomToEnter
    <3>3. QED
      BY <3>1, <3>2, SameLimits DEF Promise!Enter, stage
  <2>2. CASE got[c] # 2
    BY <1>1, <1>5, <2>2 DEF Acquire, TypeOK, stage
  <2>3. QED
    BY <2>1, <2>2
<1>6. ASSUME NEW c \in Calls, GiveUp(c) \/ \E e \in Errors : Return(c, e)
      PROVE  Promise!Leave(c)
  <2>1. /\ stage[c] \in {"accepted", "running"} /\ target' = target
        /\ stage' = [stage EXCEPT ![c] = "left"]
    BY <1>1, <1>2, <1>6, StageMoves DEF GiveUp, Return, Stage
  <2>2. QED
    BY <2>1 DEF Promise!Leave, stage
<1>7. ASSUME NEW c \in Calls, Release(c)
      PROVE  stage' = stage /\ target' = target
  BY <1>1, <1>7 DEF Release, TypeOK, stage, Stage
<1>8. ASSUME NEW c \in Calls, Observe(c)
      PROVE  Promise!Answer(c)
  <2>1. /\ stage[c] = "left" /\ target' = target
        /\ stage' = [stage EXCEPT ![c] = "idle"]
    BY <1>1, <1>2, <1>8, StageMoves DEF Observe, Stage
  <2>2. QED
    BY <2>1 DEF Promise!Answer, stage
<1>9. CASE UNCHANGED <<pc, target>>
  BY <1>9 DEF stage
<1>10. QED
  BY <1>3, <1>4, <1>5, <1>6, <1>7, <1>8, <1>9
     DEF Next, Cool, Expire, Cancel, Promise!Next, vars

\* The dispatch path implements the promise about limits: a request runs
\* upstream at most once, only with room in each of its scopes, and is answered
\* exactly once.
THEOREM ImplementsCallLimits == Spec => KeepsPromise
<1>1. Init => Promise!Init
  BY InitRefines
<1>2. IInv /\ [Next]_vars => [Promise!Next]_(Promise!vars)
  BY StepRefines
<1>3. QED
  BY <1>1, <1>2, Invariance, PTL DEF Spec, KeepsPromise, Promise!Spec
=============================================================================
