-------------------------- MODULE WriteOmlProofs --------------------------
(***************************************************************************)
(* Proofs about WriteOml, for any set of write threads and of data sets.   *)
(***************************************************************************)
EXTENDS WriteOml, TLAPS

\* One conjunct per idea: who holds session_lock, what a look-up found, who holds mp_lock.
SessionInv ==
  /\ \A t \in Threads : pc[t] = "found" => session_lock = t
  /\ phase = "init" => session_lock = Main

\* Thread t holds a point of its data set's name.
HasPoint(t) == mp[t] \in 1..Len(mpoint) /\ mpoint[mp[t]].name = ds[t]

PointInv ==
  /\ \A t \in Threads : pc[t] = "found" =>
       HasPoint(t) \/ (mp[t] = 0 /\ \A i \in 1..Len(mpoint) : mpoint[i].name # ds[t])
  /\ \A t \in Threads : pc[t] \in {"check", "fill", "inject"} => HasPoint(t)
  /\ UniqueNames

MpLockInv == \A t \in Threads : pc[t] = "inject" => mp_lock[mp[t]] = t

\* oml_initialized is only set by an oml_init() that started OML, and is tested before injecting.
UpInv ==
  /\ oml = "none" <=> phase \in {"config", "aborted"}
  /\ phase \in {"init", "running"} => oml # "closed"
  /\ oml_initialized => phase \in {"running", "done", "crashed"}
  /\ oml_initialized /\ phase = "running" => oml = "started"
  /\ \A t \in Threads : pc[t] # "idle" => phase \notin {"done", "crashed"}
  /\ \A t \in Threads : pc[t] \in {"fill", "inject"} => oml_initialized /\ phase = "running"

\* find_mpoint_struct() returns NULL exactly when no point has the name, and otherwise a point
\* that has it.
LEMMA FoundSpec ==
  ASSUME TypeOK, UniqueNames, NEW n
  PROVE  \/ Found(n) = 0 /\ \A i \in 1..Len(mpoint) : mpoint[i].name # n
         \/ Found(n) \in 1..Len(mpoint) /\ mpoint[Found(n)].name = n
<1> DEFINE named == {i \in 1..Len(mpoint) : mpoint[i].name = n}
<1>1. CASE named = {}
  BY <1>1 DEF Found
<1>2. CASE named # {}
  <2>1. PICK k \in named : TRUE
    BY <1>2
  <2>2. Len(mpoint) \in Nat /\ k \in Int
    BY DEF TypeOK
  <2>3. \A j \in named : j = k
    BY <2>1 DEF UniqueNames
  <2>4. Found(n) \in named
    <3>1. \E i \in named : \A j \in named : j <= i
      BY <2>1, <2>2, <2>3
    <3> HIDE DEF named
    <3>2. (CHOOSE i \in named : \A j \in named : j <= i) \in named
      BY <3>1
    <3> QED
      BY <1>2, <3>2 DEF Found, named
  <2> QED
    BY <2>4
<1> QED
  BY <1>1, <1>2

\* Appending an element, or replacing one, keeps a sequence over a set over that set.
LEMMA SeqTypes ==
  ASSUME NEW S, NEW s \in Seq(S), NEW e \in S, NEW i
  PROVE  /\ Append(s, e) \in Seq(S) /\ Len(Append(s, e)) = Len(s) + 1
         /\ [s EXCEPT ![i] = e] \in Seq(S) /\ Len([s EXCEPT ![i] = e]) = Len(s)
<1>1. Append(s, e) \in Seq(S) /\ Len(Append(s, e)) = Len(s) + 1
  OBVIOUS
<1>2. [s EXCEPT ![i] = e] \in Seq(S) /\ Len([s EXCEPT ![i] = e]) = Len(s)
  <2> DEFINE r == [s EXCEPT ![i] = e]
  <2>0. Len(s) \in Nat /\ s \in [1..Len(s) -> S]
    OBVIOUS
  <2>1. r \in [1..Len(s) -> S]
    BY <2>0, Zenon
  <2> HIDE DEF r
  <2>2. r \in Seq(S) /\ Len(r) = Len(s)
    BY <2>0, <2>1
  <2> QED
    BY <2>2 DEF r
<1> QED
  BY <1>1, <1>2

\* A step of the plugin preserves the types.
LEMMA TypeStep == TypeOK /\ PointInv /\ [Next]_vars => TypeOK'
<1> SUFFICES ASSUME TypeOK, PointInv, [Next]_vars PROVE TypeOK'
  OBVIOUS
<1> USE DEF TypeOK, sessionVars, omlVars, writerVars
<1>1. CASE Config
  <2>1. settings' \in Settings(Keys)
    BY <1>1 DEF Config, Settings, StringKeys
  <2> QED
    BY <1>1, <2>1 DEF Config
<1>2. CASE InitOml
  <2>1. omlArgs' \in Settings(OmlKeys)
    BY <1>2 DEF InitOml, Settings, OmlKeys
  <2> QED
    BY <1>2, <2>1 DEF InitOml, Holders
<1>3. CASE InitDone
  BY <1>3 DEF InitDone, Holders
<1>4. CASE Cleanup
  <2>1. session_lock' \in Holders /\ Main \in Holders
    BY <1>4 DEF Cleanup, Holders
  <2>2. mp_lock' \in Seq(Holders) /\ Len(mp_lock') = Len(mp_lock)
    BY <1>4, <2>1, SeqTypes DEF Cleanup
  <2> QED
    BY <1>4, <2>1, <2>2 DEF Cleanup
<1>5. ASSUME NEW t \in Threads, NEW n \in Names, Dispatch(t, n) PROVE TypeOK'
  BY <1>5 DEF Dispatch
<1>6. ASSUME NEW t \in Threads, Lookup(t) PROVE TypeOK'
  <2>1. Found(ds[t]) \in Nat
    BY FoundSpec DEF PointInv
  <2> QED
    BY <1>6, <2>1 DEF Lookup, Holders
<1>7. ASSUME NEW t \in Threads, FindDone(t) PROVE TypeOK'
  <2>1. CASE mp[t] # 0
    BY <1>7, <2>1 DEF FindDone, Holders
  <2>2. CASE mp[t] = 0
    <3>1. [name |-> ds[t], known |-> oml = "started"] \in Points
      BY DEF Points
    <3>2. mpoint' \in Seq(Points) /\ Len(mpoint') = Len(mpoint) + 1
      BY <1>7, <2>2, <3>1, SeqTypes DEF FindDone
    <3>3. session_lock' \in Holders /\ mp_lock' \in Seq(Holders) /\ Len(mp_lock') = Len(mpoint')
      BY <1>7, <2>2, <3>2, SeqTypes DEF FindDone, Holders
    <3>4. mp' \in [Threads -> Nat]
      BY <1>7, <2>2, <3>2 DEF FindDone
    <3> QED
      BY <1>7, <3>2, <3>3, <3>4 DEF FindDone
  <2> QED
    BY <2>1, <2>2
<1>8. ASSUME NEW t \in Threads, Check(t) \/ TooMany(t) PROVE TypeOK'
  BY <1>8 DEF Check, TooMany
<1>9. ASSUME NEW t \in Threads, LockPoint(t) PROVE TypeOK'
  <2>1. t \in Holders
    BY DEF Holders
  <2>2. mp_lock' \in Seq(Holders) /\ Len(mp_lock') = Len(mp_lock)
    BY <1>9, <2>1, SeqTypes DEF LockPoint
  <2> QED
    BY <1>9, <2>2 DEF LockPoint
<1>10. ASSUME NEW t \in Threads, Inject(t) PROVE TypeOK'
  <2>1. Nobody \in Holders
    BY DEF Holders
  <2>2. mp_lock' \in Seq(Holders) /\ Len(mp_lock') = Len(mp_lock)
    BY <1>10, <2>1, SeqTypes DEF Inject
  <2> QED
    BY <1>10, <2>2 DEF Inject
<1>11. CASE UNCHANGED vars
  BY <1>11 DEF vars
<1> QED
  BY <1>1, <1>2, <1>3, <1>4, <1>5, <1>6, <1>7, <1>8, <1>9, <1>10, <1>11 DEF Next, MainThread, Writer

\* session_lock is held by whoever is between its lock and unlock calls.
LEMMA SessionStep == TypeOK /\ SessionInv /\ [Next]_vars => SessionInv'
<1> SUFFICES ASSUME TypeOK, SessionInv, [Next]_vars PROVE SessionInv'
  OBVIOUS
<1> USE ThreadAssumption DEF TypeOK, SessionInv, sessionVars, omlVars, writerVars
<1>1. CASE Config \/ InitOml \/ InitDone
  BY <1>1 DEF Config, InitOml, InitDone
<1>2. CASE Cleanup
  BY <1>2 DEF Cleanup
<1>3. ASSUME NEW t \in Threads, NEW n \in Names, Dispatch(t, n) PROVE SessionInv'
  BY <1>3 DEF Dispatch
<1>4. ASSUME NEW t \in Threads, Lookup(t) PROVE SessionInv'
  BY <1>4 DEF Lookup
<1>5. ASSUME NEW t \in Threads, FindDone(t) PROVE SessionInv'
  BY <1>5 DEF FindDone
<1>6. ASSUME NEW t \in Threads, Check(t) \/ TooMany(t) \/ LockPoint(t) \/ Inject(t) PROVE SessionInv'
  BY <1>6 DEF Check, TooMany, LockPoint, Inject
<1>7. CASE UNCHANGED vars
  BY <1>7 DEF vars
<1> QED
  BY <1>1, <1>2, <1>3, <1>4, <1>5, <1>6, <1>7 DEF Next, MainThread, Writer

\* Points are only added by a thread that saw, under the lock it still holds, that none has the name.
LEMMA PointStep == TypeOK /\ SessionInv /\ PointInv /\ [Next]_vars => PointInv'
<1> SUFFICES ASSUME TypeOK, SessionInv, PointInv, [Next]_vars PROVE PointInv'
  OBVIOUS
<1> USE DEF TypeOK, sessionVars, omlVars, writerVars
<1>1. ASSUME UNCHANGED <<mpoint, pc, ds, mp>> PROVE PointInv'
  BY <1>1 DEF PointInv, UniqueNames, HasPoint
<1>2. ASSUME MainThread \/ UNCHANGED vars PROVE UNCHANGED <<mpoint, pc, ds, mp>>
  BY <1>2 DEF MainThread, Config, InitOml, InitDone, Cleanup, vars
<1>3. ASSUME NEW t \in Threads, NEW n \in Names, Dispatch(t, n) PROVE PointInv'
  BY <1>3 DEF Dispatch, PointInv, UniqueNames, HasPoint
<1>4. ASSUME NEW t \in Threads, Lookup(t) PROVE PointInv'
  <2>1. mp'[t] = Found(ds[t]) /\ pc'[t] = "found"
    BY <1>4 DEF Lookup
  <2>2. \/ mp'[t] = 0 /\ \A i \in 1..Len(mpoint) : mpoint[i].name # ds[t]
        \/ mp'[t] \in 1..Len(mpoint) /\ mpoint[mp'[t]].name = ds[t]
    BY <2>1, FoundSpec DEF PointInv
  <2> QED
    BY <1>4, <2>1, <2>2 DEF Lookup, PointInv, UniqueNames, HasPoint
<1>5. ASSUME NEW t \in Threads, FindDone(t) PROVE PointInv'
  <2>1. \A u \in Threads : pc'[u] # "found"
    BY <1>5 DEF FindDone, SessionInv
  <2>2. CASE mp[t] # 0
    BY <1>5, <2>1, <2>2 DEF FindDone, PointInv, UniqueNames, HasPoint
  <2>3. CASE mp[t] = 0
    <3> DEFINE new == [name |-> ds[t], known |-> oml = "started"]
    <3>1. new \in Points
      BY DEF Points
    <3>2. /\ mpoint' = Append(mpoint, new) /\ Len(mpoint') = Len(mpoint) + 1
          /\ mp' = [mp EXCEPT ![t] = Len(mpoint) + 1] /\ UNCHANGED ds
      BY <1>5, <2>3, <3>1 DEF FindDone
    <3>3. /\ \A i \in 1..Len(mpoint) : mpoint'[i] = mpoint[i]
          /\ mpoint'[Len(mpoint) + 1].name = ds[t]
      BY <3>1, <3>2
    <3>4. \A i \in 1..Len(mpoint) : mpoint[i].name # ds[t]
      <4>1. pc[t] = "found" /\ ~HasPoint(t)
        BY <1>5, <2>3 DEF FindDone, HasPoint
      <4> QED
        BY <4>1 DEF PointInv
    <3>5. UniqueNames'
      BY <3>2, <3>3, <3>4 DEF UniqueNames, PointInv
    <3>6. HasPoint(t)'
      BY <3>2, <3>3 DEF HasPoint
    <3>7. \A u \in Threads \ {t} : HasPoint(u) => HasPoint(u)'
      BY <3>2, <3>3 DEF HasPoint
    <3> QED
      BY <1>5, <2>1, <3>5, <3>6, <3>7 DEF FindDone, PointInv
  <2> QED
    BY <2>2, <2>3
<1>6. ASSUME NEW t \in Threads, Check(t) \/ TooMany(t) \/ LockPoint(t) \/ Inject(t) PROVE PointInv'
  <2>1. /\ UNCHANGED <<mpoint, mp, ds>>
        /\ pc[t] \in {"check", "fill", "inject"}
        /\ \A u \in Threads \ {t} : pc'[u] = pc[u]
    BY <1>6 DEF Check, TooMany, LockPoint, Inject
  <2>2. pc'[t] \in {"idle", "fill", "inject"}
    BY <1>6 DEF Check, TooMany, LockPoint, Inject
  <2> QED
    BY <2>1, <2>2 DEF PointInv, UniqueNames, HasPoint
<1> QED
  BY <1>1, <1>2, <1>3, <1>4, <1>5, <1>6 DEF Next, Writer

\* The session module_register() leaves satisfies the invariants.
LEMMA InitInv == Init => TypeOK /\ SessionInv /\ PointInv
<1> SUFFICES ASSUME Init PROVE TypeOK /\ SessionInv /\ PointInv
  OBVIOUS
<1>1. settings \in Settings(Keys) /\ omlArgs \in Settings(OmlKeys)
  BY DEF Init, Settings
<1>2. mpoint \in Seq(Points) /\ mp_lock \in Seq(Holders) /\ Len(mp_lock) = Len(mpoint)
  BY DEF Init
<1>3. TypeOK
  BY <1>1, <1>2 DEF Init, TypeOK, Holders
<1>4. SessionInv /\ PointInv
  BY DEF Init, SessionInv, PointInv, UniqueNames
<1> QED
  BY <1>3, <1>4

\* No two points of one name, whatever threads and data sets there are.
THEOREM PointsCorrect == Spec => [](TypeOK /\ UniqueNames)
<1>1. PointInv => UniqueNames
  BY DEF PointInv
<1> QED
  BY InitInv, <1>1, TypeStep, SessionStep, PointStep, PTL DEF Spec

\* A point's mp_lock names the thread that is injecting into it.
LEMMA MpLockStep == TypeOK /\ PointInv /\ MpLockInv /\ [Next]_vars => MpLockInv'
<1> SUFFICES ASSUME TypeOK, PointInv, MpLockInv, [Next]_vars PROVE MpLockInv'
  OBVIOUS
<1> USE ThreadAssumption DEF TypeOK, sessionVars, omlVars, writerVars
<1>1. ASSUME UNCHANGED <<mp_lock, pc, mp>> PROVE MpLockInv'
  BY <1>1 DEF MpLockInv
<1>2. ASSUME Config \/ InitOml \/ InitDone \/ UNCHANGED vars PROVE UNCHANGED <<mp_lock, pc, mp>>
  BY <1>2 DEF Config, InitOml, InitDone, vars
<1>3. CASE Cleanup
  BY <1>3 DEF Cleanup, MpLockInv
<1>4. ASSUME NEW t \in Threads, NEW n \in Names, Dispatch(t, n) PROVE MpLockInv'
  BY <1>4 DEF Dispatch, MpLockInv
<1>5. ASSUME NEW t \in Threads, Lookup(t) PROVE MpLockInv'
  BY <1>5 DEF Lookup, MpLockInv
<1>6. ASSUME NEW t \in Threads, FindDone(t) PROVE MpLockInv'
  <2>0. mp_lock' = mp_lock \/ mp_lock' = Append(mp_lock, Nobody)
    BY <1>6 DEF FindDone
  <2>1. \A i \in 1..Len(mpoint) : mp_lock'[i] = mp_lock[i]
    BY <2>0
  <2>2. ASSUME NEW u \in Threads, pc'[u] = "inject" PROVE mp_lock'[mp'[u]] = u
    <3>1. u # t /\ pc[u] = "inject" /\ mp'[u] = mp[u]
      BY <1>6, <2>2 DEF FindDone
    <3>2. mp[u] \in 1..Len(mpoint) /\ mp_lock[mp[u]] = u
      BY <3>1 DEF PointInv, HasPoint, MpLockInv
    <3> QED
      BY <2>1, <3>1, <3>2
  <2> QED
    BY <2>2 DEF MpLockInv
<1>7. ASSUME NEW t \in Threads, Check(t) \/ TooMany(t) PROVE MpLockInv'
  BY <1>7 DEF Check, TooMany, MpLockInv
<1>8. ASSUME NEW t \in Threads, LockPoint(t) PROVE MpLockInv'
  <2>1. mp[t] \in 1..Len(mp_lock)
    BY <1>8 DEF LockPoint, PointInv, HasPoint
  <2>2. ASSUME NEW u \in Threads, pc'[u] = "inject" PROVE mp_lock'[mp'[u]] = u
    <3>1. CASE u = t
      BY <1>8, <2>1, <3>1 DEF LockPoint
    <3>2. CASE u # t
      <4>1. pc[u] = "inject" /\ mp_lock[mp[u]] = u /\ mp[u] # mp[t]
        BY <1>8, <2>2, <3>2 DEF LockPoint, MpLockInv
      <4> QED
        BY <1>8, <4>1 DEF LockPoint
    <3> QED
      BY <3>1, <3>2
  <2> QED
    BY <2>2 DEF MpLockInv
<1>9. ASSUME NEW t \in Threads, Inject(t) PROVE MpLockInv'
  <2>1. ASSUME NEW u \in Threads, pc'[u] = "inject" PROVE mp_lock'[mp'[u]] = u
    <3>1. u # t /\ pc[u] = "inject" /\ mp_lock[mp[u]] = u /\ mp_lock[mp[t]] = t
      BY <1>9, <2>1 DEF Inject, MpLockInv
    <3> QED
      BY <1>9, <3>1 DEF Inject
  <2> QED
    BY <2>1 DEF MpLockInv
<1> QED
  BY <1>1, <1>2, <1>3, <1>4, <1>5, <1>6, <1>7, <1>8, <1>9 DEF Next, MainThread, Writer

\* The library stays up while a write thread that has tested oml_initialized is on its way.
LEMMA UpStep == TypeOK /\ UpInv /\ [Next]_vars => UpInv'
<1> SUFFICES ASSUME TypeOK, UpInv, [Next]_vars PROVE UpInv'
  OBVIOUS
<1> USE DEF TypeOK, UpInv, sessionVars, omlVars, writerVars
<1>1. CASE Config
  BY <1>1 DEF Config
<1>2. CASE InitOml
  BY <1>2 DEF InitOml
<1>3. CASE InitDone
  BY <1>3 DEF InitDone
<1>4. CASE Cleanup
  BY <1>4 DEF Cleanup
<1>5. ASSUME NEW t \in Threads, NEW n \in Names, Dispatch(t, n) PROVE UpInv'
  BY <1>5 DEF Dispatch
<1>6. ASSUME NEW t \in Threads, Lookup(t) \/ FindDone(t) PROVE UpInv'
  BY <1>6 DEF Lookup, FindDone
<1>7. ASSUME NEW t \in Threads, Check(t) PROVE UpInv'
  BY <1>7 DEF Check
<1>8. ASSUME NEW t \in Threads, TooMany(t) \/ LockPoint(t) \/ Inject(t) PROVE UpInv'
  BY <1>8 DEF TooMany, LockPoint, Inject
<1>9. CASE UNCHANGED vars
  BY <1>9 DEF vars
<1> QED
  BY <1>1, <1>2, <1>3, <1>4, <1>5, <1>6, <1>7, <1>8, <1>9 DEF Next, MainThread, Writer

\* The invariants together.
Inv == TypeOK /\ SessionInv /\ PointInv /\ MpLockInv /\ UpInv

\* The invariants hold at first and are preserved.
LEMMA InvHolds == Spec => []Inv
<1>1. Init => MpLockInv /\ UpInv
  BY DEF Init, MpLockInv, UpInv
<1> QED
  BY <1>1, InitInv, TypeStep, SessionStep, PointStep, MpLockStep, UpStep, PTL DEF Spec, Inv

\* Injections into one point exclude each other, go to the point of the data set's name, and
\* only happen while OML is up.
THEOREM InjectionsSafe == Spec => [](InjectExclusive /\ InjectWhileUp)
<1>1. Inv => InjectExclusive /\ InjectWhileUp
  <2> SUFFICES ASSUME Inv PROVE InjectExclusive /\ InjectWhileUp
    OBVIOUS
  <2>1. InjectExclusive
    BY DEF Inv, PointInv, MpLockInv, InjectExclusive, HasPoint
  <2>2. InjectWhileUp
    BY DEF Inv, UpInv, InjectWhileUp
  <2> QED
    BY <2>1, <2>2
<1> QED
  BY <1>1, InvHolds, PTL

\* The plugin's state keeps its types, the list of points and the list of their locks go together.
THEOREM TypeCorrect == Spec => []TypeOK
  BY InvHolds, PTL DEF Inv

\* What oml_write() tested under session_lock still holds when it injects without it.
THEOREM InjectionsWhileUp == Spec => []InjectWhileUp
  BY InjectionsSafe, PTL

-----------------------------------------------------------------------------
(* The plugin implements OmlClient *)

\* The calls in progress are those of the threads in omlc_inject(), each with its data set's name.
LEMMA InjectionsMapped ==
  Inv => injections = {<<t, ds[t]>> : t \in {u \in Threads : pc[u] = "inject"}}
BY DEF Inv, PointInv, HasPoint, injections

\* Every step of the plugin is a call of the library that it allows, or none.
THEOREM ClientImplements == Spec => ClientRefines
<1>1. Init => Client!Init
  BY DEF Init, Client!Init, addedNames, injections
<1>2. (Inv => injections = {<<t, ds[t]>> : t \in {u \in Threads : pc[u] = "inject"}})'
  BY InjectionsMapped, PTL
<1>3. ASSUME Inv, Inv', [Next]_vars
      PROVE  [Client!Next]_<<oml, addedNames, injections>>
  <2>1. /\ injections = {<<t, ds[t]>> : t \in {u \in Threads : pc[u] = "inject"}}
        /\ injections' = {<<t, ds'[t]>> : t \in {u \in Threads : pc'[u] = "inject"}}
    BY <1>2, <1>3, InjectionsMapped
  <2> USE DEF sessionVars, omlVars, writerVars
  <2>2. ASSUME UNCHANGED mpoint PROVE UNCHANGED addedNames
    BY <2>2 DEF addedNames
  <2>3. CASE Config \/ InitDone \/ UNCHANGED vars
    <3>1. UNCHANGED <<oml, mpoint, pc, ds>>
      BY <2>3 DEF Config, InitDone, vars
    <3> QED
      BY <2>1, <2>2, <3>1
  <2>4. CASE InitOml
    <3>1. UNCHANGED <<mpoint, pc, ds>> /\ oml' \in {"started", "failed"}
      BY <2>4 DEF InitOml
    <3>2. oml = "none"
      BY <1>3, <2>4 DEF InitOml, Inv, UpInv
    <3> QED
      BY <2>1, <2>2, <3>1, <3>2 DEF Client!Next, Client!Open
  <2>5. CASE Cleanup
    <3>1. UNCHANGED <<mpoint, pc, ds>> /\ oml' = "closed"
      BY <2>5 DEF Cleanup
    <3>2. injections = {}
      BY <2>1, <2>5 DEF Cleanup
    <3>3. oml \in {"started", "failed"}
      BY <1>3, <2>5 DEF Cleanup, Inv, UpInv, TypeOK
    <3> QED
      BY <2>1, <2>2, <3>1, <3>2, <3>3 DEF Client!Next, Client!Close
  <2>6. ASSUME NEW t \in Threads, NEW n \in Names, Dispatch(t, n)
        PROVE  UNCHANGED <<oml, addedNames, injections>>
    <3>1. UNCHANGED <<oml, mpoint>> /\ pc[t] # "inject" /\ pc'[t] # "inject"
      BY <1>3, <2>6 DEF Dispatch, Inv, TypeOK
    <3>2. \A u \in Threads \ {t} : pc'[u] = pc[u] /\ ds'[u] = ds[u]
      BY <1>3, <2>6 DEF Dispatch, Inv, TypeOK
    <3> QED
      BY <2>1, <2>2, <3>1, <3>2
  <2>7. ASSUME NEW t \in Threads, Lookup(t) \/ Check(t) \/ TooMany(t)
        PROVE  UNCHANGED <<oml, addedNames, injections>>
    <3>1. UNCHANGED <<oml, mpoint, ds>> /\ pc[t] # "inject" /\ pc'[t] # "inject"
      BY <1>3, <2>7 DEF Lookup, Check, TooMany, Inv, TypeOK
    <3>2. \A u \in Threads \ {t} : pc'[u] = pc[u]
      BY <1>3, <2>7 DEF Lookup, Check, TooMany, Inv, TypeOK
    <3> QED
      BY <2>1, <2>2, <3>1, <3>2
  <2>8. ASSUME NEW t \in Threads, FindDone(t) PROVE [Client!Next]_<<oml, addedNames, injections>>
    <3>1. UNCHANGED <<oml, ds>> /\ pc[t] # "inject" /\ pc'[t] # "inject"
      BY <1>3, <2>8 DEF FindDone, Inv, TypeOK
    <3>2. \A u \in Threads \ {t} : pc'[u] = pc[u]
      BY <1>3, <2>8 DEF FindDone, Inv, TypeOK
    <3>3. UNCHANGED injections
      BY <2>1, <3>1, <3>2
    <3>4. CASE mp[t] # 0
      BY <2>2, <2>8, <3>1, <3>3, <3>4 DEF FindDone
    <3>5. CASE mp[t] = 0
      <4> DEFINE new == [name |-> ds[t], known |-> oml = "started"]
      <4>1. new \in Points /\ mpoint \in Seq(Points) /\ ds[t] \in Names
        BY <1>3 DEF Inv, TypeOK, Points
      <4>2. mpoint' = Append(mpoint, new)
        BY <2>8, <3>5 DEF FindDone
      <4>3. \A i \in 1..Len(mpoint) : mpoint[i].name # ds[t]
        <5>1. pc[t] = "found" /\ ~HasPoint(t)
          BY <2>8, <3>5 DEF FindDone, HasPoint
        <5> QED
          BY <1>3, <5>1 DEF Inv, PointInv
      <4>4. /\ Len(mpoint') = Len(mpoint) + 1 /\ mpoint'[Len(mpoint) + 1].name = ds[t]
            /\ \A i \in 1..Len(mpoint) : mpoint'[i] = mpoint[i]
        BY <4>1, <4>2
      <4>5. addedNames \in Seq(Names) /\ Len(addedNames) = Len(mpoint)
        <5>0. Len(mpoint) \in Nat /\ \A i \in 1..Len(mpoint) : mpoint[i] \in Points
          BY <4>1
        <5>1. Len(mpoint) \in Nat /\ \A i \in 1..Len(mpoint) : mpoint[i].name \in Names
          BY <5>0 DEF Points
        <5>2. addedNames \in [1..Len(mpoint) -> Names]
          BY <5>1 DEF addedNames
        <5> QED
          BY <5>1, <5>2
      <4>6. addedNames' = Append(addedNames, ds[t])
        BY <4>1, <4>4, <4>5 DEF addedNames
      <4>7. \A i \in 1..Len(addedNames) : addedNames[i] # ds[t]
        BY <4>3, <4>5 DEF addedNames
      <4> QED
        BY <3>1, <3>3, <4>1, <4>6, <4>7 DEF Client!Next, Client!Add
    <3> QED
      BY <3>4, <3>5
  <2>9. ASSUME NEW t \in Threads, LockPoint(t) PROVE Client!Begin(t, ds[t])
    <3>1. UNCHANGED <<oml, mpoint, ds, mp>> /\ pc[t] = "fill" /\ pc'[t] = "inject"
      BY <1>3, <2>9 DEF LockPoint, Inv, TypeOK
    <3>2. \A u \in Threads \ {t} : pc'[u] = pc[u]
      BY <1>3, <2>9 DEF LockPoint, Inv, TypeOK
    <3>3. injections' = injections \cup {<<t, ds[t]>>}
      BY <2>1, <3>1, <3>2
    <3>4. HasPoint(t) /\ oml = "started"
      BY <1>3, <3>1 DEF Inv, PointInv, UpInv
    <3>5. \E i \in 1..Len(addedNames) : addedNames[i] = ds[t]
      <4>1. mp[t] \in 1..Len(mpoint) /\ Len(mpoint) \in Nat
        BY <1>3, <3>4 DEF HasPoint, Inv, TypeOK
      <4>2. Len(addedNames) = Len(mpoint)
        BY <4>1 DEF addedNames
      <4> QED
        BY <3>4, <4>1, <4>2 DEF HasPoint, addedNames
    <3>6. ASSUME NEW u \in Threads, pc[u] = "inject" PROVE u # t /\ ds[u] # ds[t]
      <4>1. u # t /\ HasPoint(u) /\ mp_lock[mp[u]] = u
        BY <1>3, <3>1, <3>6 DEF Inv, PointInv, MpLockInv
      <4>2. mp[u] # mp[t]
        BY <2>9, <4>1, ThreadAssumption DEF LockPoint
      <4> QED
        BY <1>3, <3>4, <4>1, <4>2 DEF HasPoint, Inv, PointInv, UniqueNames
    <3>7. \A p \in injections : p[1] # t /\ p[2] # ds[t]
      BY <2>1, <3>6
    <3> QED
      BY <2>2, <3>1, <3>3, <3>4, <3>5, <3>7 DEF Client!Begin
  <2>10. ASSUME NEW t \in Threads, Inject(t) PROVE Client!End(t, ds[t])
    <3>1. UNCHANGED <<oml, mpoint, ds>> /\ pc[t] = "inject" /\ pc'[t] # "inject"
      BY <1>3, <2>10 DEF Inject, Inv, TypeOK
    <3>2. \A u \in Threads \ {t} : pc'[u] = pc[u]
      BY <1>3, <2>10 DEF Inject, Inv, TypeOK
    <3>3. <<t, ds[t]>> \in injections /\ injections' = injections \ {<<t, ds[t]>>}
      BY <2>1, <3>1, <3>2
    <3> QED
      BY <2>2, <3>1, <3>3 DEF Client!End
  <2>11. \A t \in Threads : ds[t] \in Names
    BY <1>3 DEF Inv, TypeOK
  <2>12. ASSUME NEW t \in Threads, LockPoint(t) \/ Inject(t) PROVE Client!Next
    BY <2>9, <2>10, <2>11, <2>12 DEF Client!Next
  <2> QED
    BY <1>3, <2>3, <2>4, <2>5, <2>6, <2>7, <2>8, <2>12 DEF Next, MainThread, Writer
<1> QED
  BY <1>1, <1>3, InvHolds, PTL DEF Spec, ClientRefines, Client!Spec
=============================================================================
