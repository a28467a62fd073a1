----------------------------- MODULE StoreProofs -----------------------------
(***************************************************************************)
(* Proofs about Store, for any number of tasks and versions, with every    *)
(* fault, removal and late save: StoreInv is inductive, so a save that     *)
(* returned is on disk and no load gets anything older; and a store that   *)
(* nobody removes implements DurableRegister.  While the disk works, what  *)
(* was saved is on its way to it, and after a stop it is there.            *)
(*                                                                         *)
(* Every write goes through TakeData or waits for the lock, so these two   *)
(* effects get a lemma each, which the actions then cite.                  *)
(***************************************************************************)
EXTENDS Store, TLAPS

\* Bounds are integers.
LEMMA VersionIsNat == Version \subseteq Nat /\ 0 \in Version
BY VersionAssumption DEF Version

\* Larger returns the larger of two versions.
LEMMA LargerVersion ==
  ASSUME NEW m \in Version, NEW n \in Version
  PROVE  Larger(m, n) \in Version /\ m <= Larger(m, n) /\ n <= Larger(m, n)
         /\ (Larger(m, n) = m \/ Larger(m, n) = n)
BY VersionAssumption DEF Larger, Version

\* The three kinds of data differ, and only data of a version has kind "data".
LEMMA DataTypes ==
  /\ NoData \in Pending /\ Func \in Pending /\ NoData # Func
  /\ \A v \in Version : /\ Data(v) \in Pending /\ Data(v) # NoData /\ Data(v) # Func
                        /\ Data(v).kind = "data" /\ Data(v).version = v
  /\ \A d \in Pending : \/ d = NoData /\ d.kind # "data"
                        \/ d = Func /\ d.kind # "data"
                        \/ d.kind = "data" /\ d.version \in Version /\ d = Data(d.version)
<1>1. NoData \in Pending /\ Func \in Pending /\ NoData # Func
  BY DEF NoData, Func, Pending
<1>2. ASSUME NEW v \in Version
      PROVE  /\ Data(v) \in Pending /\ Data(v).kind = "data" /\ Data(v).version = v
             /\ Data(v) # NoData /\ Data(v) # Func
  BY DEF Data, NoData, Func, Pending
<1>3. NoData.kind # "data" /\ Func.kind # "data"
  BY DEF NoData, Func
<1>4. ASSUME NEW d \in Pending, d # NoData, d # Func
      PROVE  d.kind = "data" /\ d.version \in Version /\ d = Data(d.version)
  <2>1. PICK v \in Version : d = Data(v)
    BY <1>4 DEF Pending
  <2> QED BY <2>1, <1>2
<1>5. \A v \in Version : /\ Data(v) \in Pending /\ Data(v) # NoData /\ Data(v) # Func
                         /\ Data(v).kind = "data" /\ Data(v).version = v
  BY <1>2
<1>6. \A d \in Pending : \/ d = NoData /\ d.kind # "data"
                         \/ d = Func /\ d.kind # "data"
                         \/ d.kind = "data" /\ d.version \in Version /\ d = Data(d.version)
  BY <1>3, <1>4
<1> QED BY <1>1, <1>5, <1>6

\* What no action of a task writes has its type still.
Frame ==
  /\ hass' \in {"running", "stopping", "final_write", "stopped"}
  /\ value' \in Version /\ postponed' \in BOOLEAN /\ leftBehind' \subseteq Task
  /\ due' \in Version
  /\ UNCHANGED <<file, oldFile>>

\* The invariant holds initially.
LEMMA InitInv == Init => StoreInv
<1> SUFFICES ASSUME Init PROVE StoreInv
  OBVIOUS
<1> USE DEF Init
<1>1. TypeOK
  BY VersionIsNat, DataTypes, StoreFlags DEF TypeOK, PC
<1>2. LockHeld
  BY DEF LockHeld, Writing
<1>3. VersionsOrdered
  BY VersionIsNat, DataTypes DEF VersionsOrdered
<1>4. NothingBeforeLoad
  BY DEF NothingBeforeLoad, Writing
<1>5. CacheIsFile
  BY DEF CacheIsFile, Writing
<1>6. GoalsCovered /\ AckedIsDurable
  BY VersionIsNat DEF GoalsCovered, Writing, AckedIsDurable
<1> QED BY <1>1, <1>2, <1>3, <1>4, <1>5, <1>6 DEF StoreInv

-----------------------------------------------------------------------------
\* A task that gets the lock and finds d keeps the invariant, when d is what
\* waited or what its own save has just put there.
LEMMA TakeDataInv ==
  ASSUME StoreInv, Frame, NEW t \in Task, NEW d \in Pending,
         NEW g \in Version, TakeData(t, d, g),
         lock = NoTask, hass # "stopped", pc[t] \notin Writing, g <= value',
         loaded' = loaded, loaded => value <= value', loaded => file <= value',
         d = NoData => data = NoData /\ value' = value /\ g <= file,
         d = Func \/ d = NoData => value' = value,
         d.kind = "data" => d.version = value',
         d # NoData /\ ~loaded => value' = file /\ (\A u \in Task \ {t} : Idle(u)),
         ~loaded /\ d = NoData => pc[t] = "idle"
  PROVE  StoreInv'
<1> USE TaskAssumption DEF StoreInv, Frame
<1>0. /\ cache' \in {"absent", "listed", "data"} /\ cacheVersion' = cacheVersion
      /\ invalidated' = TRUE /\ preload' = preload
      /\ handle' = "none" /\ finalWrite' = FALSE /\ data' = NoData
  BY DEF TakeData, Invalidate, TypeOK
<1>1. \A u \in Task : pc[u] \notin Writing
  BY DEF LockHeld
<1>2. CASE d = NoData
  <2>1. /\ pc' = [pc EXCEPT ![t] = "idle"] /\ goal' = [goal EXCEPT ![t] = 0]
        /\ acked' = Larger(acked, g) /\ UNCHANGED <<lock, buf, byFunc>>
    BY <1>2 DEF TakeData
  <2>2. acked' \in Version /\ acked' <= file
    BY <1>2, <2>1, LargerVersion DEF TypeOK, AckedIsDurable
  <2>3. TypeOK'
    BY <1>0, <2>1, <2>2, DataTypes, VersionIsNat DEF TypeOK, PC
  <2>4. LockHeld'
    BY <1>1, <2>1 DEF LockHeld, TypeOK, Writing
  <2>5. VersionsOrdered'
    BY <1>0, <1>1, <1>2, <2>1, DataTypes DEF VersionsOrdered, TypeOK, Writing
  <2>6. NothingBeforeLoad'
    BY <1>0, <1>1, <1>2, <2>1 DEF NothingBeforeLoad, TypeOK, Writing
  <2>7. CacheIsFile'
    BY <1>0 DEF CacheIsFile
  <2>8. GoalsCovered'
    BY <1>0, <1>1, <1>2, <2>1, VersionIsNat DEF GoalsCovered, TypeOK, Writing
  <2> QED BY <2>2, <2>3, <2>4, <2>5, <2>6, <2>7, <2>8 DEF AckedIsDurable
<1>3. CASE d # NoData
  <2>1. /\ pc' = [pc EXCEPT ![t] = "job"] /\ goal' = [goal EXCEPT ![t] = g]
        /\ lock' = t /\ acked' = acked
        /\ byFunc' = [byFunc EXCEPT ![t] = (d = Func)]
        /\ buf' = [buf EXCEPT ![t] = IF d = Func THEN value ELSE d.version]
    BY <1>3 DEF TakeData
  <2>2. buf' = [buf EXCEPT ![t] = value']
    BY <1>3, <2>1, DataTypes
  <2>3. TypeOK'
    <3>1. byFunc' \in [Task -> BOOLEAN]
      BY <2>1, Zenon DEF TypeOK
    <3>2. pc' \in [Task -> PC] /\ goal' \in [Task -> Version] /\ buf' \in [Task -> Version]
      BY <2>1, <2>2 DEF TypeOK, PC, Writing
    <3> QED BY <1>0, <2>1, <3>1, <3>2, DataTypes DEF TypeOK
  <2>4. LockHeld'
    BY <1>1, <2>1 DEF LockHeld, TypeOK, Writing
  <2>5. VersionsOrdered'
    <3>1. file <= value' /\ value' <= value'
      BY <1>3, VersionIsNat DEF TypeOK
    <3> QED BY <1>0, <1>1, <2>1, <2>2, <3>1, DataTypes DEF VersionsOrdered, TypeOK, Writing
  <2>6. NothingBeforeLoad'
    BY <1>0, <1>1, <1>3, <2>1 DEF NothingBeforeLoad, TypeOK, Writing, Idle
  <2>7. CacheIsFile'
    BY <1>0 DEF CacheIsFile
  <2>8. GoalsCovered'
    <3>1. ASSUME NEW u \in Task, u # t
          PROVE  goal'[u] = goal[u] /\ pc'[u] = pc[u] /\ pc[u] \notin Writing /\ goal'[u] <= value'
      <4>1. goal'[u] = goal[u] /\ pc'[u] = pc[u] /\ pc[u] \notin Writing
        BY <1>1, <2>1, <3>1 DEF TypeOK
      <4>2. CASE loaded
        <5>1. goal[u] \in Nat /\ value \in Nat /\ value' \in Nat
          BY VersionIsNat DEF TypeOK
        <5>2. goal[u] <= value /\ value <= value'
          BY <4>2 DEF GoalsCovered
        <5>3. goal[u] <= value'
          BY <5>1, <5>2
        <5> QED BY <4>1, <5>3
      <4>3. CASE ~loaded
        <5>1. goal[u] = 0
          BY <1>3, <3>1, <4>3, <4>1 DEF GoalsCovered, Idle
        <5> QED BY <4>1, <5>1, VersionIsNat
      <4> QED BY <4>1, <4>2, <4>3
    <3>2. goal'[t] = g /\ pc'[t] = "job" /\ buf'[t] = value'
      BY <2>1, <2>2 DEF TypeOK
    <3>3. lock' # NoTask /\ lock' = t
      BY <2>1
    <3> QED BY <3>1, <3>2, <3>3 DEF GoalsCovered, Writing
  <2> QED BY <2>1, <2>3, <2>4, <2>5, <2>6, <2>7, <2>8 DEF AckedIsDurable
<1> QED BY <1>2, <1>3

\* A task that must wait for the lock keeps the invariant: the data it leaves
\* waits with it.
LEMMA EnqueueInv ==
  ASSUME StoreInv, Frame, NEW t \in Task, NEW d \in Pending,
         NEW g \in Version,
         pc' = [pc EXCEPT ![t] = "lock"], goal' = [goal EXCEPT ![t] = g],
         data' = d, handle' \in {"none", "armed", "fired"}, finalWrite' \in BOOLEAN,
         UNCHANGED <<lock, buf, byFunc, cacheVars, acked>>,
         Idle(t), loaded, loaded' = loaded, value <= value', g <= value',
         hass' = "stopped" <=> hass = "stopped",
         d = NoData => data = NoData /\ g = 0, value' # value => d # NoData,
         data # NoData => d # NoData,
         d.kind = "data" => d.version = value'
  PROVE  StoreInv'
<1> USE TaskAssumption DEF StoreInv, Frame
<1>1. TypeOK'
  BY DEF TypeOK, PC, cacheVars
<1>2. LockHeld'
  BY DEF LockHeld, TypeOK, Writing, Idle
<1>3. VersionsOrdered'
  <2>1. file \in Nat /\ value \in Nat /\ value' \in Nat /\ \A u \in Task : buf[u] \in Nat
    BY VersionIsNat DEF TypeOK
  <2>2. file <= value'
    BY <2>1 DEF VersionsOrdered
  <2>3. ASSUME NEW u \in Task, pc'[u] \in {"job", "replace"}
        PROVE  file <= buf[u] /\ buf[u] <= value' /\ (buf[u] = value' \/ d # NoData)
    <3>1. pc[u] \in {"job", "replace"}
      BY <2>3 DEF TypeOK
    <3>2. file <= buf[u] /\ buf[u] <= value /\ (buf[u] = value \/ data # NoData)
      BY <3>1 DEF VersionsOrdered
    <3> QED BY <2>1, <3>2
  <2> QED BY <2>2, <2>3 DEF VersionsOrdered
<1>4. NothingBeforeLoad'
  BY DEF NothingBeforeLoad, TypeOK, Writing, Idle
<1>5. CacheIsFile'
  BY DEF CacheIsFile, cacheVars, TypeOK, Writing, Idle
<1>6. GoalsCovered'
  <2>1. goal'[t] = g /\ pc'[t] = "lock" /\ \A u \in Task \ {t} : goal'[u] = goal[u] /\ pc'[u] = pc[u]
    BY DEF TypeOK
  <2>2. ASSUME NEW u \in Task, u # t, pc[u] = "lock", data' = NoData
        PROVE  \/ goal'[u] <= file'
               \/ lock' # NoTask /\ pc'[lock'] \in {"job", "replace"} /\ goal'[u] <= buf'[lock']
    <3>1. goal[u] <= file \/ (lock # NoTask /\ pc[lock] \in {"job", "replace"} /\ goal[u] <= buf[lock])
      BY <2>2 DEF GoalsCovered
    <3>2. pc[lock] \in {"job", "replace"} => lock # t
      BY DEF Idle
    <3> QED BY <2>1, <2>2, <3>1, <3>2 DEF TypeOK
  <2>3. \A u \in Task : goal'[u] <= value'
    <3>1. value \in Nat /\ value' \in Nat /\ \A u \in Task : goal[u] \in Nat
      BY VersionIsNat DEF TypeOK
    <3>2. \A u \in Task : goal[u] <= value
      BY DEF GoalsCovered
    <3>3. \A u \in Task : goal[u] <= value'
      BY <3>1, <3>2
    <3> QED BY <2>1, <3>3
  <2>4. data' = NoData => goal'[t] <= file'
    BY <2>1, VersionIsNat DEF TypeOK
  <2> QED BY <2>1, <2>2, <2>3, <2>4 DEF GoalsCovered, Writing
<1> QED BY <1>1, <1>2, <1>3, <1>4, <1>5, <1>6 DEF AckedIsDurable

\* The two together: a write called by a task while the owner has its data,
\* with the data that waits or with that of a new save.
LEMMA HandleWriteInv ==
  ASSUME StoreInv, Frame, NEW t \in Task, NEW d \in Pending, NEW g \in Version,
         NEW h \in {"none", "armed", "fired"}, NEW w \in BOOLEAN,
         HandleWrite(t, d, g, h, w),
         Idle(t), hass # "stopped", hass' # "stopped", loaded, loaded' = loaded,
         \/ value' = value /\ d = data /\ g = 0
         \/ d = Data(value') /\ g = value' /\ value <= value'
  PROVE  StoreInv'
<1>1. /\ value \in Nat /\ value' \in Nat /\ file \in Nat /\ g \in Nat
      /\ value \in Version /\ value' \in Version /\ file <= value
  BY VersionIsNat DEF StoreInv, TypeOK, VersionsOrdered, Frame
<1>2. value <= value' /\ file <= value' /\ g <= value' /\ (d = Func \/ d = NoData => value' = value)
  BY <1>1, DataTypes
<1>3. d = NoData => data = NoData /\ value' = value /\ g = 0 /\ g <= file
  BY <1>1, DataTypes
<1>4. d.kind = "data" => d.version = value'
  BY <1>1, DataTypes DEF StoreInv, VersionsOrdered
<1>5. CASE lock = NoTask /\ \A u \in Task : pc[u] # "lock"
  <2>1. TakeData(t, d, g)
    BY <1>5 DEF HandleWrite
  <2>2. pc[t] \notin Writing
    BY DEF Idle, Writing
  <2> QED BY <1>2, <1>3, <1>4, <1>5, <2>1, <2>2, TakeDataInv
<1>6. CASE ~(lock = NoTask /\ \A u \in Task : pc[u] # "lock")
  <2>1. /\ pc' = [pc EXCEPT ![t] = "lock"] /\ goal' = [goal EXCEPT ![t] = g]
        /\ data' = d /\ handle' = h /\ finalWrite' = w
        /\ UNCHANGED <<lock, buf, byFunc, cacheVars, acked>>
    BY <1>6 DEF HandleWrite
  <2>2. data # NoData => d # NoData
    BY <1>1, DataTypes
  <2>3. value' # value => d # NoData
    BY <1>3
  <2> QED BY <1>2, <1>3, <1>4, <2>1, <2>2, <2>3, EnqueueInv
<1> QED BY <1>5, <1>6

-----------------------------------------------------------------------------

\* The thread serialises the newest version, or the one it was given.
LEMMA SerializeInv ==
  ASSUME StoreInv, NEW t \in Task, Serialize(t)
  PROVE  StoreInv'
<1> USE VersionIsNat, TaskAssumption, DataTypes DEF StoreInv, Serialize, memoryVars, taskVars, diskVars, cacheVars, ownerVars, ghostVars
<1>1. TypeOK'
  BY DEF TypeOK, PC, Writing
<1>2. LockHeld'
  BY DEF LockHeld, TypeOK, Writing, PC
<1>3. VersionsOrdered'
  BY DEF VersionsOrdered, NothingBeforeLoad, LockHeld, CacheIsFile, TypeOK, Writing
<1>4. NothingBeforeLoad'
  BY DEF NothingBeforeLoad, VersionsOrdered, LockHeld, CacheIsFile, GoalsCovered, TypeOK, Writing
<1>5. CacheIsFile'
  BY DEF CacheIsFile, TypeOK, Writing, Loading
<1>6. GoalsCovered'
  BY DEF GoalsCovered, LockHeld, VersionsOrdered, TypeOK, Writing
<1>7. AckedIsDurable'
  BY LargerVersion DEF AckedIsDurable, GoalsCovered, VersionsOrdered, TypeOK, Writing
<1> QED BY <1>1, <1>2, <1>3, <1>4, <1>5, <1>6, <1>7

\* A data_func that raises leaves data behind that waits.
LEMMA SerializeRaisesInv ==
  ASSUME StoreInv, NEW t \in Task, SerializeRaises(t)
  PROVE  StoreInv'
<1> USE VersionIsNat, TaskAssumption, DataTypes DEF StoreInv, SerializeRaises, memoryVars, taskVars, diskVars, cacheVars, ownerVars, ghostVars
<1>1. TypeOK'
  BY DEF TypeOK, PC, Writing
<1>2. LockHeld'
  BY DEF LockHeld, TypeOK, Writing, PC
<1>3. VersionsOrdered'
  BY DEF VersionsOrdered, NothingBeforeLoad, LockHeld, CacheIsFile, TypeOK, Writing
<1>4. NothingBeforeLoad'
  BY DEF NothingBeforeLoad, VersionsOrdered, LockHeld, CacheIsFile, GoalsCovered, TypeOK, Writing
<1>5. CacheIsFile'
  BY DEF CacheIsFile, TypeOK, Writing, Loading
<1>6. GoalsCovered'
  BY DEF GoalsCovered, LockHeld, VersionsOrdered, TypeOK, Writing
<1>7. AckedIsDurable'
  BY LargerVersion DEF AckedIsDurable, GoalsCovered, VersionsOrdered, TypeOK, Writing
<1> QED BY <1>1, <1>2, <1>3, <1>4, <1>5, <1>6, <1>7

\* The file becomes what the holder of the lock carries.
LEMMA ReplaceInv ==
  ASSUME StoreInv, NEW t \in Task, Replace(t)
  PROVE  StoreInv'
<1> USE VersionIsNat, TaskAssumption, DataTypes DEF StoreInv, Replace, memoryVars, taskVars, diskVars, cacheVars, ownerVars, ghostVars
<1>1. TypeOK'
  <2>1. pc' \in [Task -> PC] /\ file' \in Version /\ oldFile' \in BOOLEAN
    BY DEF TypeOK, PC, Writing
  <2> QED BY <2>1 DEF TypeOK
<1>2. LockHeld'
  BY DEF LockHeld, TypeOK, Writing, PC
<1>3. VersionsOrdered'
  BY DEF VersionsOrdered, NothingBeforeLoad, LockHeld, CacheIsFile, TypeOK, Writing
<1>4. NothingBeforeLoad'
  BY DEF NothingBeforeLoad, VersionsOrdered, LockHeld, CacheIsFile, GoalsCovered, TypeOK, Writing
<1>5. CacheIsFile'
  BY DEF CacheIsFile, TypeOK, Writing, Loading
<1>6. GoalsCovered'
  BY DEF GoalsCovered, LockHeld, VersionsOrdered, TypeOK, Writing
<1>7. AckedIsDurable'
  BY LargerVersion DEF AckedIsDurable, GoalsCovered, VersionsOrdered, TypeOK, Writing
<1> QED BY <1>1, <1>2, <1>3, <1>4, <1>5, <1>6, <1>7

\* A write that fails changes nothing on disk.
LEMMA WriteFailsInv ==
  ASSUME StoreInv, NEW t \in Task, WriteFails(t)
  PROVE  StoreInv'
<1> USE VersionIsNat, TaskAssumption, DataTypes DEF StoreInv, WriteFails, memoryVars, taskVars, diskVars, cacheVars, ownerVars, ghostVars
<1>1. TypeOK'
  BY DEF TypeOK, PC, Writing
<1>2. LockHeld'
  BY DEF LockHeld, TypeOK, Writing, PC
<1>3. VersionsOrdered'
  BY DEF VersionsOrdered, NothingBeforeLoad, LockHeld, CacheIsFile, TypeOK, Writing
<1>4. NothingBeforeLoad'
  BY DEF NothingBeforeLoad, VersionsOrdered, LockHeld, CacheIsFile, GoalsCovered, TypeOK, Writing
<1>5. CacheIsFile'
  BY DEF CacheIsFile, TypeOK, Writing, Loading
<1>6. GoalsCovered'
  <2>1. /\ file \in Nat /\ value \in Nat /\ lock = t
        /\ \A u \in Task : goal[u] \in Nat /\ buf[u] \in Nat
    BY DEF TypeOK, LockHeld, Writing
  <2>2. ASSUME NEW u \in Task
        PROVE  /\ goal'[u] \in {0, goal[u]}
               /\ u = t \/ data = NoData => goal'[u] <= file
    BY <2>1 DEF TypeOK, Lost
  <2>3. \A u \in Task : pc'[u] = IF u = t THEN "written" ELSE pc[u]
    BY DEF TypeOK
  <2> QED BY <2>1, <2>2, <2>3 DEF GoalsCovered, LockHeld, Writing
<1>7. AckedIsDurable'
  BY LargerVersion DEF AckedIsDurable, GoalsCovered, VersionsOrdered, TypeOK, Writing
<1> QED BY <1>1, <1>2, <1>3, <1>4, <1>5, <1>6, <1>7

\* A write that ended is acknowledged.
LEMMA WrittenInv ==
  ASSUME StoreInv, NEW t \in Task, Written(t)
  PROVE  StoreInv'
<1> USE VersionIsNat, TaskAssumption, DataTypes DEF StoreInv, Written, memoryVars, taskVars, diskVars, cacheVars, ownerVars, ghostVars
<1>1. TypeOK'
  <2>1. pc' \in [Task -> PC] /\ goal' \in [Task -> Version]
    BY DEF TypeOK, PC
  <2>2. acked' \in Version
    BY LargerVersion DEF TypeOK
  <2> QED BY <2>1, <2>2 DEF TypeOK
<1>2. LockHeld'
  BY DEF LockHeld, TypeOK, Writing, PC
<1>3. VersionsOrdered'
  BY DEF VersionsOrdered, NothingBeforeLoad, LockHeld, CacheIsFile, TypeOK, Writing
<1>4. NothingBeforeLoad'
  BY DEF NothingBeforeLoad, VersionsOrdered, LockHeld, CacheIsFile, GoalsCovered, TypeOK, Writing
<1>5. CacheIsFile'
  BY DEF CacheIsFile, TypeOK, Writing, Loading
<1>6. GoalsCovered'
  BY DEF GoalsCovered, LockHeld, VersionsOrdered, TypeOK, Writing
<1>7. AckedIsDurable'
  BY LargerVersion DEF AckedIsDurable, GoalsCovered, VersionsOrdered, TypeOK, Writing
<1> QED BY <1>1, <1>2, <1>3, <1>4, <1>5, <1>6, <1>7

\* A load that read the file has its version.
LEMMA ReadInv ==
  ASSUME StoreInv, NEW t \in Task, Read(t)
  PROVE  StoreInv'
<1> USE VersionIsNat, TaskAssumption, DataTypes DEF StoreInv, Read, Loads, memoryVars, taskVars, diskVars, cacheVars, ownerVars, ghostVars
<1>1. TypeOK'
  <2>1. pc' \in [Task -> PC] /\ buf' \in [Task -> Version]
    BY DEF TypeOK, PC, Loading
  <2>2. loaded' \in BOOLEAN /\ value' \in Version
    BY DEF TypeOK
  <2> QED BY <2>1, <2>2 DEF TypeOK
<1>2. LockHeld'
  BY DEF LockHeld, TypeOK, Writing, PC
<1>3. VersionsOrdered'
  BY DEF VersionsOrdered, NothingBeforeLoad, LockHeld, CacheIsFile, TypeOK, Writing
<1>4. NothingBeforeLoad'
  BY DEF NothingBeforeLoad, VersionsOrdered, LockHeld, CacheIsFile, GoalsCovered, TypeOK, Writing
<1>5. CacheIsFile'
  BY DEF CacheIsFile, TypeOK, Writing, Loading
<1>6. GoalsCovered'
  <2>1. goal[t] = 0 /\ pc[t] \notin {"lock"} \union Writing
    BY DEF GoalsCovered, Writing
  <2>2. /\ pc'[t] \in {"migrate", "idle"}
        /\ \A u \in Task \ {t} : pc'[u] = pc[u] /\ buf'[u] = buf[u]
    BY DEF TypeOK
  <2>3. \A u \in Task : goal[u] <= value'
    <3>1. CASE value' = value
      BY <3>1 DEF GoalsCovered
    <3>2. CASE value' # value
      <4>1. ~loaded /\ \A u \in Task : goal[u] = 0
        BY <3>2 DEF GoalsCovered, NothingBeforeLoad, Writing
      <4> QED BY <4>1, <1>1 DEF TypeOK
    <3> QED BY <3>1, <3>2
  <2>4. lock # NoTask => pc[lock] \in Writing /\ lock # t /\ lock \in Task
    BY DEF LockHeld, TypeOK, Writing
  <2> QED BY <2>1, <2>2, <2>3, <2>4 DEF GoalsCovered, Writing
<1>7. AckedIsDurable'
  BY LargerVersion DEF AckedIsDurable, GoalsCovered, VersionsOrdered, TypeOK, Writing
<1> QED BY <1>1, <1>2, <1>3, <1>4, <1>5, <1>6, <1>7

\* A load gets what waits, what the manager knows, or reads.
LEMMA LoadInv ==
  ASSUME StoreInv, NEW t \in Task, Load(t)
  PROVE  StoreInv'
<1> USE VersionIsNat, TaskAssumption, DataTypes DEF StoreInv, Load, Loads, Idle, memoryVars, taskVars, diskVars, cacheVars, ownerVars, ghostVars
<1>1. TypeOK'
  <2>1. pc' \in [Task -> PC] /\ buf' \in [Task -> Version]
    BY DEF TypeOK, PC, Loading
  <2>2. loaded' \in BOOLEAN /\ value' \in Version
    BY DEF TypeOK
  <2>3. data' \in Pending /\ cache' \in {"absent", "listed", "data"}
    BY DEF TypeOK
  <2> QED BY <2>1, <2>2, <2>3 DEF TypeOK
<1>2. LockHeld'
  BY DEF LockHeld, TypeOK, Writing, PC
<1>3. VersionsOrdered'
  BY DEF VersionsOrdered, NothingBeforeLoad, LockHeld, CacheIsFile, TypeOK, Writing
<1>4. NothingBeforeLoad'
  BY DEF NothingBeforeLoad, VersionsOrdered, LockHeld, CacheIsFile, GoalsCovered, TypeOK, Writing
<1>5. CacheIsFile'
  BY DEF CacheIsFile, TypeOK, Writing, Loading
<1>6. GoalsCovered'
  BY DEF GoalsCovered, LockHeld, VersionsOrdered, TypeOK, Writing
<1>7. AckedIsDurable'
  BY LargerVersion DEF AckedIsDurable, GoalsCovered, VersionsOrdered, TypeOK, Writing
<1> QED BY <1>1, <1>2, <1>3, <1>4, <1>5, <1>6, <1>7

\* The start of a removal.
LEMMA RemoveInv ==
  ASSUME StoreInv, NEW t \in Task, Remove(t)
  PROVE  StoreInv'
<1> USE VersionIsNat, TaskAssumption, DataTypes DEF StoreInv, Remove, Invalidate, Idle, memoryVars, taskVars, diskVars, cacheVars, ownerVars, ghostVars
<1>1. TypeOK'
  BY DEF TypeOK, PC, Writing
<1>2. LockHeld'
  BY DEF LockHeld, TypeOK, Writing, PC
<1>3. VersionsOrdered'
  BY DEF VersionsOrdered, NothingBeforeLoad, LockHeld, CacheIsFile, TypeOK, Writing
<1>4. NothingBeforeLoad'
  BY DEF NothingBeforeLoad, VersionsOrdered, LockHeld, CacheIsFile, GoalsCovered, TypeOK, Writing
<1>5. CacheIsFile'
  BY DEF CacheIsFile, TypeOK, Writing, Loading
<1>6. GoalsCovered'
  BY DEF GoalsCovered, LockHeld, VersionsOrdered, TypeOK, Writing
<1>7. AckedIsDurable'
  BY LargerVersion DEF AckedIsDurable, GoalsCovered, VersionsOrdered, TypeOK, Writing
<1> QED BY <1>1, <1>2, <1>3, <1>4, <1>5, <1>6, <1>7

\* The end of a removal.
LEMMA UnlinkedInv ==
  ASSUME StoreInv, NEW t \in Task, Unlinked(t)
  PROVE  StoreInv'
<1> USE VersionIsNat, TaskAssumption, DataTypes DEF StoreInv, Unlinked, memoryVars, taskVars, diskVars, cacheVars, ownerVars, ghostVars
<1>1. TypeOK'
  BY DEF TypeOK, PC, Writing
<1>2. LockHeld'
  BY DEF LockHeld, TypeOK, Writing, PC
<1>3. VersionsOrdered'
  <2>1. value \in Nat /\ \A u \in Task : buf[u] \in Nat
    BY DEF TypeOK
  <2>2. \A u \in Task : pc'[u] \in {"job", "replace"} => pc'[u] = pc[u]
    BY DEF TypeOK
  <2> QED BY <2>1, <2>2 DEF VersionsOrdered
<1>4. NothingBeforeLoad'
  BY DEF NothingBeforeLoad, VersionsOrdered, LockHeld, CacheIsFile, GoalsCovered, TypeOK, Writing
<1>5. CacheIsFile'
  BY DEF CacheIsFile, TypeOK, Writing, Loading
<1>6. GoalsCovered'
  <2>1. value \in Nat /\ \A u \in Task : buf[u] \in Nat
    BY DEF TypeOK
  <2>2. /\ file \in Nat /\ file' = 0 /\ \A u \in Task : goal[u] \in Nat
        /\ \A u \in Task : goal'[u] = IF goal[u] <= file THEN 0 ELSE goal[u]
    BY DEF TypeOK
  <2>3. \A u \in Task : pc'[u] = IF u = t THEN "idle" ELSE pc[u]
    BY DEF TypeOK
  <2>4. pc[t] \notin {"lock"} \union Writing /\ "idle" \notin {"lock"} \union Writing
    BY DEF Writing
  <2>5. ASSUME NEW u \in Task
        PROVE  /\ goal'[u] <= value
               /\ pc'[u] \notin {"lock"} \union Writing => goal'[u] = 0
               /\ pc'[u] \in {"job", "replace"} => goal'[u] <= buf[u]
               /\ pc'[u] = "written" => goal'[u] <= file'
    BY <2>1, <2>2, <2>3, <2>4 DEF GoalsCovered
  <2>6. ASSUME NEW u \in Task, pc'[u] = "lock"
        PROVE  \/ data # NoData
               \/ goal'[u] <= file'
               \/ lock # NoTask /\ pc'[lock] \in {"job", "replace"} /\ goal'[u] <= buf[lock]
    <3>1. CASE goal[u] <= file
      BY <2>2, <3>1
    <3>2. CASE ~(goal[u] <= file)
      <4>1. pc[u] = "lock" /\ goal'[u] = goal[u]
        BY <2>2, <2>3, <2>6, <3>2
      <4>2. lock # NoTask => lock \in Task /\ (pc[lock] \in {"job", "replace"} => lock # t)
        BY DEF TypeOK
      <4> QED BY <2>3, <3>2, <4>1, <4>2 DEF GoalsCovered
    <3> QED BY <3>1, <3>2
  <2> QED BY <2>5, <2>6 DEF GoalsCovered
<1>7. AckedIsDurable'
  BY LargerVersion DEF AckedIsDurable, GoalsCovered, VersionsOrdered, TypeOK, Writing
<1> QED BY <1>1, <1>2, <1>3, <1>4, <1>5, <1>6, <1>7

\* A delayed save only changes what waits.
LEMMA DelaySaveInv ==
  ASSUME StoreInv, DelaySave
  PROVE  StoreInv'
<1> USE VersionIsNat, TaskAssumption, DataTypes DEF StoreInv, DelaySave, memoryVars, taskVars, diskVars, cacheVars, ownerVars, ghostVars
<1>1. TypeOK'
  <2>1. 1..MaxVersion \subseteq Version
    BY VersionAssumption DEF Version
  <2>2. value' \in Version /\ due' \in Version /\ data' \in Pending
    BY <2>1 DEF TypeOK
  <2>3. handle' \in {"none", "armed", "fired"} /\ finalWrite' \in BOOLEAN /\ postponed' \in BOOLEAN
    BY DEF TypeOK
  <2> QED BY <2>2, <2>3 DEF TypeOK
<1>2. LockHeld'
  BY DEF LockHeld, TypeOK, Writing, PC
<1>3. VersionsOrdered'
  <2>1. /\ value \in Nat /\ file \in Nat /\ value' \in {value, value + 1} /\ data' = Func
        /\ \A u \in Task : buf[u] \in Nat
    BY DEF TypeOK
  <2>2. file' <= value'
    BY <2>1 DEF VersionsOrdered
  <2>3. data'.kind # "data" /\ data' # NoData
    BY <2>1
  <2>4. ASSUME NEW u \in Task, pc[u] \in {"job", "replace"}
        PROVE  file <= buf[u] /\ buf[u] <= value'
    <3>1. file <= buf[u] /\ buf[u] <= value
      BY <2>4 DEF VersionsOrdered
    <3> QED BY <2>1, <3>1
  <2> QED BY <2>2, <2>3, <2>4 DEF VersionsOrdered
<1>4. NothingBeforeLoad'
  BY DEF NothingBeforeLoad, VersionsOrdered, LockHeld, CacheIsFile, GoalsCovered, TypeOK, Writing
<1>5. CacheIsFile'
  BY DEF CacheIsFile, TypeOK, Writing, Loading
<1>6. GoalsCovered'
  <2>1. /\ value \in Nat /\ value' \in {value, value + 1} /\ data' = Func
        /\ \A u \in Task : goal[u] \in Nat
    BY DEF TypeOK
  <2> QED BY <2>1 DEF GoalsCovered
<1>7. AckedIsDurable'
  BY LargerVersion DEF AckedIsDurable, GoalsCovered, VersionsOrdered, TypeOK, Writing
<1> QED BY <1>1, <1>2, <1>3, <1>4, <1>5, <1>6, <1>7

\* The preload reads the file.
LEMMA PreloadReadsInv ==
  ASSUME StoreInv, PreloadReads
  PROVE  StoreInv'
<1> USE VersionIsNat, TaskAssumption, DataTypes DEF StoreInv, PreloadReads, memoryVars, taskVars, diskVars, cacheVars, ownerVars, ghostVars
<1>1. TypeOK'
  BY DEF TypeOK, PC, Writing
<1>2. LockHeld'
  BY DEF LockHeld, TypeOK, Writing, PC
<1>3. VersionsOrdered'
  BY DEF VersionsOrdered, NothingBeforeLoad, LockHeld, CacheIsFile, TypeOK, Writing
<1>4. NothingBeforeLoad'
  BY DEF NothingBeforeLoad, VersionsOrdered, LockHeld, CacheIsFile, GoalsCovered, TypeOK, Writing
<1>5. CacheIsFile'
  BY DEF CacheIsFile, TypeOK, Writing, Loading
<1>6. GoalsCovered'
  BY DEF GoalsCovered, LockHeld, VersionsOrdered, TypeOK, Writing
<1>7. AckedIsDurable'
  BY LargerVersion DEF AckedIsDurable, GoalsCovered, VersionsOrdered, TypeOK, Writing
<1> QED BY <1>1, <1>2, <1>3, <1>4, <1>5, <1>6, <1>7

\* The preload keeps what it read.
LEMMA PreloadKeepsInv ==
  ASSUME StoreInv, PreloadKeeps
  PROVE  StoreInv'
<1> USE VersionIsNat, TaskAssumption, DataTypes DEF StoreInv, PreloadKeeps, memoryVars, taskVars, diskVars, cacheVars, ownerVars, ghostVars
<1>1. TypeOK'
  BY DEF TypeOK, PC, Writing
<1>2. LockHeld'
  BY DEF LockHeld, TypeOK, Writing, PC
<1>3. VersionsOrdered'
  BY DEF VersionsOrdered, NothingBeforeLoad, LockHeld, CacheIsFile, TypeOK, Writing
<1>4. NothingBeforeLoad'
  BY DEF NothingBeforeLoad, VersionsOrdered, LockHeld, CacheIsFile, GoalsCovered, TypeOK, Writing
<1>5. CacheIsFile'
  BY DEF CacheIsFile, TypeOK, Writing, Loading
<1>6. GoalsCovered'
  BY DEF GoalsCovered, LockHeld, VersionsOrdered, TypeOK, Writing
<1>7. AckedIsDurable'
  BY LargerVersion DEF AckedIsDurable, GoalsCovered, VersionsOrdered, TypeOK, Writing
<1> QED BY <1>1, <1>2, <1>3, <1>4, <1>5, <1>6, <1>7

\* The cache forgets what it preloaded.
LEMMA CacheCleanupInv ==
  ASSUME StoreInv, CacheCleanup
  PROVE  StoreInv'
<1> USE VersionIsNat, TaskAssumption, DataTypes DEF StoreInv, CacheCleanup, memoryVars, taskVars, diskVars, cacheVars, ownerVars, ghostVars
<1>1. TypeOK'
  BY DEF TypeOK, PC, Writing
<1>2. LockHeld'
  BY DEF LockHeld, TypeOK, Writing, PC
<1>3. VersionsOrdered'
  BY DEF VersionsOrdered, NothingBeforeLoad, LockHeld, CacheIsFile, TypeOK, Writing
<1>4. NothingBeforeLoad'
  BY DEF NothingBeforeLoad, VersionsOrdered, LockHeld, CacheIsFile, GoalsCovered, TypeOK, Writing
<1>5. CacheIsFile'
  BY DEF CacheIsFile, TypeOK, Writing, Loading
<1>6. GoalsCovered'
  BY DEF GoalsCovered, LockHeld, VersionsOrdered, TypeOK, Writing
<1>7. AckedIsDurable'
  BY LargerVersion DEF AckedIsDurable, GoalsCovered, VersionsOrdered, TypeOK, Writing
<1> QED BY <1>1, <1>2, <1>3, <1>4, <1>5, <1>6, <1>7

\* The stop begins.
LEMMA StopInv ==
  ASSUME StoreInv, Stop
  PROVE  StoreInv'
<1> USE VersionIsNat, TaskAssumption, DataTypes DEF StoreInv, Stop, Idle, memoryVars, taskVars, diskVars, cacheVars, ownerVars, ghostVars
<1>1. TypeOK'
  BY DEF TypeOK, PC, Writing
<1>2. LockHeld'
  BY DEF LockHeld, TypeOK, Writing, PC
<1>3. VersionsOrdered'
  BY DEF VersionsOrdered, NothingBeforeLoad, LockHeld, CacheIsFile, TypeOK, Writing
<1>4. NothingBeforeLoad'
  BY DEF NothingBeforeLoad, VersionsOrdered, LockHeld, CacheIsFile, GoalsCovered, TypeOK, Writing
<1>5. CacheIsFile'
  BY DEF CacheIsFile, TypeOK, Writing, Loading
<1>6. GoalsCovered'
  BY DEF GoalsCovered, LockHeld, VersionsOrdered, TypeOK, Writing
<1>7. AckedIsDurable'
  BY LargerVersion DEF AckedIsDurable, GoalsCovered, VersionsOrdered, TypeOK, Writing
<1> QED BY <1>1, <1>2, <1>3, <1>4, <1>5, <1>6, <1>7

\* The stop ends, and what was left behind is cancelled.
LEMMA CloseInv ==
  ASSUME StoreInv, Close
  PROVE  StoreInv'
<1> USE VersionIsNat, TaskAssumption, DataTypes DEF StoreInv, Close, memoryVars, taskVars, diskVars, cacheVars, ownerVars, ghostVars
<1>1. TypeOK'
  BY DEF TypeOK, PC, Writing
<1>2. LockHeld'
  BY DEF LockHeld, TypeOK, Writing, PC
<1>3. VersionsOrdered'
  BY DEF VersionsOrdered, NothingBeforeLoad, LockHeld, CacheIsFile, TypeOK, Writing
<1>4. NothingBeforeLoad'
  BY DEF NothingBeforeLoad, VersionsOrdered, LockHeld, CacheIsFile, GoalsCovered, TypeOK, Writing
<1>5. CacheIsFile'
  BY DEF CacheIsFile, TypeOK, Writing, Loading
<1>6. GoalsCovered'
  BY DEF GoalsCovered, LockHeld, VersionsOrdered, TypeOK, Writing
<1>7. AckedIsDurable'
  BY LargerVersion DEF AckedIsDurable, GoalsCovered, VersionsOrdered, TypeOK, Writing
<1> QED BY <1>1, <1>2, <1>3, <1>4, <1>5, <1>6, <1>7

\* A new process finds the file.
LEMMA RestartInv ==
  ASSUME StoreInv, Restart
  PROVE  StoreInv'
<1> USE VersionIsNat, TaskAssumption, DataTypes DEF StoreInv, Restart, memoryVars, taskVars, diskVars, cacheVars, ownerVars, ghostVars
<1>1. TypeOK'
  BY DEF TypeOK, PC, Writing
<1>2. LockHeld'
  BY DEF LockHeld, TypeOK, Writing, PC
<1>3. VersionsOrdered'
  BY DEF VersionsOrdered, NothingBeforeLoad, LockHeld, CacheIsFile, TypeOK, Writing
<1>4. NothingBeforeLoad'
  BY DEF NothingBeforeLoad, VersionsOrdered, LockHeld, CacheIsFile, GoalsCovered, TypeOK, Writing
<1>5. CacheIsFile'
  BY DEF CacheIsFile, TypeOK, Writing, Loading
<1>6. GoalsCovered'
  BY DEF GoalsCovered, LockHeld, VersionsOrdered, TypeOK, Writing
<1>7. AckedIsDurable'
  BY LargerVersion DEF AckedIsDurable, GoalsCovered, VersionsOrdered, TypeOK, Writing
<1> QED BY <1>1, <1>2, <1>3, <1>4, <1>5, <1>6, <1>7

-----------------------------------------------------------------------------
\* A waiter that gets the lock writes what waits by then.
LEMMA AcquireLockInv ==
  ASSUME StoreInv, NEW t \in Task, AcquireLock(t)
  PROVE  StoreInv'
<1>1. TakeData(t, data, goal[t]) /\ pc[t] = "lock" /\ lock = NoTask /\ hass # "stopped"
  BY DEF AcquireLock
<1>2. Frame
  BY DEF AcquireLock, Frame, ownerVars, diskVars, StoreInv, TypeOK
<1>3. data \in Pending /\ goal[t] \in Version /\ UNCHANGED <<loaded, value>>
  BY DEF AcquireLock, ownerVars, StoreInv, TypeOK
<1>4. loaded /\ pc[t] \notin Writing
  BY <1>1 DEF StoreInv, NothingBeforeLoad, Writing
<1>5. goal[t] <= value /\ (data = NoData => goal[t] <= file)
  BY <1>1 DEF StoreInv, GoalsCovered
<1>6. value \in Nat /\ value <= value' /\ file <= value' /\ goal[t] <= value'
  BY <1>3, <1>4, <1>5, VersionIsNat DEF StoreInv, TypeOK, VersionsOrdered
<1>7. data.kind = "data" => data.version = value'
  BY <1>3 DEF StoreInv, VersionsOrdered
<1> QED BY <1>1, <1>2, <1>3, <1>4, <1>5, <1>6, <1>7, TakeDataInv

\* A save left to the final write puts its data where the final write looks.
LEMMA SaveForFinalWriteInv ==
  ASSUME StoreInv, Frame, NEW t \in Task, NEW v \in Version,
         data' = Data(v), finalWrite' = TRUE, pc' = [pc EXCEPT ![t] = "idle"],
         UNCHANGED <<handle, lock, buf, byFunc, goal, cacheVars, acked>>,
         hass # "stopped", hass' # "stopped", loaded', value' = v,
         pc[t] \in {"idle", "migrate"},
         loaded => value <= v, ~loaded => v = file /\ pc[t] = "migrate"
  PROVE  StoreInv'
<1> USE VersionIsNat, TaskAssumption, DataTypes DEF StoreInv, Frame, cacheVars
<1>0. /\ data'.kind = "data" /\ data'.version = v /\ data' # NoData /\ data' \in Pending
      /\ \A u \in Task : goal[u] \in Nat /\ buf[u] \in Nat
      /\ value \in Nat /\ v \in Nat /\ file \in Nat
  BY DEF TypeOK
<1>1. TypeOK'
  <2>1. pc' \in [Task -> PC] /\ loaded' \in BOOLEAN
    BY DEF TypeOK, PC
  <2> QED BY <1>0, <2>1 DEF TypeOK
<1>2. LockHeld'
  BY DEF LockHeld, TypeOK, Writing
<1>a. ~loaded => \A u \in Task \ {t} : pc[u] = "idle" /\ goal[u] = 0
  BY DEF NothingBeforeLoad, GoalsCovered, Writing
<1>b. pc'[t] = "idle" /\ \A u \in Task \ {t} : pc'[u] = pc[u]
  BY DEF TypeOK
<1>3. VersionsOrdered'
  <2>1. file <= v
    BY <1>0 DEF VersionsOrdered
  <2>2. ASSUME NEW u \in Task, pc'[u] \in {"job", "replace"}
        PROVE  file <= buf[u] /\ buf[u] <= v
    <3>1. loaded /\ pc[u] \in {"job", "replace"}
      BY <1>a, <1>b, <2>2
    <3>2. file <= buf[u] /\ buf[u] <= value /\ value <= v
      BY <3>1 DEF VersionsOrdered
    <3> QED BY <1>0, <3>2
  <2> QED BY <1>0, <2>1, <2>2 DEF VersionsOrdered
<1>4. NothingBeforeLoad'
  <2>1. ASSUME NEW u \in Task, pc'[u] \in {"read", "migrate", "unlink"}
        PROVE  loaded /\ pc[u] = pc'[u]
    BY <1>a, <1>b, <2>1
  <2> QED BY <2>1 DEF NothingBeforeLoad
<1>5. CacheIsFile'
  BY <1>b DEF CacheIsFile, Writing
<1>6. GoalsCovered'
  <2>1. goal[t] = 0
    BY DEF GoalsCovered, Writing
  <2>2. ASSUME NEW u \in Task
        PROVE  goal[u] <= v
    <3>1. CASE loaded
      <4>1. goal[u] <= value /\ value <= v
        BY <3>1 DEF GoalsCovered
      <4> QED BY <1>0, <4>1
    <3>2. CASE ~loaded
      BY <1>0, <1>a, <2>1, <3>2
    <3> QED BY <3>1, <3>2
  <2> QED BY <1>0, <1>b, <2>1, <2>2 DEF GoalsCovered
<1>7. AckedIsDurable'
  BY DEF AckedIsDurable
<1> QED BY <1>1, <1>2, <1>3, <1>4, <1>5, <1>6, <1>7

\* A save of the owner's next version.
LEMMA AsyncSaveInv ==
  ASSUME StoreInv, NEW t \in Task, AsyncSave(t)
  PROVE  StoreInv'
<1>1. /\ pc[t] = "idle" /\ hass # "stopped" /\ loaded /\ value < MaxVersion
      /\ value' = value + 1 /\ Save(t, value + 1)
      /\ UNCHANGED <<hass, loaded, postponed, leftBehind, file, oldFile>>
  BY DEF AsyncSave, Idle, diskVars
<1>2. value + 1 \in Version /\ value <= value + 1
  BY <1>1, VersionAssumption DEF StoreInv, TypeOK, Version
<1>3. due' \in Version
  BY <1>1, <1>2 DEF Save, StoreInv, TypeOK
<1>4. Frame
  BY <1>1, <1>2, <1>3 DEF Frame, StoreInv, TypeOK
<1>5. CASE hass = "stopping"
  <2>1. /\ data' = Data(value + 1) /\ finalWrite' = TRUE /\ pc' = [pc EXCEPT ![t] = "idle"]
        /\ UNCHANGED <<handle, lock, buf, byFunc, goal, cacheVars, acked>>
    BY <1>1, <1>5 DEF Save
  <2> QED BY <1>1, <1>2, <1>4, <2>1, SaveForFinalWriteInv
<1>6. CASE hass # "stopping"
  <2>1. HandleWrite(t, Data(value'), value', handle, finalWrite)
    BY <1>1, <1>6 DEF Save
  <2>2. handle \in {"none", "armed", "fired"} /\ finalWrite \in BOOLEAN
    BY DEF StoreInv, TypeOK
  <2>3. Data(value') \in Pending
    BY <1>1, <1>2, DataTypes
  <2> QED BY <1>1, <1>2, <1>4, <2>1, <2>2, <2>3, HandleWriteInv DEF Idle
<1> QED BY <1>5, <1>6

\* The save of a migrated file: nothing else is at work, so the lock is free.
LEMMA MigratedInv ==
  ASSUME StoreInv, NEW t \in Task, Migrated(t)
  PROVE  StoreInv'
<1>1. /\ pc[t] = "migrate" /\ hass # "stopped" /\ Save(t, buf[t])
      /\ value' = (IF loaded THEN value ELSE buf[t])
      /\ loaded' = (loaded \/ hass = "stopping")
      /\ UNCHANGED <<hass, postponed, leftBehind, file, oldFile>>
  BY DEF Migrated, diskVars
<1>2. ~loaded /\ buf[t] = file /\ value' = file /\ file \in Version /\ buf[t] \in Version
  BY <1>1 DEF StoreInv, NothingBeforeLoad, TypeOK
<1>3. \A u \in Task \ {t} : pc[u] = "idle"
  BY <1>1, <1>2 DEF StoreInv, NothingBeforeLoad
<1>4. lock = NoTask
  BY <1>1, <1>3 DEF StoreInv, LockHeld, Writing, TypeOK
<1>5. Frame
  BY <1>1, <1>2 DEF Frame, Save, StoreInv, TypeOK
<1>6. CASE hass = "stopping"
  <2>1. /\ data' = Data(buf[t]) /\ finalWrite' = TRUE /\ pc' = [pc EXCEPT ![t] = "idle"]
        /\ UNCHANGED <<handle, lock, buf, byFunc, goal, cacheVars, acked>>
    BY <1>1, <1>6 DEF Save
  <2> QED BY <1>1, <1>2, <1>5, <1>6, <2>1, SaveForFinalWriteInv
<1>7. CASE hass # "stopping"
  <2>1. TakeData(t, Data(file), file)
    BY <1>1, <1>2, <1>3, <1>4, <1>7 DEF Save, HandleWrite
  <2>2. Data(file) \in Pending /\ Data(file).kind = "data" /\ Data(file).version = file
        /\ Data(file) # NoData /\ Data(file) # Func
    BY <1>2, DataTypes
  <2>3. loaded' = loaded
    BY <1>1, <1>2, <1>7 DEF StoreInv, TypeOK
  <2>4. file <= value' /\ pc[t] \notin Writing
    BY <1>1, <1>2, VersionIsNat DEF Writing
  <2> QED BY <1>1, <1>2, <1>3, <1>4, <1>5, <2>1, <2>2, <2>3, <2>4, TakeDataInv DEF Idle
<1> QED BY <1>6, <1>7

\* The timer of a delayed save fires.
LEMMA TimerFiresInv ==
  ASSUME StoreInv, TimerFires
  PROVE  StoreInv'
<1>1. /\ handle = "armed" /\ hass # "stopped" /\ UNCHANGED <<hass, ownerVars, diskVars, due>>
      /\ loaded
  BY DEF TimerFires, StoreInv, NothingBeforeLoad
<1>2. ASSUME handle' \in {"none", "armed", "fired"}, finalWrite' \in BOOLEAN, postponed' \in BOOLEAN,
             UNCHANGED <<data, taskVars, cacheVars, acked>>
      PROVE  StoreInv'
  <2> USE <1>1, <1>2 DEF StoreInv, ownerVars, diskVars, taskVars, cacheVars
  <2>1. TypeOK' /\ LockHeld'
    BY DEF TypeOK, LockHeld
  <2>2. VersionsOrdered' /\ CacheIsFile' /\ GoalsCovered' /\ AckedIsDurable'
    BY DEF VersionsOrdered, CacheIsFile, GoalsCovered, AckedIsDurable
  <2>3. NothingBeforeLoad'
    BY DEF NothingBeforeLoad
  <2> QED BY <2>1, <2>2, <2>3
<1>3. ASSUME NEW t \in Task, Idle(t), HandleWrite(t, data, 0, "fired", finalWrite),
             UNCHANGED <<postponed, leftBehind>>
      PROVE  StoreInv'
  <2>1. Frame
    BY <1>1, <1>3 DEF Frame, ownerVars, diskVars, StoreInv, TypeOK
  <2>2. data \in Pending /\ finalWrite \in BOOLEAN /\ 0 \in Version
    BY VersionIsNat DEF StoreInv, TypeOK
  <2>3. loaded' = loaded /\ value' = value /\ hass' # "stopped"
    BY <1>1 DEF ownerVars
  <2> QED BY <1>1, <1>3, <2>1, <2>2, <2>3, HandleWriteInv
<1>4. CASE postponed /\ postponed' = FALSE /\ UNCHANGED <<data, handle, finalWrite, taskVars, cacheVars, acked>>
  BY <1>1, <1>2, <1>4 DEF StoreInv, TypeOK
<1>5. CASE handle' = "fired" /\ finalWrite' = TRUE /\ UNCHANGED <<data, postponed, taskVars, cacheVars, acked>>
  BY <1>2, <1>5 DEF StoreInv, TypeOK
<1> QED BY <1>3, <1>4, <1>5 DEF TimerFires

\* The final write of a stop.
LEMMA FinalWriteInv ==
  ASSUME StoreInv, FinalWrite
  PROVE  StoreInv'
<1>1. hass = "stopping" /\ hass' = "final_write" /\ UNCHANGED <<ownerVars, postponed, diskVars, due>>
  BY DEF FinalWrite
<1>2. CASE finalWrite
  <2>1. PICK t \in Task : /\ Idle(t) /\ leftBehind' = leftBehind \ {t}
                          /\ HandleWrite(t, data, 0, handle, FALSE)
    BY <1>2 DEF FinalWrite
  <2>2. Frame
    BY <1>1, <2>1 DEF Frame, ownerVars, diskVars, StoreInv, TypeOK
  <2>3. data \in Pending /\ handle \in {"none", "armed", "fired"} /\ 0 \in Version
    BY VersionIsNat DEF StoreInv, TypeOK
  <2>4. loaded /\ loaded' = loaded /\ value' = value /\ hass # "stopped" /\ hass' # "stopped"
    BY <1>1, <1>2 DEF ownerVars, StoreInv, NothingBeforeLoad
  <2> QED BY <2>1, <2>2, <2>3, <2>4, HandleWriteInv
<1>3. CASE ~finalWrite
  <2>1. UNCHANGED <<data, handle, finalWrite, taskVars, cacheVars, acked>>
    BY <1>3 DEF FinalWrite
  <2> USE <1>1, <2>1 DEF StoreInv, ownerVars, diskVars, taskVars, cacheVars
  <2>2. TypeOK' /\ LockHeld'
    BY DEF TypeOK, LockHeld
  <2>3. VersionsOrdered' /\ CacheIsFile' /\ GoalsCovered' /\ AckedIsDurable'
    BY DEF VersionsOrdered, CacheIsFile, GoalsCovered, AckedIsDurable
  <2>4. NothingBeforeLoad'
    BY DEF NothingBeforeLoad
  <2> QED BY <2>2, <2>3, <2>4
<1> QED BY <1>2, <1>3

-----------------------------------------------------------------------------
(* The theorems *)

\* Every step keeps the invariant.
LEMMA NextInv == StoreInv /\ [Next]_vars => StoreInv'
<1> SUFFICES ASSUME StoreInv, [Next]_vars PROVE StoreInv'
  OBVIOUS
<1>1. ASSUME NEW t \in Task, Thread(t) \/ Resume(t) \/ AsyncSave(t) \/ Load(t) \/ Remove(t)
      PROVE  StoreInv'
  <2>1. CASE Thread(t)
    BY <2>1, SerializeInv, SerializeRaisesInv, ReplaceInv, WriteFailsInv DEF Thread
  <2>2. CASE Resume(t)
    BY <2>2, AcquireLockInv, WrittenInv, ReadInv, MigratedInv, UnlinkedInv DEF Resume
  <2> QED BY <1>1, <2>1, <2>2, AsyncSaveInv, LoadInv, RemoveInv
<1>2. CASE DelaySave \/ TimerFires \/ PreloadReads \/ PreloadKeeps \/ CacheCleanup
  BY <1>2, DelaySaveInv, TimerFiresInv, PreloadReadsInv, PreloadKeepsInv, CacheCleanupInv
<1>3. CASE Stop \/ FinalWrite \/ Close \/ Restart
  BY <1>3, StopInv, FinalWriteInv, CloseInv, RestartInv
<1>4. CASE UNCHANGED vars
  <2> USE <1>4 DEF vars, memoryVars, taskVars, diskVars, cacheVars, ownerVars, ghostVars
  <2>1. TypeOK' /\ LockHeld'
    BY DEF StoreInv, TypeOK, LockHeld
  <2>2. VersionsOrdered' /\ NothingBeforeLoad' /\ CacheIsFile'
    BY DEF StoreInv, VersionsOrdered, NothingBeforeLoad, CacheIsFile
  <2>3. GoalsCovered' /\ AckedIsDurable'
    BY DEF StoreInv, GoalsCovered, AckedIsDurable
  <2> QED BY <2>1, <2>2, <2>3 DEF StoreInv
<1> QED BY <1>1, <1>2, <1>3, <1>4 DEF Next

\* The invariant of the store: the lock, the order of the versions from the
\* file over what is being written to what waits, the cache, and where every
\* save that is under way has its data.
THEOREM StoreSafety == Spec => []StoreInv
<1> QED BY InitInv, NextInv, PTL DEF Spec

\* A save that returned is on disk: whichever task wrote it, under every
\* interleaving of saves, delayed saves, loads and crashes; unless the write
\* that carried it failed or the file was removed since.
THEOREM SavesAreDurable == Spec => []AckedIsDurable
<1>1. StoreInv => AckedIsDurable
  BY DEF StoreInv
<1> QED BY <1>1, StoreSafety, PTL

\* No load gets anything older than a save that returned, be it from what
\* waits to be written, from the preloaded cache or from disk.
THEOREM LoadsAreCurrent == Spec => []LoadsSeeAcked
<1>1. StoreInv => LoadsSeeAcked
  <2> SUFFICES ASSUME StoreInv PROVE LoadsSeeAcked
    OBVIOUS
  <2>1. /\ value \in Nat /\ file \in Nat /\ acked \in Nat /\ acked <= file
        /\ loaded => file <= value
        /\ data.kind = "data" => data.version = value
        /\ ~loaded => data = NoData
    BY VersionIsNat DEF StoreInv, TypeOK, AckedIsDurable, VersionsOrdered, NothingBeforeLoad
  <2>2. data.kind = "data" => data.version >= acked
    <3>1. data.kind = "data" => loaded
      BY <2>1, DataTypes
    <3> QED BY <2>1, <3>1
  <2>3. ~invalidated => (cache = "absent" => acked = 0) /\ (cache = "data" => cacheVersion >= acked)
    BY <2>1 DEF StoreInv, CacheIsFile
  <2> QED BY <2>2, <2>3 DEF LoadsSeeAcked
<1> QED BY <1>1, StoreSafety, PTL

-----------------------------------------------------------------------------
(* A store that nobody removes implements the register *)

\* The owner's newest version: what it has in memory, or the file before that.
Newest == IF loaded THEN value ELSE file

\* What the steps of the register come to in terms of the store.
LEMMA RegisterSteps ==
  ASSUME StoreInv, StoreInv',
         \/ Newest' = Newest /\ UNCHANGED <<file, acked>>
         \/ Newest' = Newest + 1 /\ UNCHANGED <<file, acked>>
         \/ Newest' = Newest /\ file <= file' /\ file' <= Newest /\ UNCHANGED acked
         \/ Newest' = Newest /\ acked <= acked' /\ UNCHANGED file
         \/ Newest' = file /\ UNCHANGED <<file, acked>>
  PROVE  [Register!RNext]_(Register!rvars)
<1>1. /\ file \in Nat /\ file' \in Nat /\ acked \in Nat /\ acked' \in Nat
      /\ Newest \in Nat /\ Newest' \in Nat /\ acked' <= file'
  BY VersionIsNat DEF StoreInv, TypeOK, AckedIsDurable, Newest
<1> USE <1>1 DEF Register!rvars, Register!RNext, Newest
<1>2. CASE Newest' = Newest /\ UNCHANGED <<file, acked>>
  BY <1>2
<1>3. CASE Newest' = Newest + 1 /\ UNCHANGED <<file, acked>>
  BY <1>3 DEF Register!Save
<1>4. CASE Newest' = Newest /\ file <= file' /\ file' <= Newest /\ UNCHANGED acked
  BY <1>4 DEF Register!Persist
<1>5. CASE Newest' = Newest /\ acked <= acked' /\ UNCHANGED file
  BY <1>5 DEF Register!Acknowledge
<1>6. CASE Newest' = file /\ UNCHANGED <<file, acked>>
  BY <1>6 DEF Register!Die
<1> QED BY <1>2, <1>3, <1>4, <1>5, <1>6

\* A write that is called with data acknowledges nothing yet; one that is
\* called for no save never does.
LEMMA HandleWriteAcks ==
  ASSUME StoreInv, NEW t \in Task, NEW d, NEW g, NEW h, NEW w, HandleWrite(t, d, g, h, w),
         d # NoData \/ g = 0
  PROVE  acked' = acked
<1>1. acked \in Nat
  BY VersionIsNat DEF StoreInv, TypeOK
<1>2. CASE lock = NoTask /\ \A u \in Task : pc[u] # "lock"
  BY <1>1, <1>2 DEF HandleWrite, TakeData, Larger
<1>3. CASE ~(lock = NoTask /\ \A u \in Task : pc[u] # "lock")
  BY <1>3 DEF HandleWrite
<1> QED BY <1>2, <1>3

\* Every step of the store is a step of the register, or none.
LEMMA StepImplements ==
  ~MayRemove /\ StoreInv /\ StoreInv' /\ [Next]_vars => [Register!RNext]_(Register!rvars)
<1> SUFFICES ASSUME ~MayRemove, StoreInv, StoreInv', [Next]_vars
             PROVE  [Register!RNext]_(Register!rvars)
  OBVIOUS
<1>0. /\ value \in Nat /\ file \in Nat /\ acked \in Nat
      /\ loaded \in BOOLEAN /\ \A t \in Task : goal[t] \in Version /\ goal[t] \in Nat
      /\ \A t \in Task : buf[t] \in Nat
  BY VersionIsNat DEF StoreInv, TypeOK
<1>1. ASSUME NEW t \in Task, Thread(t)
      PROVE  [Register!RNext]_(Register!rvars)
  <2>1. CASE Serialize(t) \/ SerializeRaises(t) \/ WriteFails(t)
    <3>1. UNCHANGED <<loaded, value, file, acked>>
      BY <2>1 DEF Serialize, SerializeRaises, WriteFails, ownerVars, diskVars, ghostVars
    <3> QED BY <3>1, RegisterSteps DEF Newest
  <2>2. CASE Replace(t)
    <3>1. /\ file' = buf[t] /\ file <= buf[t] /\ buf[t] <= value /\ UNCHANGED <<loaded, value, acked>>
          /\ pc[t] = "replace"
      BY <2>2 DEF Replace, ownerVars, ghostVars, StoreInv, VersionsOrdered
    <3>2. ~loaded => value = file
      BY <3>1 DEF StoreInv, NothingBeforeLoad, Writing
    <3>3. Newest' = Newest /\ file' <= Newest
      BY <1>0, <3>1, <3>2 DEF Newest
    <3> QED BY <3>1, <3>3, RegisterSteps
  <2> QED BY <1>1, <2>1, <2>2 DEF Thread
<1>2. ASSUME NEW t \in Task, Resume(t)
      PROVE  [Register!RNext]_(Register!rvars)
  <2>1. CASE AcquireLock(t)
    <3>1. UNCHANGED <<loaded, value, file>>
      BY <2>1 DEF AcquireLock, ownerVars, diskVars
    <3>2. acked <= acked'
      BY <1>0, <2>1 DEF AcquireLock, TakeData, Larger
    <3>3. Newest' = Newest
      BY <3>1 DEF Newest
    <3> QED BY <3>1, <3>2, <3>3, RegisterSteps
  <2>2. CASE Written(t)
    <3>1. UNCHANGED <<value, file>> /\ loaded' = TRUE /\ pc[t] = "written"
      BY <2>2 DEF Written, diskVars
    <3>2. acked <= acked'
      BY <1>0, <2>2 DEF Written, Larger
    <3>3. ~loaded => value = file
      BY <3>1 DEF StoreInv, NothingBeforeLoad, Writing
    <3>4. Newest' = Newest
      BY <3>1, <3>3 DEF Newest
    <3> QED BY <3>1, <3>2, <3>4, RegisterSteps
  <2>3. CASE Read(t)
    <3>1. UNCHANGED <<file, acked>>
      BY <2>3 DEF Read, diskVars, ghostVars
    <3>2. Newest' = Newest
      BY <1>0, <2>3 DEF Read, Loads, ownerVars, diskVars, Newest
    <3> QED BY <3>1, <3>2, RegisterSteps
  <2>4. CASE Migrated(t)
    <3>1. pc[t] = "migrate" /\ ~loaded /\ buf[t] = file
      BY <2>4 DEF Migrated, StoreInv, NothingBeforeLoad
    <3>2. value' = file /\ file' = file
      BY <2>4, <3>1 DEF Migrated, diskVars
    <3>3. Data(buf[t]) # NoData
      BY DataTypes, <3>1 DEF StoreInv, TypeOK
    <3>4. acked' = acked
      BY <2>4, <3>3, HandleWriteAcks DEF Migrated, Save
    <3>5. Newest' = Newest
      BY <3>1, <3>2 DEF Newest
    <3> QED BY <3>2, <3>4, <3>5, RegisterSteps
  <2>5. CASE Unlinked(t)
    BY <2>5 DEF Unlinked, StoreInv, NothingBeforeLoad
  <2> QED BY <1>2, <2>1, <2>2, <2>3, <2>4, <2>5 DEF Resume
<1>3. ASSUME NEW t \in Task, AsyncSave(t)
      PROVE  [Register!RNext]_(Register!rvars)
  <2>1. /\ loaded /\ loaded' = loaded /\ value' = value + 1 /\ file' = file /\ value + 1 \in Version
        /\ Save(t, value + 1)
    BY <1>3, VersionAssumption DEF AsyncSave, diskVars, StoreInv, TypeOK, Version
  <2>2. acked' = acked
    BY <2>1, DataTypes, HandleWriteAcks DEF Save
  <2>3. Newest' = Newest + 1
    BY <2>1 DEF Newest
  <2> QED BY <2>1, <2>2, <2>3, RegisterSteps
<1>4. ASSUME NEW t \in Task, Load(t) \/ Remove(t)
      PROVE  [Register!RNext]_(Register!rvars)
  <2>1. UNCHANGED <<file, acked>>
    BY <1>4 DEF Load, Remove, diskVars, ghostVars
  <2>2. Newest' = Newest
    <3>1. CASE Remove(t)
      BY <3>1 DEF Remove, ownerVars, diskVars, Newest
    <3>2. CASE Load(t)
      <4>1. CASE UNCHANGED ownerVars
        BY <2>1, <4>1 DEF ownerVars, Newest
      <4>2. CASE ~UNCHANGED ownerVars
        <5>1. CASE ~invalidated /\ cache = "absent" /\ loaded' = TRUE /\ UNCHANGED value
          <6>1. file = 0
            BY <5>1 DEF StoreInv, CacheIsFile
          <6>2. loaded' = TRUE /\ value' = value /\ data = NoData
            BY <3>2, <4>2, <5>1, DataTypes DEF Load, Loads
          <6>3. ~loaded /\ value = 0
            BY <4>2, <6>1, <6>2, <1>0, DataTypes DEF ownerVars, StoreInv, NothingBeforeLoad
          <6> QED BY <2>1, <6>1, <6>2, <6>3 DEF Newest
        <5>2. CASE ~invalidated /\ cache = "data" /\ Loads(t, cacheVersion)
          <6>1. cacheVersion = file
            BY <5>2 DEF StoreInv, CacheIsFile
          <6> QED BY <1>0, <2>1, <4>2, <5>2, <6>1 DEF Loads, Newest
        <5> QED BY <3>2, <4>2, <5>1, <5>2 DEF Load
      <4> QED BY <4>1, <4>2
    <3> QED BY <1>4, <3>1, <3>2
  <2> QED BY <2>1, <2>2, RegisterSteps
<1>5. CASE DelaySave
  <2>1. /\ loaded /\ loaded' = loaded /\ value' \in {value, value + 1}
        /\ UNCHANGED <<file, acked>>
    BY <1>5 DEF DelaySave, diskVars
  <2>2. Newest' \in {Newest, Newest + 1}
    BY <2>1 DEF Newest
  <2> QED BY <2>1, <2>2, RegisterSteps
<1>6. CASE TimerFires
  <2>1. UNCHANGED <<loaded, value, file>>
    BY <1>6 DEF TimerFires, ownerVars, diskVars
  <2>2. acked' = acked
    BY <1>6, HandleWriteAcks DEF TimerFires
  <2> QED BY <2>1, <2>2, RegisterSteps DEF Newest
<1>7. CASE PreloadReads \/ PreloadKeeps \/ CacheCleanup \/ Stop \/ Close
  <2>1. UNCHANGED <<loaded, value, file, acked>>
    BY <1>7 DEF PreloadReads, PreloadKeeps, CacheCleanup, Stop, Close, ownerVars, diskVars, ghostVars
  <2> QED BY <2>1, RegisterSteps DEF Newest
<1>8. CASE FinalWrite
  <2>1. UNCHANGED <<loaded, value, file>>
    BY <1>8 DEF FinalWrite, ownerVars, diskVars
  <2>2. acked' = acked
    BY <1>8, HandleWriteAcks DEF FinalWrite
  <2> QED BY <2>1, <2>2, RegisterSteps DEF Newest
<1>9. CASE Restart
  <2>1. loaded' = FALSE /\ UNCHANGED <<file, acked>>
    BY <1>9 DEF Restart, diskVars
  <2> QED BY <2>1, RegisterSteps DEF Newest
<1>10. CASE UNCHANGED vars
  BY <1>10, RegisterSteps DEF vars, ownerVars, diskVars, ghostVars, Newest
<1> QED BY <1>1, <1>2, <1>3, <1>4, <1>5, <1>6, <1>7, <1>8, <1>9, <1>10 DEF Next

\* A store that nobody removes is a register that only moves forward and
\* keeps what it acknowledged across every crash.
THEOREM RemovelessImplements == ~MayRemove => (Spec => ImplementsRegister)
<1> SUFFICES ASSUME ~MayRemove PROVE Spec => ImplementsRegister
  OBVIOUS
<1>1. Init => Register!RInit
  BY VersionIsNat DEF Init, Register!RInit
<1>2. StoreInv /\ StoreInv' /\ [Next]_vars => [Register!RNext]_(Register!rvars)
  BY StepImplements
<1> QED BY <1>1, <1>2, StoreSafety, PTL DEF Spec, ImplementsRegister, Register!RSpec

-----------------------------------------------------------------------------
(* What is on disk when Home Assistant has stopped *)

\* No write fails, and nobody removes the file: the two ways in which data that
\* waits for the final write may be dropped.
NothingIsDropped == Faults = {} /\ ~MayRemove

\* The types that the steps below need.
LEMMA StoreTypes ==
  ASSUME StoreInv
  PROVE  /\ value \in Nat /\ file \in Nat /\ due \in Nat
         /\ \A t \in Task : buf[t] \in Nat
         /\ data \in Pending /\ lock \in Task \union {NoTask} /\ NoTask \notin Task
         /\ pc \in [Task -> PC] /\ buf \in [Task -> Version]
BY VersionIsNat, TaskAssumption DEF StoreInv, TypeOK

\* A step that leaves alone what waits, what is written and what is due.
LEMMA UnrelatedDue ==
  ASSUME DueCovered, UNCHANGED <<hass, loaded, value, data, handle, finalWrite, lock, buf,
                                 leftBehind, file, due>>,
         \A t \in Task : pc[t] \in {"lock", "job", "replace"} => pc'[t] = pc[t],
         lock \in Task \union {NoTask}
  PROVE  DueCovered'
BY DEF DueCovered

\* Who gets the lock and finds data carries all that is due.
LEMMA TakeDataDue ==
  ASSUME StoreInv, DueCovered, NEW t \in Task, NEW d \in Pending, NEW g, TakeData(t, d, g),
         lock = NoTask, UNCHANGED <<file, due>>, value' \in Version, due <= value',
         ~loaded' => due = 0,
         d = NoData => data = NoData, d = Func => value' = value,
         d.kind = "data" => d.version = value'
  PROVE  DueCovered'
<1> USE StoreTypes
<1>1. handle' = "none"
  BY DEF TakeData
<1>2. ASSUME file < due
      PROVE  lock' # NoTask /\ pc'[lock'] \in {"job", "replace"} /\ due <= buf'[lock']
  <2>1. data # NoData
    BY <1>2 DEF DueCovered
  <2>2. /\ pc' = [pc EXCEPT ![t] = "job"] /\ lock' = t
        /\ buf' = [buf EXCEPT ![t] = IF d = Func THEN value ELSE d.version]
    BY <2>1 DEF TakeData
  <2>3. buf'[t] = value'
    BY <2>1, <2>2, DataTypes
  <2> QED BY <2>2, <2>3
<1> QED BY <1>1, <1>2 DEF DueCovered

\* A write that is called takes the data, or the data waits with it: in the
\* final writes, with a task that the stop waits for.
LEMMA HandleWriteDue ==
  ASSUME StoreInv, DueCovered, NEW t \in Task, NEW d \in Pending, NEW g, NEW h, NEW w,
         HandleWrite(t, d, g, h, w), Idle(t),
         loaded, loaded' = loaded, UNCHANGED <<file, due>>, value' \in Version, value <= value',
         d = NoData => data = NoData, d = Func => value' = value,
         d.kind = "data" => d.version = value',
         \/ /\ UNCHANGED <<hass, leftBehind>>
            /\ w = finalWrite /\ (h # "none" => handle # "none")
         \/ /\ hass = "stopping" /\ hass' = "final_write"
            /\ t \notin leftBehind'
  PROVE  DueCovered'
<1> USE StoreTypes
<1>1. due <= value' /\ value' \in Nat
  BY VersionIsNat DEF DueCovered
<1>2. CASE lock = NoTask /\ \A u \in Task : pc[u] # "lock"
  <2>1. TakeData(t, d, g)
    BY <1>2 DEF HandleWrite
  <2> QED BY <1>1, <1>2, <2>1, TakeDataDue
<1>3. CASE ~(lock = NoTask /\ \A u \in Task : pc[u] # "lock")
  <2>1. /\ pc' = [pc EXCEPT ![t] = "lock"] /\ data' = d /\ handle' = h /\ finalWrite' = w
        /\ UNCHANGED <<lock, buf>>
    BY <1>3 DEF HandleWrite
  <2>2. \A u \in Task \ {t} : pc'[u] = pc[u]
    BY <2>1
  <2>3. hass' \in {"running", "stopping"} /\ handle' # "none" => finalWrite'
    BY <2>1 DEF DueCovered
  <2>4. ASSUME file < due
        PROVE  \/ lock' # NoTask /\ pc'[lock'] \in {"job", "replace"} /\ due <= buf'[lock']
               \/ hass' \in {"running", "stopping"} /\ data' # NoData /\ finalWrite'
               \/ /\ hass' = "final_write" /\ data' # NoData
                  /\ \E u \in Task \ leftBehind' : pc'[u] = "lock"
    <3>1. CASE lock # NoTask /\ pc[lock] \in {"job", "replace"} /\ due <= buf[lock]
      <4>1. lock # t
        BY <3>1 DEF Idle
      <4> QED BY <2>1, <2>2, <3>1, <4>1
    <3>2. CASE data # NoData /\ hass' = hass /\ hass \in {"running", "stopping"} /\ finalWrite
      BY <2>1, <3>2
    <3>3. CASE data # NoData /\ hass = "stopping" /\ hass' = "final_write"
      BY <2>1, <3>3
    <3>4. CASE /\ data # NoData /\ hass = "final_write"
               /\ \E u \in Task \ leftBehind : pc[u] = "lock"
      <4>1. hass' = "final_write" /\ leftBehind' = leftBehind
        BY <3>4
      <4>2. PICK u \in Task \ leftBehind : pc[u] = "lock"
        BY <3>4
      <4>3. u # t
        BY <4>2 DEF Idle
      <4> QED BY <2>1, <2>2, <3>4, <4>1, <4>2, <4>3
    <3> QED BY <2>4, <3>1, <3>2, <3>3, <3>4 DEF DueCovered
  <2> QED BY <1>1, <2>3, <2>4 DEF DueCovered
<1> QED BY <1>2, <1>3

\* The thread writes what it carries; while nothing fails that is all it does.
LEMMA ThreadDue ==
  ASSUME NothingIsDropped, StoreInv, DueCovered, NEW t \in Task, Thread(t)
  PROVE  DueCovered'
<1> USE StoreTypes
<1>1. Serialize(t) \/ Replace(t)
  BY DEF Thread, SerializeRaises, WriteFails, NothingIsDropped
<1>2. /\ UNCHANGED <<hass, loaded, value, data, handle, finalWrite, lock, leftBehind, due>>
      /\ \A u \in Task \ {t} : pc'[u] = pc[u] /\ buf'[u] = buf[u]
      /\ lock = t
  BY <1>1 DEF Serialize, Replace, ownerVars, memoryVars, ghostVars, StoreInv, LockHeld, Writing
<1>3. due <= value /\ \A u \in Task : pc[u] = "lock" => pc'[u] = "lock"
  BY <1>1, <1>2 DEF DueCovered, Serialize, Replace
<1>4. CASE Serialize(t)
  <2>1. pc'[t] = "replace" /\ file' = file /\ (buf'[t] = value \/ buf'[t] = buf[t])
    BY <1>4 DEF Serialize, diskVars
  <2> QED BY <1>2, <1>3, <2>1 DEF DueCovered
<1>5. CASE Replace(t)
  <2>1. file' = buf[t] /\ file <= buf[t]
    BY <1>5 DEF Replace, StoreInv, VersionsOrdered
  <2> QED BY <1>2, <1>3, <2>1 DEF DueCovered
<1> QED BY <1>1, <1>4, <1>5

\* A waiter takes what waits by then.
LEMMA AcquireLockDue ==
  ASSUME StoreInv, DueCovered, NEW t \in Task, AcquireLock(t)
  PROVE  DueCovered'
<1>1. /\ TakeData(t, data, goal[t]) /\ lock = NoTask
      /\ UNCHANGED <<file, due, value, loaded>>
  BY DEF AcquireLock, ownerVars, diskVars
<1>2. data \in Pending /\ value \in Version
  BY DEF StoreInv, TypeOK
<1>3. data.kind = "data" => data.version = value
  BY DEF StoreInv, VersionsOrdered
<1>4. due <= value /\ (~loaded => due = 0)
  BY DEF DueCovered
<1> QED BY <1>1, <1>2, <1>3, <1>4, TakeDataDue

\* A write that ended is on disk.
LEMMA WrittenDue ==
  ASSUME StoreInv, DueCovered, NEW t \in Task, Written(t)
  PROVE  DueCovered'
<1> USE StoreTypes
<1>1. /\ pc[t] = "written" /\ pc' = [pc EXCEPT ![t] = "idle"] /\ lock = t /\ lock' = NoTask
      /\ UNCHANGED <<hass, value, data, handle, finalWrite, leftBehind, file, due>>
      /\ loaded' = TRUE
  BY DEF Written, memoryVars, diskVars, StoreInv, LockHeld, Writing
<1>2. \A u \in Task : pc[u] = "lock" => pc'[u] = "lock"
  BY <1>1
<1> QED BY <1>1, <1>2 DEF DueCovered

\* A load that reads the file.
LEMMA ReadDue ==
  ASSUME StoreInv, DueCovered, NEW t \in Task, Read(t)
  PROVE  DueCovered'
<1> USE StoreTypes
<1>1. /\ pc[t] = "read" /\ \A u \in Task \ {t} : pc'[u] = pc[u] /\ buf'[u] = buf[u]
      /\ UNCHANGED <<hass, data, handle, finalWrite, lock, leftBehind, file, due>>
  BY DEF Read, Loads, memoryVars, diskVars, ghostVars
<1>2. /\ loaded => loaded' /\ value' = value
      /\ ~loaded => value' = value \/ value' = file
  BY DEF Read, Loads, ownerVars, StoreInv, TypeOK
<1>3. due <= value' /\ (~loaded' => due = 0)
  BY <1>2 DEF DueCovered
<1>4. lock # t \/ pc[lock] \notin {"job", "replace"}
  BY <1>1
<1> QED BY <1>1, <1>3, <1>4 DEF DueCovered

\* A file that is migrated is written as it was: nothing newer is due.
LEMMA MigratedDue ==
  ASSUME StoreInv, DueCovered, NEW t \in Task, Migrated(t)
  PROVE  DueCovered'
<1> USE StoreTypes
<1>1. pc[t] = "migrate" /\ ~loaded /\ buf[t] = file /\ handle = "none"
  BY DEF Migrated, StoreInv, NothingBeforeLoad
<1>2. value' = file /\ file' = file /\ hass' = hass /\ due = 0
  BY <1>1 DEF Migrated, diskVars, DueCovered
<1>3. handle' = "none" /\ due' \in {0, file} /\ (hass # "stopping" => due' = 0)
      /\ (hass = "stopping" => loaded')
  BY <1>1, <1>2 DEF Migrated, Save, HandleWrite, TakeData
<1> QED BY <1>2, <1>3 DEF DueCovered

\* A save: in a stop its data waits for the final write.
LEMMA AsyncSaveDue ==
  ASSUME StoreInv, DueCovered, NEW t \in Task, AsyncSave(t)
  PROVE  DueCovered'
<1> USE StoreTypes
<1>1. /\ Idle(t) /\ loaded /\ loaded' = loaded /\ value' = value + 1 /\ value' \in Version
      /\ Save(t, value') /\ UNCHANGED <<hass, leftBehind, file>> /\ value <= value'
  BY VersionAssumption DEF AsyncSave, diskVars, StoreInv, TypeOK, Version
<1>2. /\ Data(value') \in Pending /\ Data(value') # NoData /\ Data(value') # Func
      /\ Data(value').version = value'
  BY <1>1, DataTypes
<1>3. CASE hass = "stopping"
  BY <1>1, <1>2, <1>3 DEF Save, DueCovered
<1>4. CASE hass # "stopping"
  <2>1. HandleWrite(t, Data(value'), value', handle, finalWrite) /\ due' = due
    BY <1>1, <1>4 DEF Save
  <2> QED BY <1>1, <1>2, <2>1, HandleWriteDue
<1> QED BY <1>3, <1>4

\* A load may turn what waits into final data.
LEMMA LoadDue ==
  ASSUME StoreInv, DueCovered, NEW t \in Task, Load(t)
  PROVE  DueCovered'
<1> USE StoreTypes
<1>1. /\ pc[t] = "idle" /\ \A u \in Task \ {t} : pc'[u] = pc[u] /\ buf'[u] = buf[u]
      /\ UNCHANGED <<hass, handle, finalWrite, lock, leftBehind, file, due>>
  BY DEF Load, Loads, Idle, diskVars, ghostVars
<1>2. data # NoData => data' # NoData
  BY DataTypes DEF Load, StoreInv, TypeOK
<1>3. /\ loaded => loaded' /\ value' = value
      /\ due <= value /\ (~loaded => due = 0) /\ value' \in Nat
  <2>1. cacheVersion \in Nat /\ loaded \in BOOLEAN
    BY VersionIsNat DEF StoreInv, TypeOK
  <2> QED BY <2>1 DEF Load, Loads, ownerVars, DueCovered
<1>4. due <= value' /\ (~loaded' => due = 0)
  BY <1>3
<1> QED BY <1>1, <1>2, <1>4 DEF DueCovered

\* A delayed save: its timer never runs without the listener of the final write.
LEMMA DelaySaveDue ==
  ASSUME StoreInv, DueCovered, DelaySave
  PROVE  DueCovered'
<1> USE StoreTypes
<1>1. /\ loaded /\ loaded' = loaded /\ value' \in {value, value + 1} /\ data' = Func
      /\ Func # NoData /\ UNCHANGED <<hass, lock, pc, buf, leftBehind, file>> /\ hass # "stopped"
      /\ due' = IF hass = "final_write" THEN due ELSE value'
  BY DataTypes DEF DelaySave, taskVars, diskVars
<1>2. hass \in {"running", "stopping"} => finalWrite'
  BY DEF DelaySave, DueCovered
<1>3. hass \in {"running", "stopping", "final_write"}
  BY <1>1 DEF StoreInv, TypeOK
<1>4. due' <= value'
  BY <1>1 DEF DueCovered
<1>5. CASE hass = "final_write"
  BY <1>1, <1>4, <1>5 DEF DueCovered
<1>6. CASE hass # "final_write"
  BY <1>1, <1>2, <1>3, <1>4, <1>6 DEF DueCovered
<1> QED BY <1>5, <1>6

\* The timer fires.
LEMMA TimerFiresDue ==
  ASSUME StoreInv, DueCovered, TimerFires
  PROVE  DueCovered'
<1> USE StoreTypes
<1>1. handle = "armed" /\ UNCHANGED <<hass, loaded, value, file, due>> /\ loaded
  BY DEF TimerFires, ownerVars, diskVars, StoreInv, NothingBeforeLoad
<1>2. CASE UNCHANGED <<data, taskVars>> /\ (finalWrite' = finalWrite \/ finalWrite' = TRUE)
  BY <1>1, <1>2 DEF DueCovered, taskVars
<1>3. ASSUME NEW t \in Task, Idle(t), HandleWrite(t, data, 0, "fired", finalWrite),
             leftBehind' = leftBehind
      PROVE  DueCovered'
  <2>1. data.kind = "data" => data.version = value
    BY DEF StoreInv, VersionsOrdered
  <2>2. value \in Version
    BY DEF StoreInv, TypeOK
  <2> QED BY <1>1, <1>3, <2>1, <2>2, HandleWriteDue
<1> QED BY <1>2, <1>3 DEF TimerFires

\* The final writes begin: what waits gets a task that the stop waits for.
LEMMA FinalWriteDue ==
  ASSUME StoreInv, DueCovered, FinalWrite
  PROVE  DueCovered'
<1> USE StoreTypes
<1>1. hass = "stopping" /\ hass' = "final_write" /\ UNCHANGED <<loaded, value, file, due>>
  BY DEF FinalWrite, ownerVars, diskVars
<1>2. CASE finalWrite
  <2>1. PICK t \in Task : /\ Idle(t) /\ leftBehind' = leftBehind \ {t}
                          /\ HandleWrite(t, data, 0, handle, FALSE)
    BY <1>2 DEF FinalWrite
  <2>2. loaded /\ value \in Version
    BY <1>2 DEF StoreInv, NothingBeforeLoad, TypeOK
  <2>3. data.kind = "data" => data.version = value
    BY DEF StoreInv, VersionsOrdered
  <2>4. t \notin leftBehind' /\ value \in Nat /\ value <= value' /\ value' \in Version
    BY <1>1, <2>1, <2>2
  <2>5. data.kind = "data" => data.version = value'
    BY <1>1, <2>3
  <2> QED BY <1>1, <2>1, <2>2, <2>4, <2>5, HandleWriteDue
<1>3. CASE ~finalWrite
  BY <1>1, <1>3 DEF FinalWrite, DueCovered, taskVars
<1> QED BY <1>2, <1>3

\* What is still due when the loop is closed, a thread is writing.
LEMMA CloseDue ==
  ASSUME StoreInv, DueCovered, Close
  PROVE  DueCovered'
<1> USE StoreTypes
<1>1. /\ hass = "final_write" /\ hass' = "stopped"
      /\ \A t \in Task \ leftBehind : pc[t] = "idle"
      /\ \A t \in Task : pc[t] \in {"job", "replace"} => pc'[t] = pc[t]
      /\ UNCHANGED <<loaded, value, lock, buf, file, due>>
  BY DEF Close, BlockTillDone, Idle, ownerVars, diskVars, ghostVars
<1> QED BY <1>1 DEF DueCovered

\* Every step keeps it.
LEMMA DueNext == NothingIsDropped /\ StoreInv /\ DueCovered /\ [Next]_vars => DueCovered'
<1> SUFFICES ASSUME NothingIsDropped, StoreInv, DueCovered, [Next]_vars PROVE DueCovered'
  OBVIOUS
<1>1. ASSUME NEW t \in Task, Thread(t) \/ Resume(t) \/ AsyncSave(t) \/ Load(t) \/ Remove(t)
      PROVE  DueCovered'
  <2>1. CASE Resume(t)
    <3>1. ~Unlinked(t)
      BY DEF Unlinked, StoreInv, NothingBeforeLoad, NothingIsDropped
    <3> QED BY <2>1, <3>1, AcquireLockDue, WrittenDue, ReadDue, MigratedDue DEF Resume
  <2>2. ~Remove(t)
    BY DEF Remove, NothingIsDropped
  <2> QED BY <1>1, <2>1, <2>2, ThreadDue, AsyncSaveDue, LoadDue
<1>2. CASE PreloadReads \/ PreloadKeeps \/ CacheCleanup
  <2>1. UNCHANGED <<hass, ownerVars, memoryVars, taskVars, diskVars, ghostVars>>
    BY <1>2 DEF PreloadReads, PreloadKeeps, CacheCleanup
  <2> QED BY <2>1, UnrelatedDue, StoreTypes
            DEF ownerVars, memoryVars, taskVars, diskVars, ghostVars
<1>3. CASE Stop
  BY <1>3 DEF Stop, ownerVars, memoryVars, diskVars, ghostVars, DueCovered
<1>4. CASE Restart
  BY <1>4, StoreTypes DEF Restart, diskVars, DueCovered
<1>5. CASE UNCHANGED vars
  BY <1>5, UnrelatedDue, StoreTypes
     DEF vars, ownerVars, memoryVars, taskVars, diskVars, ghostVars
<1> QED BY <1>1, <1>2, <1>3, <1>4, <1>5, DelaySaveDue, TimerFiresDue, FinalWriteDue, CloseDue
        DEF Next

\* Whatever was left to a delayed or the final write before that began is on
\* disk once Home Assistant has stopped and its threads have ended, if no
\* write fails and nobody removes the file; calls that come while the final
\* writes run do not harm it.
THEOREM StopLosesNothing == NothingIsDropped => (Spec => []StopIsDurable)
<1> SUFFICES ASSUME NothingIsDropped PROVE Spec => []StopIsDurable
  OBVIOUS
<1>1. Init => DueCovered
  BY VersionIsNat DEF Init, DueCovered
<1>2. StoreInv /\ DueCovered /\ [Next]_vars => DueCovered'
  BY DueNext
<1>3. StoreInv /\ DueCovered => StopIsDurable
  BY StoreTypes DEF DueCovered, StopIsDurable, Idle
<1> QED BY <1>1, <1>2, <1>3, StoreSafety, PTL DEF Spec
-----------------------------------------------------------------------------
(* What is saved stays on its way to the disk *)

\* No write fails on disk, and nobody removes the file.  A data_func may raise.
DiskWorks == "disk" \notin Faults /\ ~MayRemove

\* A step that leaves alone what waits and what is written.
LEMMA UnrelatedAhead ==
  ASSUME WriteAhead, UNCHANGED <<hass, value, data, handle, lock, buf, file>>,
         \A t \in Task : pc[t] \in {"lock", "job", "replace"} => pc'[t] = pc[t],
         lock \in Task \union {NoTask}
  PROVE  WriteAhead'
BY DEF WriteAhead

\* Who gets the lock and finds data carries the newest version; who finds none
\* leaves nothing behind.
LEMMA TakeDataAhead ==
  ASSUME StoreInv, WriteAhead, NEW t \in Task, NEW d \in Pending, NEW g, TakeData(t, d, g),
         lock = NoTask, UNCHANGED <<hass, file>>, value' \in Version,
         d = NoData => data = NoData /\ value' = value, d = Func => value' = value,
         d.kind = "data" => d.version = value'
  PROVE  WriteAhead'
<1> USE StoreTypes
<1>1. handle' = "none" /\ data' = NoData
  BY DEF TakeData
<1>2. ASSUME hass = "running", file < value'
      PROVE  lock' # NoTask /\ pc'[lock'] \in {"job", "replace"} /\ buf'[lock'] = value'
  <2>1. d # NoData
    BY <1>2 DEF WriteAhead
  <2>2. /\ pc' = [pc EXCEPT ![t] = "job"] /\ lock' = t
        /\ buf' = [buf EXCEPT ![t] = IF d = Func THEN value ELSE d.version]
    BY <2>1 DEF TakeData
  <2>3. buf'[t] = value'
    BY <2>1, <2>2, DataTypes
  <2> QED BY <2>2, <2>3
<1> QED BY <1>1, <1>2 DEF WriteAhead

\* A write that is called takes the data, or waits for the lock beside it.
LEMMA HandleWriteAhead ==
  ASSUME StoreInv, WriteAhead, NEW t \in Task, NEW d \in Pending, NEW g, NEW h, NEW w,
         HandleWrite(t, d, g, h, w), Idle(t), UNCHANGED <<hass, file>>, value' \in Version,
         d = NoData => data = NoData /\ value' = value, d = Func => value' = value,
         d.kind = "data" => d.version = value'
  PROVE  WriteAhead'
<1> USE StoreTypes
<1>1. CASE lock = NoTask /\ \A u \in Task : pc[u] # "lock"
  BY <1>1, TakeDataAhead DEF HandleWrite
<1>2. CASE ~(lock = NoTask /\ \A u \in Task : pc[u] # "lock")
  <2>1. pc' = [pc EXCEPT ![t] = "lock"] /\ data' = d /\ UNCHANGED <<lock, buf>>
    BY <1>2 DEF HandleWrite
  <2>2. ASSUME hass = "running", file < value', d = NoData
        PROVE  lock' # NoTask /\ pc'[lock'] \in {"job", "replace"} /\ buf'[lock'] = value'
    <3>1. lock # NoTask /\ pc[lock] \in {"job", "replace"} /\ buf[lock] = value
      BY <2>2 DEF WriteAhead
    <3>2. lock # t
      BY <3>1 DEF Idle
    <3> QED BY <2>1, <2>2, <3>1, <3>2
  <2> QED BY <2>1, <2>2 DEF WriteAhead
<1> QED BY <1>1, <1>2

\* The thread: a data_func raises only if newer data waits already.
LEMMA ThreadAhead ==
  ASSUME DiskWorks, StoreInv, WriteAhead, NEW t \in Task, Thread(t)
  PROVE  WriteAhead'
<1> USE StoreTypes
<1>1. Serialize(t) \/ SerializeRaises(t) \/ Replace(t)
  BY DEF Thread, WriteFails, DiskWorks
<1>2. /\ UNCHANGED <<hass, value, data, handle, lock>>
      /\ \A u \in Task \ {t} : pc'[u] = pc[u] /\ buf'[u] = buf[u]
      /\ pc[t] \in {"job", "replace"} /\ lock = t
  BY <1>1 DEF Serialize, SerializeRaises, Replace, ownerVars, memoryVars, StoreInv, LockHeld, Writing
<1>3. \A u \in Task : pc[u] = "lock" => pc'[u] = "lock"
  BY <1>2
<1>4. buf[t] = value \/ data # NoData
  BY <1>2 DEF StoreInv, VersionsOrdered
<1>5. CASE Serialize(t)
  <2>1. pc'[t] = "replace" /\ file' = file /\ (buf'[t] = value \/ buf'[t] = buf[t])
    BY <1>5 DEF Serialize, diskVars
  <2> QED BY <1>2, <1>3, <1>4, <2>1 DEF WriteAhead
<1>6. CASE SerializeRaises(t)
  <2>1. file' = file /\ data # NoData
    BY <1>4, <1>6 DEF SerializeRaises, diskVars
  <2> QED BY <1>2, <1>3, <2>1 DEF WriteAhead
<1>7. CASE Replace(t)
  <2>1. file' = buf[t]
    BY <1>7 DEF Replace
  <2> QED BY <1>2, <1>3, <1>4, <2>1 DEF WriteAhead
<1> QED BY <1>1, <1>5, <1>6, <1>7

\* A task of a save or a load resumes.
LEMMA ResumeAhead ==
  ASSUME DiskWorks, StoreInv, WriteAhead, NEW t \in Task, Resume(t)
  PROVE  WriteAhead'
<1> USE StoreTypes
<1>1. CASE AcquireLock(t)
  <2>1. TakeData(t, data, goal[t]) /\ lock = NoTask /\ UNCHANGED <<hass, file, value>>
    BY <1>1 DEF AcquireLock, ownerVars, diskVars
  <2>2. value \in Version /\ (data.kind = "data" => data.version = value)
    BY DEF StoreInv, TypeOK, VersionsOrdered
  <2> QED BY <2>1, <2>2, TakeDataAhead
<1>2. CASE Written(t)
  <2>1. /\ pc[t] = "written" /\ pc' = [pc EXCEPT ![t] = "idle"] /\ lock = t /\ lock' = NoTask
        /\ UNCHANGED <<hass, value, data, handle, file>>
    BY <1>2 DEF Written, memoryVars, diskVars, StoreInv, LockHeld, Writing
  <2>2. \A u \in Task : pc[u] = "lock" => pc'[u] = "lock"
    BY <2>1
  <2> QED BY <2>1, <2>2 DEF WriteAhead
<1>3. CASE Read(t)
  <2>1. /\ pc[t] = "read" /\ \A u \in Task \ {t} : pc'[u] = pc[u] /\ buf'[u] = buf[u]
        /\ UNCHANGED <<hass, data, handle, lock, file>>
    BY <1>3 DEF Read, Loads, memoryVars, diskVars
  <2>2. value' = value \/ value' = file
    BY <1>3 DEF Read, Loads, ownerVars
  <2>3. lock # t \/ pc[lock] \notin {"job", "replace"}
    BY <2>1
  <2> QED BY <2>1, <2>2, <2>3 DEF WriteAhead
<1>4. CASE Migrated(t)
  <2>1. pc[t] = "migrate" /\ ~loaded /\ buf[t] = file
    BY <1>4 DEF Migrated, StoreInv, NothingBeforeLoad
  <2>2. value' = file /\ file' = file /\ hass' = hass
    BY <1>4, <2>1 DEF Migrated, diskVars
  <2>3. hass = "running" => HandleWrite(t, Data(buf[t]), buf[t], handle, finalWrite)
    BY <1>4 DEF Migrated, Save
  <2>4. hass = "running" => (data' = NoData /\ handle' = "none") \/ pc'[t] = "lock"
    BY <2>3 DEF HandleWrite, TakeData
  <2> QED BY <2>2, <2>4 DEF WriteAhead
<1>5. ~Unlinked(t)
  BY DEF Unlinked, StoreInv, NothingBeforeLoad, DiskWorks
<1> QED BY <1>1, <1>2, <1>3, <1>4, <1>5 DEF Resume

\* A save in a task, and a load, which may turn what waits into final data.
LEMMA CallAhead ==
  ASSUME StoreInv, WriteAhead, NEW t \in Task, AsyncSave(t) \/ Load(t)
  PROVE  WriteAhead'
<1> USE StoreTypes
<1>1. CASE AsyncSave(t)
  <2>1. /\ Idle(t) /\ value' = value + 1 /\ value' \in Version /\ Save(t, value')
        /\ UNCHANGED <<hass, file>>
    BY <1>1, VersionAssumption DEF AsyncSave, diskVars, StoreInv, TypeOK, Version
  <2>2. /\ Data(value') \in Pending /\ Data(value') # NoData /\ Data(value') # Func
        /\ Data(value').version = value'
    BY <2>1, DataTypes
  <2>3. CASE hass = "running"
    <3>1. HandleWrite(t, Data(value'), value', handle, finalWrite)
      BY <2>1, <2>3 DEF Save
    <3> QED BY <2>1, <2>2, <3>1, HandleWriteAhead
  <2> QED BY <2>1, <2>3 DEF WriteAhead
<1>2. CASE Load(t)
  <2>1. /\ pc[t] = "idle" /\ \A u \in Task \ {t} : pc'[u] = pc[u] /\ buf'[u] = buf[u]
        /\ UNCHANGED <<hass, handle, lock, file>>
    BY <1>2 DEF Load, Loads, Idle, diskVars
  <2>2. data # NoData <=> data' # NoData
    <3>1. Data(value) # NoData
      BY DEF Data, NoData
    <3> QED BY <1>2, <3>1 DEF Load
  <2>3. cache = "data" /\ ~invalidated => cacheVersion = file
    BY DEF StoreInv, CacheIsFile
  <2>4. value' = value \/ value' = file
    BY <1>2, <2>3 DEF Load, Loads, ownerVars
  <2>5. lock # t \/ pc[lock] \notin {"job", "replace"}
    BY <2>1
  <2> QED BY <2>1, <2>2, <2>4, <2>5 DEF WriteAhead
<1> QED BY <1>1, <1>2

\* A delayed save arms the timer, or finds that it runs or that its task waits.
LEMMA DelaySaveAhead ==
  ASSUME StoreInv, WriteAhead, DelaySave
  PROVE  WriteAhead'
<1> USE StoreTypes
<1>1. data' = Func /\ Func # NoData /\ UNCHANGED <<hass, pc, file>>
  BY DataTypes DEF DelaySave, taskVars, diskVars
<1>2. handle \in {"none", "armed", "fired"}
  BY DEF StoreInv, TypeOK
<1>3. hass = "running" => handle' = "armed" \/ (handle = "fired" /\ handle' = handle)
  BY <1>2 DEF DelaySave
<1> QED BY <1>1, <1>3 DEF WriteAhead

\* The timer fires: it is armed again, or a task takes the data or waits with it.
LEMMA TimerFiresAhead ==
  ASSUME StoreInv, WriteAhead, TimerFires
  PROVE  WriteAhead'
<1> USE StoreTypes
<1>1. UNCHANGED <<hass, value, file>>
  BY DEF TimerFires, ownerVars, diskVars
<1>2. CASE UNCHANGED <<data, handle, taskVars>> \/ hass # "running"
  BY <1>1, <1>2 DEF WriteAhead, taskVars
<1>3. ASSUME NEW t \in Task, Idle(t), HandleWrite(t, data, 0, "fired", finalWrite)
      PROVE  WriteAhead'
  <2>1. value \in Version /\ (data.kind = "data" => data.version = value)
    BY DEF StoreInv, TypeOK, VersionsOrdered
  <2> QED BY <1>1, <1>3, <2>1, HandleWriteAhead
<1> QED BY <1>2, <1>3 DEF TimerFires

\* Every step keeps it.
LEMMA AheadNext == DiskWorks /\ StoreInv /\ WriteAhead /\ [Next]_vars => WriteAhead'
<1> SUFFICES ASSUME DiskWorks, StoreInv, WriteAhead, [Next]_vars PROVE WriteAhead'
  OBVIOUS
<1>1. ASSUME NEW t \in Task, Thread(t) \/ Resume(t) \/ AsyncSave(t) \/ Load(t) \/ Remove(t)
      PROVE  WriteAhead'
  <2>1. ~Remove(t)
    BY DEF Remove, DiskWorks
  <2> QED BY <1>1, <2>1, ThreadAhead, ResumeAhead, CallAhead
<1>2. CASE PreloadReads \/ PreloadKeeps \/ CacheCleanup \/ UNCHANGED vars
  <2>1. UNCHANGED <<hass, ownerVars, memoryVars, taskVars, diskVars>>
    BY <1>2 DEF PreloadReads, PreloadKeeps, CacheCleanup, vars
  <2> QED BY <2>1, UnrelatedAhead, StoreTypes DEF ownerVars, memoryVars, taskVars, diskVars
<1>3. CASE Stop \/ FinalWrite \/ Close
  BY <1>3 DEF Stop, FinalWrite, Close, WriteAhead
<1>4. CASE Restart
  BY <1>4, StoreTypes DEF Restart, diskVars, WriteAhead
<1> QED BY <1>1, <1>2, <1>3, <1>4, DelaySaveAhead, TimerFiresAhead DEF Next

\* While Home Assistant runs, whatever was saved and is not on disk is being
\* written or has a timer or a task that will write it, however calls, timers,
\* writes and migrations overlap and whatever a data_func does.
THEOREM WritesAreAhead == DiskWorks => (Spec => []WriteAhead)
<1> SUFFICES ASSUME DiskWorks PROVE Spec => []WriteAhead
  OBVIOUS
<1>1. Init => WriteAhead
  BY VersionIsNat DEF Init, WriteAhead
<1>2. StoreInv /\ WriteAhead /\ [Next]_vars => WriteAhead'
  BY AheadNext
<1> QED BY <1>1, <1>2, StoreSafety, PTL DEF Spec
=============================================================================
