---------------------------- MODULE PidLockProofs ----------------------------
(***************************************************************************)
(* Proofs about the lock file, for any number of instances and of stop     *)
(* commands, whichever way instances end.                                  *)
(***************************************************************************)
EXTENDS PidLock, TLAPS

LockType ==
    /\ path \in Inodes \cup {None}
    /\ lock \in [Inodes -> Instances \cup {None}]
    /\ pid \in [Inodes -> Instances \cup {None}]
    /\ pc \in [Instances -> {"start", "opened", "locked", "truncated", "running",
                             "closed", "unlinked", "ended", "has been running"}]
    /\ fd \in [Instances -> Inodes \cup {None}]

(* Who is past the open has a file; who is past the lock has that file's.  *)
HoldersLock ==
    \A p \in Instances :
        /\ pc[p] = "opened" => fd[p] # None
        /\ p \in Holders => fd[p] # None /\ lock[fd[p]] = p

(* A lock is held, and by one that has the file open.                      *)
LocksAreHeld ==
    \A i \in Inodes : lock[i] # None => lock[i] \in Holders /\ fd[lock[i]] = i

(* Until the name is given up, all that are open are the file of that name.*)
OneFile == NeverDestroyed => \A p \in Instances : fd[p] # None => fd[p] = path

(* The file of an instance that runs has its pid.                          *)
PidIsWritten == \A p \in Instances : pc[p] = "running" => pid[fd[p]] = p

LockInv == LockType /\ HoldersLock /\ LocksAreHeld /\ OneFile /\ PidIsWritten

LEMMA LockInvInit == LockInit => LockInv
  BY ExitAssumption DEF LockInit, LockInv, LockType, HoldersLock, LocksAreHeld, OneFile,
     PidIsWritten, Holders, Inodes

(* Who is past the lock has a file of its own and that file's lock.        *)
LEMMA HolderHasItsFile ==
  ASSUME LockInv, NEW p \in Instances, pc[p] \in {"locked", "truncated", "running"}
  PROVE  /\ fd[p] \in Inodes
         /\ lock[fd[p]] = p
         /\ \A q \in Instances : pc[q] \in {"locked", "truncated", "running"} /\ q # p => fd[q] # fd[p]
  <1>1. \A q \in Instances : pc[q] \in {"locked", "truncated", "running"} =>
           fd[q] \in Inodes /\ lock[fd[q]] = q
    BY DEF LockInv, LockType, HoldersLock, Holders
  <1> QED BY <1>1

LEMMA LockInvStep == LockInv /\ [LockNext]_lockVars => LockInv'
  <1> SUFFICES ASSUME LockInv, [LockNext]_lockVars PROVE LockInv'
    OBVIOUS
  <1> USE ExitAssumption DEF LockInv, Inodes
  <1>1. ASSUME NEW p \in Instances, OpenLockFile(p) PROVE LockInv'
    <2> USE <1>1 DEF OpenLockFile
    <2>1. LockType'
      BY DEF LockType
    <2>2. Holders' = Holders
      BY DEF Holders, LockType
    <2>3. HoldersLock'
      BY <2>2 DEF HoldersLock, LockType, Holders
    <2>4. LocksAreHeld'
      BY <2>2 DEF LocksAreHeld, LockType, Holders
    <2>5. OneFile'
      BY DEF OneFile, NeverDestroyed, LockType
    <2>6. PidIsWritten'
      BY DEF PidIsWritten, LockType
    <2> QED BY <2>1, <2>3, <2>4, <2>5, <2>6
  <1>2. ASSUME NEW p \in Instances, Lock(p) PROVE LockInv'
    <2> USE <1>2 DEF Lock
    <2>0. fd[p] \in Inodes
      BY DEF LockType, HoldersLock
    <2>1. CASE lock[fd[p]] = None
      <3> USE <2>0, <2>1
      <3>1. /\ lock' = [lock EXCEPT ![fd[p]] = p]
            /\ pc' = [pc EXCEPT ![p] = "locked"]
            /\ UNCHANGED <<fd, path, pid, stop>>
        OBVIOUS
      <3>2. Holders' = Holders \cup {p}
        <4>1. pc'[p] = "locked" /\ \A q \in Instances : q # p => pc'[q] = pc[q]
          BY <3>1 DEF LockType
        <4> QED BY <4>1 DEF Holders
      <3>3. LockType'
        BY <3>1 DEF LockType
      <3>4. HoldersLock'
        <4>1. ASSUME NEW q \in Instances, q \in Holders'
              PROVE  fd[q] # None /\ lock'[fd[q]] = q
          <5>1. CASE q = p
            BY <3>1, <5>1 DEF LockType
          <5>2. CASE q # p
            <6>1. fd[q] \in Inodes /\ lock[fd[q]] = q
              BY <4>1, <5>2, <3>2 DEF HoldersLock, LockType
            <6> QED BY <6>1, <3>1 DEF LockType
          <5> QED BY <5>1, <5>2
        <4>2. ASSUME NEW q \in Instances, pc'[q] = "opened" PROVE fd[q] # None
          BY <4>2, <3>1 DEF HoldersLock, LockType
        <4> QED BY <4>1, <4>2, <3>1 DEF HoldersLock
      <3>5. LocksAreHeld'
        <4> SUFFICES ASSUME NEW i \in Inodes, lock'[i] # None
                     PROVE  lock'[i] \in Holders \cup {p} /\ fd[lock'[i]] = i
          BY <3>1, <3>2 DEF LocksAreHeld
        <4>1. CASE i = fd[p]
          BY <4>1, <3>1 DEF LockType
        <4>2. CASE i # fd[p]
          <5>1. lock'[i] = lock[i]
            BY <4>2, <3>1 DEF LockType
          <5> QED BY <5>1 DEF LocksAreHeld
        <4> QED BY <4>1, <4>2
      <3>6. OneFile'
        BY <3>1 DEF OneFile, NeverDestroyed, LockType
      <3>7. PidIsWritten'
        BY <3>1 DEF PidIsWritten, LockType
      <3> QED BY <3>3, <3>4, <3>5, <3>6, <3>7
    <2>2. CASE lock[fd[p]] # None
      <3> USE <2>0, <2>2
      <3>1. /\ pc' = [pc EXCEPT ![p] = "has been running"]
            /\ fd' = [fd EXCEPT ![p] = None]
            /\ UNCHANGED <<lock, path, pid, stop>>
        OBVIOUS
      <3>2. Holders' = Holders /\ p \notin Holders
        BY <3>1 DEF Holders, LockType
      <3>3. LockType'
        BY <3>1 DEF LockType
      <3>4. HoldersLock'
        BY <3>1, <3>2 DEF HoldersLock, LockType
      <3>5. LocksAreHeld'
        <4> SUFFICES ASSUME NEW i \in Inodes, lock[i] # None
                     PROVE  lock[i] \in Holders /\ fd'[lock[i]] = i
          BY <3>1, <3>2 DEF LocksAreHeld
        <4>1. lock[i] \in Holders /\ fd[lock[i]] = i /\ lock[i] # p
          BY <3>2 DEF LocksAreHeld
        <4>2. lock[i] \in Instances
          BY <4>1 DEF Holders
        <4> QED BY <4>1, <4>2, <3>1 DEF LockType
      <3>6. OneFile'
        BY <3>1 DEF OneFile, NeverDestroyed, LockType
      <3>7. PidIsWritten'
        BY <3>1 DEF PidIsWritten, LockType
      <3> QED BY <3>3, <3>4, <3>5, <3>6, <3>7
    <2> QED BY <2>1, <2>2
  <1>3. ASSUME NEW p \in Instances, Truncate(p) PROVE LockInv'
    <2> USE <1>3 DEF Truncate
    <2>0. /\ fd[p] \in Inodes
          /\ \A q \in Instances : pc[q] = "running" /\ q # p => fd[q] # fd[p]
      BY HolderHasItsFile
    <2>1. Holders' = Holders
      BY DEF Holders, LockType
    <2>2. LockType'
      BY <2>0 DEF LockType
    <2>3. HoldersLock'
      BY <2>1 DEF HoldersLock, LockType
    <2>4. LocksAreHeld'
      BY <2>1 DEF LocksAreHeld
    <2>5. OneFile'
      BY DEF OneFile, NeverDestroyed, LockType
    <2>6. PidIsWritten'
      <3> SUFFICES ASSUME NEW q \in Instances, pc'[q] = "running"
                   PROVE  pid'[fd[q]] = q
        BY DEF PidIsWritten
      <3>2. q # p /\ pc[q] = "running" /\ fd[q] \in Inodes /\ fd[q] # fd[p]
        BY HolderHasItsFile DEF LockType
      <3> QED BY <3>2, <2>0 DEF PidIsWritten, LockType
    <2> QED BY <2>2, <2>3, <2>4, <2>5, <2>6
  <1>4. ASSUME NEW p \in Instances, WritePid(p) PROVE LockInv'
    <2> USE <1>4 DEF WritePid
    <2>0. /\ fd[p] \in Inodes
          /\ \A q \in Instances : pc[q] = "running" /\ q # p => fd[q] # fd[p]
      BY HolderHasItsFile
    <2>1. Holders' = Holders
      BY DEF Holders, LockType
    <2>2. LockType'
      BY <2>0 DEF LockType
    <2>3. HoldersLock'
      BY <2>1 DEF HoldersLock, LockType
    <2>4. LocksAreHeld'
      BY <2>1 DEF LocksAreHeld
    <2>5. OneFile'
      BY DEF OneFile, NeverDestroyed, LockType
    <2>6. PidIsWritten'
      <3> SUFFICES ASSUME NEW q \in Instances, pc'[q] = "running"
                   PROVE  pid'[fd[q]] = q
        BY DEF PidIsWritten
      <3>1. CASE q = p
        BY <3>1, <2>0 DEF LockType
      <3>2. CASE q # p
        <4>1. pc[q] = "running" /\ fd[q] \in Inodes /\ fd[q] # fd[p]
          BY <3>2, HolderHasItsFile DEF LockType
        <4> QED BY <4>1, <2>0 DEF PidIsWritten, LockType
      <3> QED BY <3>1, <3>2
    <2> QED BY <2>2, <2>3, <2>4, <2>5, <2>6
  <1>5. ASSUME NEW p \in Instances, CloseLockFile(p) PROVE LockInv'
    <2> USE <1>5 DEF CloseLockFile, Unlocked
    <2>1. LockType'
      BY DEF LockType
    <2>0. fd[p] \in Inodes /\ \A q \in Holders : q # p => fd[q] # fd[p] /\ fd[q] \in Inodes
      BY HolderHasItsFile DEF Holders
    <2>6. Holders' = Holders \ {p}
      BY DEF Holders, LockType
    <2>2. HoldersLock'
      <3>1. ASSUME NEW q \in Instances, q \in Holders'
            PROVE  fd'[q] # None /\ lock'[fd'[q]] = q
        <4>1. q \in Holders /\ q # p
          BY <3>1, <2>6
        <4>2. fd[q] \in Inodes /\ fd[q] # fd[p] /\ fd[q] # None /\ lock[fd[q]] = q
          BY <4>1, <2>0 DEF HoldersLock
        <4>3. fd'[q] = fd[q]
          BY <4>1 DEF LockType
        <4>4. lock'[fd[q]] = lock[fd[q]]
          BY <4>2 DEF LockType
        <4> QED BY <4>2, <4>3, <4>4
      <3>2. ASSUME NEW q \in Instances, pc'[q] = "opened" PROVE fd'[q] # None
        <4>1. q # p /\ pc[q] = "opened" /\ fd'[q] = fd[q]
          BY <3>2 DEF LockType
        <4> QED BY <4>1 DEF HoldersLock
      <3> QED BY <3>1, <3>2 DEF HoldersLock
    <2>3. LocksAreHeld'
      <3> SUFFICES ASSUME NEW i \in Inodes, lock'[i] # None
                   PROVE  lock'[i] \in Holders' /\ fd'[lock'[i]] = i
        BY DEF LocksAreHeld
      <3>1. i # fd[p] /\ lock'[i] = lock[i]
        BY <2>0 DEF LockType
      <3>2. lock[i] \in Holders /\ fd[lock[i]] = i
        BY <3>1 DEF LocksAreHeld
      <3>3. lock[i] # p /\ fd'[lock[i]] = fd[lock[i]]
        BY <3>1, <3>2 DEF LockType, Holders
      <3> QED BY <2>6, <3>1, <3>2, <3>3
    <2>4. OneFile'
      BY DEF OneFile, NeverDestroyed, LockType
    <2>5. PidIsWritten'
      BY DEF PidIsWritten, LockType
    <2> QED BY <2>1, <2>2, <2>3, <2>4, <2>5
  <1>6. ASSUME NEW p \in Instances, UnlinkLockFile(p) PROVE LockInv'
    <2> USE <1>6 DEF UnlinkLockFile
    <2>1. Holders' = Holders
      BY DEF Holders, LockType
    <2>2. OneFile'
      BY DEF OneFile, NeverDestroyed, LockType
    <2>3. PidIsWritten'
      BY DEF PidIsWritten, LockType
    <2>4. LockType'
      BY DEF LockType
    <2>5. HoldersLock'
      BY <2>1 DEF HoldersLock, LockType
    <2>6. LocksAreHeld'
      BY <2>1 DEF LocksAreHeld
    <2> QED BY <2>2, <2>3, <2>4, <2>5, <2>6
  <1>7. ASSUME NEW p \in Instances, Crash(p) PROVE LockInv'
    <2> USE <1>7 DEF Crash, Unlocked
    <2>0. fd[p] \in Inodes
      <3>1. CASE p \in Holders
        BY <3>1, HolderHasItsFile DEF Holders
      <3>2. CASE p \notin Holders
        BY <3>2 DEF HoldersLock, LockType, Holders
      <3> QED BY <3>1, <3>2
    <2>1. LockType'
      BY <2>0 DEF LockType
    <2>2. Holders' = Holders \ {p}
      BY DEF Holders, LockType
    <2>3. \A i \in Inodes : lock[i] # p => lock'[i] = lock[i]
      BY <2>0 DEF LockType
    <2>4. HoldersLock'
      <3>1. ASSUME NEW q \in Instances, q \in Holders'
            PROVE  fd'[q] # None /\ lock'[fd'[q]] = q
        <4>1. q # p /\ fd[q] \in Inodes /\ lock[fd[q]] = q
          BY <3>1, <2>2 DEF HoldersLock, LockType
        <4>2. fd'[q] = fd[q]
          BY <4>1 DEF LockType
        <4> QED BY <4>1, <4>2, <2>3, ExitAssumption
      <3>2. ASSUME NEW q \in Instances, pc'[q] = "opened" PROVE fd'[q] # None
        BY <3>2 DEF HoldersLock, LockType
      <3> QED BY <3>1, <3>2 DEF HoldersLock
    <2>5. \A i \in Inodes : lock'[i] # None => lock'[i] = lock[i] /\ lock[i] # p
      <3> SUFFICES ASSUME NEW i \in Inodes, lock'[i] # None
                   PROVE  lock'[i] = lock[i] /\ lock[i] # p
        OBVIOUS
      <3>1. lock'[i] = lock[i]
        BY <2>0 DEF LockType
      <3>2. CASE lock[i] = p
        <4>1. fd[p] = i
          BY <3>1, <3>2 DEF LocksAreHeld
        <4> QED BY <3>2, <4>1 DEF LockType
      <3> QED BY <3>1, <3>2
    <2>6. LocksAreHeld'
      <3> SUFFICES ASSUME NEW i \in Inodes, lock'[i] # None
                   PROVE  lock'[i] \in Holders' /\ fd'[lock'[i]] = i
        BY DEF LocksAreHeld
      <3>1. lock'[i] = lock[i] /\ lock[i] # p /\ lock[i] \in Holders /\ fd[lock[i]] = i
        BY <2>5 DEF LocksAreHeld
      <3>2. fd'[lock[i]] = fd[lock[i]]
        BY <3>1 DEF LockType, Holders
      <3> QED BY <2>2, <3>1, <3>2
    <2>7. OneFile'
      BY DEF OneFile, NeverDestroyed, LockType
    <2>8. PidIsWritten'
      BY DEF PidIsWritten, LockType
    <2> QED BY <2>1, <2>4, <2>6, <2>7, <2>8
  <1>8. CASE (\E s \in Stoppers : ReadPidFile(s)) \/ UNCHANGED lockVars
    <2>1. UNCHANGED <<path, lock, pid, pc, fd>>
      BY <1>8 DEF ReadPidFile, lockVars
    <2>2. Holders' = Holders
      BY <2>1 DEF Holders
    <2>3. OneFile'
      BY <2>1 DEF OneFile, NeverDestroyed
    <2> QED BY <2>1, <2>2, <2>3 DEF LockType, HoldersLock, LocksAreHeld, PidIsWritten
  <1> QED BY <1>1, <1>2, <1>3, <1>4, <1>5, <1>6, <1>7, <1>8 DEF LockNext

LEMMA LockInvAlways == LockSpec => []LockInv
  BY LockInvInit, LockInvStep, PTL DEF LockSpec

(***************************************************************************)
(* Until the lock file is first given up by an instance that ends cleanly, *)
(* one instance at most is past CreateLockFile(), and one that runs is     *)
(* found by the stop command: for any number of instances and of crashes.  *)
(***************************************************************************)
THEOREM LockHolds == LockSpec => []LockFileHolds
  <1>1. LockInv => OneInstanceWhileKept
    <2> SUFFICES ASSUME LockInv, NeverDestroyed, NEW p \in Holders, NEW q \in Holders
                 PROVE  p = q
      BY DEF OneInstanceWhileKept, OneInstance
    <2>1. fd[p] = path /\ fd[q] = path
      BY DEF LockInv, HoldersLock, OneFile, Holders
    <2> QED BY <2>1 DEF LockInv, HoldersLock, Holders
  <1>2. LockInv => RunningIsFindable
    BY ExitAssumption DEF LockInv, LockType, HoldersLock, OneFile, PidIsWritten, RunningIsFindable, Holders
  <1> QED BY <1>1, <1>2, LockInvAlways, PTL DEF LockFileHolds

(***************************************************************************)
(* CreateLockFile() refuses only while another instance is past it, however*)
(* many ended before, cleanly or not.                                      *)
(***************************************************************************)
THEOREM RefusalsHaveReason == LockSpec => RefusedForAReason
  <1>1. ASSUME LockInv, [LockNext]_lockVars
        PROVE  [\A p \in Instances :
                  pc[p] = "opened" /\ pc'[p] = "has been running" =>
                      \E q \in Holders : q # p]_lockVars
    <2> SUFFICES ASSUME NEW p \in Instances, pc[p] = "opened", pc'[p] = "has been running"
                 PROVE  \E q \in Holders : q # p
      OBVIOUS
    <2>1. Lock(p)
      BY <1>1 DEF LockNext, lockVars, LockInv, LockType, OpenLockFile, Lock, Truncate, WritePid,
         CloseLockFile, UnlinkLockFile, Crash, ReadPidFile
    <2>2. lock[fd[p]] # None
      BY <1>1, <2>1 DEF Lock, LockInv, LockType
    <2>3. fd[p] \in Inodes
      BY <1>1 DEF LockInv, LockType, HoldersLock
    <2> QED BY <1>1, <2>2, <2>3 DEF LockInv, LocksAreHeld, Holders
  <1> QED BY <1>1, LockInvAlways, PTL DEF LockSpec, RefusedForAReason

=============================================================================
