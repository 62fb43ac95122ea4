------------------------------- MODULE PidLock -------------------------------
(***************************************************************************)
(* The lock file that keeps launch_manager to one instance:                *)
(* CreateLockFile, DestroyLockFile and ReadPidFile of                      *)
(* system/launch_manager/main.cpp, one system call a step.  The lock is an *)
(* fcntl() lock on the file's inode; the name leads to an inode until it   *)
(* is unlinked, and a process may hold an inode that no name leads to.     *)
(***************************************************************************)
EXTENDS Naturals

CONSTANTS
    Instances,   \* the launch_manager processes ever started, by their pid
    Stoppers,    \* the "launch_manager stop" commands ever run
    None,        \* no inode, no process, an empty file
    Exits        \* how an instance may end: "clean" or "crash"

ASSUME ExitAssumption ==
    Exits \subseteq {"clean", "crash"} /\ None \notin Instances

(* Inodes are numbered in the order of their creation; there are as many   *)
(* as instances at most, because an instance creates one at most.          *)
Inodes == Instances

VARIABLES
    path,    \* the inode the lock file's name leads to, or None
    lock,    \* the process that holds the lock of each inode, or None
    pid,     \* the pid written in each inode, or None while it is empty
    pc,      \* where each instance is
    fd,      \* the inode each instance has open
    stop     \* what each stop command has read

lockVars == <<path, lock, pid, pc, fd, stop>>

LockInit ==
    /\ path = None
    /\ lock = [i \in Inodes |-> None]
    /\ pid = [i \in Inodes |-> None]
    /\ pc = [p \in Instances |-> "start"]
    /\ fd = [p \in Instances |-> None]
    /\ stop = [s \in Stoppers |-> "idle"]

(* open(O_WRONLY | O_CREAT): an inode named after its creator, if new.     *)
OpenLockFile(p) ==
    /\ pc[p] = "start"
    /\ path' = IF path = None THEN p ELSE path
    /\ fd' = [fd EXCEPT ![p] = path']
    /\ pc' = [pc EXCEPT ![p] = "opened"]
    /\ UNCHANGED <<lock, pid, stop>>

(* Mutant: the pid left in the file refuses the start, as a lock does.     *)
LockIfEmpty(p) ==
    /\ pc[p] = "opened"
    /\ IF lock[fd[p]] = None /\ pid[fd[p]] = None
       THEN /\ lock' = [lock EXCEPT ![fd[p]] = p]
            /\ pc' = [pc EXCEPT ![p] = "locked"]
            /\ UNCHANGED fd
       ELSE /\ pc' = [pc EXCEPT ![p] = "has been running"]
            /\ fd' = [fd EXCEPT ![p] = None]
            /\ UNCHANGED lock
    /\ UNCHANGED <<path, pid, stop>>

(* fcntl(F_SETLK), which does not wait.                                    *)
Lock(p) ==
    /\ pc[p] = "opened"
    /\ IF lock[fd[p]] = None
       THEN /\ lock' = [lock EXCEPT ![fd[p]] = p]
            /\ pc' = [pc EXCEPT ![p] = "locked"]
            /\ UNCHANGED fd
       ELSE /\ pc' = [pc EXCEPT ![p] = "has been running"]
            /\ fd' = [fd EXCEPT ![p] = None]
            /\ UNCHANGED lock
    /\ UNCHANGED <<path, pid, stop>>

Truncate(p) ==
    /\ pc[p] = "locked"
    /\ pid' = [pid EXCEPT ![fd[p]] = None]
    /\ pc' = [pc EXCEPT ![p] = "truncated"]
    /\ UNCHANGED <<path, lock, fd, stop>>

(* Mutant: the old content is kept.                                        *)
WriteNothing(p) ==
    /\ pc[p] = "truncated"
    /\ pc' = [pc EXCEPT ![p] = "running"]
    /\ UNCHANGED <<path, lock, pid, fd, stop>>

WritePid(p) ==
    /\ pc[p] = "truncated"
    /\ pid' = [pid EXCEPT ![fd[p]] = p]
    /\ pc' = [pc EXCEPT ![p] = "running"]
    /\ UNCHANGED <<path, lock, fd, stop>>

Unlocked(p) == [lock EXCEPT ![fd[p]] = None]

(* DestroyLockFile: close(), which releases the lock, then unlink().       *)
CloseLockFile(p) ==
    /\ "clean" \in Exits
    /\ pc[p] = "running"
    /\ lock' = Unlocked(p)
    /\ fd' = [fd EXCEPT ![p] = None]
    /\ pc' = [pc EXCEPT ![p] = "closed"]
    /\ UNCHANGED <<path, pid, stop>>

UnlinkLockFile(p) ==
    /\ pc[p] = "closed"
    /\ path' = None
    /\ pc' = [pc EXCEPT ![p] = "unlinked"]
    /\ UNCHANGED <<lock, pid, fd, stop>>

(* The process dies: the kernel closes the file and the name stays.        *)
Crash(p) ==
    /\ "crash" \in Exits
    /\ pc[p] \in {"opened", "locked", "truncated", "running"}
    /\ lock' = IF lock[fd[p]] = p THEN Unlocked(p) ELSE lock
    /\ fd' = [fd EXCEPT ![p] = None]
    /\ pc' = [pc EXCEPT ![p] = "ended"]
    /\ UNCHANGED <<path, pid, stop>>

(* "launch_manager stop": ReadPidFile, then kill(pid, SIGTERM).            *)
ReadPidFile(s) ==
    /\ stop[s] = "idle"
    /\ stop' = [stop EXCEPT ![s] =
                   IF path = None THEN "not running"
                   ELSE IF pid[path] = None THEN "not running"
                   ELSE pid[path]]
    /\ UNCHANGED <<path, lock, pid, pc, fd>>

LockNext ==
    \/ \E p \in Instances :
          \/ OpenLockFile(p) \/ Lock(p) \/ Truncate(p) \/ WritePid(p)
          \/ CloseLockFile(p) \/ UnlinkLockFile(p) \/ Crash(p)
    \/ \E s \in Stoppers : ReadPidFile(s)

LockSpec == LockInit /\ [][LockNext]_lockVars

-----------------------------------------------------------------------------
Holders == {p \in Instances : pc[p] \in {"locked", "truncated", "running"}}

(***************************************************************************)
(* The program refuses to start with "has been running" so that there is   *)
(* one launch_manager, which creates the one default router: no two        *)
(* instances are past CreateLockFile at a time.                            *)
(***************************************************************************)
OneInstance == \A p, q \in Holders : p = q

(* DestroyLockFile has not been begun yet: the name is only given up by    *)
(* it, between the unlock and the unlink of an instance that ends.         *)
NeverDestroyed == \A p \in Instances : pc[p] \notin {"closed", "unlinked"}

(* Whatever the instances that crash leave behind, at most one is past     *)
(* CreateLockFile at a time, until one ends cleanly.                       *)
OneInstanceWhileKept == NeverDestroyed => OneInstance

(* An instance that runs can be found by the stop command: the file's name *)
(* leads to its pid, whatever the instances that crashed before it left.   *)
RunningIsFindable ==
    \A p \in Instances :
        NeverDestroyed /\ pc[p] = "running" => path # None /\ pid[path] = p

(* The lock file does what it is there for, until it is first given up.    *)
LockFileHolds == OneInstanceWhileKept /\ RunningIsFindable

(* A start is refused only while an instance holds the lock: one that      *)
(* crashed, at whatever step, keeps no later one out.                      *)
RefusedForAReason ==
    [][\A p \in Instances :
          pc[p] = "opened" /\ pc'[p] = "has been running" =>
              \E q \in Holders : q # p]_lockVars

=============================================================================
