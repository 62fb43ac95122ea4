----------------------------- MODULE Descriptors -----------------------------
(***************************************************************************)
(* The operating system's resources behind the objects of the OSAL: the    *)
(* file descriptors that sockets, pipes, fifos, message queues, shared     *)
(* memory and signal waiters hold, the names some of them leave, and the   *)
(* signal mask.  An object that is destroyed is closed first, and a new one*)
(* takes its place.  Descriptor 0 is the standard input of the process.    *)
(***************************************************************************)
EXTENDS Integers, FiniteSetsExt

CONSTANTS
    Sockets,      \* objects of the class Socket
    Other,        \* an object of one of the other classes
    Process,      \* owner of the standard input
    Free,         \* of a descriptor: not open; of the endpoint: no socket
    Descriptors   \* 0..n: the descriptors a process may have (bound of TLC's runs)

ASSUME DescriptorsAssumption ==
    /\ Descriptors \subseteq Nat /\ 0 \in Descriptors
    /\ Other \notin Sockets /\ Process \notin Sockets \cup {Other}
    /\ Free \notin Sockets \cup {Other, Process}

VARIABLES
    table,      \* the process's descriptors: who opened each, or Free
    socket,     \* SocketImpl of each socket: fd, inited and named, which
                \* says that it is the server of the path
    endpoint,   \* the socket that listens at the path of the Unix servers
    bound,      \* whether that path is in the file system
    unheard,    \* history: whether the listen() of who bound it failed
    kind,       \* the class of Other
    held,       \* the descriptors in Other's Impl
    name,       \* whether the system knows a fifo, queue or memory of that name
    created,    \* history: whether a create() of it succeeded since the last unlink()
    mask,       \* oldmask and whether the signals are blocked
    reopened,   \* objects that were opened while they were open
    astray      \* a descriptor was closed by an object that had not opened it

pathVars == <<endpoint, bound, unheard>>
descriptorVars == <<table, socket, pathVars, kind, held, name, created, mask, reopened, astray>>

Kinds == {"pipe", "fifo", "mq", "shm", "signals"}
New == [fd |-> -1, inited |-> FALSE, named |-> FALSE]
Opened(fd) == [fd |-> fd, inited |-> TRUE, named |-> FALSE]

DescriptorsInit ==
    /\ table = [fd \in Descriptors |-> IF fd = 0 THEN Process ELSE Free]
    /\ socket = [s \in Sockets |-> New]
    /\ endpoint = Free /\ bound = FALSE /\ unheard = FALSE
    /\ kind \in Kinds
    /\ held = {} /\ name = FALSE /\ created = FALSE
    /\ mask = [old |-> FALSE, saved |-> FALSE, blocked |-> FALSE]
    /\ reopened = {} /\ astray = FALSE

(* The system hands out the lowest free descriptor.                        *)
FreeOnes == {fd \in Descriptors : table[fd] = Free}
Lowest == Min(FreeOnes)

Owns(o) == {fd \in Descriptors : table[fd] = o}
Again(o) == reopened' = IF Owns(o) = {} THEN reopened ELSE reopened \cup {o}

OthersRest == UNCHANGED <<kind, held, name, created, mask>>
SocketsRest == UNCHANGED <<socket, pathVars, kind, astray>>

----------------------------------------------------------------------------

(* The descriptor of an open that succeeds, or is closed again on the way. *)
Gets(s) ==
    /\ Again(s)
    /\ \/ /\ FreeOnes # {}
          /\ table' = [table EXCEPT ![Lowest] = s]
          /\ socket' = [socket EXCEPT ![s] = Opened(Lowest)]
       \/ /\ socket' = [socket EXCEPT ![s] = New]
          /\ UNCHANGED table
    /\ UNCHANGED astray /\ OthersRest

open_unix_client(s) == Gets(s) /\ UNCHANGED pathVars
open_tcp_server(s)  == Gets(s) /\ UNCHANGED pathVars
open_tcp_client(s)  == Gets(s) /\ UNCHANGED pathVars
open_udp(s)         == Gets(s) /\ UNCHANGED pathVars

(* What is at the path from now on.                                        *)
AtPath(s, exists, failed) == endpoint' = s /\ bound' = exists /\ unheard' = failed

(* A server at the path removes what it finds there: if bind() fails then, *)
(* nothing is there any more; when listen() fails, what it bound stays.    *)
open_unix_server(s) ==
    /\ Again(s)
    /\ \/ /\ FreeOnes # {}
          /\ table' = [table EXCEPT ![Lowest] = s]
          /\ socket' = [socket EXCEPT ![s] = [fd |-> Lowest, inited |-> TRUE, named |-> TRUE]]
          /\ AtPath(s, TRUE, FALSE)
       \/ /\ socket' = [socket EXCEPT ![s] = New]
          /\ \/ UNCHANGED pathVars
             \/ FreeOnes # {} /\ (AtPath(Free, FALSE, FALSE) \/ AtPath(Free, TRUE, TRUE))
          /\ UNCHANGED table
    /\ UNCHANGED astray /\ OthersRest

(* accept(): the client's socket is cleared, also when nobody connects.    *)
accept(server, client) ==
    /\ server # client /\ socket[server].inited
    /\ Gets(client) /\ UNCHANGED pathVars

(* close(), also that of the destructor: what is left has descriptor 0.    *)
Closes(s, after) ==
    LET fd == socket[s].fd IN
    /\ socket' = [socket EXCEPT ![s] = after]
    /\ table' = IF fd >= 0 THEN [table EXCEPT ![fd] = Free] ELSE table
    /\ astray' = (astray \/ (fd >= 0 /\ table[fd] # s))
    /\ IF socket[s].named THEN AtPath(Free, FALSE, FALSE) ELSE UNCHANGED pathVars
    /\ UNCHANGED reopened /\ OthersRest

Zeroed == [fd |-> 0, inited |-> FALSE, named |-> FALSE]

close(s)   == Closes(s, Zeroed)
destroy(s) == Closes(s, New)

----------------------------------------------------------------------------

(* The other classes.  Most clear their Impl first, and forget what it had.*)
Take(fds) ==
    /\ table' = [fd \in Descriptors |-> IF fd \in fds THEN Other ELSE table[fd]]
    /\ held' = fds

Forget == held' = {} /\ UNCHANGED table

(* Mutant: when the second end cannot be made non-blocking, one end stays. *)
PipeCreateForgets ==
    /\ kind = "pipe"
    /\ \/ Cardinality(FreeOnes) > 1 /\ Take({Lowest, Min(FreeOnes \ {Lowest})})
       \/ FreeOnes # {} /\ table' = [table EXCEPT ![Lowest] = Other] /\ UNCHANGED held
    /\ Again(Other)
    /\ UNCHANGED <<name, created, mask>> /\ SocketsRest

PipeCreate ==
    /\ kind = "pipe"
    /\ \/ /\ Cardinality(FreeOnes) > 1
          /\ Again(Other)
          /\ Take({Lowest, Min(FreeOnes \ {Lowest})})
       \/ UNCHANGED <<table, held, reopened>>
    /\ UNCHANGED <<name, created, mask>> /\ SocketsRest

FifoOpen ==
    /\ kind = "fifo" /\ Again(Other)
    /\ \/ FreeOnes # {} /\ Take({Lowest}) /\ name' = TRUE
       \/ Forget /\ name' \in {name, TRUE}
    /\ UNCHANGED <<created, mask>> /\ SocketsRest

(* create() of a queue or a memory wants a new name, open() a known one;   *)
(* a memory that cannot be sized or mapped is unlinked again.              *)
CreateNamed ==
    /\ kind \in {"mq", "shm"} /\ Again(Other)
    /\ \/ ~name /\ FreeOnes # {} /\ Take({Lowest}) /\ name' = TRUE /\ created' = TRUE
       \/ Forget /\ UNCHANGED <<name, created>>
    /\ UNCHANGED mask /\ SocketsRest

OpenNamed ==
    /\ kind \in {"mq", "shm"} /\ Again(Other)
    /\ \/ name /\ FreeOnes # {} /\ Take({Lowest})
       \/ Forget
    /\ UNCHANGED <<name, created, mask>> /\ SocketsRest

Unlink ==
    /\ kind \in {"fifo", "mq", "shm"}
    /\ name' = FALSE /\ created' = FALSE
    /\ UNCHANGED <<table, held, mask, reopened>> /\ SocketsRest

(* SignalWaiter::open(): a bad signal number, an error of signalfd() after *)
(* the mask was changed, or success.                                       *)
SignalsOpen ==
    /\ kind = "signals" /\ Again(Other)
    /\ \/ Forget /\ mask' = [mask EXCEPT !.old = FALSE, !.saved = FALSE]
       \/ Forget /\ mask' = [mask EXCEPT !.old = mask.blocked, !.saved = TRUE]
       \/ /\ FreeOnes # {} /\ Take({Lowest})
          /\ mask' = [old |-> mask.blocked, saved |-> TRUE, blocked |-> TRUE]
    /\ UNCHANGED <<name, created>> /\ SocketsRest

(* close() of all of them.                                                 *)
Close ==
    /\ table' = [fd \in Descriptors |-> IF fd \in held THEN Free ELSE table[fd]]
    /\ held' = {}
    /\ mask' = [old |-> FALSE, saved |-> FALSE,
                blocked |-> IF mask.saved THEN mask.old ELSE mask.blocked]
    /\ UNCHANGED <<name, created, reopened>> /\ SocketsRest

DescriptorsNext ==
    \/ \E s \in Sockets :
          \/ open_unix_server(s) \/ open_unix_client(s)
          \/ open_tcp_server(s) \/ open_tcp_client(s) \/ open_udp(s)
          \/ close(s) \/ destroy(s)
          \/ \E c \in Sockets : accept(s, c)
    \/ PipeCreate \/ FifoOpen \/ CreateNamed \/ OpenNamed \/ Unlink \/ SignalsOpen \/ Close

DescriptorsSpec == DescriptorsInit /\ [][DescriptorsNext]_descriptorVars

(***************************************************************************)
(* Whatever fails on the way, every descriptor that is open is in the      *)
(* object that opened it, and is that object's to close; a server's path is*)
(* in the file system only as long as a socket listens there that will     *)
(* remove it, unless listen() failed on it; a queue or a memory has a name *)
(* only if a create() succeeded that no unlink() followed (a fifo may leave*)
(* one behind); and a closed SignalWaiter has given the signals back: as   *)
(* long as no object is opened while it is open and no socket is closed    *)
(* twice.                                                                  *)
(***************************************************************************)
Knows(o) == IF o \in Sockets THEN {socket[o].fd} \cap Descriptors ELSE held

DescriptorsAccounted ==
    ~astray =>
       /\ \A o \in (Sockets \cup {Other}) \ reopened : Owns(o) \subseteq Knows(o)
       /\ \A s \in Sockets : socket[s].inited => table[socket[s].fd] = s
       /\ endpoint \in Sockets \ reopened => socket[endpoint].named
       /\ bound => endpoint \in Sockets \/ unheard
       /\ name /\ kind # "fifo" => created
       /\ held \subseteq Owns(Other)
       /\ held = {} /\ Other \notin reopened => ~mask.blocked

(***************************************************************************)
(* A socket that was closed has no descriptor any more, as the initial     *)
(* value of SocketImpl's fd has it: a descriptor is only ever closed by the*)
(* object that opened it.                                                  *)
(***************************************************************************)
OnlyItsOwn == ~astray

=============================================================================
