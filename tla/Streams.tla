------------------------------- MODULE Streams -------------------------------
(***************************************************************************)
(* Reading and writing with a timeout: send() and recv() of a stream       *)
(* socket, write() and read() of a pipe and of a fifo, writeAll() and      *)
(* readExact() of lpio's devices, WriteFull() and ReadFull() of the farm's *)
(* Modbus.  Each call moves a buffer in as many pieces as the system takes *)
(* or has; the timeout starts anew with every piece, or is for all of them,*)
(* and a call that fails does not tell what it has moved already.  One     *)
(* thread writes messages, another reads them.                             *)
(***************************************************************************)
EXTENDS Integers, SequencesExt

CONSTANTS
    Length,     \* bytes of a message
    Messages,   \* messages that are written (bound of TLC's runs)
    Capacity    \* bytes the system keeps between the two sides

ASSUME StreamsAssumption == Length \in Nat \ {0}

VARIABLES
    class,      \* what is written to, one of Classes
    stream,     \* the bytes under way, each with its message and place
    writer,     \* message and bytes moved of the call under way; whether it runs
    reader,     \* bytes read by the call under way; whether it runs
    received,   \* what the calls that read successfully returned
    ended,      \* the peer has closed its socket
    torn        \* a call failed that had moved some of its bytes

streamVars == <<class, stream, writer, reader, received, ended, torn>>

Classes == {"socket", "pipe", "fifo", "device", "modbus"}

StreamsInit ==
    /\ class \in Classes
    /\ stream = <<>>
    /\ writer = [runs |-> FALSE, message |-> 0, total |-> 0]
    /\ reader = [runs |-> FALSE, bytes |-> <<>>]
    /\ received = <<>>
    /\ ended = FALSE /\ torn = FALSE

Piece(n) == [i \in 1..n |-> [of |-> writer.message, at |-> writer.total + i]]

BeginWrite ==
    /\ ~writer.runs /\ writer.message < Messages
    /\ writer' = [runs |-> TRUE, message |-> writer.message + 1, total |-> 0]
    /\ UNCHANGED <<class, stream, reader, received, ended, torn>>

(* The system takes n bytes more.                                          *)
WritePiece(n) ==
    /\ writer.runs /\ ~ended
    /\ writer.total + n <= Length /\ Len(stream) + n <= Capacity
    /\ stream' = stream \o Piece(n)
    /\ writer' = [writer EXCEPT !.total = @ + n, !.runs = writer.total + n < Length]
    /\ UNCHANGED <<class, reader, received, ended, torn>>

(* The call ends with an error.                                            *)
WriteFails ==
    /\ writer' = [writer EXCEPT !.runs = FALSE]
    /\ torn' = (torn \/ writer.total > 0)
    /\ UNCHANGED <<class, stream, reader, received, ended>>

(* poll() is interrupted at any time, runs out while nothing can be        *)
(* written, or the peer is gone.                                           *)
WriteEnds == writer.runs /\ WriteFails

BeginRead ==
    /\ ~reader.runs
    /\ reader' = [runs |-> TRUE, bytes |-> <<>>]
    /\ UNCHANGED <<class, stream, writer, received, ended, torn>>

(* Mutant: what was read first is written over.                            *)
ReadPieceAnew(n) ==
    LET bytes == SubSeq(stream, 1, n) IN
    /\ reader.runs /\ n <= Len(stream) /\ n <= Length
    /\ stream' = SubSeq(stream, n + 1, Len(stream))
    /\ IF Len(bytes) = Length
       THEN reader' = [runs |-> FALSE, bytes |-> <<>>] /\ received' = Append(received, bytes)
       ELSE reader' = [runs |-> TRUE, bytes |-> bytes] /\ UNCHANGED received
    /\ UNCHANGED <<class, writer, ended, torn>>

(* n bytes more of those that have come.                                   *)
ReadPiece(n) ==
    LET bytes == reader.bytes \o SubSeq(stream, 1, n) IN
    /\ reader.runs /\ n <= Len(stream) /\ Len(bytes) <= Length
    /\ stream' = SubSeq(stream, n + 1, Len(stream))
    /\ IF Len(bytes) = Length
       THEN reader' = [runs |-> FALSE, bytes |-> <<>>] /\ received' = Append(received, bytes)
       ELSE reader' = [runs |-> TRUE, bytes |-> bytes] /\ UNCHANGED received
    /\ UNCHANGED <<class, writer, ended, torn>>

(* poll() is interrupted or runs out, or the peer has closed its side: the *)
(* bytes that were read stay in a buffer that the caller must not use.     *)
ReadEnds ==
    /\ reader.runs
    /\ reader' = [runs |-> FALSE, bytes |-> <<>>]
    /\ torn' = (torn \/ reader.bytes # <<>>)
    /\ UNCHANGED <<class, stream, writer, received, ended>>

Pieces == 1..Length
Write == BeginWrite \/ WriteEnds \/ \E n \in Pieces : WritePiece(n)
Read  == BeginRead \/ ReadEnds \/ \E n \in Pieces : ReadPiece(n)

send       == class = "socket" /\ Write
recv       == class = "socket" /\ Read
pipe_write == class = "pipe" /\ Write
pipe_read  == class = "pipe" /\ Read
fifo_write == class = "fifo" /\ Write
fifo_read  == class = "fifo" /\ Read
writeAll   == class = "device" /\ Write
readExact  == class = "device" /\ Read
WriteFull  == class = "modbus" /\ Write
ReadFull   == class = "modbus" /\ Read

(* Only a socket has a peer that can end the stream: a pipe's two ends are *)
(* one object's, a fifo is opened for both directions, and a line has no   *)
(* end.                                                                    *)
PeerCloses ==
    /\ class \in {"socket", "modbus"} /\ ~ended
    /\ ended' = TRUE
    /\ UNCHANGED <<class, stream, writer, reader, received, torn>>

StreamsNext ==
    \/ send \/ recv \/ pipe_write \/ pipe_read \/ fifo_write \/ fifo_read
    \/ writeAll \/ readExact \/ WriteFull \/ ReadFull \/ PeerCloses

(***************************************************************************)
(* However the system cuts the bytes up: while no call failed halfway, a   *)
(* successful read returns one message, whole, and the messages come in    *)
(* the order they were written, without those whose writing failed.        *)
(***************************************************************************)
WholeMessages ==
    ~torn =>
       /\ \A i \in DOMAIN received : \A b \in 1..Length :
             received[i][b] = [of |-> received[i][1].of, at |-> b]
       /\ \A i, j \in DOMAIN received : i < j => received[i][1].of < received[j][1].of

=============================================================================
