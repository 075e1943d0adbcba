------------------------------ MODULE MPLogger ------------------------------
(***************************************************************************)
(* The log of a crawl (mp_logger.py) and the sockets it is collected       *)
(* through (socket_interface.py).  Every process logs to a socket of the   *)
(* main process, where a thread per connection puts the messages in a      *)
(* queue and the listener thread writes them to the log file; what comes   *)
(* from an extension is handed to the logger of the main process first,    *)
(* which sends it round once more.                                         *)
(* A process that was forked goes on writing to the connection it          *)
(* inherited, and a frame that does not fit is written in two parts.       *)
(***************************************************************************)
EXTENDS Integers, Sequences, FiniteSets, SequencesExt

CONSTANTS
    Conn,               \* Conn[s]: the connection that process s writes to
    Extensions,         \* senders that are extensions
    Faulty,             \* senders of records that may not load (json.loads, dill.loads)
    NumRecords          \* bound: NumRecords[s], records of sender s

Senders == DOMAIN Conn
Conns == {Conn[s] : s \in Senders}
Main == "main"

ASSUME MPLoggerAssumption ==
    /\ Main \in Senders /\ Extensions \subseteq Senders \ {Main} /\ Faulty \subseteq Senders
    /\ \A e \in Extensions : \A s \in Senders \ {e} : Conn[s] # Conn[e]
    /\ NumRecords \in [Senders -> Nat]

VARIABLES
    alive,              \* processes that have not crashed
    sent,               \* how many records each of them sent
    half,               \* senders in the middle of a frame
    connection,         \* "none", "open", or "refused"
    accepting,          \* does the server take connections: "yes", "last" or "no"
    stream,             \* what is under way on each connection
    receiver,           \* the thread of each connection: [pc, of], of the frame begun
    queue,              \* of the server socket
    statusQueue,        \* of the logger, with its count of unfinished tasks
    unfinished,
    listener,           \* the listener thread
    owner,              \* the main process: init, up, join, closed
    written,            \* the log file
    before,             \* history: what was sent before the logger was closed
    missed              \* history: what the shutdown came too late for

processes == <<alive, sent, half>>
sockets == <<connection, accepting, stream>>
control == <<statusQueue, unfinished, listener, owner>>
vars == <<processes, sockets, receiver, queue, control, written, before, missed>>

NoRecord == [from |-> "none", n |-> 0, kind |-> "none"]

Init ==
    /\ alive = Senders /\ sent = [s \in Senders |-> 0] /\ half = {}
    /\ connection = [c \in Conns |-> "none"] /\ accepting = "yes"
    /\ stream = [c \in Conns |-> <<>>]
    /\ receiver = [c \in Conns |-> [pc |-> "read", of |-> NoRecord]]
    /\ queue = <<>> /\ statusQueue = <<>> /\ unfinished = 0
    /\ listener = "bind" /\ owner = "init"
    /\ written = <<>> /\ before = {} /\ missed = {}

-----------------------------------------------------------------------------
(* ClientSocketHandler, and the sending socket of an extension: a frame is *)
(* its length, the serialization and the message.  The handler connects    *)
(* when it first has something to send.  A listening socket that is closed *)
(* while the accept thread waits in it takes one more connection.          *)
Record(s) ==
    [from |-> s, n |-> sent[s] + 1, kind |-> IF s \in Extensions THEN "extension" ELSE "log"]

Part(record, part) == [record |-> record, part |-> part]

Transmits(c, piece) ==
    \/ /\ connection[c] = "open"
       /\ stream' = [stream EXCEPT ![c] = Append(@, piece)]
       /\ UNCHANGED <<connection, accepting>>
    \/ /\ connection[c] = "none" /\ accepting # "no"
       /\ connection' = [connection EXCEPT ![c] = "open"]
       /\ accepting' = IF accepting = "last" THEN "no" ELSE accepting
       /\ stream' = [stream EXCEPT ![c] = Append(@, piece)]
    \/ /\ \/ connection[c] = "refused"
          \/ connection[c] = "none" /\ accepting = "no"
       /\ connection' = [connection EXCEPT ![c] = "refused"]
       /\ UNCHANGED <<accepting, stream>>

(* The threads of a process share the handler and its lock.  A process     *)
(* that inherits the connection was forked when the main one had logged.   *)
Logs(s) ==
    /\ s \in alive \ half /\ sent[s] < NumRecords[s]
    /\ s # Main /\ Conn[s] = Conn[Main] => connection[Conn[s]] # "none"
    /\ owner # "init" /\ (s = Main => owner = "up")

Emit(s) ==
    /\ Logs(s)
    /\ Transmits(Conn[s], Part(Record(s), "whole"))
    /\ sent' = [sent EXCEPT ![s] = @ + 1]
    /\ UNCHANGED <<alive, half, receiver, queue, control, written, before, missed>>

EmitHead(s) ==
    /\ Logs(s) /\ connection[Conn[s]] = "open"
    /\ Transmits(Conn[s], Part(Record(s), "head"))
    /\ half' = half \cup {s}
    /\ UNCHANGED <<alive, sent, receiver, queue, control, written, before, missed>>

EmitTail(s) ==
    /\ s \in half
    /\ Transmits(Conn[s], Part(Record(s), "tail"))
    /\ half' = half \ {s}
    /\ sent' = [sent EXCEPT ![s] = @ + 1]
    /\ UNCHANGED <<alive, receiver, queue, control, written, before, missed>>

(* A process other than the main one dies; its connection ends unless      *)
(* another process holds it.                                               *)
Crash(s) ==
    /\ s \in alive \ {Main}
    /\ alive' = alive \ {s} /\ half' = half \ {s}
    /\ stream' = IF connection[Conn[s]] # "open" \/ \E t \in alive' : Conn[t] = Conn[s] THEN stream
                 ELSE [stream EXCEPT ![Conn[s]] = Append(@, Part(NoRecord, "end"))]
    /\ UNCHANGED <<sent, connection, accepting, receiver, queue, control, written, before, missed>>

-----------------------------------------------------------------------------
(* _handle_conn.  A frame whose bytes are not those of one message cannot  *)
(* be parsed, and the thread ends with the exception: what dill raises is  *)
(* not caught, and reporting a ValueError raises a TypeError.              *)
Delivered(c) ==
    LET piece == Head(stream[c]) IN
    \/ piece.part = "whole" /\ receiver[c].of = NoRecord
    \/ piece.part = "tail" /\ receiver[c].of = piece.record

Receive(c) ==
    /\ stream[c] # <<>> /\ receiver[c].pc = "read"
    /\ LET piece == Head(stream[c])
           begins == piece.part = "head" /\ receiver[c].of = NoRecord
       IN /\ receiver' = [receiver EXCEPT ![c] =
                CASE Delivered(c) -> [pc |-> "read", of |-> NoRecord]
                  [] begins -> [pc |-> "read", of |-> piece.record]
                  [] piece.part = "end" -> [pc |-> "ended", of |-> NoRecord]
                  [] OTHER -> [pc |-> "garbled", of |-> NoRecord]]
          /\ queue' = IF Delivered(c) THEN Append(queue, piece.record) ELSE queue
    /\ stream' = [stream EXCEPT ![c] = Tail(@)]
    /\ UNCHANGED <<processes, connection, accepting, control, written, before, missed>>

-----------------------------------------------------------------------------
(* _initialize_loggers waits for the address of the listener, and the      *)
(* listener waits until it was taken.                                      *)
Bind ==
    /\ listener = "bind" /\ listener' = "handover"
    /\ statusQueue' = Append(statusQueue, "address") /\ unfinished' = unfinished + 1
    /\ UNCHANGED <<processes, sockets, receiver, queue, owner, written, before, missed>>

TakeAddress ==
    /\ owner = "init" /\ statusQueue # <<>>
    /\ owner' = "up"
    /\ statusQueue' = Tail(statusQueue) /\ unfinished' = unfinished - 1
    /\ UNCHANGED <<processes, sockets, receiver, queue, listener, written, before, missed>>

HandedOver ==
    /\ listener = "handover" /\ unfinished = 0
    /\ listener' = "loop"
    /\ UNCHANGED <<processes, sockets, receiver, queue, statusQueue, unfinished, owner, written,
                   before, missed>>

(* Seeded bug: an extension's record is written before it is sent round.   *)
WrittenWithExtensions(record) == Append(written, record)

(* What is written to the file for a record that is handled.               *)
WrittenAfter(record) == IF record.kind = "extension" THEN written ELSE Append(written, record)

(* What is sent round for an extension's record.                           *)
AsWritten(record) == [record EXCEPT !.kind = "log"]

(* _process_record, for the listener's two loops.  The handler of the main *)
(* process may be in use by another thread.                                *)
ProcessRecord ==
    LET record == Head(queue) IN
    /\ queue # <<>> /\ queue' = Tail(queue)
    /\ written' = WrittenAfter(record)
    /\ \/ /\ record.kind = "log"
          /\ UNCHANGED sockets
       \/ /\ record.kind = "extension" /\ Main \notin half
          /\ Transmits(Conn[Main], Part(AsWritten(record), "whole"))
    /\ UNCHANGED <<processes, receiver, control, before>>

Listen ==
    /\ listener = "loop" /\ statusQueue = <<>>
    /\ ProcessRecord
    /\ UNCHANGED missed

ShutdownSeen ==
    /\ listener = "loop" /\ statusQueue # <<>>
    /\ statusQueue' = Tail(statusQueue)
    /\ listener' = "sleep" /\ accepting' = IF accepting = "yes" THEN "last" ELSE accepting
    /\ UNCHANGED <<processes, connection, stream, receiver, queue, unfinished, owner, written,
                   before, missed>>

(* The three seconds are over, whatever is still under way.                *)
UnderWay ==
    {record \in before : \E c \in Conns : receiver[c].pc = "read" /\
       \E i \in DOMAIN stream[c] : AsWritten(stream[c][i].record) = record}

Slept ==
    /\ listener = "sleep" /\ listener' = "drain"
    /\ missed' = missed \cup UnderWay
    /\ UNCHANGED <<processes, sockets, receiver, queue, statusQueue, unfinished, owner, written,
                   before>>

Drain ==
    /\ listener = "drain"
    /\ ProcessRecord
    /\ missed' = IF Head(queue).kind = "extension"
                  THEN missed \cup {AsWritten(Head(queue))} ELSE missed

(* A record that does not load: what json.loads or dill.loads raises is    *)
(* not caught, and ends the thread.  Nobody reads the queue any more.      *)
Raises ==
    /\ (listener = "loop" /\ statusQueue = <<>>) \/ listener = "drain"
    /\ queue # <<>> /\ Head(queue).from \in Faulty
    /\ listener' = "dead"
    /\ UNCHANGED <<processes, sockets, receiver, queue, statusQueue, unfinished, owner, written,
                   before, missed>>

(* Seeded bug: what is left in the queue is not looked at.                 *)
NoMatterWhatIsLeft == TRUE
NothingLeft == queue = <<>>

(* Seeded bug: task_done is not called.                                    *)
StillUnfinished == unfinished
Finished == unfinished - 1

Drained ==
    /\ listener = "drain" /\ NothingLeft
    /\ listener' = "off" /\ unfinished' = Finished
    /\ UNCHANGED <<processes, sockets, receiver, queue, statusQueue, owner, written, before,
                   missed>>

(* close, on the thread that uses the logger.                              *)
Close ==
    /\ owner = "up" /\ owner' = "join"
    /\ statusQueue' = Append(statusQueue, "SHUTDOWN") /\ unfinished' = unfinished + 1
    /\ before' = UNION {{AsWritten([Record(s) EXCEPT !.n = n]) : n \in 1 .. sent[s]} : s \in Senders}
    /\ UNCHANGED <<processes, sockets, receiver, queue, listener, written, missed>>

Joined ==
    /\ owner = "join" /\ unfinished = 0 /\ listener = "off"
    /\ owner' = "closed"
    /\ UNCHANGED <<processes, sockets, receiver, queue, statusQueue, unfinished, listener, written,
                   before, missed>>

-----------------------------------------------------------------------------
ListenerNext ==
    Bind \/ HandedOver \/ Listen \/ ShutdownSeen \/ Slept \/ Drain \/ Drained \/ Raises

Next ==
    \/ ListenerNext \/ TakeAddress \/ Close \/ Joined
    \/ \E s \in Senders : Emit(s) \/ EmitHead(s) \/ EmitTail(s) \/ Crash(s)
    \/ \E c \in Conns : Receive(c)

Spec == Init /\ [][Next]_vars

(* The threads run; a frame that was begun is finished.                    *)
FairSpec ==
    /\ Spec
    /\ WF_vars(ListenerNext) /\ WF_vars(TakeAddress) /\ WF_vars(Joined)
    /\ \A s \in Senders : WF_vars(EmitTail(s))
    /\ \A c \in Conns : WF_vars(Receive(c))

-----------------------------------------------------------------------------
(* Every record is in the log file once, and those of a sender are in the  *)
(* order in which it sent them, through either way to the file.            *)
WrittenInOrder ==
    \A i, j \in DOMAIN written :
        i < j /\ written[i].from = written[j].from => written[i].n < written[j].n

(* Once close returns, what was sent before it was called is in the file,  *)
(* except on a connection that was refused or whose frames two processes   *)
(* mixed up, which does no harm to the others; except for what was still   *)
(* under way when the listener had slept; and except for an extension's    *)
(* records that were only handled after that.                              *)
Broken(c) == receiver[c].pc = "garbled" \/ connection[c] = "refused"

Ways(record) == {Conn[record.from]} \cup IF record.from \in Extensions THEN {Conn[Main]} ELSE {}

ClosedMeansWritten ==
    owner = "closed" =>
    \A record \in before \ missed :
        \/ \E i \in DOMAIN written : written[i] = record
        \/ \E c \in Ways(record) : Broken(c)

(* close returns, if the listener had begun its loop when it was called    *)
(* and does not end on a record that it cannot load.  Before the loop, the *)
(* wait for the address to be taken waits for the shutdown message as      *)
(* well; after such an end nobody answers it (close, _start_listener).     *)
CloseEnds == (owner = "join" /\ listener = "loop") ~> (owner = "closed" \/ listener = "dead")
=============================================================================
