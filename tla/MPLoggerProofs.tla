--------------------------- MODULE MPLoggerProofs ---------------------------
(***************************************************************************)
(* The log of MPLogger, for any processes, extensions and connections and  *)
(* any number of records: the log file is in order, and what was sent      *)
(* before a close is in it.                                                *)
(***************************************************************************)
EXTENDS MPLogger, TLAPS

Records == [from : Senders, n : Nat, kind : {"log", "extension"}]
Pieces ==
    [record : Records, part : {"whole", "head", "tail"}]
    \cup [record : {NoRecord}, part : {"end"}]
Receivers == [pc : {"read", "ended", "garbled"}, of : Records \cup {NoRecord}]

SendersOK == alive \subseteq Senders /\ Main \in alive /\ half \subseteq alive /\ sent \in [Senders -> Nat]
SocketsOK ==
    /\ connection \in [Conns -> {"none", "open", "refused"}]
    /\ stream \in [Conns -> Seq(Pieces)]
    /\ receiver \in [Conns -> Receivers]
ListenerOK ==
    /\ queue \in Seq(Records) /\ written \in Seq(Records)
    /\ before \subseteq Records /\ missed \subseteq Records

(* An extension's record is on the extension's own connection until it was *)
(* handled, and then on that of the main process, like any other.          *)
Final(s) == IF s \in Extensions THEN Conn[Main] ELSE Conn[s]
Wire(record) == IF record.kind = "log" THEN Final(record.from) ELSE Conn[record.from]
Proper(record) == record.kind = "extension" => record.from \in Extensions
PlacesOK ==
    /\ \A c \in Conns : \A i \in DOMAIN stream[c] : stream[c][i].part # "end" =>
         c = Wire(stream[c][i].record) /\ Proper(stream[c][i].record)
    /\ \A i \in DOMAIN queue : Proper(queue[i])
    /\ \A i \in DOMAIN written : written[i].kind = "log"
Typed == SendersOK /\ SocketsOK /\ ListenerOK /\ PlacesOK

-----------------------------------------------------------------------------
(* The way of a sender's records to the log file, from its end: what is in *)
(* the file, in the queue, on the connection, and for an extension in the  *)
(* queue and on the connection before it was handled.                      *)
Carries(piece) == piece.part \in {"whole", "tail"}

NumbersIn(records, s, kind) ==
    {records[i].n : i \in {i \in DOMAIN records : records[i].from = s /\ records[i].kind = kind}}
NumbersOn(pieces, s, kind) ==
    {pieces[i].record.n : i \in {i \in DOMAIN pieces :
       Carries(pieces[i]) /\ pieces[i].record.from = s /\ pieces[i].record.kind = kind}}

WayOf(file, waiting, round, own, s) ==
    <<NumbersIn(file, s, "log"), NumbersIn(waiting, s, "log"), NumbersOn(round, s, "log"),
      NumbersIn(waiting, s, "extension"), NumbersOn(own, s, "extension")>>
Way(s) == WayOf(written, queue, stream[Final(s)], stream[Conn[s]], s)

(* What is further on is older.                                            *)
Older(way) == \A p, q \in 1 .. 5 : p < q => \A m \in way[p], n \in way[q] : m < n
UpTo(way, n) == \A p \in 1 .. 5 : \A m \in way[p] : m <= n
Rising(records) ==
    \A i, j \in DOMAIN records :
      i < j /\ records[i].from = records[j].from /\ records[i].kind = records[j].kind
        => records[i].n < records[j].n
RisingOn(pieces) ==
    \A i, j \in DOMAIN pieces :
      /\ i < j /\ Carries(pieces[i]) /\ Carries(pieces[j])
      /\ pieces[i].record.from = pieces[j].record.from
      /\ pieces[i].record.kind = pieces[j].record.kind
      => pieces[i].record.n < pieces[j].record.n
WaysOK == \A s \in Senders : Older(Way(s)) /\ UpTo(Way(s), sent[s])
RisingOK == Rising(queue) /\ Rising(written) /\ \A c \in Conns : RisingOn(stream[c])
OrderInv == WaysOK /\ RisingOK

-----------------------------------------------------------------------------
(* How the listener and the thread that closes the logger wait for each    *)
(* other.                                                                  *)
StatusOK ==
    /\ listener \in {"bind", "handover", "loop", "sleep", "drain", "off", "dead"}
    /\ owner \in {"init", "up", "join", "closed"}
    /\ listener = "bind" => owner = "init" /\ statusQueue = <<>> /\ unfinished = 0
    /\ owner = "init" /\ listener # "bind" =>
         listener = "handover" /\ statusQueue = <<"address">> /\ unfinished = 1
    /\ owner = "up" => listener \in {"handover", "loop", "dead"} /\ statusQueue = <<>> /\ unfinished = 0
    /\ owner = "closed" => listener = "off"

(* Nobody is left who could send after the end of a connection.            *)
EndOK(c) ==
    /\ \A i \in DOMAIN stream[c] : stream[c][i].part = "end" =>
         i = Len(stream[c]) /\ \A s \in alive : Conn[s] # c
    /\ receiver[c].pc = "ended" => stream[c] = <<>> /\ \A s \in alive : Conn[s] # c

(* What was sent is in the file, in the queue or on its way, or a          *)
(* connection on its way is broken.                                        *)
Kept(record) ==
    \/ \E i \in DOMAIN written : written[i] = record
    \/ \E i \in DOMAIN queue : AsWritten(queue[i]) = record
    \/ \E c \in Conns : \E i \in DOMAIN stream[c] :
         Carries(stream[c][i]) /\ AsWritten(stream[c][i].record) = record
    \/ \E c \in Ways(record) : Broken(c)
Logged(s, n) == [from |-> s, n |-> n, kind |-> "log"]
KeptOK == \A s \in Senders : \A n \in 1 .. sent[s] : Kept(Logged(s, n))

(* Once the listener has slept, what was sent before the close is past the *)
(* connections, and past the queue once that was emptied.                  *)
BeforeOK == \A r \in before : r.kind = "log" /\ r.n \in 1 .. sent[r.from] /\ owner \in {"join", "closed"}
Handled(record) == AsWritten(record) \notin before \ missed
SettledOK ==
    /\ listener \in {"drain", "off"} =>
         \A c \in Conns : receiver[c].pc = "read" =>
           \A i \in DOMAIN stream[c] : Carries(stream[c][i]) => Handled(stream[c][i].record)
    /\ listener = "off" => \A i \in DOMAIN queue : Handled(queue[i])
CloseInv ==
    StatusOK /\ (\A c \in Conns : EndOK(c)) /\ KeptOK /\ BeforeOK /\ SettledOK

-----------------------------------------------------------------------------
(* Types.                                                                  *)
LEMMA ConnOfSender == ASSUME NEW s \in Senders PROVE Conn[s] \in Conns
  BY DEF Conns

LEMMA MainSender == Main \in Senders /\ Conn[Main] \in Conns
  BY MPLoggerAssumption DEF Conns

(* The pieces of the connections are of two sorts.                         *)
LEMMA PieceSorts ==
    ASSUME NEW piece \in Pieces
    PROVE  /\ piece.part \in {"whole", "head", "tail", "end"}
           /\ piece.part # "end" => piece.record \in Records
           /\ piece.part = "end" => piece = Part(NoRecord, "end")
  BY DEF Pieces, Part

LEMMA PartIsPiece ==
    ASSUME NEW record \in Records, NEW part \in {"whole", "head", "tail"}
    PROVE  /\ Part(record, part) \in Pieces
           /\ Part(record, part).record = record /\ Part(record, part).part = part
  BY DEF Pieces, Part

LEMMA EndIsPiece ==
    /\ Part(NoRecord, "end") \in Pieces
    /\ Part(NoRecord, "end").record = NoRecord /\ Part(NoRecord, "end").part = "end"
  BY DEF Pieces, Part

LEMMA RecordOfSender ==
    ASSUME SendersOK, NEW s \in Senders
    PROVE  /\ Record(s) \in Records
           /\ Record(s).from = s /\ Record(s).n = sent[s] + 1
           /\ Record(s).kind = IF s \in Extensions THEN "extension" ELSE "log"
           /\ Proper(Record(s)) /\ Wire(Record(s)) = Conn[s]
  BY DEF SendersOK, Record, Records, Proper, Wire, Final

LEMMA SentRound ==
    ASSUME NEW record \in Records
    PROVE  /\ AsWritten(record) \in Records
           /\ AsWritten(record).from = record.from /\ AsWritten(record).n = record.n
           /\ AsWritten(record).kind = "log" /\ Proper(AsWritten(record))
           /\ AsWritten(record) = Logged(record.from, record.n)
           /\ record.kind = "log" => AsWritten(record) = record
  BY DEF AsWritten, Records, Proper, Logged

(* A piece is put on a connection, or the connection is refused.           *)
LEMMA Transmission ==
    ASSUME SocketsOK, NEW c \in Conns, NEW piece \in Pieces, Transmits(c, piece)
    PROVE  /\ connection' \in [Conns -> {"none", "open", "refused"}]
           /\ stream' \in [Conns -> Seq(Pieces)]
           /\ \A d \in Conns \ {c} : stream'[d] = stream[d] /\ connection'[d] = connection[d]
           /\ \/ /\ stream'[c] = Append(stream[c], piece)
                 /\ connection[c] # "refused" /\ connection'[c] = "open"
              \/ /\ stream'[c] = stream[c] /\ connection'[c] = "refused"
<1> USE DEF SocketsOK
<1>1. Append(stream[c], piece) \in Seq(Pieces)
  OBVIOUS
<1>2. CASE /\ connection[c] = "open"
           /\ stream' = [stream EXCEPT ![c] = Append(@, piece)]
           /\ UNCHANGED <<connection, accepting>>
  BY <1>1, <1>2
<1>3. CASE /\ connection[c] = "none"
           /\ connection' = [connection EXCEPT ![c] = "open"]
           /\ stream' = [stream EXCEPT ![c] = Append(@, piece)]
  BY <1>1, <1>3
<1>4. CASE /\ connection' = [connection EXCEPT ![c] = "refused"]
           /\ UNCHANGED <<accepting, stream>>
  BY <1>4
<1>5. QED  BY <1>2, <1>3, <1>4 DEF Transmits

LEMMA TypesInit == Init => Typed
<1> SUFFICES ASSUME Init PROVE Typed
  OBVIOUS
<1>1. SendersOK
  BY MPLoggerAssumption DEF Init, SendersOK
<1>2. SocketsOK
  BY DEF Init, SocketsOK, Receivers
<1>3. ListenerOK
  BY DEF Init, ListenerOK
<1>4. PlacesOK
  BY DEF Init, PlacesOK
<1>5. QED  BY <1>1, <1>2, <1>3, <1>4 DEF Typed

(* A piece that is put where it belongs.                                   *)
Belongs(c, piece) == piece.part # "end" => c = Wire(piece.record) /\ Proper(piece.record)
WiresOK == \A c \in Conns : \A i \in DOMAIN stream[c] : Belongs(c, stream[c][i])

LEMMA WiresInPlaces == PlacesOK => WiresOK
  BY DEF PlacesOK, WiresOK, Belongs

LEMMA AppendInPlace ==
    ASSUME NEW pieces \in Seq(Pieces), NEW c, NEW piece \in Pieces, Belongs(c, piece),
           \A i \in DOMAIN pieces : Belongs(c, pieces[i])
    PROVE  \A i \in DOMAIN Append(pieces, piece) : Belongs(c, Append(pieces, piece)[i])
  OBVIOUS

LEMMA TransmitInPlace ==
    ASSUME SocketsOK, WiresOK, NEW c \in Conns, NEW piece \in Pieces, Transmits(c, piece),
           Belongs(c, piece)
    PROVE  WiresOK'
<1> SUFFICES ASSUME NEW d \in Conns
             PROVE  \A i \in DOMAIN stream'[d] : Belongs(d, stream'[d][i])
  BY DEF WiresOK, Belongs, Wire, Proper, Final
<1>0. stream[d] \in Seq(Pieces) /\ \A i \in DOMAIN stream[d] : Belongs(d, stream[d][i])
  BY DEF SocketsOK, WiresOK
<1>1. CASE stream'[d] = stream[d]
  BY <1>0, <1>1
<1>2. CASE d = c /\ stream'[c] = Append(stream[c], piece)
  BY <1>0, <1>2, AppendInPlace
<1>3. QED  BY <1>1, <1>2, Transmission

LEMMA TransmitTypes ==
    ASSUME SocketsOK, WiresOK, NEW c \in Conns, NEW piece \in Pieces, Transmits(c, piece),
           Belongs(c, piece), receiver' = receiver
    PROVE  SocketsOK' /\ WiresOK'
<1>1. SocketsOK'
  BY Transmission DEF SocketsOK
<1>2. QED  BY <1>1, TransmitInPlace

LEMMA SenderTransmits ==
    ASSUME Typed, NEW s \in Senders, NEW part \in {"whole", "head", "tail"},
           Transmits(Conn[s], Part(Record(s), part)), receiver' = receiver
    PROVE  SocketsOK' /\ WiresOK'
<1>1. Part(Record(s), part) \in Pieces /\ Belongs(Conn[s], Part(Record(s), part))
  BY RecordOfSender, PartIsPiece DEF Typed, Belongs
<1>2. SocketsOK /\ WiresOK /\ Conn[s] \in Conns
  BY WiresInPlaces, ConnOfSender DEF Typed
<1>3. QED  BY <1>1, <1>2, TransmitTypes

LEMMA PlacesFrom ==
    ASSUME WiresOK', \A i \in DOMAIN queue' : Proper(queue'[i]),
           \A i \in DOMAIN written' : written'[i].kind = "log"
    PROVE  PlacesOK'
  BY DEF WiresOK, PlacesOK, Belongs

LEMMA TypesUnchanged ==
    ASSUME Typed, SendersOK', SocketsOK', WiresOK', UNCHANGED <<queue, written, before, missed>>
    PROVE  Typed'
<1>1. ListenerOK'
  BY DEF Typed, ListenerOK
<1>2. PlacesOK'
  BY PlacesFrom DEF Typed, PlacesOK
<1>3. QED  BY <1>1, <1>2 DEF Typed

LEMMA SendTypes ==
    ASSUME Typed, NEW s \in Senders, Emit(s) \/ EmitHead(s) \/ EmitTail(s)
    PROVE  Typed'
<1>1. SocketsOK' /\ WiresOK'
  BY SenderTransmits DEF Emit, EmitHead, EmitTail
<1>2. SendersOK'
  <2> USE DEF Typed, SendersOK
  <2>1. CASE Emit(s)
    BY <2>1 DEF Emit, Logs
  <2>2. CASE EmitHead(s)
    BY <2>2 DEF EmitHead, Logs
  <2>3. CASE EmitTail(s)
    BY <2>3 DEF EmitTail
  <2>4. QED  BY <2>1, <2>2, <2>3
<1>3. UNCHANGED <<queue, written, before, missed>>
  BY DEF Emit, EmitHead, EmitTail
<1>4. QED  BY <1>1, <1>2, <1>3, TypesUnchanged

LEMMA CrashTypes == ASSUME Typed, NEW s \in Senders, Crash(s) PROVE Typed'
<1>1. SendersOK'
  BY DEF Typed, SendersOK, Crash
<1> DEFINE end == Part(NoRecord, "end")
<1>2. SocketsOK /\ WiresOK /\ Conn[s] \in Conns
  BY WiresInPlaces, ConnOfSender DEF Typed
<1>3. end \in Pieces /\ Belongs(Conn[s], end)
  BY EndIsPiece DEF Belongs
<1> HIDE DEF end
<1>4. stream' = stream \/ stream' = [stream EXCEPT ![Conn[s]] = Append(@, end)]
  BY DEF Crash, end
<1>5. Append(stream[Conn[s]], end) \in Seq(Pieces)
  BY <1>2, <1>3 DEF SocketsOK
<1>6. SocketsOK'
  BY <1>2, <1>4, <1>5 DEF SocketsOK, Crash
<1>7. WiresOK'
  <2> SUFFICES ASSUME NEW d \in Conns
               PROVE  \A i \in DOMAIN stream'[d] : Belongs(d, stream'[d][i])
    BY DEF WiresOK, Belongs, Wire, Proper, Final
  <2>0. stream[d] \in Seq(Pieces) /\ \A i \in DOMAIN stream[d] : Belongs(d, stream[d][i])
    BY <1>2 DEF SocketsOK, WiresOK
  <2>1. CASE stream'[d] = stream[d]
    BY <2>0, <2>1
  <2>2. CASE d = Conn[s] /\ stream'[d] = Append(stream[d], end)
    BY <1>3, <2>0, <2>2, AppendInPlace
  <2>3. QED  BY <1>2, <1>4, <2>1, <2>2 DEF SocketsOK
<1>8. QED  BY <1>1, <1>6, <1>7, TypesUnchanged DEF Crash

(* The thread of a connection takes the first piece off, and when that     *)
(* completes a frame it puts the record in the queue.                      *)
LEMMA Reception ==
    ASSUME Typed, NEW c \in Conns, Receive(c)
    PROVE  /\ stream[c] \in Seq(Pieces) /\ stream[c] # <<>> /\ Head(stream[c]) \in Pieces
           /\ stream' = [stream EXCEPT ![c] = Tail(stream[c])]
           /\ \A d \in Conns \ {c} : receiver'[d] = receiver[d] /\ stream'[d] = stream[d]
           /\ receiver' \in [Conns -> Receivers] /\ stream' \in [Conns -> Seq(Pieces)]
           /\ receiver[c].pc = "read"
           /\ \/ /\ Carries(Head(stream[c])) /\ Head(stream[c]).record \in Records
                 /\ queue' = Append(queue, Head(stream[c]).record)
                 /\ receiver'[c].pc = "read"
              \/ /\ queue' = queue
                 /\ Carries(Head(stream[c])) => receiver'[c].pc = "garbled"
                 /\ receiver'[c].pc = "ended" => Head(stream[c]).part = "end"
<1>1. stream[c] \in Seq(Pieces) /\ stream[c] # <<>> /\ stream \in [Conns -> Seq(Pieces)]
  BY DEF Typed, SocketsOK, Receive
<1> DEFINE piece == Head(stream[c])
           begins == piece.part = "head" /\ receiver[c].of = NoRecord
<1>2. piece \in Pieces /\ Tail(stream[c]) \in Seq(Pieces)
  BY <1>1
<1>3. stream' = [stream EXCEPT ![c] = Tail(stream[c])]
  BY <1>1 DEF Receive
<1>4. receiver \in [Conns -> Receivers] /\ receiver[c].pc = "read"
  BY DEF Typed, SocketsOK, Receive
<1>5. /\ receiver' = [receiver EXCEPT ![c] =
            CASE Delivered(c) -> [pc |-> "read", of |-> NoRecord]
              [] begins -> [pc |-> "read", of |-> piece.record]
              [] piece.part = "end" -> [pc |-> "ended", of |-> NoRecord]
              [] OTHER -> [pc |-> "garbled", of |-> NoRecord]]
      /\ queue' = IF Delivered(c) THEN Append(queue, piece.record) ELSE queue
  BY DEF Receive
<1>6. Delivered(c) => piece.part \in {"whole", "tail"}
  BY DEF Delivered
<1> HIDE DEF piece
<1>7. /\ piece.part \in {"whole", "head", "tail", "end"}
      /\ piece.part # "end" => piece.record \in Records
  BY <1>2, PieceSorts
<1> DEFINE next == CASE Delivered(c) -> [pc |-> "read", of |-> NoRecord]
              [] begins -> [pc |-> "read", of |-> piece.record]
              [] piece.part = "end" -> [pc |-> "ended", of |-> NoRecord]
              [] OTHER -> [pc |-> "garbled", of |-> NoRecord]
<1>8. /\ next \in Receivers
      /\ Delivered(c) => next.pc = "read"
      /\ ~Delivered(c) /\ piece.part \in {"whole", "tail"} => next.pc = "garbled"
      /\ next.pc = "ended" => piece.part = "end"
  <2>1. CASE Delivered(c)
    BY <1>6, <2>1 DEF Receivers
  <2>2. CASE ~Delivered(c) /\ begins
    BY <1>7, <2>2 DEF Receivers
  <2>3. CASE ~Delivered(c) /\ piece.part = "end"
    BY <1>7, <2>3 DEF Receivers
  <2>4. CASE ~Delivered(c) /\ ~begins /\ piece.part # "end"
    BY <1>7, <2>4 DEF Receivers
  <2>5. QED  BY <2>1, <2>2, <2>3, <2>4
<1>9. receiver' = [receiver EXCEPT ![c] = next]
  BY <1>5
<1> HIDE DEF next
<1>10. /\ receiver' \in [Conns -> Receivers] /\ receiver'[c] = next
       /\ \A d \in Conns \ {c} : receiver'[d] = receiver[d]
  BY <1>4, <1>8, <1>9
<1>11. stream' \in [Conns -> Seq(Pieces)] /\ \A d \in Conns \ {c} : stream'[d] = stream[d]
  BY <1>1, <1>2, <1>3
<1>12. \/ /\ Carries(piece) /\ piece.record \in Records
          /\ queue' = Append(queue, piece.record)
          /\ receiver'[c].pc = "read"
       \/ /\ queue' = queue
          /\ Carries(piece) => receiver'[c].pc = "garbled"
          /\ receiver'[c].pc = "ended" => piece.part = "end"
  <2>1. CASE Delivered(c)
    BY <1>5, <1>6, <1>7, <1>8, <1>10, <2>1 DEF Carries
  <2>2. CASE ~Delivered(c)
    BY <1>5, <1>8, <1>10, <2>2 DEF Carries
  <2>3. QED  BY <2>1, <2>2
<1>13. QED
  BY <1>1, <1>2, <1>3, <1>4, <1>10, <1>11, <1>12 DEF piece

LEMMA ReceiveTypes == ASSUME Typed, NEW c \in Conns, Receive(c) PROVE Typed'
<1>1. SendersOK' /\ connection' = connection /\ UNCHANGED <<written, before, missed>>
  BY DEF Typed, SendersOK, Receive, processes
<1>2. SocketsOK'
  BY <1>1, Reception DEF Typed, SocketsOK
<1>3. WiresOK
  BY WiresInPlaces DEF Typed
<1>4. WiresOK'
  <2> SUFFICES ASSUME NEW d \in Conns
               PROVE  \A i \in DOMAIN stream'[d] : Belongs(d, stream'[d][i])
    BY DEF WiresOK, Belongs, Wire, Proper, Final
  <2>1. stream[d] \in Seq(Pieces) /\ \A i \in DOMAIN stream[d] : Belongs(d, stream[d][i])
    BY <1>3 DEF WiresOK, Typed, SocketsOK
  <2>2. CASE d # c
    BY <2>1, <2>2, Reception
  <2>3. CASE d = c
    <3>1. stream'[c] = Tail(stream[c]) /\ stream[c] # <<>> /\ stream[c] \in Seq(Pieces)
      BY Reception DEF Typed, SocketsOK
    <3>2. \A i \in DOMAIN Tail(stream[c]) :
            i + 1 \in DOMAIN stream[c] /\ Tail(stream[c])[i] = stream[c][i + 1]
      BY <3>1
    <3>3. QED  BY <2>1, <2>3, <3>1, <3>2
  <2>4. QED  BY <2>2, <2>3
<1>5. queue' \in Seq(Records) /\ \A i \in DOMAIN queue' : Proper(queue'[i])
  <2>1. CASE queue' = queue
    BY <2>1 DEF Typed, ListenerOK, PlacesOK
  <2> DEFINE record == Head(stream[c]).record
  <2>2. CASE Carries(Head(stream[c])) /\ record \in Records /\ queue' = Append(queue, record)
    <3>1. 1 \in DOMAIN stream[c] /\ Head(stream[c]) = stream[c][1]
      BY Reception
    <3>2. Proper(record)
      BY <1>3, <2>2, <3>1 DEF WiresOK, Belongs, Carries
    <3> HIDE DEF record
    <3>3. queue \in Seq(Records) /\ \A i \in DOMAIN queue : Proper(queue[i])
      BY DEF Typed, ListenerOK, PlacesOK
    <3>4. QED  BY <2>2, <3>2, <3>3
  <2>3. QED  BY <2>1, <2>2, Reception
<1>6. ListenerOK'
  BY <1>1, <1>5 DEF Typed, ListenerOK
<1>7. PlacesOK'
  BY <1>1, <1>4, <1>5, PlacesFrom DEF Typed, PlacesOK
<1>8. QED  BY <1>1, <1>2, <1>6, <1>7 DEF Typed

(* The listener takes the first record off the queue, and it writes it or  *)
(* sends it round.                                                         *)
LEMMA Processing ==
    ASSUME Typed, ProcessRecord
    PROVE  /\ queue \in Seq(Records) /\ queue # <<>> /\ Head(queue) \in Records
           /\ queue' = Tail(queue) /\ queue' \in Seq(Records) /\ Proper(Head(queue))
           /\ \/ /\ Head(queue).kind = "log" /\ written' = Append(written, Head(queue))
                 /\ UNCHANGED sockets
              \/ /\ Head(queue).kind = "extension" /\ written' = written
                 /\ Transmits(Conn[Main], Part(AsWritten(Head(queue)), "whole"))
<1>1. queue \in Seq(Records) /\ queue # <<>> /\ queue' = Tail(queue)
  BY DEF Typed, ListenerOK, ProcessRecord
<1>2. Head(queue) \in Records /\ Tail(queue) \in Seq(Records)
  BY <1>1
<1>3. Head(queue) = queue[1] /\ 1 \in DOMAIN queue
  BY <1>1
<1>4. Proper(Head(queue))
  BY <1>3 DEF Typed, PlacesOK
<1>5. \/ /\ Head(queue).kind = "log" /\ written' = Append(written, Head(queue))
         /\ UNCHANGED sockets
      \/ /\ Head(queue).kind = "extension" /\ written' = written
         /\ Transmits(Conn[Main], Part(AsWritten(Head(queue)), "whole"))
  BY DEF ProcessRecord, WrittenAfter
<1>6. QED  BY <1>1, <1>2, <1>4, <1>5

LEMMA RoundPiece ==
    ASSUME NEW record \in Records, Proper(record), record.kind = "extension"
    PROVE  /\ Part(AsWritten(record), "whole") \in Pieces
           /\ Belongs(Conn[Main], Part(AsWritten(record), "whole"))
  BY SentRound, PartIsPiece DEF Belongs, Wire, Final, Proper

LEMMA ProcessTypes == ASSUME Typed, ProcessRecord PROVE SendersOK' /\ SocketsOK' /\ PlacesOK' /\
    queue' \in Seq(Records) /\ written' \in Seq(Records)
<1>1. SendersOK' /\ receiver' = receiver
  BY DEF Typed, SendersOK, ProcessRecord, processes
<1>2. SocketsOK /\ WiresOK /\ written \in Seq(Records)
  BY WiresInPlaces DEF Typed, ListenerOK
<1>3. \A i \in DOMAIN queue' : Proper(queue'[i])
  <2>1. queue \in Seq(Records) /\ queue # <<>> /\ queue' = Tail(queue)
    BY Processing
  <2>2. \A i \in DOMAIN queue' : i + 1 \in DOMAIN queue /\ queue'[i] = queue[i + 1]
    BY <2>1
  <2>3. QED  BY <2>2 DEF Typed, PlacesOK
<1>4. CASE Head(queue).kind = "log" /\ written' = Append(written, Head(queue)) /\ UNCHANGED sockets
  <2>1. SocketsOK' /\ WiresOK'
    BY <1>1, <1>2, <1>4 DEF sockets, SocketsOK, WiresOK
  <2>2. written' \in Seq(Records) /\ \A i \in DOMAIN written' : written'[i].kind = "log"
    BY <1>2, <1>4, Processing DEF Typed, PlacesOK
  <2>3. QED  BY <1>1, <1>3, <2>1, <2>2, PlacesFrom, Processing
<1>5. CASE /\ Head(queue).kind = "extension" /\ written' = written
           /\ Transmits(Conn[Main], Part(AsWritten(Head(queue)), "whole"))
  <2>1. SocketsOK' /\ WiresOK'
    BY <1>1, <1>2, <1>5, Processing, RoundPiece, MainSender, TransmitTypes
  <2>2. written' \in Seq(Records) /\ \A i \in DOMAIN written' : written'[i].kind = "log"
    BY <1>2, <1>5 DEF Typed, PlacesOK
  <2>3. QED  BY <1>1, <1>3, <2>1, <2>2, PlacesFrom, Processing
<1>6. QED  BY <1>4, <1>5, Processing

(* What is taken down when the logger is closed.                           *)
LEMMA Recorded ==
    ASSUME Typed, Close
    PROVE  \A record \in before' : \E s \in Senders : \E n \in 1 .. sent[s] : record = Logged(s, n)
<1> DEFINE of(s) == {AsWritten([Record(s) EXCEPT !.n = n]) : n \in 1 .. sent[s]}
<1>1. before' = UNION {of(s) : s \in Senders}
  BY DEF Close
<1>2. ASSUME NEW s \in Senders, NEW record \in of(s)
      PROVE  \E n \in 1 .. sent[s] : record = Logged(s, n)
  <2>1. PICK n \in 1 .. sent[s] : record = AsWritten([Record(s) EXCEPT !.n = n])
    BY <1>2
  <2>2. Record(s) \in Records /\ Record(s).from = s /\ n \in Nat
    BY RecordOfSender DEF Typed, SendersOK
  <2>3. [Record(s) EXCEPT !.n = n] \in Records
    BY <2>2 DEF Records
  <2>4. [Record(s) EXCEPT !.n = n].from = s /\ [Record(s) EXCEPT !.n = n].n = n
    BY <2>2 DEF Records
  <2>5. record = Logged(s, n)
    BY <2>1, <2>3, <2>4, SentRound
  <2>6. QED  BY <2>5
<1> HIDE DEF of
<1>3. \A record \in before' : \E s \in Senders : record \in of(s)
  BY <1>1
<1>4. QED  BY <1>2, <1>3

LEMMA BeforeTypes == ASSUME Typed, Close PROVE before' \subseteq Records
<1>1. ASSUME NEW s \in Senders, NEW n \in 1 .. sent[s] PROVE Logged(s, n) \in Records
  BY DEF Typed, SendersOK, Logged, Records
<1>2. QED  BY <1>1, Recorded

LEMMA TypesStep == ASSUME Typed, [Next]_vars PROVE Typed'
<1>1. ASSUME UNCHANGED <<processes, connection, stream, receiver, queue, written, before, missed>>
      PROVE  Typed'
  <2>1. SendersOK' /\ SocketsOK' /\ WiresOK'
    BY <1>1, WiresInPlaces DEF Typed, SendersOK, SocketsOK, WiresOK, processes
  <2>2. QED  BY <1>1, <2>1, TypesUnchanged
<1>2. CASE UNCHANGED vars
  BY <1>1, <1>2 DEF vars, sockets
<1>3. CASE Bind \/ HandedOver \/ ShutdownSeen \/ Drained \/ Raises \/ TakeAddress \/ Joined
  BY <1>1, <1>3
     DEF Bind, HandedOver, ShutdownSeen, Drained, Raises, TakeAddress, Joined, sockets
<1>4. CASE Listen
  <2>1. ListenerOK'
    BY <1>4, ProcessTypes DEF Listen, ProcessRecord, Typed, ListenerOK
  <2>2. QED  BY <1>4, <2>1, ProcessTypes DEF Listen, Typed
<1>5. CASE Drain
  <2>1. missed' \subseteq Records /\ before' = before
    BY <1>5, Processing, SentRound DEF Drain, ProcessRecord, Typed, ListenerOK
  <2>2. ListenerOK'
    BY <1>5, <2>1, ProcessTypes DEF Drain, Typed, ListenerOK
  <2>3. QED  BY <1>5, <2>2, ProcessTypes DEF Drain, Typed
<1>13. CASE Slept
  <2>1. SendersOK' /\ SocketsOK' /\ WiresOK' /\ UNCHANGED <<queue, written, before>>
    BY <1>13, WiresInPlaces
       DEF Slept, Typed, SendersOK, SocketsOK, WiresOK, processes, sockets, Belongs
  <2>2. missed' \subseteq Records
    BY <1>13 DEF Slept, UnderWay, Typed, ListenerOK
  <2>3. ListenerOK'
    BY <2>1, <2>2 DEF Typed, ListenerOK
  <2>4. PlacesOK'
    BY <2>1, PlacesFrom DEF Typed, PlacesOK
  <2>5. QED  BY <2>1, <2>3, <2>4 DEF Typed
<1>6. CASE Close
  <2>1. before' \subseteq Records /\ UNCHANGED <<processes, sockets, receiver, queue, written, missed>>
    BY <1>6, BeforeTypes DEF Close
  <2>2. SendersOK' /\ SocketsOK' /\ WiresOK'
    BY <2>1, WiresInPlaces DEF Typed, SendersOK, SocketsOK, WiresOK, processes, sockets
  <2>3. ListenerOK' /\ PlacesOK'
    BY <2>1, <2>2, PlacesFrom DEF Typed, ListenerOK, PlacesOK
  <2>4. QED  BY <2>2, <2>3 DEF Typed
<1>7. CASE \E s \in Senders : Emit(s) \/ EmitHead(s) \/ EmitTail(s) \/ Crash(s)
  BY <1>7, SendTypes, CrashTypes
<1>8. CASE \E c \in Conns : Receive(c)
  BY <1>8, ReceiveTypes
<1>9. QED
  BY <1>13, <1>2, <1>3, <1>4, <1>5, <1>6, <1>7, <1>8 DEF Next, ListenerNext

-----------------------------------------------------------------------------
(* What appending and taking off do to the numbers of a sequence of        *)
(* records, and to those of a sequence of pieces.                          *)
LEMMA InNumbers ==
    ASSUME NEW records, NEW s, NEW kind, NEW m
    PROVE  m \in NumbersIn(records, s, kind) <=>
             \E i \in DOMAIN records :
               records[i].from = s /\ records[i].kind = kind /\ m = records[i].n
  BY DEF NumbersIn

LEMMA OnNumbers ==
    ASSUME NEW pieces, NEW s, NEW kind, NEW m
    PROVE  m \in NumbersOn(pieces, s, kind) <=>
             \E i \in DOMAIN pieces :
               /\ Carries(pieces[i]) /\ m = pieces[i].record.n
               /\ pieces[i].record.from = s /\ pieces[i].record.kind = kind
  BY DEF NumbersOn

LEMMA AppendedIn ==
    ASSUME NEW records \in Seq(Records), NEW r \in Records, NEW s, NEW kind, NEW m
    PROVE  m \in NumbersIn(Append(records, r), s, kind) <=>
             \/ m \in NumbersIn(records, s, kind)
             \/ r.from = s /\ r.kind = kind /\ m = r.n
<1> DEFINE after == Append(records, r)
<1>1. /\ DOMAIN after = DOMAIN records \cup {Len(records) + 1}
      /\ \A i \in DOMAIN records : after[i] = records[i]
      /\ after[Len(records) + 1] = r
  OBVIOUS
<1> HIDE DEF after
<1>2. m \in NumbersIn(after, s, kind) <=>
        \/ m \in NumbersIn(records, s, kind)
        \/ r.from = s /\ r.kind = kind /\ m = r.n
  BY <1>1, InNumbers
<1>3. QED  BY <1>2 DEF after

LEMMA AppendedOn ==
    ASSUME NEW pieces \in Seq(Pieces), NEW piece \in Pieces, NEW s, NEW kind, NEW m
    PROVE  m \in NumbersOn(Append(pieces, piece), s, kind) <=>
             \/ m \in NumbersOn(pieces, s, kind)
             \/ /\ Carries(piece) /\ m = piece.record.n
                /\ piece.record.from = s /\ piece.record.kind = kind
<1> DEFINE after == Append(pieces, piece)
<1>1. /\ DOMAIN after = DOMAIN pieces \cup {Len(pieces) + 1}
      /\ \A i \in DOMAIN pieces : after[i] = pieces[i]
      /\ after[Len(pieces) + 1] = piece
  OBVIOUS
<1> HIDE DEF after
<1>2. m \in NumbersOn(after, s, kind) <=>
        \/ m \in NumbersOn(pieces, s, kind)
        \/ /\ Carries(piece) /\ m = piece.record.n
           /\ piece.record.from = s /\ piece.record.kind = kind
  BY <1>1, OnNumbers
<1>3. QED  BY <1>2 DEF after

LEMMA TailPlaces ==
    ASSUME NEW S, NEW seq \in Seq(S), seq # <<>>
    PROVE  /\ 1 \in DOMAIN seq /\ Head(seq) = seq[1]
           /\ \A i \in DOMAIN Tail(seq) : i + 1 \in DOMAIN seq /\ Tail(seq)[i] = seq[i + 1] /\ i \in Nat /\ 1 < i + 1
           /\ \A i, j \in DOMAIN Tail(seq) : i < j => i + 1 < j + 1
  OBVIOUS

LEMMA TakenFrom ==
    ASSUME NEW records \in Seq(Records), records # <<>>, Rising(records), NEW s, NEW kind,
           NEW m \in NumbersIn(Tail(records), s, kind)
    PROVE  /\ m \in NumbersIn(records, s, kind)
           /\ Head(records).from = s /\ Head(records).kind = kind => Head(records).n < m
<1>1. PICK i \in DOMAIN Tail(records) :
        /\ Tail(records)[i].from = s /\ Tail(records)[i].kind = kind
        /\ m = Tail(records)[i].n
  BY DEF NumbersIn
<1>2. /\ 1 \in DOMAIN records /\ Head(records) = records[1]
      /\ i + 1 \in DOMAIN records /\ Tail(records)[i] = records[i + 1] /\ 1 < i + 1
  BY TailPlaces
<1>3. m \in NumbersIn(records, s, kind)
  BY <1>1, <1>2, InNumbers
<1>4. QED  BY <1>1, <1>2, <1>3 DEF Rising

LEMMA HeadIn ==
    ASSUME NEW records \in Seq(Records), records # <<>>
    PROVE  Head(records).n \in NumbersIn(records, Head(records).from, Head(records).kind)
  BY TailPlaces, InNumbers

LEMMA TakenOff ==
    ASSUME NEW pieces \in Seq(Pieces), pieces # <<>>, RisingOn(pieces), NEW s, NEW kind,
           NEW m \in NumbersOn(Tail(pieces), s, kind)
    PROVE  /\ m \in NumbersOn(pieces, s, kind)
           /\ /\ Carries(Head(pieces))
              /\ Head(pieces).record.from = s /\ Head(pieces).record.kind = kind
              => Head(pieces).record.n < m
<1>1. PICK i \in DOMAIN Tail(pieces) :
        /\ Carries(Tail(pieces)[i]) /\ m = Tail(pieces)[i].record.n
        /\ Tail(pieces)[i].record.from = s /\ Tail(pieces)[i].record.kind = kind
  BY DEF NumbersOn
<1>2. /\ 1 \in DOMAIN pieces /\ Head(pieces) = pieces[1]
      /\ i + 1 \in DOMAIN pieces /\ Tail(pieces)[i] = pieces[i + 1] /\ 1 < i + 1
  BY TailPlaces
<1>3. m \in NumbersOn(pieces, s, kind)
  BY <1>1, <1>2, OnNumbers
<1>4. QED  BY <1>1, <1>2, <1>3 DEF RisingOn

LEMMA HeadOn ==
    ASSUME NEW pieces \in Seq(Pieces), pieces # <<>>, Carries(Head(pieces))
    PROVE  Head(pieces).record.n \in
             NumbersOn(pieces, Head(pieces).record.from, Head(pieces).record.kind)
  BY TailPlaces, OnNumbers

LEMMA NumbersAreNumbers ==
    /\ \A records \in Seq(Records) : \A s, kind : NumbersIn(records, s, kind) \subseteq Nat
    /\ \A pieces \in Seq(Pieces) : \A s, kind : NumbersOn(pieces, s, kind) \subseteq Nat
<1>1. ASSUME NEW records \in Seq(Records), NEW s, NEW kind, NEW m \in NumbersIn(records, s, kind)
      PROVE  m \in Nat
  <2>1. PICK i \in DOMAIN records : m = records[i].n
    BY <1>1, InNumbers
  <2>2. records[i] \in Records
    OBVIOUS
  <2>3. QED  BY <2>1, <2>2 DEF Records
<1>2. ASSUME NEW pieces \in Seq(Pieces), NEW s, NEW kind, NEW m \in NumbersOn(pieces, s, kind)
      PROVE  m \in Nat
  <2>1. PICK i \in DOMAIN pieces : Carries(pieces[i]) /\ m = pieces[i].record.n
    BY <1>2, OnNumbers
  <2>2. pieces[i] \in Pieces
    OBVIOUS
  <2>3. pieces[i].record \in Records
    BY <2>1, <2>2, PieceSorts DEF Carries
  <2>4. QED  BY <2>1, <2>3 DEF Records
<1>3. QED  BY <1>1, <1>2

LEMMA AppendRising ==
    ASSUME NEW records \in Seq(Records), Rising(records), NEW r \in Records,
           \A m \in NumbersIn(records, r.from, r.kind) : m < r.n
    PROVE  Rising(Append(records, r))
<1> DEFINE after == Append(records, r)
<1>1. /\ DOMAIN after = DOMAIN records \cup {Len(records) + 1}
      /\ \A i \in DOMAIN records : after[i] = records[i] /\ i \in Nat /\ i < Len(records) + 1
      /\ after[Len(records) + 1] = r
  OBVIOUS
<1>2. SUFFICES ASSUME NEW i \in DOMAIN after, NEW j \in DOMAIN after, i < j,
                      after[i].from = after[j].from, after[i].kind = after[j].kind
               PROVE  after[i].n < after[j].n
  BY DEF Rising
<1> HIDE DEF after
<1>3. i \in DOMAIN records
  BY <1>1, <1>2
<1>4. CASE j \in DOMAIN records
  BY <1>1, <1>2, <1>3, <1>4 DEF Rising
<1>5. CASE j = Len(records) + 1
  BY <1>1, <1>2, <1>3, <1>5, InNumbers
<1>6. QED  BY <1>1, <1>4, <1>5

LEMMA AppendRisingOn ==
    ASSUME NEW pieces \in Seq(Pieces), RisingOn(pieces), NEW piece \in Pieces,
           Carries(piece) =>
             \A m \in NumbersOn(pieces, piece.record.from, piece.record.kind) : m < piece.record.n
    PROVE  RisingOn(Append(pieces, piece))
<1> DEFINE after == Append(pieces, piece)
<1>1. /\ DOMAIN after = DOMAIN pieces \cup {Len(pieces) + 1}
      /\ \A i \in DOMAIN pieces : after[i] = pieces[i] /\ i \in Nat /\ i < Len(pieces) + 1
      /\ after[Len(pieces) + 1] = piece
  OBVIOUS
<1>2. SUFFICES ASSUME NEW i \in DOMAIN after, NEW j \in DOMAIN after, i < j,
                      Carries(after[i]), Carries(after[j]),
                      after[i].record.from = after[j].record.from,
                      after[i].record.kind = after[j].record.kind
               PROVE  after[i].record.n < after[j].record.n
  BY DEF RisingOn
<1> HIDE DEF after
<1>3. i \in DOMAIN pieces
  BY <1>1, <1>2
<1>4. CASE j \in DOMAIN pieces
  BY <1>1, <1>2, <1>3, <1>4 DEF RisingOn
<1>5. CASE j = Len(pieces) + 1
  BY <1>1, <1>2, <1>3, <1>5, OnNumbers
<1>6. QED  BY <1>1, <1>4, <1>5

LEMMA TailRising ==
    ASSUME NEW records \in Seq(Records), records # <<>>, Rising(records)
    PROVE  Rising(Tail(records))
<1> DEFINE after == Tail(records)
<1>1. /\ \A i \in DOMAIN after : i + 1 \in DOMAIN records /\ after[i] = records[i + 1]
      /\ \A i, j \in DOMAIN after : i < j => i + 1 < j + 1
  BY TailPlaces
<1> HIDE DEF after
<1>2. Rising(after)
  BY <1>1 DEF Rising
<1>3. QED  BY <1>2 DEF after

LEMMA TailRisingOn ==
    ASSUME NEW pieces \in Seq(Pieces), pieces # <<>>, RisingOn(pieces)
    PROVE  RisingOn(Tail(pieces))
<1> DEFINE after == Tail(pieces)
<1>1. /\ \A i \in DOMAIN after : i + 1 \in DOMAIN pieces /\ after[i] = pieces[i + 1]
      /\ \A i, j \in DOMAIN after : i < j => i + 1 < j + 1
  BY TailPlaces
<1> HIDE DEF after
<1>2. RisingOn(after)
  BY <1>1 DEF RisingOn
<1>3. QED  BY <1>2 DEF after

-----------------------------------------------------------------------------
(* A way along which a number moves.                                       *)
Within(after, ahead) == \A p \in 1 .. 5 : after[p] \subseteq ahead[p]

LEMMA WithinOlder ==
    ASSUME NEW F, NEW G, NEW n \in Nat, NEW m \in Nat, Older(F), UpTo(F, n), Within(G, F), n <= m,
           \A p \in 1 .. 5 : F[p] \subseteq Nat
    PROVE  Older(G) /\ UpTo(G, m)
<1>1. Older(G)
  BY DEF Older, Within
<1>2. UpTo(G, m)
  <2> SUFFICES ASSUME NEW p \in 1 .. 5, NEW k \in G[p] PROVE k <= m
    BY DEF UpTo
  <2>1. k \in F[p] /\ k \in Nat
    BY DEF Within
  <2>2. k <= n
    BY <2>1 DEF UpTo
  <2>3. QED  BY <2>1, <2>2
<1>3. QED  BY <1>1, <1>2

(* The number moves from stage q to the one before it.                     *)
LEMMA MoveOn ==
    ASSUME NEW F, NEW G, NEW top \in Nat, Older(F), UpTo(F, top),
           \A p \in 1 .. 5 : F[p] \subseteq Nat,
           NEW q \in 2 .. 5, NEW n \in F[q],
           \A m \in G[q - 1] : m \in F[q - 1] \/ m = n,
           \A m \in G[q] : m \in F[q] /\ n < m,
           \A p \in (1 .. 5) \ {q, q - 1} : G[p] \subseteq F[p]
    PROVE  Older(G) /\ UpTo(G, top)
<1>1. ASSUME NEW p \in 1 .. 5, NEW m \in G[p]
      PROVE  m \in F[p] \/ (p = q - 1 /\ m = n)
  BY <1>1
<1>2. Older(G)
  <2> SUFFICES ASSUME NEW a \in 1 .. 5, NEW b \in 1 .. 5, a < b, NEW m \in G[a], NEW k \in G[b]
               PROVE  m < k
    BY DEF Older
  <2>1. CASE m \in F[a] /\ k \in F[b]
    BY <2>1 DEF Older
  <2>2. CASE a = q - 1 /\ m = n /\ k \in F[b] /\ b = q
    BY <2>2
  <2>3. CASE a = q - 1 /\ m = n /\ k \in F[b] /\ b > q
    BY <2>3 DEF Older
  <2>4. CASE b = q - 1 /\ k = n /\ m \in F[a]
    BY <2>4 DEF Older
  <2>5. QED  BY <1>1, <2>1, <2>2, <2>3, <2>4
<1>3. UpTo(G, top)
  BY <1>1 DEF UpTo
<1>4. QED  BY <1>2, <1>3

(* A number that is new comes in at the last stage that is used.           *)
LEMMA ComeIn ==
    ASSUME NEW F, NEW G, NEW n \in Nat, Older(F), UpTo(F, n),
           \A p \in 1 .. 5 : F[p] \subseteq Nat,
           NEW q \in 1 .. 5,
           \A m \in G[q] : m \in F[q] \/ m = n + 1,
           \A p \in (1 .. 5) \ {q} : G[p] \subseteq F[p],
           \A p \in 1 .. 5 : q < p => F[p] = {}
    PROVE  Older(G) /\ UpTo(G, n + 1)
<1>1. ASSUME NEW p \in 1 .. 5, NEW m \in G[p]
      PROVE  m \in F[p] \/ (p = q /\ m = n + 1)
  BY <1>1
<1>2. Older(G)
  <2> SUFFICES ASSUME NEW a \in 1 .. 5, NEW b \in 1 .. 5, a < b, NEW m \in G[a], NEW k \in G[b]
               PROVE  m < k
    BY DEF Older
  <2>1. CASE m \in F[a] /\ k \in F[b]
    BY <2>1 DEF Older
  <2>2. CASE b = q /\ k = n + 1 /\ m \in F[a]
    <3>1. m <= n /\ m \in Nat
      BY <2>2 DEF UpTo
    <3>2. QED  BY <2>2, <3>1
  <2>3. CASE a = q /\ k \in F[b]
    BY <2>3
  <2>4. QED  BY <1>1, <2>1, <2>2, <2>3
<1>3. UpTo(G, n + 1)
  <2> SUFFICES ASSUME NEW p \in 1 .. 5, NEW m \in G[p] PROVE m <= n + 1
    BY DEF UpTo
  <2>1. CASE m \in F[p]
    <3>1. m <= n /\ m \in Nat
      BY <2>1 DEF UpTo
    <3>2. QED  BY <3>1
  <2>2. QED  BY <1>1, <2>1
<1>4. QED  BY <1>2, <1>3

LEMMA WayNumbers ==
    ASSUME NEW file \in Seq(Records), NEW waiting \in Seq(Records), NEW round \in Seq(Pieces),
           NEW own \in Seq(Pieces), NEW s
    PROVE  \A p \in 1 .. 5 : WayOf(file, waiting, round, own, s)[p] \subseteq Nat
<1>1. /\ NumbersIn(file, s, "log") \subseteq Nat
      /\ NumbersIn(waiting, s, "log") \subseteq Nat /\ NumbersIn(waiting, s, "extension") \subseteq Nat
      /\ NumbersOn(round, s, "log") \subseteq Nat /\ NumbersOn(own, s, "extension") \subseteq Nat
  BY NumbersAreNumbers
<1>2. QED  BY <1>1 DEF WayOf

LEMMA FinalConn == ASSUME NEW s \in Senders PROVE Final(s) \in Conns
  BY ConnOfSender, MainSender DEF Final

LEMMA WayTyped ==
    ASSUME Typed, NEW s \in Senders
    PROVE  /\ \A p \in 1 .. 5 : Way(s)[p] \subseteq Nat
           /\ sent[s] \in Nat
<1>1. stream[Final(s)] \in Seq(Pieces) /\ stream[Conn[s]] \in Seq(Pieces)
  BY FinalConn, ConnOfSender DEF Typed, SocketsOK
<1>2. queue \in Seq(Records) /\ written \in Seq(Records) /\ sent[s] \in Nat
  BY DEF Typed, ListenerOK, SendersOK
<1>3. QED  BY <1>1, <1>2, WayNumbers DEF Way

(* Only extensions have records that are not handled.                      *)
LEMMA NoneOfOthers ==
    ASSUME Typed, NEW s \in Senders \ Extensions
    PROVE  Way(s)[4] = {} /\ Way(s)[5] = {}
<1>1. ASSUME NEW m \in NumbersIn(queue, s, "extension") PROVE FALSE
  BY <1>1, InNumbers DEF Typed, PlacesOK, Proper
<1>2. ASSUME NEW m \in NumbersOn(stream[Conn[s]], s, "extension") PROVE FALSE
  <2>1. PICK i \in DOMAIN stream[Conn[s]] :
          /\ Carries(stream[Conn[s]][i])
          /\ stream[Conn[s]][i].record.from = s /\ stream[Conn[s]][i].record.kind = "extension"
    BY <1>2, OnNumbers
  <2>2. Proper(stream[Conn[s]][i].record)
    BY <2>1, ConnOfSender DEF Typed, PlacesOK, Carries
  <2>3. QED  BY <2>1, <2>2 DEF Proper
<1>3. QED  BY <1>1, <1>2 DEF Way, WayOf

LEMMA OrderInit == Init => OrderInv
<1> SUFFICES ASSUME Init PROVE OrderInv
  OBVIOUS
<1>1. RisingOK
  BY DEF Init, RisingOK, Rising, RisingOn
<1>2. ASSUME NEW s \in Senders PROVE \A p \in 1 .. 5 : Way(s)[p] = {}
  <2>1. stream[Final(s)] = <<>> /\ stream[Conn[s]] = <<>> /\ queue = <<>> /\ written = <<>>
    BY FinalConn, ConnOfSender DEF Init
  <2>2. \A kind : NumbersIn(<<>>, s, kind) = {} /\ NumbersOn(<<>>, s, kind) = {}
    BY DEF NumbersIn, NumbersOn
  <2>3. QED  BY <2>1, <2>2 DEF Way, WayOf
<1>3. WaysOK
  BY <1>2 DEF WaysOK, Older, UpTo
<1>4. QED  BY <1>1, <1>3 DEF OrderInv

(* Connections on which nothing but one piece was added.                   *)
Adds(c, piece) ==
    \A d \in Conns : stream'[d] = stream[d] \/ (d = c /\ stream'[d] = Append(stream[d], piece))

LEMMA TransmitAdds ==
    ASSUME SocketsOK, NEW c \in Conns, NEW piece \in Pieces, Transmits(c, piece)
    PROVE  Adds(c, piece)
  BY Transmission DEF Adds

LEMMA AddedNumbers ==
    ASSUME SocketsOK, NEW c, NEW piece \in Pieces, Adds(c, piece), NEW d \in Conns,
           NEW s, NEW kind, NEW m \in NumbersOn(stream'[d], s, kind)
    PROVE  \/ m \in NumbersOn(stream[d], s, kind)
           \/ /\ d = c /\ Carries(piece) /\ m = piece.record.n
              /\ piece.record.from = s /\ piece.record.kind = kind
<1>1. stream[d] \in Seq(Pieces)
  BY DEF SocketsOK
<1>2. CASE stream'[d] = stream[d]
  BY <1>2
<1>3. CASE d = c /\ stream'[d] = Append(stream[d], piece)
  BY <1>1, <1>3, AppendedOn
<1>4. QED  BY <1>2, <1>3 DEF Adds

LEMMA AddedRising ==
    ASSUME SocketsOK, NEW c, NEW piece \in Pieces, Adds(c, piece), NEW d \in Conns,
           RisingOn(stream[d]),
           Carries(piece) =>
             \A m \in NumbersOn(stream[c], piece.record.from, piece.record.kind) : m < piece.record.n
    PROVE  RisingOn(stream'[d])
<1>1. stream[d] \in Seq(Pieces)
  BY DEF SocketsOK
<1>2. CASE stream'[d] = stream[d]
  BY <1>2
<1>3. CASE d = c /\ stream'[d] = Append(stream[d], piece)
  BY <1>1, <1>3, AppendRisingOn
<1>4. QED  BY <1>2, <1>3 DEF Adds

(* The way after a step, over unprimed values.                             *)
LEMMA WayAfter ==
    ASSUME NEW s
    PROVE  Way(s)' = WayOf(written', queue', stream'[Final(s)], stream'[Conn[s]], s)
  BY DEF Way, Final

LEMMA StepOlder ==
    ASSUME NEW s, Older(WayOf(written', queue', stream'[Final(s)], stream'[Conn[s]], s)),
           UpTo(WayOf(written', queue', stream'[Final(s)], stream'[Conn[s]], s), sent'[s])
    PROVE  Older(Way(s))' /\ UpTo(Way(s), sent[s])'
  BY WayAfter DEF Older, UpTo

(* Nothing new for a sender.                                               *)
LEMMA NothingNew ==
    ASSUME Typed, WaysOK, NEW s \in Senders, sent'[s] \in Nat, sent[s] <= sent'[s],
           \A m, kind : m \in NumbersIn(written', s, kind) => m \in NumbersIn(written, s, kind),
           \A m, kind : m \in NumbersIn(queue', s, kind) => m \in NumbersIn(queue, s, kind),
           \A d \in Conns : \A m, kind :
             m \in NumbersOn(stream'[d], s, kind) => m \in NumbersOn(stream[d], s, kind)
    PROVE  Older(Way(s))' /\ UpTo(Way(s), sent[s])'
<1> DEFINE F == Way(s)
           G == WayOf(written', queue', stream'[Final(s)], stream'[Conn[s]], s)
<1>1. Within(G, F)
  BY FinalConn, ConnOfSender DEF Within, Way, WayOf
<1>2. Older(F) /\ UpTo(F, sent[s]) /\ (\A p \in 1 .. 5 : F[p] \subseteq Nat) /\ sent[s] \in Nat
  BY WayTyped DEF WaysOK
<1> HIDE DEF F, G
<1>3. Older(G) /\ UpTo(G, sent'[s])
  BY <1>1, <1>2, WithinOlder
<1>4. QED  BY <1>3, StepOlder DEF G

(* A sender adds the number that follows.                                  *)
LEMMA SendOrder ==
    ASSUME Typed, OrderInv, NEW s \in Senders, NEW part \in {"whole", "tail"},
           Transmits(Conn[s], Part(Record(s), part)), sent' = [sent EXCEPT ![s] = @ + 1],
           UNCHANGED <<queue, written>>
    PROVE  OrderInv'
<1> DEFINE piece == Part(Record(s), part)
           c == Conn[s]
           kind == IF s \in Extensions THEN "extension" ELSE "log"
           q == IF s \in Extensions THEN 5 ELSE 3
           F == Way(s)
           G == WayOf(written', queue', stream'[Final(s)], stream'[Conn[s]], s)
<1>1. /\ piece \in Pieces /\ Carries(piece) /\ piece.record.from = s
      /\ piece.record.n = sent[s] + 1 /\ piece.record.kind = kind
  BY RecordOfSender, PartIsPiece DEF Typed, Carries
<1>2. SocketsOK /\ c \in Conns /\ WaysOK /\ RisingOK
  BY ConnOfSender DEF Typed, OrderInv
<1>3. Adds(c, piece)
  BY <1>1, <1>2, TransmitAdds
<1>4. /\ Older(F) /\ UpTo(F, sent[s]) /\ (\A p \in 1 .. 5 : F[p] \subseteq Nat) /\ sent[s] \in Nat
      /\ \A p \in 1 .. 5 : q < p => F[p] = {}
  <2>1. \A p \in 1 .. 5 : q < p => F[p] = {}
    <3>1. CASE s \in Extensions
      BY <3>1
    <3>2. CASE s \notin Extensions
      BY <3>2, NoneOfOthers
    <3>3. QED  BY <3>1, <3>2
  <2>2. QED  BY <1>2, <2>1, WayTyped DEF WaysOK
<1>5. F[q] = NumbersOn(stream[c], s, kind)
  BY DEF Way, WayOf, Final
<1> HIDE DEF piece
<1>6. \A m \in NumbersOn(stream[c], s, kind) : m < sent[s] + 1
  <2>1. q \in 1 .. 5
    OBVIOUS
  <2>2. \A m \in F[q] : m <= sent[s] /\ m \in Nat
    BY <1>4, <2>1 DEF UpTo
  <2>3. QED  BY <1>4, <1>5, <2>2
<1>7. RisingOK'
  <2>1. \A d \in Conns : RisingOn(stream'[d])
    BY <1>1, <1>2, <1>3, <1>6, AddedRising DEF RisingOK
  <2>2. QED  BY <1>2, <2>1 DEF RisingOK, Rising, RisingOn, Carries
<1>8. Older(Way(s))' /\ UpTo(Way(s), sent[s])'
  <2>0. /\ Final(s) \in Conns /\ c \in Conns
        /\ \A m : m \in NumbersOn(stream'[Final(s)], s, "log") =>
             \/ m \in NumbersOn(stream[Final(s)], s, "log")
             \/ kind = "log" /\ m = sent[s] + 1
        /\ \A m : m \in NumbersOn(stream'[c], s, "extension") =>
             \/ m \in NumbersOn(stream[c], s, "extension")
             \/ kind = "extension" /\ m = sent[s] + 1
    BY <1>1, <1>2, <1>3, FinalConn, AddedNumbers
  <2>1. \A m \in G[q] : m \in F[q] \/ m = sent[s] + 1
    BY <2>0 DEF Way, WayOf
  <2>2. \A p \in (1 .. 5) \ {q} : G[p] \subseteq F[p]
    BY <2>0 DEF Way, WayOf
  <2>3. q \in 1 .. 5
    OBVIOUS
  <2> HIDE DEF F, G, q
  <2>4. Older(G) /\ UpTo(G, sent[s] + 1)
    BY <1>4, <2>1, <2>2, <2>3, ComeIn
  <2>5. sent'[s] = sent[s] + 1
    BY DEF Typed, SendersOK
  <2>6. QED  BY <2>4, <2>5, StepOlder DEF G
<1>9. ASSUME NEW t \in Senders, t # s PROVE Older(Way(t))' /\ UpTo(Way(t), sent[t])'
  <2>1. sent'[t] = sent[t] /\ sent[t] \in Nat
    BY <1>9 DEF Typed, SendersOK
  <2>2. \A d \in Conns : \A m, k : m \in NumbersOn(stream'[d], t, k) => m \in NumbersOn(stream[d], t, k)
    BY <1>1, <1>2, <1>3, <1>9, AddedNumbers
  <2>3. QED  BY <1>2, <2>1, <2>2, NothingNew
<1>10. WaysOK'
  BY <1>8, <1>9 DEF WaysOK
<1>11. QED  BY <1>7, <1>10 DEF OrderInv

(* A part of a frame that does not complete it adds no number.             *)
LEMMA QuietOrder ==
    ASSUME Typed, OrderInv, NEW c, NEW piece \in Pieces, ~Carries(piece), Adds(c, piece),
           UNCHANGED <<sent, queue, written>>
    PROVE  OrderInv'
<1>1. SocketsOK /\ WaysOK /\ RisingOK
  BY DEF Typed, OrderInv
<1>2. RisingOK'
  <2>1. \A d \in Conns : RisingOn(stream'[d])
    BY <1>1, AddedRising DEF RisingOK
  <2>2. QED  BY <1>1, <2>1 DEF RisingOK, Rising, RisingOn, Carries
<1>3. ASSUME NEW t \in Senders PROVE Older(Way(t))' /\ UpTo(Way(t), sent[t])'
  <2>1. sent'[t] = sent[t] /\ sent[t] \in Nat
    BY DEF Typed, SendersOK
  <2>2. \A d \in Conns : \A m, k : m \in NumbersOn(stream'[d], t, k) => m \in NumbersOn(stream[d], t, k)
    BY <1>1, AddedNumbers
  <2>3. QED  BY <1>1, <2>1, <2>2, NothingNew
<1>4. QED  BY <1>2, <1>3 DEF OrderInv, WaysOK

LEMMA ReceiveOrder == ASSUME Typed, OrderInv, NEW c \in Conns, Receive(c) PROVE OrderInv'
<1> DEFINE piece == Head(stream[c])
           record == piece.record
<1>1. /\ stream[c] \in Seq(Pieces) /\ stream[c] # <<>> /\ piece \in Pieces
      /\ stream'[c] = Tail(stream[c]) /\ \A d \in Conns \ {c} : stream'[d] = stream[d]
  BY Reception DEF Typed, SocketsOK
<1>2. sent' = sent /\ written' = written
  BY DEF Receive, processes
<1>3. /\ WaysOK /\ RisingOK /\ queue \in Seq(Records)
      /\ \A d \in Conns : stream[d] \in Seq(Pieces) /\ RisingOn(stream[d])
  BY DEF Typed, SocketsOK, ListenerOK, OrderInv, RisingOK
<1>4. \A d \in Conns : \A t, k, m :
        m \in NumbersOn(stream'[d], t, k) => m \in NumbersOn(stream[d], t, k)
  BY <1>1, <1>3, TakenOff
<1>5. \A d \in Conns : RisingOn(stream'[d])
  BY <1>1, <1>3, TailRisingOn
<1>6. CASE queue' = queue
  <2>1. RisingOK'
    BY <1>2, <1>3, <1>5, <1>6 DEF RisingOK, Rising, RisingOn, Carries
  <2>2. ASSUME NEW t \in Senders PROVE Older(Way(t))' /\ UpTo(Way(t), sent[t])'
    <3>1. sent'[t] = sent[t] /\ sent[t] \in Nat
      BY <1>2 DEF Typed, SendersOK
    <3>2. \A d \in Conns : \A m, k : m \in NumbersOn(stream'[d], t, k) => m \in NumbersOn(stream[d], t, k)
      BY <1>4
    <3>3. /\ \A m, k : m \in NumbersIn(written', t, k) => m \in NumbersIn(written, t, k)
          /\ \A m, k : m \in NumbersIn(queue', t, k) => m \in NumbersIn(queue, t, k)
      BY <1>2, <1>6
    <3>4. WaysOK
      BY <1>3
    <3>5. QED  BY <3>1, <3>2, <3>3, <3>4, NothingNew
  <2>3. QED  BY <2>1, <2>2 DEF OrderInv, WaysOK
<1>7. CASE Carries(piece) /\ record \in Records /\ queue' = Append(queue, record)
  <2>0. PICK s \in Senders : s = record.from
    BY <1>7 DEF Records
  <2>1. s \in Senders /\ record.n \in Nat /\ record.kind \in {"log", "extension"}
    BY <1>7 DEF Records
  <2>2. c = Wire(record) /\ Proper(record)
    <3>1. 1 \in DOMAIN stream[c] /\ piece = stream[c][1]
      BY <1>1
    <3>2. QED  BY <1>7, <3>1 DEF Typed, PlacesOK, Carries
  <2> DEFINE kind == record.kind
             q == IF kind = "extension" THEN 5 ELSE 3
             F == Way(s)
             G == WayOf(written', queue', stream'[Final(s)], stream'[Conn[s]], s)
  <2>3. /\ Older(F) /\ UpTo(F, sent[s]) /\ (\A p \in 1 .. 5 : F[p] \subseteq Nat) /\ sent[s] \in Nat
    BY <1>3, <2>1, WayTyped DEF WaysOK
  <2>4. F[q] = NumbersOn(stream[c], s, kind) /\ F[q - 1] = NumbersIn(queue, s, kind)
    <3>1. CASE kind = "extension"
      BY <2>0, <2>2, <3>1 DEF Way, WayOf, Wire
    <3>2. CASE kind = "log"
      BY <2>0, <2>2, <3>2 DEF Way, WayOf, Wire
    <3>3. QED  BY <2>1, <3>1, <3>2
  <2>5. record.n \in F[q]
    BY <1>1, <1>7, <2>0, <2>4, HeadOn
  <2>6. \A t, k, m : m \in NumbersIn(queue', t, k) <=>
          m \in NumbersIn(queue, t, k) \/ (s = t /\ kind = k /\ m = record.n)
    BY <1>3, <1>7, <2>0, AppendedIn
  <2>7. \A m \in NumbersOn(stream'[c], s, kind) : m \in NumbersOn(stream[c], s, kind) /\ record.n < m
    BY <1>1, <1>3, <1>7, <2>0, TakenOff
  <2>8. Older(Way(s))' /\ UpTo(Way(s), sent[s])'
    <3>1. Final(s) \in Conns /\ Conn[s] \in Conns
      BY <2>1, FinalConn, ConnOfSender
    <3>2. CASE kind = "extension"
      <4>1. \A m \in G[4] : m \in F[4] \/ m = record.n
        BY <2>6 DEF Way, WayOf
      <4>2. \A m \in G[5] : m \in F[5] /\ record.n < m
        BY <2>0, <2>2, <2>7, <3>2 DEF Way, WayOf, Wire
      <4>3. G[1] \subseteq F[1] /\ G[2] \subseteq F[2] /\ G[3] \subseteq F[3]
        BY <1>2, <1>4, <2>6, <3>1, <3>2 DEF Way, WayOf
      <4>4. record.n \in F[5]
        BY <2>5, <3>2
      <4> HIDE DEF F, G
      <4>5. Older(G) /\ UpTo(G, sent[s])
        <5>1. \A p \in (1 .. 5) \ {5, 5 - 1} : G[p] \subseteq F[p]
          BY <4>3
        <5>2. (\A m \in G[5 - 1] : m \in F[5 - 1] \/ m = record.n) /\ 5 \in 2 .. 5
          BY <4>1
        <5>3. QED  BY <2>3, <4>2, <4>4, <5>1, <5>2, MoveOn
      <4>6. QED  BY <1>2, <4>5, StepOlder DEF G
    <3>3. CASE kind = "log"
      <4>1. \A m \in G[2] : m \in F[2] \/ m = record.n
        BY <2>6 DEF Way, WayOf
      <4>2. \A m \in G[3] : m \in F[3] /\ record.n < m
        BY <2>0, <2>2, <2>7, <3>3 DEF Way, WayOf, Wire
      <4>3. G[1] \subseteq F[1] /\ G[4] \subseteq F[4] /\ G[5] \subseteq F[5]
        BY <1>2, <1>4, <2>6, <3>1, <3>3 DEF Way, WayOf
      <4>4. record.n \in F[3]
        BY <2>5, <3>3
      <4> HIDE DEF F, G
      <4>5. Older(G) /\ UpTo(G, sent[s])
        <5>1. \A p \in (1 .. 5) \ {3, 3 - 1} : G[p] \subseteq F[p]
          BY <4>3
        <5>2. (\A m \in G[3 - 1] : m \in F[3 - 1] \/ m = record.n) /\ 3 \in 2 .. 5
          BY <4>1
        <5>3. QED  BY <2>3, <4>2, <4>4, <5>1, <5>2, MoveOn
      <4>6. QED  BY <1>2, <4>5, StepOlder DEF G
    <3>4. QED  BY <2>1, <3>2, <3>3
  <2>9. ASSUME NEW t \in Senders, t # s PROVE Older(Way(t))' /\ UpTo(Way(t), sent[t])'
    <3>1. sent'[t] = sent[t] /\ sent[t] \in Nat
      BY <1>2 DEF Typed, SendersOK
    <3>2. \A d \in Conns : \A m, k : m \in NumbersOn(stream'[d], t, k) => m \in NumbersOn(stream[d], t, k)
      BY <1>4
    <3>3. \A m, k : m \in NumbersIn(queue', t, k) => m \in NumbersIn(queue, t, k)
      BY <2>6, <2>9
    <3>4. WaysOK /\ \A m, k : m \in NumbersIn(written', t, k) => m \in NumbersIn(written, t, k)
      BY <1>2, <1>3
    <3>5. QED  BY <3>1, <3>2, <3>3, <3>4, NothingNew
  <2>10. Rising(queue')
    <3>1. \A m \in NumbersIn(queue, s, kind) : m < record.n
      <4>1. \A m \in F[q - 1] : m < record.n
        <5>1. q - 1 \in 1 .. 5 /\ q \in 1 .. 5 /\ q - 1 < q
          OBVIOUS
        <5>2. QED  BY <2>3, <2>5, <5>1 DEF Older
      <4>2. QED  BY <2>4, <4>1
    <3>2. QED  BY <1>3, <1>7, <2>0, <3>1, AppendRising DEF RisingOK
  <2>11. RisingOK'
    BY <1>2, <1>3, <1>5, <2>10 DEF RisingOK, Rising, RisingOn, Carries
  <2>12. QED  BY <2>8, <2>9, <2>11 DEF OrderInv, WaysOK
<1>8. QED  BY <1>6, <1>7, Reception

LEMMA ProcessOrder == ASSUME Typed, OrderInv, ProcessRecord PROVE OrderInv'
<1> DEFINE record == Head(queue)
<1>1. /\ queue \in Seq(Records) /\ queue # <<>> /\ record \in Records
      /\ queue' = Tail(queue) /\ Proper(record)
  BY Processing
<1>0. PICK s \in Senders : s = record.from
  BY <1>1 DEF Records
<1> DEFINE F == Way(s)
           G == WayOf(written', queue', stream'[Final(s)], stream'[Conn[s]], s)
<1>2. UNCHANGED sent /\ s \in Senders /\ record.n \in Nat
  BY <1>1 DEF ProcessRecord, processes, Records
<1>3. /\ WaysOK /\ RisingOK /\ SocketsOK /\ written \in Seq(Records)
      /\ \A d \in Conns : RisingOn(stream[d])
  BY DEF Typed, ListenerOK, OrderInv, RisingOK
<1>4. \A t, k, m : m \in NumbersIn(queue', t, k) =>
        /\ m \in NumbersIn(queue, t, k)
        /\ s = t /\ record.kind = k => record.n < m
  BY <1>0, <1>1, <1>3, TakenFrom DEF RisingOK
<1>5. Rising(queue')
  BY <1>1, <1>3, TailRising DEF RisingOK
<1>6. /\ Older(F) /\ UpTo(F, sent[s]) /\ (\A p \in 1 .. 5 : F[p] \subseteq Nat) /\ sent[s] \in Nat
  BY <1>2, <1>3, WayTyped DEF WaysOK
<1>7. record.n \in NumbersIn(queue, s, record.kind)
  BY <1>0, <1>1, HeadIn
<1>8. CASE record.kind = "log" /\ written' = Append(written, record) /\ UNCHANGED sockets
  <2>1. stream' = stream
    BY <1>8 DEF sockets
  <2>2. \A t, k, m : m \in NumbersIn(written', t, k) <=>
          m \in NumbersIn(written, t, k) \/ (s = t /\ record.kind = k /\ m = record.n)
    BY <1>0, <1>1, <1>3, <1>8, AppendedIn
  <2>3. record.n \in F[2]
    BY <1>7, <1>8 DEF Way, WayOf
  <2>4. Older(Way(s))' /\ UpTo(Way(s), sent[s])'
    <3>1. \A m \in G[1] : m \in F[1] \/ m = record.n
      BY <2>2 DEF Way, WayOf
    <3>2. \A m \in G[2] : m \in F[2] /\ record.n < m
      BY <1>4, <1>8 DEF Way, WayOf
    <3>3. G[3] \subseteq F[3] /\ G[4] \subseteq F[4] /\ G[5] \subseteq F[5]
      BY <1>4, <2>1 DEF Way, WayOf
    <3> HIDE DEF F, G, record
    <3>4. Older(G) /\ UpTo(G, sent[s])
      <4>1. \A p \in (1 .. 5) \ {2, 2 - 1} : G[p] \subseteq F[p]
        BY <3>3
      <4>2. (\A m \in G[2 - 1] : m \in F[2 - 1] \/ m = record.n) /\ 2 \in 2 .. 5
        BY <3>1
      <4>3. QED  BY <1>6, <2>3, <3>2, <4>1, <4>2, MoveOn
    <3>5. QED  BY <1>2, <3>4, StepOlder DEF G
  <2>5. ASSUME NEW t \in Senders, t # s PROVE Older(Way(t))' /\ UpTo(Way(t), sent[t])'
    <3>1. sent'[t] = sent[t] /\ sent[t] \in Nat
      BY <1>2 DEF Typed, SendersOK
    <3>2. \A m, k : m \in NumbersIn(queue', t, k) => m \in NumbersIn(queue, t, k)
      BY <1>4
    <3>3. \A m, k : m \in NumbersIn(written', t, k) => m \in NumbersIn(written, t, k)
      BY <2>2, <2>5
    <3>4. QED  BY <1>3, <2>1, <3>1, <3>2, <3>3, NothingNew
  <2>6. Rising(written')
    <3>1. \A m \in NumbersIn(written, s, record.kind) : m < record.n
      <4>1. \A m \in F[1] : m < record.n
        BY <1>6, <2>3 DEF Older
      <4>2. QED  BY <1>8, <4>1 DEF Way, WayOf
    <3>2. QED  BY <1>0, <1>1, <1>3, <1>8, <3>1, AppendRising DEF RisingOK
  <2>7. RisingOK'
    BY <1>3, <1>5, <2>1, <2>6 DEF RisingOK, Rising, RisingOn, Carries
  <2>8. QED  BY <2>4, <2>5, <2>7 DEF OrderInv, WaysOK
<1>9. CASE /\ record.kind = "extension" /\ written' = written
           /\ Transmits(Conn[Main], Part(AsWritten(record), "whole"))
  <2> DEFINE c == Conn[Main]
             piece == Part(AsWritten(record), "whole")
  <2>1. /\ piece \in Pieces /\ Carries(piece) /\ piece.record.from = s
        /\ piece.record.n = record.n /\ piece.record.kind = "log"
    BY <1>0, <1>1, SentRound, PartIsPiece DEF Carries
  <2>2. Adds(c, piece)
    BY <1>3, <1>9, <2>1, MainSender, TransmitAdds
  <2>3. s \in Extensions /\ Final(s) = c /\ c \in Conns
    BY <1>0, <1>1, <1>9, MainSender DEF Proper, Final
  <2>4. record.n \in F[4]
    BY <1>7, <1>9 DEF Way, WayOf
  <2>5. \A d \in Conns : \A t, k, m : m \in NumbersOn(stream'[d], t, k) =>
          \/ m \in NumbersOn(stream[d], t, k)
          \/ s = t /\ k = "log" /\ m = record.n
    BY <1>3, <2>1, <2>2, AddedNumbers
  <2> HIDE DEF piece
  <2>6. Older(Way(s))' /\ UpTo(Way(s), sent[s])'
    <3>0. Conn[s] \in Conns /\ Final(s) \in Conns
      BY <1>2, <2>3, ConnOfSender
    <3>1. \A m \in G[3] : m \in F[3] \/ m = record.n
      BY <2>5, <3>0 DEF Way, WayOf
    <3>2. \A m \in G[4] : m \in F[4] /\ record.n < m
      BY <1>4, <1>9 DEF Way, WayOf
    <3>3. G[1] \subseteq F[1] /\ G[2] \subseteq F[2] /\ G[5] \subseteq F[5]
      BY <1>4, <1>9, <2>5, <3>0 DEF Way, WayOf
    <3> HIDE DEF F, G, record
    <3>4. Older(G) /\ UpTo(G, sent[s])
      <4>1. \A p \in (1 .. 5) \ {4, 4 - 1} : G[p] \subseteq F[p]
        BY <3>3
      <4>2. (\A m \in G[4 - 1] : m \in F[4 - 1] \/ m = record.n) /\ 4 \in 2 .. 5
        BY <3>1
      <4>3. QED  BY <1>6, <1>2, <2>4, <3>2, <4>1, <4>2, MoveOn
    <3>5. QED  BY <1>2, <3>4, StepOlder DEF G
  <2>7. ASSUME NEW t \in Senders, t # s PROVE Older(Way(t))' /\ UpTo(Way(t), sent[t])'
    <3>1. sent'[t] = sent[t] /\ sent[t] \in Nat
      BY <1>2 DEF Typed, SendersOK
    <3>2. \A m, k : m \in NumbersIn(queue', t, k) => m \in NumbersIn(queue, t, k)
      BY <1>4
    <3>3. \A d \in Conns : \A m, k : m \in NumbersOn(stream'[d], t, k) => m \in NumbersOn(stream[d], t, k)
      BY <2>5, <2>7
    <3>4. QED  BY <1>3, <1>9, <3>1, <3>2, <3>3, NothingNew
  <2>8. \A d \in Conns : RisingOn(stream'[d])
    <3>1. \A m \in NumbersOn(stream[c], s, "log") : m < record.n
      <4>1. \A m \in F[3] : m < record.n
        BY <1>6, <2>4 DEF Older
      <4>2. QED  BY <2>3, <4>1 DEF Way, WayOf
    <3>2. QED  BY <1>3, <2>1, <2>2, <3>1, AddedRising
  <2>9. RisingOK'
    BY <1>3, <1>5, <1>9, <2>8 DEF RisingOK, Rising, RisingOn, Carries
  <2>10. QED  BY <2>6, <2>7, <2>9 DEF OrderInv, WaysOK
<1>10. QED  BY <1>8, <1>9, Processing

LEMMA OrderStep == ASSUME Typed, OrderInv, [Next]_vars PROVE OrderInv'
<1>1. ASSUME UNCHANGED <<sent, stream, queue, written>> PROVE OrderInv'
  <2>1. RisingOK'
    BY <1>1 DEF OrderInv, RisingOK, Rising, RisingOn, Carries
  <2>2. ASSUME NEW t \in Senders PROVE Older(Way(t))' /\ UpTo(Way(t), sent[t])'
    <3>1. sent'[t] = sent[t] /\ sent[t] \in Nat /\ WaysOK
      BY <1>1 DEF Typed, SendersOK, OrderInv
    <3>2. QED  BY <1>1, <3>1, NothingNew
  <2>3. QED  BY <2>1, <2>2 DEF OrderInv, WaysOK
<1>2. CASE UNCHANGED vars
  BY <1>1, <1>2 DEF vars, sockets, processes
<1>3. CASE \/ Bind \/ HandedOver \/ ShutdownSeen \/ Slept \/ Drained \/ Raises \/ TakeAddress \/ Joined
           \/ Close
  BY <1>1, <1>3
     DEF Bind, HandedOver, ShutdownSeen, Slept, Drained, Raises, TakeAddress, Joined, Close, sockets,
         processes
<1>4. CASE Listen \/ Drain
  BY <1>4, ProcessOrder DEF Listen, Drain
<1>5. ASSUME NEW s \in Senders, Emit(s) \/ EmitTail(s) PROVE OrderInv'
  BY <1>5, SendOrder DEF Emit, EmitTail
<1>6. ASSUME NEW s \in Senders, EmitHead(s) PROVE OrderInv'
  <2> DEFINE piece == Part(Record(s), "head")
  <2>1. piece \in Pieces /\ piece.part = "head"
    BY RecordOfSender, PartIsPiece DEF Typed
  <2>2. SocketsOK /\ Conn[s] \in Conns /\ Transmits(Conn[s], piece)
    BY <1>6, ConnOfSender DEF EmitHead, Typed
  <2> HIDE DEF piece
  <2>3. ~Carries(piece) /\ Adds(Conn[s], piece)
    BY <2>1, <2>2, TransmitAdds DEF Carries
  <2>4. QED  BY <1>6, <2>1, <2>3, QuietOrder DEF EmitHead
<1>7. ASSUME NEW s \in Senders, Crash(s) PROVE OrderInv'
  <2> DEFINE piece == Part(NoRecord, "end")
  <2>1. piece \in Pieces /\ piece.part = "end"
    BY EndIsPiece
  <2>2. stream' = stream \/ stream' = [stream EXCEPT ![Conn[s]] = Append(@, piece)]
    BY <1>7 DEF Crash
  <2> HIDE DEF piece
  <2>3. ~Carries(piece) /\ Adds(Conn[s], piece)
    BY <2>1, <2>2 DEF Carries, Adds, Typed, SocketsOK
  <2>4. QED  BY <1>7, <2>1, <2>3, QuietOrder DEF Crash
<1>8. CASE \E c \in Conns : Receive(c)
  BY <1>8, ReceiveOrder
<1>9. QED
  BY <1>2, <1>3, <1>4, <1>5, <1>6, <1>7, <1>8 DEF Next, ListenerNext

(* Every record is in the log file once, and those of a sender are there   *)
(* in the order in which it sent them (MPLogger's two ways to the file,    *)
(* ClientSocketHandler, ServerSocket and _process_record), whoever shares  *)
(* the connection and wherever a process dies.                             *)
THEOREM LogIsInOrder == Spec => []WrittenInOrder
<1>1. Init => Typed /\ OrderInv
  BY TypesInit, OrderInit
<1>2. Typed /\ OrderInv /\ [Next]_vars => Typed' /\ OrderInv'
  BY TypesStep, OrderStep
<1>3. Typed /\ OrderInv => WrittenInOrder
  <2> SUFFICES ASSUME Typed, OrderInv, NEW i \in DOMAIN written, NEW j \in DOMAIN written,
                      i < j, written[i].from = written[j].from
               PROVE  written[i].n < written[j].n
    BY DEF WrittenInOrder
  <2>1. written[i].kind = written[j].kind
    BY DEF Typed, PlacesOK
  <2>2. QED  BY <2>1 DEF OrderInv, RisingOK, Rising
<1>4. QED  BY <1>1, <1>2, <1>3, PTL DEF Spec

-----------------------------------------------------------------------------
(* Nothing that was sent is lost, but on a connection that is broken.      *)
LEMMA WaysAreConns ==
    ASSUME NEW record, record.from \in Senders
    PROVE  /\ Ways(record) \subseteq Conns
           /\ record.from \in Extensions => Conn[Main] \in Ways(record)
           /\ Conn[record.from] \in Ways(record) /\ Final(record.from) \in Ways(record)
  BY ConnOfSender, MainSender DEF Ways, Final

(* What is added to a connection and what is refused by it.                *)
LEMMA TransmitBroken ==
    ASSUME SocketsOK, NEW c \in Conns, NEW piece \in Pieces, Transmits(c, piece),
           receiver' = receiver, NEW d \in Conns, Broken(d)
    PROVE  Broken(d)'
  BY Transmission DEF Broken

LEMMA BrokenStays == ASSUME Typed, [Next]_vars, NEW c \in Conns, Broken(c) PROVE Broken(c)'
<1>0. SocketsOK
  BY DEF Typed
<1>1. ASSUME UNCHANGED <<connection, receiver>> PROVE Broken(c)'
  BY <1>1 DEF Broken
<1>2. CASE UNCHANGED vars
  BY <1>1, <1>2 DEF vars, sockets
<1>3. CASE \/ Bind \/ HandedOver \/ ShutdownSeen \/ Slept \/ Drained \/ Raises \/ TakeAddress \/ Joined
           \/ Close
  BY <1>1, <1>3
     DEF Bind, HandedOver, ShutdownSeen, Slept, Drained, Raises, TakeAddress, Joined, Close, sockets
<1>4. CASE Listen \/ Drain
  <2>1. ProcessRecord /\ receiver' = receiver
    BY <1>4 DEF Listen, Drain, ProcessRecord
  <2>2. CASE UNCHANGED sockets
    BY <1>1, <2>1, <2>2 DEF sockets
  <2>3. CASE /\ Head(queue).kind = "extension"
             /\ Transmits(Conn[Main], Part(AsWritten(Head(queue)), "whole"))
    BY <1>0, <2>1, <2>3, Processing, RoundPiece, MainSender, TransmitBroken
  <2>4. QED  BY <2>1, <2>2, <2>3, Processing
<1>5. ASSUME NEW s \in Senders, Emit(s) \/ EmitHead(s) \/ EmitTail(s) PROVE Broken(c)'
  <2>1. PICK part \in {"whole", "head", "tail"} : Transmits(Conn[s], Part(Record(s), part))
    BY <1>5 DEF Emit, EmitHead, EmitTail
  <2>2. Part(Record(s), part) \in Pieces /\ receiver' = receiver /\ Conn[s] \in Conns
    BY <1>5, RecordOfSender, PartIsPiece, ConnOfSender DEF Typed, Emit, EmitHead, EmitTail
  <2>3. QED  BY <1>0, <2>1, <2>2, TransmitBroken
<1>6. ASSUME NEW s \in Senders, Crash(s) PROVE Broken(c)'
  BY <1>1, <1>6 DEF Crash
<1>7. ASSUME NEW d \in Conns, Receive(d) PROVE Broken(c)'
  <2>1. connection' = connection
    BY <1>7 DEF Receive
  <2>2. receiver[c].pc = "garbled" => receiver'[c] = receiver[c]
    BY <1>7, Reception
  <2>3. QED  BY <2>1, <2>2 DEF Broken
<1>8. QED
  BY <1>2, <1>3, <1>4, <1>5, <1>6, <1>7 DEF Next, ListenerNext

(* The places in which a record may be.                                    *)
InTheFile(record) == \E i \in DOMAIN written : written[i] = record
Waiting(record) == \E i \in DOMAIN queue : AsWritten(queue[i]) = record
OnConn(c, record) ==
    \E i \in DOMAIN stream[c] : Carries(stream[c][i]) /\ AsWritten(stream[c][i].record) = record
Lost(record) == \E c \in Ways(record) : Broken(c)

LEMMA KeptPlaces ==
    ASSUME NEW record
    PROVE  /\ Kept(record) <=> \/ InTheFile(record) \/ Waiting(record) \/ Lost(record)
                               \/ \E c \in Conns : OnConn(c, record)
           /\ Kept(record)' <=> \/ InTheFile(record)' \/ Waiting(record)' \/ Lost(record)'
                                \/ \E c \in Conns : OnConn(c, record)'
  BY DEF Kept, InTheFile, Waiting, OnConn, Lost

LEMMA LostStays ==
    ASSUME Typed, [Next]_vars, NEW record, record.from \in Senders, Lost(record)
    PROVE  Lost(record)'
<1>1. PICK c \in Ways(record) : Broken(c)
  BY DEF Lost
<1>2. Broken(c)' /\ c \in Conns
  BY <1>1, WaysAreConns, BrokenStays
<1>3. QED  BY <1>1, <1>2 DEF Lost, Ways

LEMMA AddedStays ==
    ASSUME SocketsOK, NEW c, NEW piece \in Pieces, Adds(c, piece), NEW d \in Conns, NEW record,
           OnConn(d, record)
    PROVE  OnConn(d, record)'
<1>1. stream[d] \in Seq(Pieces)
  BY DEF SocketsOK
<1>2. PICK i \in DOMAIN stream[d] : Carries(stream[d][i]) /\ AsWritten(stream[d][i].record) = record
  BY DEF OnConn
<1>3. i \in DOMAIN stream'[d] /\ stream'[d][i] = stream[d][i]
  <2>1. CASE stream'[d] = stream[d]
    BY <2>1
  <2>2. CASE stream'[d] = Append(stream[d], piece)
    BY <1>1, <2>2
  <2>3. QED  BY <2>1, <2>2 DEF Adds
<1>4. QED  BY <1>2, <1>3 DEF OnConn, Carries, AsWritten

(* A step that adds to a connection keeps every record.                    *)
LEMMA KeptByAdding ==
    ASSUME Typed, [Next]_vars, NEW c, NEW piece \in Pieces, Adds(c, piece),
           UNCHANGED <<queue, written>>, NEW record, record.from \in Senders, Kept(record)
    PROVE  Kept(record)'
<1>1. SocketsOK
  BY DEF Typed
<1>2. CASE InTheFile(record)
  <2>1. InTheFile(record)'
    BY <1>2 DEF InTheFile
  <2>2. QED  BY <2>1, KeptPlaces
<1>3. CASE Waiting(record)
  <2>1. Waiting(record)'
    BY <1>3 DEF Waiting, AsWritten
  <2>2. QED  BY <2>1, KeptPlaces
<1>4. CASE Lost(record)
  BY <1>4, LostStays, KeptPlaces
<1>5. ASSUME NEW d \in Conns, OnConn(d, record) PROVE Kept(record)'
  BY <1>1, <1>5, AddedStays, KeptPlaces
<1>6. QED  BY <1>2, <1>3, <1>4, <1>5, KeptPlaces

(* A record that a sender has put on its connection is kept, as is one     *)
(* that the connection has refused.                                        *)
LEMMA SentIsKept ==
    ASSUME Typed, NEW c \in Conns, NEW piece \in Pieces, Transmits(c, piece), Carries(piece),
           NEW record, AsWritten(piece.record) = record, c \in Ways(record)
    PROVE  Kept(record)'
<1>1. SocketsOK /\ stream[c] \in Seq(Pieces)
  BY DEF Typed, SocketsOK
<1>2. CASE stream'[c] = Append(stream[c], piece)
  <2>1. Len(stream[c]) + 1 \in DOMAIN stream'[c] /\ stream'[c][Len(stream[c]) + 1] = piece
    BY <1>1, <1>2
  <2>2. OnConn(c, record)'
    BY <2>1 DEF OnConn, Carries, AsWritten
  <2>3. QED  BY <2>2, KeptPlaces
<1>3. CASE connection'[c] = "refused"
  <2>1. Lost(record)'
    BY <1>3 DEF Lost, Broken, Ways, AsWritten
  <2>2. QED  BY <2>1, KeptPlaces
<1>4. QED  BY <1>1, <1>2, <1>3, Transmission

(* What a handler takes off a connection is in the queue, or it could not  *)
(* be parsed.                                                              *)
LEMMA KeptByReceiving ==
    ASSUME Typed, [Next]_vars, NEW c \in Conns, Receive(c), NEW record, record.from \in Senders,
           Kept(record)
    PROVE  Kept(record)'
<1>1. /\ stream[c] \in Seq(Pieces) /\ stream[c] # <<>> /\ queue \in Seq(Records)
      /\ stream'[c] = Tail(stream[c]) /\ written' = written
  BY Reception DEF Typed, SocketsOK, ListenerOK, Receive
<1> DEFINE piece == Head(stream[c])
<1>2. CASE InTheFile(record)
  <2>1. InTheFile(record)'
    BY <1>1, <1>2 DEF InTheFile
  <2>2. QED  BY <2>1, KeptPlaces
<1>3. CASE Waiting(record)
  <2>1. PICK i \in DOMAIN queue : AsWritten(queue[i]) = record
    BY <1>3 DEF Waiting
  <2>2. i \in DOMAIN queue' /\ queue'[i] = queue[i]
    <3>1. CASE queue' = queue
      BY <3>1
    <3>2. CASE piece.record \in Records /\ queue' = Append(queue, piece.record)
      BY <1>1, <3>2
    <3>3. QED  BY <3>1, <3>2, Reception
  <2>3. Waiting(record)'
    BY <2>1, <2>2 DEF Waiting, AsWritten
  <2>4. QED  BY <2>3, KeptPlaces
<1>4. CASE Lost(record)
  BY <1>4, LostStays, KeptPlaces
<1>5. ASSUME NEW d \in Conns, d # c, OnConn(d, record) PROVE Kept(record)'
  <2>1. OnConn(d, record)'
    BY <1>5, Reception DEF OnConn, Carries, AsWritten
  <2>2. QED  BY <2>1, KeptPlaces
<1>6. ASSUME OnConn(c, record) PROVE Kept(record)'
  <2>1. PICK i \in DOMAIN stream[c] : Carries(stream[c][i]) /\ AsWritten(stream[c][i].record) = record
    BY <1>6 DEF OnConn
  <2>2. CASE i # 1
    <3>1. i - 1 \in DOMAIN stream'[c] /\ stream'[c][i - 1] = stream[c][i]
      BY <1>1, <2>1, <2>2
    <3>2. OnConn(c, record)'
      BY <2>1, <3>1 DEF OnConn, Carries, AsWritten
    <3>3. QED  BY <3>2, KeptPlaces
  <2>3. CASE i = 1
    <3>1. piece = stream[c][i] /\ piece \in Pieces
      BY <1>1, <2>3
    <3>2. Carries(piece) /\ AsWritten(piece.record) = record /\ piece.record \in Records
      BY <2>1, <3>1, PieceSorts DEF Carries
    <3>3. CASE queue' = Append(queue, piece.record)
      <4>1. Len(queue) + 1 \in DOMAIN queue' /\ queue'[Len(queue) + 1] = piece.record
        BY <1>1, <3>2, <3>3
      <4>2. Waiting(record)'
        BY <3>2, <4>1 DEF Waiting, AsWritten
      <4>3. QED  BY <4>2, KeptPlaces
    <3>4. CASE receiver'[c].pc = "garbled"
      <4>1. c = Wire(piece.record) /\ piece.record.from = record.from
        BY <2>1, <3>1, <3>2, SentRound DEF Typed, PlacesOK, Carries
      <4>2. c \in Ways(record)
        BY <4>1, WaysAreConns DEF Wire
      <4>3. Lost(record)'
        BY <3>4, <4>2 DEF Lost, Broken, Ways
      <4>4. QED  BY <4>3, KeptPlaces
    <3>5. QED  BY <3>2, <3>3, <3>4, Reception
  <2>4. QED  BY <2>2, <2>3
<1>7. QED  BY <1>2, <1>3, <1>4, <1>5, <1>6, KeptPlaces

(* What the listener takes off the queue is in the file, or it was sent    *)
(* round.                                                                  *)
LEMMA KeptByProcessing ==
    ASSUME Typed, [Next]_vars, ProcessRecord, NEW record, record.from \in Senders, Kept(record)
    PROVE  Kept(record)'
<1> DEFINE taken == Head(queue)
<1>1. /\ queue \in Seq(Records) /\ queue # <<>> /\ taken \in Records /\ queue' = Tail(queue)
      /\ Proper(taken) /\ written \in Seq(Records) /\ SocketsOK
  BY Processing DEF Typed, ListenerOK
<1>2. CASE InTheFile(record)
  <2>1. PICK i \in DOMAIN written : written[i] = record
    BY <1>2 DEF InTheFile
  <2>2. i \in DOMAIN written' /\ written'[i] = written[i]
    <3>1. CASE written' = written
      BY <3>1
    <3>2. CASE written' = Append(written, taken)
      BY <1>1, <3>2
    <3>3. QED  BY <3>1, <3>2, Processing
  <2>3. InTheFile(record)'
    BY <2>1, <2>2 DEF InTheFile
  <2>4. QED  BY <2>3, KeptPlaces
<1>3. CASE Waiting(record)
  <2>1. PICK i \in DOMAIN queue : AsWritten(queue[i]) = record
    BY <1>3 DEF Waiting
  <2>2. CASE i # 1
    <3>1. i - 1 \in DOMAIN queue' /\ queue'[i - 1] = queue[i]
      BY <1>1, <2>1, <2>2
    <3>2. Waiting(record)'
      BY <2>1, <3>1 DEF Waiting, AsWritten
    <3>3. QED  BY <3>2, KeptPlaces
  <2>3. CASE i = 1
    <3>1. AsWritten(taken) = record
      BY <1>1, <2>1, <2>3
    <3>2. CASE taken.kind = "log" /\ written' = Append(written, taken)
      <4>1. taken = record
        BY <1>1, <3>1, <3>2, SentRound
      <4>2. Len(written) + 1 \in DOMAIN written' /\ written'[Len(written) + 1] = taken
        BY <1>1, <3>2
      <4>3. InTheFile(record)'
        BY <4>1, <4>2 DEF InTheFile
      <4>4. QED  BY <4>3, KeptPlaces
    <3>3. CASE taken.kind = "extension" /\ Transmits(Conn[Main], Part(AsWritten(taken), "whole"))
      <4> DEFINE piece == Part(AsWritten(taken), "whole")
      <4>1. /\ piece \in Pieces /\ piece.record = AsWritten(taken) /\ Carries(piece)
            /\ AsWritten(piece.record) = record
        BY <1>1, <3>1, SentRound, PartIsPiece DEF Carries
      <4>2. taken.from \in Extensions /\ record.from = taken.from
        BY <1>1, <3>1, <3>3, SentRound DEF Proper
      <4>3. Conn[Main] \in Ways(record) /\ Conn[Main] \in Conns
        BY <4>2, WaysAreConns, MainSender
      <4> HIDE DEF piece
      <4>4. Transmits(Conn[Main], piece)
        BY <3>3 DEF piece
      <4>5. QED  BY <4>1, <4>3, <4>4, SentIsKept
    <3>4. QED  BY <3>2, <3>3, Processing
  <2>4. QED  BY <2>2, <2>3
<1>4. CASE Lost(record)
  BY <1>4, LostStays, KeptPlaces
<1>5. ASSUME NEW d \in Conns, OnConn(d, record) PROVE Kept(record)'
  <2>1. CASE UNCHANGED sockets
    <3>1. OnConn(d, record)'
      BY <1>5, <2>1 DEF sockets, OnConn, Carries, AsWritten
    <3>2. QED  BY <3>1, KeptPlaces
  <2>2. CASE taken.kind = "extension" /\ Transmits(Conn[Main], Part(AsWritten(taken), "whole"))
    <3> DEFINE piece == Part(AsWritten(taken), "whole")
    <3>1. piece \in Pieces
      BY <1>1, <2>2, RoundPiece
    <3> HIDE DEF piece
    <3>2. Transmits(Conn[Main], piece)
      BY <2>2 DEF piece
    <3>3. OnConn(d, record)'
      BY <1>1, <1>5, <3>1, <3>2, MainSender, TransmitAdds, AddedStays
    <3>4. QED  BY <3>3, KeptPlaces
  <2>3. QED  BY <2>1, <2>2, Processing
<1>6. QED  BY <1>2, <1>3, <1>4, <1>5, KeptPlaces

(* Every number that a sender has used is kept.                            *)
LEMMA KeptNew ==
    ASSUME Typed, [Next]_vars, KeptOK, NEW s \in Senders, NEW part \in {"whole", "tail"},
           Transmits(Conn[s], Part(Record(s), part)), sent' = [sent EXCEPT ![s] = @ + 1],
           UNCHANGED <<queue, written>>
    PROVE  KeptOK'
<1> DEFINE piece == Part(Record(s), part)
<1>1. /\ piece \in Pieces /\ Carries(piece) /\ SocketsOK /\ Conn[s] \in Conns
      /\ AsWritten(piece.record) = Logged(s, sent[s] + 1)
  BY RecordOfSender, PartIsPiece, SentRound, ConnOfSender DEF Typed, Carries
<1>2. Transmits(Conn[s], piece)
  OBVIOUS
<1> HIDE DEF piece
<1>3. Adds(Conn[s], piece)
  BY <1>1, <1>2, TransmitAdds
<1>4. SUFFICES ASSUME NEW t \in Senders, NEW n \in 1 .. sent'[t] PROVE Kept(Logged(t, n))'
  BY DEF KeptOK
<1>5. Logged(t, n).from = t
  BY DEF Logged
<1>6. CASE n \in 1 .. sent[t]
  <2>1. Kept(Logged(t, n))
    BY <1>6 DEF KeptOK
  <2>2. Kept(Logged(t, n))'
    BY <1>1, <1>3, <1>5, <2>1, KeptByAdding
  <2>3. QED  BY <2>2
<1>7. CASE n \notin 1 .. sent[t]
  <2>1. t = s /\ n = sent[s] + 1
    BY <1>7 DEF Typed, SendersOK
  <2>2. Conn[s] \in Ways(Logged(t, n))
    BY <1>5, <2>1, WaysAreConns
  <2>3. AsWritten(piece.record) = Logged(t, n)
    BY <1>1, <2>1
  <2>4. QED  BY <1>1, <1>2, <2>2, <2>3, SentIsKept
<1>8. QED  BY <1>6, <1>7

LEMMA KeptStep == ASSUME Typed, KeptOK, [Next]_vars PROVE KeptOK'
<1>1. ASSUME \A s \in Senders : sent'[s] = sent[s],
             \A record : record.from \in Senders /\ Kept(record) => Kept(record)'
      PROVE  KeptOK'
  <2> SUFFICES ASSUME NEW s \in Senders, NEW n \in 1 .. sent'[s] PROVE Kept(Logged(s, n))'
    BY DEF KeptOK
  <2>1. Logged(s, n).from = s /\ Kept(Logged(s, n))
    BY <1>1 DEF KeptOK, Logged
  <2>2. QED  BY <1>1, <2>1
<1>2. ASSUME sent' = sent, UNCHANGED <<connection, receiver, stream, queue, written>> PROVE KeptOK'
  <2>1. ASSUME NEW record, Kept(record) PROVE Kept(record)'
    BY <1>2, <2>1 DEF Kept, AsWritten, Carries, Ways, Broken
  <2>2. QED  BY <1>1, <1>2, <2>1
<1>3. CASE UNCHANGED vars
  BY <1>2, <1>3 DEF vars, sockets, processes
<1>4. CASE \/ Bind \/ HandedOver \/ ShutdownSeen \/ Slept \/ Drained \/ Raises \/ TakeAddress \/ Joined
           \/ Close
  BY <1>2, <1>4
     DEF Bind, HandedOver, ShutdownSeen, Slept, Drained, Raises, TakeAddress, Joined, Close, sockets,
         processes
<1>5. CASE Listen \/ Drain
  <2>1. ProcessRecord /\ sent' = sent
    BY <1>5 DEF Listen, Drain, ProcessRecord, processes
  <2>2. QED  BY <1>1, <2>1, KeptByProcessing
<1>6. ASSUME NEW s \in Senders, Emit(s) \/ EmitTail(s) PROVE KeptOK'
  BY <1>6, KeptNew DEF Emit, EmitTail
<1>7. ASSUME NEW s \in Senders, EmitHead(s) PROVE KeptOK'
  <2> DEFINE piece == Part(Record(s), "head")
  <2>1. piece \in Pieces
    BY RecordOfSender, PartIsPiece DEF Typed
  <2>2. /\ SocketsOK /\ Conn[s] \in Conns /\ Transmits(Conn[s], piece)
        /\ sent' = sent /\ queue' = queue /\ written' = written
    BY <1>7, ConnOfSender DEF EmitHead, Typed
  <2> HIDE DEF piece
  <2>3. Adds(Conn[s], piece)
    BY <2>1, <2>2, TransmitAdds
  <2>4. \A record : record.from \in Senders /\ Kept(record) => Kept(record)'
    BY <2>1, <2>2, <2>3, KeptByAdding
  <2>5. QED  BY <1>1, <2>2, <2>4
<1>8. ASSUME NEW s \in Senders, Crash(s) PROVE KeptOK'
  <2> DEFINE piece == Part(NoRecord, "end")
  <2>1. piece \in Pieces
    BY EndIsPiece
  <2>2. stream' = stream \/ stream' = [stream EXCEPT ![Conn[s]] = Append(@, piece)]
    BY <1>8 DEF Crash
  <2> HIDE DEF piece
  <2>3. Adds(Conn[s], piece)
    BY <2>1, <2>2 DEF Adds, Typed, SocketsOK
  <2>4. sent' = sent /\ queue' = queue /\ written' = written
    BY <1>8 DEF Crash
  <2>5. \A record : record.from \in Senders /\ Kept(record) => Kept(record)'
    BY <2>1, <2>3, <2>4, KeptByAdding
  <2>6. QED  BY <1>1, <2>4, <2>5
<1>9. ASSUME NEW c \in Conns, Receive(c) PROVE KeptOK'
  <2>1. sent' = sent
    BY <1>9 DEF Receive, processes
  <2>2. QED  BY <1>1, <1>9, <2>1, KeptByReceiving
<1>10. QED
  BY <1>3, <1>4, <1>5, <1>6, <1>7, <1>8, <1>9 DEF Next, ListenerNext

-----------------------------------------------------------------------------
(* The listener, the close and the ends of the connections.                *)
LEMMA StatusStep == ASSUME StatusOK, [Next]_vars PROVE StatusOK'
<1> USE DEF StatusOK
<1>1. ASSUME UNCHANGED control PROVE StatusOK'
  BY <1>1 DEF control
<1>2. CASE UNCHANGED vars
  BY <1>1, <1>2 DEF vars
<1>3. CASE Bind
  BY <1>3 DEF Bind
<1>4. CASE TakeAddress
  <2>1. listener = "handover" /\ statusQueue = <<"address">> /\ unfinished = 1
    BY <1>4 DEF TakeAddress
  <2>2. Tail(<<"address">>) = <<>>
    OBVIOUS
  <2>3. owner' = "up" /\ listener' = "handover" /\ statusQueue' = <<>> /\ unfinished' = 0
    BY <1>4, <2>1, <2>2 DEF TakeAddress
  <2>4. QED  BY <2>3
<1>5. CASE HandedOver
  BY <1>5 DEF HandedOver
<1>6. CASE ShutdownSeen
  BY <1>6 DEF ShutdownSeen
<1>7. CASE Slept
  BY <1>7 DEF Slept
<1>8. CASE Drained
  BY <1>8 DEF Drained
<1>15. CASE Raises
  BY <1>15 DEF Raises
<1>9. CASE Close
  BY <1>9 DEF Close
<1>10. CASE Joined
  BY <1>10 DEF Joined
<1>11. CASE Listen \/ Drain
  BY <1>1, <1>11 DEF Listen, Drain, ProcessRecord
<1>12. CASE \E s \in Senders : Emit(s) \/ EmitHead(s) \/ EmitTail(s) \/ Crash(s)
  BY <1>1, <1>12 DEF Emit, EmitHead, EmitTail, Crash
<1>13. CASE \E c \in Conns : Receive(c)
  BY <1>1, <1>13 DEF Receive
<1>14. QED
  BY <1>2, <1>3, <1>4, <1>5, <1>6, <1>7, <1>8, <1>9, <1>10, <1>11, <1>12, <1>13, <1>15
     DEF Next, ListenerNext

(* A connection on which somebody can still send has not ended.            *)
Ended(c) ==
    \/ receiver[c].pc = "ended"
    \/ \E i \in DOMAIN stream[c] : stream[c][i].part = "end"

LEMMA NotEnded == ASSUME NEW s \in alive, EndOK(Conn[s]) PROVE ~Ended(Conn[s])
  BY DEF Ended, EndOK

LEMMA EndUnchanged ==
    ASSUME NEW c, EndOK(c), stream'[c] = stream[c], receiver'[c] = receiver[c], alive' \subseteq alive
    PROVE  EndOK(c)'
  BY DEF EndOK

LEMMA EndByTransmit ==
    ASSUME Typed, NEW s \in alive, NEW piece \in Pieces, piece.part # "end",
           Transmits(Conn[s], piece), receiver' = receiver, alive' = alive,
           \A c \in Conns : EndOK(c), NEW d \in Conns
    PROVE  EndOK(d)'
<1>1. Conn[s] \in Conns /\ SocketsOK /\ stream[Conn[s]] \in Seq(Pieces)
  BY ConnOfSender DEF Typed, SendersOK, SocketsOK
<1>2. CASE stream'[d] = stream[d]
  BY <1>2, EndUnchanged
<1>3. CASE d = Conn[s] /\ stream'[d] = Append(stream[d], piece)
  <2>1. ~Ended(d)
    BY <1>1, <1>3, NotEnded
  <2>2. \A i \in DOMAIN stream'[d] : stream'[d][i].part # "end"
    BY <1>1, <1>3, <2>1 DEF Ended
  <2>3. QED  BY <2>1, <2>2 DEF Ended, EndOK
<1>4. QED  BY <1>1, <1>2, <1>3, Transmission

LEMMA EndStep ==
    ASSUME Typed, \A c \in Conns : EndOK(c), [Next]_vars, NEW d \in Conns
    PROVE  EndOK(d)'
<1>1. ASSUME UNCHANGED <<alive, stream, receiver>> PROVE EndOK(d)'
  BY <1>1, EndUnchanged
<1>2. CASE UNCHANGED vars
  BY <1>1, <1>2 DEF vars, sockets, processes
<1>3. CASE \/ Bind \/ HandedOver \/ ShutdownSeen \/ Slept \/ Drained \/ Raises \/ TakeAddress \/ Joined
           \/ Close
  BY <1>1, <1>3
     DEF Bind, HandedOver, ShutdownSeen, Slept, Drained, Raises, TakeAddress, Joined, Close, sockets,
         processes
<1>4. CASE Listen \/ Drain
  <2>1. ProcessRecord /\ alive' = alive /\ receiver' = receiver /\ Main \in alive
    BY <1>4 DEF Listen, Drain, ProcessRecord, processes, Typed, SendersOK
  <2>2. CASE UNCHANGED sockets
    BY <1>1, <2>1, <2>2 DEF sockets
  <2>3. CASE /\ Head(queue).kind = "extension"
             /\ Transmits(Conn[Main], Part(AsWritten(Head(queue)), "whole"))
    <3> DEFINE piece == Part(AsWritten(Head(queue)), "whole")
    <3>1. piece \in Pieces /\ piece.part = "whole"
      BY <2>1, <2>3, Processing, RoundPiece DEF Part
    <3>2. Transmits(Conn[Main], piece)
      BY <2>3
    <3> HIDE DEF piece
    <3>3. QED  BY <2>1, <3>1, <3>2, EndByTransmit
  <2>4. QED  BY <2>1, <2>2, <2>3, Processing
<1>5. ASSUME NEW s \in Senders, Emit(s) \/ EmitHead(s) \/ EmitTail(s) PROVE EndOK(d)'
  <2>1. PICK part \in {"whole", "head", "tail"} : Transmits(Conn[s], Part(Record(s), part))
    BY <1>5 DEF Emit, EmitHead, EmitTail
  <2> DEFINE piece == Part(Record(s), part)
  <2>2. piece \in Pieces /\ piece.part # "end"
    BY RecordOfSender, PartIsPiece DEF Typed
  <2>3. s \in alive /\ alive' = alive /\ receiver' = receiver
    BY <1>5 DEF Emit, EmitHead, EmitTail, Logs, Typed, SendersOK
  <2>4. Transmits(Conn[s], piece)
    BY <2>1
  <2> HIDE DEF piece
  <2>5. QED  BY <2>2, <2>3, <2>4, EndByTransmit
<1>6. ASSUME NEW s \in Senders, Crash(s) PROVE EndOK(d)'
  <2> DEFINE end == Part(NoRecord, "end")
  <2>1. end \in Pieces
    BY EndIsPiece
  <2>2. /\ alive' \subseteq alive /\ receiver' = receiver /\ s \in alive
        /\ \/ stream' = stream
           \/ /\ ~\E t \in alive' : Conn[t] = Conn[s]
              /\ stream' = [stream EXCEPT ![Conn[s]] = Append(@, end)]
    BY <1>6 DEF Crash
  <2> HIDE DEF end
  <2>3. stream \in [Conns -> Seq(Pieces)] /\ Conn[s] \in Conns
    BY ConnOfSender DEF Typed, SocketsOK
  <2>4. CASE stream'[d] = stream[d]
    BY <2>2, <2>4, EndUnchanged
  <2>5. CASE /\ d = Conn[s] /\ stream'[d] = Append(stream[d], end)
             /\ ~\E t \in alive' : Conn[t] = Conn[s]
    <3>1. ~Ended(d)
      BY <2>2, <2>5, NotEnded
    <3>2. stream[d] \in Seq(Pieces)
      BY <2>3
    <3>3. \A i \in DOMAIN stream'[d] : stream'[d][i].part = "end" => i = Len(stream'[d])
      BY <2>1, <2>5, <3>1, <3>2 DEF Ended
    <3>4. QED  BY <2>2, <2>5, <3>1, <3>3 DEF Ended, EndOK
  <2>6. QED  BY <2>2, <2>3, <2>4, <2>5
<1>7. ASSUME NEW c \in Conns, Receive(c) PROVE EndOK(d)'
  <2>1. /\ stream[c] \in Seq(Pieces) /\ stream[c] # <<>> /\ stream'[c] = Tail(stream[c])
        /\ alive' = alive /\ receiver[c].pc = "read"
    BY <1>7, Reception DEF Typed, SocketsOK, Receive, processes
  <2>2. CASE d # c
    BY <1>7, <2>1, <2>2, Reception, EndUnchanged
  <2>3. CASE d = c
    <3>1. \A i \in DOMAIN stream'[c] : i + 1 \in DOMAIN stream[c] /\ stream'[c][i] = stream[c][i + 1]
      BY <2>1
    <3>2. Len(stream'[c]) = Len(stream[c]) - 1 /\ Len(stream[c]) \in Nat
      BY <2>1
    <3>3. \A i \in DOMAIN stream'[c] : stream'[c][i].part = "end" =>
            i = Len(stream'[c]) /\ \A s \in alive : Conn[s] # c
      <4> SUFFICES ASSUME NEW i \in DOMAIN stream'[c], stream'[c][i].part = "end"
                   PROVE  i = Len(stream'[c]) /\ \A s \in alive : Conn[s] # c
        OBVIOUS
      <4>1. i + 1 = Len(stream[c]) /\ \A s \in alive : Conn[s] # c
        BY <3>1 DEF EndOK
      <4>2. i \in Int
        BY <2>1
      <4>3. QED  BY <3>2, <4>1, <4>2
    <3>4. receiver'[c].pc = "ended" => stream'[c] = <<>> /\ \A s \in alive : Conn[s] # c
      <4> SUFFICES ASSUME receiver'[c].pc = "ended"
                   PROVE  stream'[c] = <<>> /\ \A s \in alive : Conn[s] # c
        OBVIOUS
      <4>1. Head(stream[c]).part = "end"
        BY <1>7, Reception
      <4>2. 1 \in DOMAIN stream[c] /\ Head(stream[c]) = stream[c][1]
        BY <2>1
      <4>3. Len(stream[c]) = 1 /\ \A s \in alive : Conn[s] # c
        BY <4>1, <4>2 DEF EndOK
      <4>4. stream'[c] \in Seq(Pieces) /\ Len(stream'[c]) = 0
        BY <2>1, <3>2, <4>3
      <4>5. QED  BY <4>3, <4>4
    <3>5. QED  BY <2>1, <2>3, <3>3, <3>4 DEF EndOK
  <2>4. QED  BY <2>2, <2>3
<1>8. QED
  BY <1>2, <1>3, <1>4, <1>5, <1>6, <1>7 DEF Next, ListenerNext

(* What was sent before the close was sent: the numbers that follow are    *)
(* not among it.                                                           *)
LEMMA BeforeStep == ASSUME Typed, StatusOK, BeforeOK, [Next]_vars PROVE BeforeOK'
<1>1. CASE Close
  <2>1. sent' = sent /\ owner' = "join"
    BY <1>1 DEF Close, processes
  <2>2. ASSUME NEW r \in before' PROVE r.kind = "log" /\ r.n \in 1 .. sent'[r.from]
    <3>1. PICK s \in Senders : \E n \in 1 .. sent[s] : r = Logged(s, n)
      BY <1>1, Recorded
    <3>2. QED  BY <2>1, <3>1 DEF Logged
  <2>3. QED  BY <2>1, <2>2 DEF BeforeOK
<1>2. ASSUME before' = before, \A s \in Senders : sent[s] <= sent'[s],
             owner \in {"join", "closed"} => owner' \in {"join", "closed"}
      PROVE  BeforeOK'
  <2> SUFFICES ASSUME NEW r \in before
               PROVE  r.kind = "log" /\ r.n \in 1 .. sent'[r.from] /\ owner' \in {"join", "closed"}
    BY <1>2 DEF BeforeOK
  <2>1. r.kind = "log" /\ r.n \in 1 .. sent[r.from] /\ owner \in {"join", "closed"}
    BY DEF BeforeOK
  <2>2. r.from \in Senders
    BY DEF Typed, ListenerOK, Records
  <2>3. sent[r.from] \in Nat /\ sent[r.from] <= sent'[r.from]
    BY <1>2, <2>2 DEF Typed, SendersOK
  <2>4. r.n \in 1 .. sent'[r.from]
    <3>1. sent'[r.from] \in Nat
      BY <2>2, TypesStep DEF Typed, SendersOK
    <3>2. QED  BY <2>1, <2>3, <3>1
  <2>5. QED  BY <1>2, <2>1, <2>4
<1>3. ASSUME NEW s \in Senders PROVE sent[s] <= sent[s]
  BY DEF Typed, SendersOK
<1>4. CASE UNCHANGED vars
  BY <1>2, <1>3, <1>4 DEF vars, processes, control
<1>5. CASE Bind \/ HandedOver \/ ShutdownSeen \/ Slept \/ Drained \/ Raises
  BY <1>2, <1>3, <1>5
     DEF Bind, HandedOver, ShutdownSeen, Slept, Drained, Raises, processes
<1>6. CASE Listen \/ Drain
  BY <1>2, <1>3, <1>6 DEF Listen, Drain, ProcessRecord, processes, control
<1>7. CASE TakeAddress \/ Joined
  BY <1>2, <1>3, <1>7 DEF TakeAddress, Joined, processes
<1>8. ASSUME NEW s \in Senders, Emit(s) \/ EmitTail(s) PROVE BeforeOK'
  <2>1. \A t \in Senders : sent[t] <= sent'[t]
    BY <1>8 DEF Emit, EmitTail, Typed, SendersOK
  <2>2. QED  BY <1>2, <1>8, <2>1 DEF Emit, EmitTail, control
<1>9. ASSUME NEW s \in Senders, EmitHead(s) \/ Crash(s) PROVE BeforeOK'
  BY <1>2, <1>3, <1>9 DEF EmitHead, Crash, control
<1>10. ASSUME NEW c \in Conns, Receive(c) PROVE BeforeOK'
  BY <1>2, <1>3, <1>10 DEF Receive, processes, control
<1>11. QED
  BY <1>1, <1>4, <1>5, <1>6, <1>7, <1>8, <1>9, <1>10 DEF Next, ListenerNext

(* Nothing of what was sent before the close comes back to a connection.   *)
QuietConns ==
    \A c \in Conns : receiver[c].pc = "read" =>
      \A i \in DOMAIN stream[c] : Carries(stream[c][i]) => Handled(stream[c][i].record)
EmptiedQueue == \A i \in DOMAIN queue : Handled(queue[i])

LEMMA Settled ==
    /\ SettledOK <=> /\ listener \in {"drain", "off"} => QuietConns
                     /\ listener = "off" => EmptiedQueue
    /\ SettledOK' <=> /\ listener' \in {"drain", "off"} => QuietConns'
                      /\ listener' = "off" => EmptiedQueue'
  BY DEF SettledOK, QuietConns, EmptiedQueue

LEMMA AddedQuiet ==
    ASSUME SocketsOK, QuietConns, NEW c, NEW piece \in Pieces, Adds(c, piece),
           UNCHANGED <<receiver, before>>, missed \subseteq missed',
           Carries(piece) => AsWritten(piece.record) \notin before \ missed'
    PROVE  QuietConns'
<1> SUFFICES ASSUME NEW d \in Conns, receiver[d].pc = "read", NEW i \in DOMAIN stream'[d],
                    Carries(stream'[d][i])
             PROVE  AsWritten(stream'[d][i].record) \notin before \ missed'
  BY DEF QuietConns, Handled, Carries, AsWritten
<1>1. stream[d] \in Seq(Pieces)
  BY DEF SocketsOK
<1>2. CASE i \in DOMAIN stream[d] /\ stream'[d][i] = stream[d][i]
  BY <1>2 DEF QuietConns, Handled
<1>3. CASE stream'[d][i] = piece
  BY <1>3
<1>4. CASE stream'[d] = stream[d]
  BY <1>2, <1>4
<1>5. CASE stream'[d] = Append(stream[d], piece)
  <2>1. \/ i \in DOMAIN stream[d] /\ stream'[d][i] = stream[d][i]
        \/ stream'[d][i] = piece
    BY <1>1, <1>5
  <2>2. QED  BY <1>2, <1>3, <2>1
<1>6. QED  BY <1>4, <1>5 DEF Adds

LEMMA SettledByAdding ==
    ASSUME Typed, SettledOK, NEW c, NEW piece \in Pieces, Adds(c, piece),
           UNCHANGED <<receiver, before, missed, queue, listener>>,
           Carries(piece) => AsWritten(piece.record) \notin before
    PROVE  SettledOK'
<1>1. SocketsOK
  BY DEF Typed
<1>2. QuietConns => QuietConns'
  BY <1>1, AddedQuiet
<1>3. EmptiedQueue => EmptiedQueue'
  BY DEF EmptiedQueue, Handled, AsWritten
<1>4. QED  BY <1>2, <1>3, Settled

(* A record that is sent now is none of those.                             *)
LEMMA NextIsNew ==
    ASSUME Typed, BeforeOK, NEW s \in Senders
    PROVE  Logged(s, sent[s] + 1) \notin before
<1>1. SUFFICES ASSUME Logged(s, sent[s] + 1) \in before PROVE FALSE
  OBVIOUS
<1>2. Logged(s, sent[s] + 1).n \in 1 .. sent[Logged(s, sent[s] + 1).from]
  BY <1>1 DEF BeforeOK
<1>3. sent[s] + 1 \in 1 .. sent[s] /\ sent[s] \in Nat
  BY <1>2 DEF Logged, Typed, SendersOK
<1>4. QED  BY <1>3

LEMMA SettledBySending ==
    ASSUME Typed, BeforeOK, SettledOK, NEW s \in Senders, NEW part \in {"whole", "head", "tail"},
           Transmits(Conn[s], Part(Record(s), part)),
           UNCHANGED <<receiver, before, missed, queue, listener>>
    PROVE  SettledOK'
<1> DEFINE piece == Part(Record(s), part)
<1>1. /\ piece \in Pieces /\ SocketsOK /\ Conn[s] \in Conns
      /\ AsWritten(piece.record) = Logged(s, sent[s] + 1)
  BY RecordOfSender, PartIsPiece, SentRound, ConnOfSender DEF Typed
<1>2. Transmits(Conn[s], piece)
  OBVIOUS
<1> HIDE DEF piece
<1>3. Adds(Conn[s], piece)
  BY <1>1, <1>2, TransmitAdds
<1>4. AsWritten(piece.record) \notin before
  BY <1>1, NextIsNew
<1>5. QED  BY <1>1, <1>3, <1>4, SettledByAdding

LEMMA SettledByReceiving ==
    ASSUME Typed, SettledOK, NEW c \in Conns, Receive(c)
    PROVE  SettledOK'
<1>1. /\ stream[c] \in Seq(Pieces) /\ stream[c] # <<>> /\ stream'[c] = Tail(stream[c])
      /\ receiver[c].pc = "read" /\ queue \in Seq(Records)
      /\ UNCHANGED <<listener, before, missed>>
  BY Reception DEF Typed, SocketsOK, ListenerOK, Receive, control
<1>2. \A i \in DOMAIN stream'[c] : i + 1 \in DOMAIN stream[c] /\ stream'[c][i] = stream[c][i + 1]
  BY <1>1
<1>3. 1 \in DOMAIN stream[c] /\ Head(stream[c]) = stream[c][1]
  BY <1>1
<1>4. QuietConns => QuietConns'
  <2> SUFFICES ASSUME QuietConns, NEW d \in Conns, receiver'[d].pc = "read",
                      NEW i \in DOMAIN stream'[d], Carries(stream'[d][i])
               PROVE  AsWritten(stream'[d][i].record) \notin before \ missed
    BY <1>1 DEF QuietConns, Handled, Carries, AsWritten
  <2>1. CASE d # c
    BY <2>1, Reception DEF QuietConns, Handled
  <2>2. CASE d = c
    BY <1>1, <1>2, <2>2 DEF QuietConns, Handled
  <2>3. QED  BY <2>1, <2>2
<1>5. QuietConns /\ EmptiedQueue => EmptiedQueue'
  <2> SUFFICES ASSUME QuietConns, EmptiedQueue, NEW i \in DOMAIN queue'
               PROVE  AsWritten(queue'[i]) \notin before \ missed
    BY <1>1 DEF EmptiedQueue, Handled, AsWritten
  <2>1. CASE i \in DOMAIN queue /\ queue'[i] = queue[i]
    BY <2>1 DEF EmptiedQueue, Handled
  <2>2. CASE queue' = queue
    BY <2>1, <2>2
  <2>3. CASE /\ Carries(Head(stream[c])) /\ Head(stream[c]).record \in Records
             /\ queue' = Append(queue, Head(stream[c]).record)
    <3>1. CASE queue'[i] = Head(stream[c]).record
      BY <1>1, <1>3, <2>3, <3>1 DEF QuietConns, Handled
    <3>2. \/ i \in DOMAIN queue /\ queue'[i] = queue[i]
          \/ queue'[i] = Head(stream[c]).record
      BY <1>1, <2>3
    <3>3. QED  BY <2>1, <3>1, <3>2
  <2>4. QED  BY <2>2, <2>3, Reception
<1>6. QED  BY <1>1, <1>4, <1>5, Settled

LEMMA SettledStep ==
    ASSUME Typed, StatusOK, BeforeOK, SettledOK, [Next]_vars
    PROVE  SettledOK'
<1>1. ASSUME UNCHANGED <<stream, receiver, queue, before, missed>>,
             listener' = listener \/ listener' \notin {"drain", "off"}
      PROVE  SettledOK'
  <2>1. QuietConns => QuietConns'
    BY <1>1 DEF QuietConns, Handled, Carries, AsWritten
  <2>2. EmptiedQueue => EmptiedQueue'
    BY <1>1 DEF EmptiedQueue, Handled, AsWritten
  <2>3. QED  BY <1>1, <2>1, <2>2, Settled
<1>2. CASE UNCHANGED vars
  BY <1>1, <1>2 DEF vars, sockets, control
<1>3. CASE Bind \/ HandedOver \/ ShutdownSeen \/ Raises \/ TakeAddress \/ Joined
  BY <1>1, <1>3 DEF Bind, HandedOver, ShutdownSeen, Raises, TakeAddress, Joined, sockets
<1>4. CASE Close
  <2>1. listener' \notin {"drain", "off"}
    BY <1>4 DEF Close, StatusOK
  <2>2. QED  BY <2>1, Settled
<1>5. CASE Slept
  <2>1. UNCHANGED <<stream, receiver, before>> /\ listener' = "drain" /\ missed' = missed \cup UnderWay
    BY <1>5 DEF Slept, sockets
  <2>2. \A c \in Conns : receiver[c].pc = "read" =>
          \A i \in DOMAIN stream[c] : AsWritten(stream[c][i].record) \notin before \ missed'
    BY <2>1 DEF UnderWay
  <2>3. QuietConns'
    BY <2>1, <2>2 DEF QuietConns, Handled, Carries, AsWritten
  <2>4. QED  BY <2>1, <2>3, Settled
<1>6. CASE Drained
  <2>1. UNCHANGED <<stream, receiver, queue, before, missed>> /\ listener = "drain" /\ queue = <<>>
    BY <1>6 DEF Drained, NothingLeft, sockets
  <2>2. EmptiedQueue'
    BY <2>1 DEF EmptiedQueue
  <2>3. QuietConns'
    BY <2>1, Settled DEF QuietConns, Handled, Carries, AsWritten
  <2>4. QED  BY <2>2, <2>3, Settled
<1>7. CASE Listen
  <2>1. listener' = "loop"
    BY <1>7 DEF Listen, ProcessRecord, control
  <2>2. QED  BY <2>1, Settled
<1>8. CASE Drain
  <2>1. /\ listener' = "drain" /\ listener = "drain" /\ ProcessRecord /\ before' = before
        /\ receiver' = receiver
        /\ missed' = IF Head(queue).kind = "extension"
                      THEN missed \cup {AsWritten(Head(queue))} ELSE missed
    BY <1>8 DEF Drain, ProcessRecord, control
  <2>2. QuietConns /\ SocketsOK
    BY <2>1, Settled DEF Typed
  <2>3. CASE Head(queue).kind = "log" /\ UNCHANGED sockets
    <3>1. missed' = missed
      BY <2>1, <2>3
    <3>2. QuietConns'
      BY <2>1, <2>2, <2>3, <3>1 DEF sockets, QuietConns, Handled, Carries, AsWritten
    <3>3. QED  BY <2>1, <3>2, Settled
  <2>4. CASE /\ Head(queue).kind = "extension"
             /\ Transmits(Conn[Main], Part(AsWritten(Head(queue)), "whole"))
    <3> DEFINE record == AsWritten(Head(queue))
               piece == Part(record, "whole")
    <3>1. /\ piece \in Pieces /\ AsWritten(piece.record) = record
          /\ Transmits(Conn[Main], piece)
      BY <2>1, <2>4, Processing, RoundPiece, PartIsPiece, SentRound
    <3>2. missed' = missed \cup {record}
      BY <2>1, <2>4
    <3> HIDE DEF piece, record
    <3>3. Adds(Conn[Main], piece)
      BY <2>2, <3>1, MainSender, TransmitAdds
    <3>4. QuietConns'
      BY <2>1, <2>2, <3>1, <3>2, <3>3, AddedQuiet
    <3>5. QED  BY <2>1, <3>4, Settled
  <2>5. QED  BY <2>1, <2>3, <2>4, Processing
<1>9. ASSUME NEW s \in Senders, Emit(s) \/ EmitHead(s) \/ EmitTail(s) PROVE SettledOK'
  <2>1. PICK part \in {"whole", "head", "tail"} : Transmits(Conn[s], Part(Record(s), part))
    BY <1>9 DEF Emit, EmitHead, EmitTail
  <2>2. UNCHANGED <<receiver, before, missed, queue, listener>>
    BY <1>9 DEF Emit, EmitHead, EmitTail, control
  <2>3. QED  BY <2>1, <2>2, SettledBySending
<1>10. ASSUME NEW s \in Senders, Crash(s) PROVE SettledOK'
  <2> DEFINE end == Part(NoRecord, "end")
  <2>1. end \in Pieces /\ end.part = "end"
    BY EndIsPiece
  <2>2. stream' = stream \/ stream' = [stream EXCEPT ![Conn[s]] = Append(@, end)]
    BY <1>10 DEF Crash
  <2> HIDE DEF end
  <2>3. ~Carries(end) /\ Adds(Conn[s], end)
    BY <2>1, <2>2 DEF Carries, Adds, Typed, SocketsOK
  <2>4. UNCHANGED <<receiver, before, missed, queue, listener>>
    BY <1>10 DEF Crash, control
  <2>5. QED  BY <2>1, <2>3, <2>4, SettledByAdding
<1>11. ASSUME NEW c \in Conns, Receive(c) PROVE SettledOK'
  BY <1>11, SettledByReceiving
<1>12. QED
  BY <1>2, <1>3, <1>4, <1>5, <1>6, <1>7, <1>8, <1>9, <1>10, <1>11 DEF Next, ListenerNext

LEMMA CloseInit == Init => CloseInv
<1> SUFFICES ASSUME Init PROVE CloseInv
  OBVIOUS
<1>1. StatusOK
  BY DEF Init, StatusOK
<1>2. \A c \in Conns : EndOK(c)
  BY DEF Init, EndOK
<1>3. KeptOK
  BY DEF Init, KeptOK
<1>4. BeforeOK /\ SettledOK
  BY DEF Init, BeforeOK, SettledOK
<1>5. QED  BY <1>1, <1>2, <1>3, <1>4 DEF CloseInv

(* Once MPLogger.close has returned, what any process sent before it was   *)
(* called is in the log file, unless a connection on its way was refused   *)
(* or its frames were mixed up, or it is an extension's record that was    *)
(* only handled during the shutdown.                                       *)
THEOREM CloseWritesAll == Spec => []ClosedMeansWritten
<1>1. Init => Typed /\ CloseInv
  BY TypesInit, CloseInit
<1>2. Typed /\ CloseInv /\ [Next]_vars => Typed' /\ CloseInv'
  BY TypesStep, StatusStep, EndStep, KeptStep, BeforeStep, SettledStep DEF CloseInv
<1>3. Typed /\ CloseInv => ClosedMeansWritten
  <2> SUFFICES ASSUME Typed, CloseInv, owner = "closed", NEW record \in before \ missed
               PROVE  \/ \E i \in DOMAIN written : written[i] = record
                      \/ \E c \in Ways(record) : Broken(c)
    BY DEF ClosedMeansWritten
  <2>1. listener = "off"
    BY DEF CloseInv, StatusOK
  <2>2. record \in Records /\ record.kind = "log" /\ record.n \in 1 .. sent[record.from]
    BY DEF Typed, ListenerOK, CloseInv, BeforeOK
  <2>3. record.from \in Senders /\ record = Logged(record.from, record.n)
    BY <2>2 DEF Records, Logged
  <2>4. Kept(record)
    BY <2>2, <2>3 DEF CloseInv, KeptOK
  <2>5. CASE InTheFile(record) \/ Lost(record)
    BY <2>5 DEF InTheFile, Lost
  <2>6. CASE Waiting(record)
    BY <2>1, <2>6 DEF Waiting, CloseInv, SettledOK, Handled
  <2>7. ASSUME NEW c \in Conns, OnConn(c, record) PROVE \E d \in Ways(record) : Broken(d)
    <3>1. PICK i \in DOMAIN stream[c] : Carries(stream[c][i]) /\ AsWritten(stream[c][i].record) = record
      BY <2>7 DEF OnConn
    <3>2. receiver[c].pc # "read"
      BY <2>1, <3>1 DEF CloseInv, SettledOK, Handled
    <3>3. receiver[c].pc # "ended"
      BY <3>1 DEF CloseInv, EndOK
    <3>4. Broken(c)
      BY <3>2, <3>3 DEF Typed, SocketsOK, Receivers, Broken
    <3>5. stream[c][i] \in Pieces
      BY DEF Typed, SocketsOK
    <3>6. c = Wire(stream[c][i].record) /\ stream[c][i].record.from = record.from
      BY <3>1, <3>5, PieceSorts, SentRound DEF Typed, PlacesOK, Carries
    <3>7. c \in Ways(record)
      BY <2>3, <3>6, WaysAreConns DEF Wire
    <3>8. QED  BY <3>4, <3>7
  <2>8. QED  BY <2>4, <2>5, <2>6, <2>7, KeptPlaces
<1>4. QED  BY <1>1, <1>2, <1>3, PTL DEF Spec
=============================================================================
