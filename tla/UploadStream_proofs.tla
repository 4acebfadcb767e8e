------------------------ MODULE UploadStream_proofs ------------------------
(***************************************************************************)
(* Theorems about UploadStream, for any number of streams, kinds, sizes    *)
(* and messages.                                                           *)
(***************************************************************************)
EXTENDS UploadStream, TLAPS

-----------------------------------------------------------------------------
(***************************************************************************)
(* Types.                                                                  *)
(***************************************************************************)
LEMMA InitType == Init => TypeOK
BY SizesAreNatural DEF Init, TypeOK, Codes

LEMMA MessageType ==
    ASSUME TypeOK, NEW s \in Streams
    PROVE  /\ Len(sent[s]) \in Nat
           /\ \A i \in 1..Len(sent[s]) :
                  /\ sent[s][i] \in Messages
                  /\ sent[s][i].at \in Nat
                  /\ sent[s][i].size \in Nat
                  /\ sent[s][i].size \in Sizes \cup {0}
           /\ \A types : HasMessage(s, types) =>
                  /\ read[s] + 1 \in 1..Len(sent[s])
                  /\ Message(s).size \in Nat
                  /\ Message(s).size \in Sizes \cup {0}
<1>1. Len(sent[s]) \in Nat /\ sent[s] \in Seq(Messages) /\ read[s] \in Nat
    BY DEF TypeOK
<1>2. \A m \in Messages : m.at \in Nat /\ m.size \in Sizes \cup {0}
    BY DEF Messages
<1>3. Sizes \cup {0} \subseteq Nat
    BY SizesAreNatural
<1>4. ASSUME NEW i \in 1..Len(sent[s])
      PROVE  /\ sent[s][i] \in Messages
             /\ sent[s][i].at \in Nat
             /\ sent[s][i].size \in Nat
             /\ sent[s][i].size \in Sizes \cup {0}
    <2>1. sent[s][i] \in Messages
        BY <1>1
    <2> QED
        BY <1>2, <1>3, <2>1
<1>5. ASSUME NEW types, HasMessage(s, types)
      PROVE  read[s] + 1 \in 1..Len(sent[s])
    BY <1>1, <1>5 DEF HasMessage
<1> QED
    BY <1>1, <1>4, <1>5 DEF Message

Labels == {"idle", "meta", "chunks", "drain", "service", "end"}

LEMMA UpdateTypes ==
    ASSUME TypeOK, NEW s \in Streams
    PROVE  /\ \A l \in Labels : Goto(s, l) => pc' \in [Streams -> Labels]
           /\ \A c \in Codes : Finish(s, c) =>
                  pc' \in [Streams -> Labels] /\ code' \in [Streams -> Codes]
           /\ Consume(s) => read' \in [Streams -> Nat]
           /\ pc \in [Streams -> Labels]
           /\ read \in [Streams -> Nat]
           /\ code \in [Streams -> Codes]
<1>1. pc \in [Streams -> Labels] /\ code \in [Streams -> Codes]
      /\ read \in [Streams -> Nat]
    BY DEF TypeOK, Labels
<1>2. "end" \in Labels
    BY DEF Labels
<1>3. \A l \in Labels : Goto(s, l) => pc' \in [Streams -> Labels]
    BY <1>1 DEF Goto
<1>4. \A c \in Codes : Finish(s, c) => code' \in [Streams -> Codes]
    BY <1>1 DEF Finish
<1>5. Consume(s) => read' \in [Streams -> Nat]
    BY <1>1 DEF Consume
<1> QED
    BY <1>1, <1>2, <1>3, <1>4, <1>5 DEF Finish

\* What the handler does to the variables, one by one.
LEMMA HandleType ==
    ASSUME TypeOK, NEW s \in Streams, Handle(s) PROVE TypeOK'
<1>1. \A types : HasMessage(s, types) =>
          Message(s).size \in Nat /\ Message(s).size \in Sizes \cup {0}
    BY MessageType
<1>2. UNCHANGED <<client, process>>
    BY DEF Handle, ReceiveMeta, ReceiveChunk, Drain, CallService
<1>3. /\ pc' \in [Streams -> Labels] /\ code' \in [Streams -> Codes]
      /\ read' \in [Streams -> Nat]
    <2>1. /\ {"end", "chunks", "drain", "service"} \subseteq Labels
          /\ {"OK", "InvalidArgument", "Canceled", "Internal", "Failed"}
                 \subseteq Codes
        BY DEF Labels, Codes
    <2>2. CASE ReceiveMeta(s)
        BY <2>1, <2>2, UpdateTypes DEF ReceiveMeta
    <2>3. CASE ReceiveChunk(s)
        BY <2>1, <2>3, UpdateTypes DEF ReceiveChunk, AfterLoop
    <2>4. CASE Drain(s)
        BY <2>1, <2>4, UpdateTypes DEF Drain
    <2>5. CASE CallService(s)
        BY <2>1, <2>5, UpdateTypes DEF CallService
    <2> QED
        BY <2>2, <2>3, <2>4, <2>5 DEF Handle
<1>4. declared' \in [Streams -> Sizes \cup {0}]
    BY <1>1 DEF Handle, ReceiveMeta, ReceiveChunk, Drain, CallService, TypeOK
<1>5. total' \in [Streams -> 0..MaxFileSize]
    <2>1. ASSUME HasMessage(s, {"chunk"}), ~TooLarge(s, Message(s).size)
          PROVE  total[s] + Message(s).size \in 0..MaxFileSize
        BY <1>1, <2>1, SizesAreNatural DEF TooLarge, TypeOK
    <2>2. \/ total' = total
          \/ /\ HasMessage(s, {"chunk"}) /\ ~TooLarge(s, Message(s).size)
             /\ total' = [total EXCEPT ![s] = @ + Message(s).size]
        BY DEF Handle, ReceiveMeta, ReceiveChunk, Drain, CallService
    <2> QED
        BY <2>1, <2>2 DEF TypeOK
<1>6. object' \in [Streams -> Nat]
    <2>1. \A n \in Stored(s) : n \in Nat
        BY SizesAreNatural DEF Stored, TypeOK
    <2> QED
        BY <2>1 DEF Handle, ReceiveMeta, ReceiveChunk, Drain, CallService,
                    TypeOK
<1> QED
    BY <1>2, <1>3, <1>4, <1>5, <1>6 DEF TypeOK, Labels, client, process

LEMMA NextType == TypeOK /\ [Next]_vars => TypeOK'
<1> SUFFICES ASSUME TypeOK, [Next]_vars PROVE TypeOK'
    OBVIOUS
<1> USE DEF client, process
<1>1. ASSUME NEW s \in Streams, Open(s) PROVE TypeOK'
    BY <1>1 DEF Open, TypeOK
<1>2. ASSUME NEW s \in Streams, NEW type \in MessageTypes,
             NEW size \in Sizes \cup {0}, Send(s, type, size)
      PROVE  TypeOK'
    <2>1. [type |-> type, at |-> offset[s], size |-> size] \in Messages
        BY DEF Messages, TypeOK
    <2>2. Append(sent[s], [type |-> type, at |-> offset[s], size |-> size])
              \in Seq(Messages)
        BY <2>1 DEF TypeOK
    <2>3. sent' \in [Streams -> Seq(Messages)]
        BY <1>2, <2>2 DEF Send, TypeOK
    <2>4. offset' \in [Streams -> Nat]
        BY <1>2, SizesAreNatural DEF Send, TypeOK
    <2> QED
        BY <1>2, <2>3, <2>4 DEF Send, TypeOK
<1>3. ASSUME NEW s \in Streams, NEW how \in {"closed", "broken"},
             EndOfStream(s, how)
      PROVE  TypeOK'
    BY <1>3 DEF EndOfStream, TypeOK
<1>4. CASE Terminate \/ Stop \/ Kill
    BY <1>4 DEF Terminate, Stop, Kill, TypeOK
<1>5. CASE UNCHANGED vars
    BY <1>5 DEF vars, TypeOK
<1> QED
    BY <1>1, <1>2, <1>3, <1>4, <1>5, HandleType DEF Next

\* Every variable keeps its type; above all, no buffer outgrows the limit.
THEOREM StreamTypeCorrect == Spec => []TypeOK
BY InitType, NextType, PTL DEF Spec

-----------------------------------------------------------------------------
(***************************************************************************)
(* The offsets of what a client has sent.                                  *)
(***************************************************************************)
Weight(m) == IF m.type = "chunk" THEN m.size ELSE 0
After(s, i) == sent[s][i].at + Weight(sent[s][i])

\* Each message begins where the one before it stops.
SentOK(s) ==
    LET n == Len(sent[s]) IN
    /\ n = 0 => offset[s] = 0
    /\ n > 0 => sent[s][1].at = 0 /\ offset[s] = After(s, n)
    /\ \A i, j \in 1..n :
           /\ i < j => After(s, i) <= sent[s][j].at
           /\ j = i + 1 => After(s, i) = sent[s][j].at

\* The offset that the handler has reached.
Reached(s) ==
    IF read[s] < Len(sent[s]) THEN sent[s][read[s] + 1].at ELSE offset[s]

\* The handler has received the metadata and then chunks only, all of them in
\* the buffer, until it received done.
HandlerOK(s) ==
    /\ read[s] <= Len(sent[s])
    /\ pc[s] \in {"idle", "meta"} => read[s] = 0 /\ total[s] = 0
    /\ pc[s] = "idle" => declared[s] = 0
    /\ pc[s] \in {"meta", "drain"} => declared[s] = 0
    /\ pc[s] = "drain" => read[s] > 0 /\ sent[s][1].type = "urlMeta"
    /\ pc[s] = "chunks" =>
           /\ read[s] > 0
           /\ total[s] = Reached(s)
           /\ total[s] = 0 => read[s] = 1
           /\ \A i \in 2..read[s] : sent[s][i].type = "chunk"
    /\ pc[s] = "service" =>
           \/ declared[s] = 0
           \/ /\ read[s] > 0 /\ sent[s][read[s]].type = "done"
              /\ total[s] <= sent[s][read[s]].at

AnswerOK(s) ==
    /\ pc[s] # "end" => object[s] = 0
    /\ object[s] > 0 =>
           /\ read[s] > 0 /\ sent[s][read[s]].type = "done"
           /\ object[s] <= sent[s][read[s]].at
    /\ pc[s] = "end" /\ server # "killed" =>
           \/ code[s] \in {"OK", "Failed"}
           \/ Detected[kind[s]] \notin AllowedContentTypes
           \/ ~Correct(s)

StreamOK(s) == SentOK(s) /\ HandlerOK(s) /\ AnswerOK(s)

StreamsOK == \A s \in Streams : StreamOK(s)

LEMMA InitStreams == Init => StreamsOK
<1> SUFFICES ASSUME Init, NEW s \in Streams PROVE StreamOK(s)
    BY DEF StreamsOK
<1>1. /\ sent[s] = << >> /\ Len(sent[s]) = 0 /\ offset[s] = 0
      /\ pc[s] = "idle" /\ read[s] = 0 /\ total[s] = 0 /\ declared[s] = 0
      /\ object[s] = 0
    BY DEF Init
<1>2. SentOK(s)
    <2>1. \A i \in 1..Len(sent[s]) : FALSE
        BY <1>1
    <2> QED
        BY <1>1, <2>1 DEF SentOK
<1>3. HandlerOK(s)
    BY <1>1 DEF HandlerOK
<1>4. AnswerOK(s)
    BY <1>1 DEF AnswerOK
<1> QED
    BY <1>2, <1>3, <1>4 DEF StreamOK

\* A stream that nobody touches.
LEMMA Untouched ==
    ASSUME NEW s \in Streams, StreamOK(s),
           kind'[s] = kind[s], sent'[s] = sent[s], offset'[s] = offset[s],
           sender'[s] = sender[s], pc'[s] = pc[s], read'[s] = read[s],
           declared'[s] = declared[s], total'[s] = total[s],
           code'[s] = code[s], object'[s] = object[s],
           server' # "killed" => server # "killed"
    PROVE  StreamOK(s)'
<1>1. SentOK(s)'
    BY DEF StreamOK, SentOK, After
<1>2. HandlerOK(s)'
    BY DEF StreamOK, HandlerOK, Reached
<1>3. Correct(s)' <=> Correct(s)
    BY DEF Correct
<1>4. AnswerOK(s)'
    BY <1>3 DEF StreamOK, AnswerOK
<1> QED
    BY <1>1, <1>2, <1>4 DEF StreamOK

LEMMA OpenStep ==
    ASSUME TypeOK, NEW s \in Streams, StreamOK(s), Open(s)
    PROVE  StreamOK(s)'
<1>1. /\ UNCHANGED <<kind, sent, offset, sender, read, declared, total, code,
                     object, server>>
      /\ pc[s] = "idle" /\ pc'[s] = "meta"
    BY DEF Open, client, process, TypeOK
<1>2. SentOK(s)'
    BY <1>1 DEF StreamOK, SentOK, After
<1> QED
    BY <1>1, <1>2 DEF StreamOK, HandlerOK, AnswerOK, Reached

LEMMA SendStep ==
    ASSUME TypeOK, NEW s \in Streams, StreamOK(s),
           NEW type \in MessageTypes, NEW size \in Sizes \cup {0},
           Send(s, type, size)
    PROVE  StreamOK(s)'
<1> DEFINE n == Len(sent[s])
           m == [type |-> type, at |-> offset[s], size |-> size]
<1>1. /\ UNCHANGED <<kind, sender, pc, read, declared, total, code, object,
                     server>>
      /\ pc[s] \notin {"idle", "end"}
      /\ sent'[s] = Append(sent[s], m)
      /\ offset'[s] = IF type = "chunk" THEN offset[s] + size ELSE offset[s]
    BY DEF Send, InFlight, process, TypeOK
<1>2. /\ n \in Nat /\ offset[s] \in Nat /\ size \in Nat /\ read[s] \in Nat
      /\ sent[s] \in Seq(Messages)
      /\ \A i \in 1..n : /\ sent[s][i].at \in Nat /\ sent[s][i].size \in Nat
                         /\ After(s, i) \in Nat
    BY MessageType, SizesAreNatural DEF TypeOK, After, Weight
<1>3. /\ Len(sent'[s]) = n + 1
      /\ \A i \in 1..n : sent'[s][i] = sent[s][i]
      /\ sent'[s][n + 1] = m
    BY <1>1, <1>2
<1>4. /\ \A i \in 1..n : After(s, i)' = After(s, i)
      /\ sent'[s][n + 1].at + Weight(sent'[s][n + 1]) = offset'[s]
      /\ sent'[s][n + 1].at = offset[s]
    <2>1. \A i \in 1..n : After(s, i)' = After(s, i)
        BY <1>3 DEF After
    <2>2. m.at = offset[s] /\ m.at + Weight(m) = offset'[s]
        BY <1>1, <1>2 DEF Weight
    <2> QED
        BY <1>3, <2>1, <2>2
<1>5. \A i \in 1..n : After(s, i) <= offset[s]
    <2> SUFFICES ASSUME NEW i \in 1..n PROVE After(s, i) <= offset[s]
        OBVIOUS
    <2>1. CASE i = n
        BY <1>2, <2>1 DEF StreamOK, SentOK
    <2>2. CASE i < n
        <3>1. /\ n \in 1..n /\ After(s, i) <= sent[s][n].at
              /\ offset[s] = After(s, n)
            BY <1>2, <2>2 DEF StreamOK, SentOK
        <3>2. sent[s][n].at <= After(s, n)
            BY <1>2, <3>1 DEF After, Weight
        <3> QED
            BY <1>2, <3>1, <3>2
    <2> QED
        BY <1>2, <2>1, <2>2
<1> HIDE DEF m
<1>6. SentOK(s)'
    <2>1. Len(sent'[s]) > 0
        BY <1>2, <1>3
    <2>2. sent'[s][1].at = 0
        <3>1. CASE n = 0
            BY <1>4, <3>1 DEF StreamOK, SentOK
        <3>2. CASE n > 0
            <4>1. 1 \in 1..n
                BY <1>2, <3>2
            <4> QED
                BY <1>3, <3>2, <4>1 DEF StreamOK, SentOK
        <3> QED
            BY <1>2, <3>1, <3>2
    <2>3. offset'[s] = After(s, Len(sent[s]))'
        BY <1>3, <1>4 DEF After
    <2>4. ASSUME NEW i \in 1..(n + 1), NEW j \in 1..(n + 1)
          PROVE  /\ i < j => After(s, i)' <= sent'[s][j].at
                 /\ j = i + 1 => After(s, i)' = sent'[s][j].at
        <3>1. CASE j \in 1..n /\ i \in 1..n
            BY <1>2, <1>3, <1>4, <3>1 DEF StreamOK, SentOK
        <3>2. CASE j = n + 1 /\ i \in 1..n
            BY <1>2, <1>4, <1>5, <3>2 DEF StreamOK, SentOK
        <3>3. CASE i = n + 1
            <4>1. ~(i < j) /\ j # i + 1
                BY <1>2, <3>3
            <4> QED
                BY <4>1
        <3>4. \/ j \in 1..n /\ i \in 1..n
              \/ j = n + 1 /\ i \in 1..n
              \/ i = n + 1
            BY <1>2
        <3> QED
            BY <3>1, <3>2, <3>3, <3>4
    <2> QED
        <3>1. \A i, j \in 1..Len(sent'[s]) :
                  /\ i < j => After(s, i)' <= sent'[s][j].at
                  /\ j = i + 1 => After(s, i)' = sent'[s][j].at
            BY <1>3, <2>4
        <3> QED
            BY <2>1, <2>2, <2>3, <3>1 DEF SentOK
<1>7. HandlerOK(s)'
    <2>1. Reached(s)' = Reached(s)
        BY <1>1, <1>2, <1>3, <1>4 DEF StreamOK, HandlerOK, Reached
    <2>2. \A i \in 1..read[s] : sent'[s][i] = sent[s][i]
        BY <1>2, <1>3 DEF StreamOK, HandlerOK
    <2>3. read'[s] <= Len(sent'[s])
        BY <1>1, <1>2, <1>3 DEF StreamOK, HandlerOK
    <2>4. read[s] > 0 => 1 \in 1..read[s] /\ read[s] \in 1..read[s]
        BY <1>2
    <2>5. \A i \in 2..read[s] : i \in 1..read[s]
        BY <1>2
    <2> QED
        BY <1>1, <2>1, <2>2, <2>3, <2>4, <2>5 DEF StreamOK, HandlerOK
<1>8. AnswerOK(s)'
    BY <1>1 DEF StreamOK, AnswerOK
<1> QED
    BY <1>6, <1>7, <1>8 DEF StreamOK

LEMMA EndStep ==
    ASSUME TypeOK, NEW s \in Streams, StreamOK(s),
           NEW how, EndOfStream(s, how)
    PROVE  StreamOK(s)'
<1>1. /\ UNCHANGED <<kind, sent, offset, pc, read, declared, total, code,
                     object, server>>
      /\ pc[s] # "end"
    BY DEF EndOfStream, InFlight, process
<1>2. SentOK(s)'
    BY <1>1 DEF StreamOK, SentOK, After
<1> QED
    BY <1>1, <1>2 DEF StreamOK, HandlerOK, AnswerOK, Reached

-----------------------------------------------------------------------------
(***************************************************************************)
(* The handler.                                                            *)
(***************************************************************************)
\* What a correct client has sent.
LEMMA CorrectFacts ==
    ASSUME TypeOK, NEW s \in Streams, StreamOK(s), Correct(s)
    PROVE  LET n == Len(sent[s]) IN
           /\ sender[s] # "broken" /\ n \in Nat /\ n > 2
           /\ sent[s][1].type = "fileMeta" /\ sent[s][1].size > 0
           /\ sent[s][n].type = "done"
           /\ \A i \in 2..(n - 1) : /\ sent[s][i].type = "chunk"
                                    /\ sent[s][i].at + sent[s][i].size
                                           <= MaxFileSize
           /\ sent[s][2].size >= MinFirst
<1> DEFINE n == Len(sent[s])
<1>1. /\ sender[s] # "broken" /\ n > 2
      /\ sent[s][1].type = "fileMeta" /\ sent[s][n].type = "done"
      /\ \A i \in 2..(n - 1) : sent[s][i].type = "chunk"
      /\ sent[s][1].size = sent[s][n].at
      /\ sent[s][n].at <= MaxFileSize
      /\ sent[s][2].size >= MinFirst
    BY DEF Correct
<1>2. /\ n \in Nat
      /\ \A i \in 1..n : sent[s][i].at \in Nat /\ sent[s][i].size \in Nat
    BY MessageType
<1>3. ASSUME NEW i \in 2..(n - 1)
      PROVE  sent[s][i].at + sent[s][i].size <= sent[s][n].at
    <2>1. i \in 1..n /\ n \in 1..n /\ i < n
        BY <1>1, <1>2
    <2>2. After(s, i) <= sent[s][n].at
        BY <2>1 DEF StreamOK, SentOK
    <2> QED
        BY <1>1, <2>2 DEF After, Weight
<1>4. ASSUME NEW i \in 2..(n - 1)
      PROVE  sent[s][i].at + sent[s][i].size <= MaxFileSize
    <2>1. i \in 1..n /\ n \in 1..n
        BY <1>1, <1>2
    <2> QED
        <3>1. /\ sent[s][i].at \in Nat /\ sent[s][i].size \in Nat
              /\ sent[s][n].at \in Nat /\ sent[s][n].at <= MaxFileSize
            BY <1>1, <1>2, <2>1
        <3>2. sent[s][i].at + sent[s][i].size <= sent[s][n].at
            BY <1>3
        <3> HIDE DEF n
        <3> QED
            BY <3>1, <3>2, SizesAreNatural
<1>5. sent[s][1].size > 0
    <2>1. 2 \in 2..(n - 1) /\ 2 \in 1..n /\ n \in 1..n
        BY <1>1, <1>2
    <2>2. sent[s][2].at + sent[s][2].size <= sent[s][n].at
        BY <1>3, <2>1
    <2> QED
        BY <1>1, <1>2, <2>1, <2>2, SizesAreNatural
<1> QED
    BY <1>1, <1>2, <1>4, <1>5

\* The handler ends a stream without calling the service only when the stream
\* is not a correct one.
LEMMA OnlyIncorrectIsRefused ==
    ASSUME TypeOK, NEW s \in Streams, StreamOK(s), Handle(s),
           pc'[s] = "end", code'[s] \notin {"OK", "Failed"},
           Detected[kind[s]] \in AllowedContentTypes
    PROVE  ~Correct(s)
<1> SUFFICES ASSUME Correct(s) PROVE FALSE
    OBVIOUS
<1> DEFINE n == Len(sent[s])
<1>1. /\ sender[s] # "broken" /\ n \in Nat /\ n > 2
      /\ sent[s][1].type = "fileMeta" /\ sent[s][1].size > 0
      /\ sent[s][n].type = "done"
      /\ \A i \in 2..(n - 1) : /\ sent[s][i].type = "chunk"
                               /\ sent[s][i].at + sent[s][i].size <= MaxFileSize
      /\ sent[s][2].size >= MinFirst
    BY CorrectFacts
<1>2. /\ read[s] \in Nat /\ read[s] <= n
      /\ pc \in [Streams -> Labels] /\ code \in [Streams -> Codes]
    BY DEF TypeOK, StreamOK, HandlerOK, Labels
<1>3. CASE ReceiveMeta(s)
    <2>1. read[s] = 0 /\ pc[s] = "meta"
        BY <1>3 DEF ReceiveMeta, StreamOK, HandlerOK
    <2>2. ~EOF(s) /\ ~RecvFails(s)
        BY <1>1, <2>1 DEF EOF, RecvFails
    <2>3. Message(s) = sent[s][1]
        BY <2>1 DEF Message
    <2>4. /\ ~HasMessage(s, MessageTypes \ {"urlMeta", "fileMeta"})
          /\ ~(HasMessage(s, {"fileMeta"}) /\ Message(s).size <= 0)
        <3>1. sent[s][1].size \in Nat
            BY <1>1, MessageType
        <3> QED
            BY <1>1, <2>3, <3>1 DEF HasMessage
    <2>5. Goto(s, "drain") \/ Goto(s, "chunks")
        BY <1>3, <2>2, <2>4 DEF ReceiveMeta
    <2> QED
        BY <1>2, <2>5 DEF Goto
<1>4. CASE ReceiveChunk(s)
    <2>1. /\ pc[s] = "chunks" /\ read[s] > 0
          /\ total[s] = Reached(s)
          /\ total[s] = 0 => read[s] = 1
          /\ \A i \in 2..read[s] : sent[s][i].type = "chunk"
        BY <1>4 DEF ReceiveChunk, StreamOK, HandlerOK
    <2>2. ~EOF(s) /\ ~RecvFails(s)
        BY <1>1, <1>2, <2>1 DEF EOF, RecvFails
    <2>3. ASSUME HasMessage(s, MessageTypes)
          PROVE  \/ /\ Message(s).type = "done" /\ total[s] # 0
                 \/ /\ Message(s).type = "chunk"
                    /\ ~BadFirstChunk(s, Message(s).size)
                    /\ ~TooLarge(s, Message(s).size)
        <3> DEFINE i == read[s] + 1
        <3>1. i \in 2..n /\ Message(s) = sent[s][i]
            BY <1>1, <1>2, <2>1, <2>3 DEF HasMessage, Message
        <3>2. CASE i = n
            <4>1. read[s] # 1
                BY <1>1, <1>2, <3>2
            <4> QED
                BY <1>1, <2>1, <3>1, <3>2, <4>1
        <3>3. CASE i \in 2..(n - 1)
            <4>1. Message(s).type = "chunk" /\ total[s] = Message(s).at
                BY <1>1, <1>2, <2>1, <3>1, <3>3 DEF Reached, Message
            <4>2. ~TooLarge(s, Message(s).size)
                <5>1. total[s] + Message(s).size <= MaxFileSize
                    BY <1>1, <3>1, <3>3, <4>1
                <5>2. total[s] \in Nat /\ Message(s).size \in Nat
                    BY <2>3, MessageType DEF TypeOK
                <5> QED
                    BY <5>1, <5>2, SizesAreNatural DEF TooLarge
            <4>3. ~BadFirstChunk(s, Message(s).size)
                <5>1. total[s] = 0 => Message(s).size >= MinFirst
                    BY <1>1, <1>2, <2>1, <3>1
                <5>2. Message(s).size \in Nat
                    BY <2>3, MessageType
                <5> QED
                    BY <5>1, <5>2, SizesAreNatural DEF BadFirstChunk
            <4> QED
                BY <4>1, <4>2, <4>3
        <3> QED
            BY <1>1, <3>1, <3>2, <3>3
    <2>4. \A types \in SUBSET MessageTypes :
              HasMessage(s, types) => HasMessage(s, MessageTypes)
        BY DEF HasMessage
    <2>5. pc'[s] # "end"
        <3>1. MessageTypes \ {"done", "chunk"} \in SUBSET MessageTypes
              /\ {"done"} \in SUBSET MessageTypes
              /\ {"chunk"} \in SUBSET MessageTypes
            BY DEF MessageTypes
        <3>2. ~HasMessage(s, MessageTypes \ {"done", "chunk"})
            BY <2>3, <2>4, <3>1 DEF HasMessage
        <3>3. HasMessage(s, {"chunk"}) =>
                  /\ ~BadFirstChunk(s, Message(s).size)
                  /\ ~TooLarge(s, Message(s).size)
            BY <2>3, <2>4, <3>1 DEF HasMessage
        <3>4. HasMessage(s, {"done"}) => total[s] # 0
            BY <2>3, <2>4, <3>1 DEF HasMessage
        <3>5. \/ HasMessage(s, {"done"}) /\ AfterLoop(s, TRUE)
              \/ UNCHANGED pc
            BY <1>4, <2>2, <3>2, <3>3 DEF ReceiveChunk
        <3> QED
            BY <1>2, <2>1, <3>4, <3>5 DEF AfterLoop, Goto
    <2> QED
        BY <2>5
<1>5. CASE Drain(s)
    BY <1>1, <1>5 DEF Drain, StreamOK, HandlerOK
<1>6. CASE CallService(s)
    BY <1>2, <1>6 DEF CallService, Finish
<1> QED
    BY <1>3, <1>4, <1>5, <1>6 DEF Handle

\* What the handler leaves alone, and what it ends with.
LEMMA HandleMoves ==
    ASSUME TypeOK, NEW s \in Streams, StreamOK(s), Handle(s)
    PROVE  /\ UNCHANGED <<kind, sent, offset, sender, server, producer>>
           /\ pc[s] \notin {"idle", "end"}
           /\ \A r \in Streams : r # s =>
                  /\ pc'[r] = pc[r] /\ read'[r] = read[r]
                  /\ declared'[r] = declared[r] /\ total'[r] = total[r]
                  /\ code'[r] = code[r] /\ object'[r] = object[r]
<1>1. UNCHANGED <<kind, sent, offset, sender, server, producer>>
    BY DEF Handle, ReceiveMeta, ReceiveChunk, Drain, CallService, client,
           process
<1>2. pc[s] \notin {"idle", "end"}
    BY DEF Handle, ReceiveMeta, ReceiveChunk, Drain, CallService
<1>3. ASSUME NEW r \in Streams, r # s
      PROVE  /\ pc'[r] = pc[r] /\ read'[r] = read[r]
             /\ declared'[r] = declared[r] /\ total'[r] = total[r]
             /\ code'[r] = code[r] /\ object'[r] = object[r]
    <2> USE <1>3 DEF TypeOK, Consume, Goto, Finish
    <2>1. CASE ReceiveMeta(s) BY <2>1 DEF ReceiveMeta
    <2>2. CASE ReceiveChunk(s) BY <2>2 DEF ReceiveChunk, AfterLoop
    <2>3. CASE Drain(s) BY <2>3 DEF Drain
    <2>4. CASE CallService(s) BY <2>4 DEF CallService
    <2> QED
        BY <2>1, <2>2, <2>3, <2>4 DEF Handle
<1> QED
    BY <1>1, <1>2, <1>3

\* What a buffer holds and what a client declares are numbers.
LEMMA AmountsAreNatural ==
    /\ \A n \in 0..MaxFileSize : n \in Nat
    /\ \A n \in Sizes \cup {0} : n \in Nat
BY SizesAreNatural

LEMMA HandleStep ==
    ASSUME TypeOK, NEW s \in Streams, StreamOK(s), Handle(s)
    PROVE  StreamOK(s)'
<1>1. /\ UNCHANGED <<kind, sent, offset, sender, server>>
      /\ pc[s] \notin {"idle", "end"}
      /\ read[s] \in Nat /\ total[s] \in Nat /\ Len(sent[s]) \in Nat
      /\ declared[s] \in Nat
      /\ read[s] <= Len(sent[s])
      /\ object[s] = 0
    <2>1. /\ read[s] \in Nat /\ total[s] \in 0..MaxFileSize
          /\ declared[s] \in Sizes \cup {0} /\ Len(sent[s]) \in Nat
        BY MessageType DEF TypeOK
    <2>2. total[s] \in Nat
        BY <2>1, AmountsAreNatural
    <2>3. declared[s] \in Nat
        BY <2>1, AmountsAreNatural
    <2> QED
        BY <2>1, <2>2, <2>3, HandleMoves DEF StreamOK, HandlerOK, AnswerOK
<1>2. /\ pc \in [Streams -> Labels] /\ code \in [Streams -> Codes]
      /\ read \in [Streams -> Nat] /\ total \in [Streams -> 0..MaxFileSize]
      /\ declared \in [Streams -> Sizes \cup {0}]
      /\ object \in [Streams -> Nat]
    BY DEF TypeOK, Labels
<1>3. SentOK(s)'
    BY <1>1 DEF StreamOK, SentOK, After
<1>4. ASSUME NEW types, HasMessage(s, types)
      PROVE  /\ read[s] + 1 \in 1..Len(sent[s])
             /\ Message(s) = sent[s][read[s] + 1]
             /\ Message(s).size \in Nat /\ Message(s).type \in types
    BY <1>4, MessageType DEF HasMessage, Message
<1>5. HandlerOK(s)'
    <2>1. CASE ReceiveMeta(s)
        <3>1. /\ pc[s] = "meta" /\ read[s] = 0 /\ total[s] = 0
              /\ declared[s] = 0 /\ total'[s] = 0
            BY <2>1 DEF ReceiveMeta, StreamOK, HandlerOK
        <3>2. CASE pc'[s] = "end" /\ read'[s] = read[s]
            BY <1>1, <3>2 DEF HandlerOK
        <3>3. CASE \E types : /\ HasMessage(s, types)
                              /\ pc'[s] = "end" /\ read'[s] = read[s] + 1
            BY <1>1, <1>4, <3>3 DEF HandlerOK
        <3>4. CASE /\ HasMessage(s, {"urlMeta"})
                   /\ pc'[s] = "drain" /\ read'[s] = 1 /\ declared'[s] = 0
            BY <1>1, <1>4, <3>1, <3>4 DEF HandlerOK
        <3>5. CASE /\ HasMessage(s, {"fileMeta"})
                   /\ pc'[s] = "chunks" /\ read'[s] = 1
            <4>1. 1 \in 1..Len(sent[s]) /\ sent[s][1].type = "fileMeta"
                BY <1>4, <3>1, <3>5
            <4>2. Reached(s)' = 0
                <5>1. sent[s][1].at = 0 /\ After(s, 1) = 0
                    BY <1>1, <4>1 DEF StreamOK, SentOK, After, Weight
                <5>2. CASE Len(sent[s]) = 1
                    BY <1>1, <3>5, <5>1, <5>2
                    DEF StreamOK, SentOK, Reached
                <5>3. CASE Len(sent[s]) > 1
                    <6>1. 2 \in 1..Len(sent[s]) /\ 1 \in 1..Len(sent[s])
                        BY <1>1, <5>3
                    <6>2. sent[s][2].at = 0
                        BY <5>1, <6>1 DEF StreamOK, SentOK
                    <6> QED
                        BY <1>1, <3>5, <5>3, <6>2 DEF Reached
                <5>4. Len(sent[s]) = 1 \/ Len(sent[s]) > 1
                    <6>1. Len(sent[s]) \in Nat /\ 1 \in 1..Len(sent[s])
                        BY <1>1, <4>1
                    <6>2. \A n \in Nat : 1 \in 1..n => n = 1 \/ n > 1
                        OBVIOUS
                    <6> QED
                        BY <6>1, <6>2
                <5> QED
                    BY <5>2, <5>3, <5>4
            <4>3. \A i \in 2..read'[s] : FALSE
                BY <3>5
            <4> QED
                BY <1>1, <3>1, <3>5, <4>1, <4>2, <4>3 DEF HandlerOK
        <3> QED
            BY <1>2, <2>1, <3>1, <3>2, <3>3, <3>4, <3>5
            DEF ReceiveMeta, Finish, Goto, Consume
    <2>2. CASE ReceiveChunk(s)
        <3>1. /\ pc[s] = "chunks" /\ read[s] > 0
              /\ total[s] = Reached(s)
              /\ total[s] = 0 => read[s] = 1
              /\ \A i \in 2..read[s] : sent[s][i].type = "chunk"
              /\ declared'[s] = declared[s]
            BY <2>2 DEF ReceiveChunk, StreamOK, HandlerOK
        <3>2. CASE pc'[s] = "end" /\ read'[s] = read[s]
            BY <1>1, <3>2 DEF HandlerOK
        <3>3. CASE \E types : /\ HasMessage(s, types)
                              /\ pc'[s] = "end" /\ read'[s] = read[s] + 1
            BY <1>1, <1>4, <3>3 DEF HandlerOK
        <3>4. CASE /\ HasMessage(s, {"done"})
                   /\ pc'[s] = "service" /\ read'[s] = read[s] + 1
                   /\ total'[s] = total[s]
            <4>1. total[s] = sent[s][read[s] + 1].at
                BY <1>1, <1>4, <3>1, <3>4 DEF Reached
            <4> QED
                BY <1>1, <1>4, <3>4, <4>1 DEF HandlerOK
        <3>5. CASE /\ HasMessage(s, {"chunk"})
                   /\ ~BadFirstChunk(s, Message(s).size)
                   /\ pc'[s] = "chunks" /\ read'[s] = read[s] + 1
                   /\ total'[s] = total[s] + Message(s).size
            <4> DEFINE k == read[s] + 1
            <4>1. /\ k \in 1..Len(sent[s]) /\ sent[s][k].type = "chunk"
                  /\ Message(s) = sent[s][k]
                  /\ Message(s).size \in Nat
                BY <1>4, <3>5
            <4>2. total[s] = sent[s][k].at
                BY <1>1, <3>1, <4>1 DEF Reached
            <4>3. total'[s] = After(s, k)
                BY <3>5, <4>1, <4>2 DEF After, Weight
            <4>4. Reached(s)' = After(s, k)
                <5>1. CASE k = Len(sent[s])
                    BY <1>1, <3>5, <5>1 DEF StreamOK, SentOK, Reached
                <5>2. CASE k < Len(sent[s])
                    <6>1. k + 1 \in 1..Len(sent[s])
                        BY <1>1, <4>1, <5>2
                    <6>2. sent[s][k + 1].at = After(s, k)
                        BY <4>1, <6>1 DEF StreamOK, SentOK
                    <6> QED
                        BY <1>1, <3>5, <5>2, <6>2 DEF Reached
                <5> QED
                    BY <1>1, <4>1, <5>1, <5>2
            <4>5. total'[s] # 0
                BY <1>1, <3>5, <4>1, SizesAreNatural DEF BadFirstChunk
            <4>6. \A i \in 2..read'[s] : sent[s][i].type = "chunk"
                BY <1>1, <3>1, <3>5, <4>1
            <4> QED
                BY <1>1, <3>5, <4>1, <4>3, <4>4, <4>5, <4>6 DEF HandlerOK
        <3> QED
            BY <1>2, <2>2, <3>1, <3>2, <3>3, <3>4, <3>5
            DEF ReceiveChunk, AfterLoop, Finish, Goto, Consume
    <2>3. CASE Drain(s)
        <3>1. /\ pc[s] = "drain" /\ read[s] > 0 /\ declared[s] = 0
              /\ sent[s][1].type = "urlMeta" /\ declared'[s] = declared[s]
            BY <2>3 DEF Drain, StreamOK, HandlerOK
        <3>2. \/ read'[s] = read[s]
              \/ read'[s] = read[s] + 1 /\ \E types : HasMessage(s, types)
            BY <1>2, <2>3 DEF Drain, Consume
        <3>3. pc'[s] \in {"drain", "service", "end"}
            BY <1>2, <2>3, <3>1 DEF Drain, Goto, Finish
        <3>4. read'[s] <= Len(sent[s]) /\ read'[s] > 0
            BY <1>1, <1>4, <3>1, <3>2
        <3> QED
            BY <1>1, <3>1, <3>3, <3>4 DEF HandlerOK
    <2>4. CASE CallService(s)
        <3>1. pc'[s] = "end" /\ read'[s] = read[s]
            BY <1>2, <2>4 DEF CallService, Finish, Goto
        <3> QED
            BY <1>1, <3>1 DEF HandlerOK
    <2> QED
        BY <2>1, <2>2, <2>3, <2>4 DEF Handle
<1>6. AnswerOK(s)'
    <2>1. Correct(s)' <=> Correct(s)
        BY <1>1 DEF Correct
    <2>2. \/ object'[s] = 0
          \/ /\ pc'[s] = "end" /\ read'[s] = read[s]
             /\ read[s] > 0 /\ sent[s][read[s]].type = "done"
             /\ object'[s] <= sent[s][read[s]].at
        <3>1. CASE CallService(s) /\ object' # object
            <4>1. PICK k \in Stored(s) : object' = [object EXCEPT ![s] = k]
                BY <3>1 DEF CallService
            <4>2. /\ k = declared[s] /\ 0 < k /\ k <= total[s]
                  /\ object'[s] = k
                BY <1>2, <4>1 DEF Stored
            <4>3. pc[s] = "service"
                BY <3>1 DEF CallService
            <4>4. /\ read[s] > 0 /\ sent[s][read[s]].type = "done"
                  /\ total[s] <= sent[s][read[s]].at
                BY <4>2, <4>3 DEF StreamOK, HandlerOK
            <4>5. sent[s][read[s]].at \in Nat
                BY <1>1, <4>4, MessageType
            <4>6. pc'[s] = "end" /\ read'[s] = read[s]
                BY <1>2, <3>1 DEF CallService, Finish, Goto
            <4> QED
                BY <1>1, <4>2, <4>4, <4>5, <4>6
        <3>2. CASE object' = object
            BY <1>1, <3>2
        <3> QED
            BY <3>1, <3>2
            DEF Handle, ReceiveMeta, ReceiveChunk, Drain
    <2>3. \/ pc'[s] # "end"
          \/ code'[s] \in {"OK", "Failed"}
          \/ Detected[kind[s]] \notin AllowedContentTypes
          \/ ~Correct(s)
        BY OnlyIncorrectIsRefused
    <2>4. pc'[s] # "end" => object'[s] = 0
        BY <2>2
    <2> QED
        BY <1>1, <2>1, <2>2, <2>3, <2>4 DEF AnswerOK
<1> QED
    BY <1>3, <1>5, <1>6 DEF StreamOK

-----------------------------------------------------------------------------
LEMMA NextStreams ==
    ASSUME TypeOK, StreamsOK, [Next]_vars
    PROVE  StreamsOK'
<1> SUFFICES ASSUME NEW s \in Streams PROVE StreamOK(s)'
    BY DEF StreamsOK
<1> USE DEF StreamsOK
<1>1. ASSUME NEW r \in Streams, Open(r) PROVE StreamOK(s)'
    BY <1>1, OpenStep, Untouched DEF Open, client, process, TypeOK
<1>2. ASSUME NEW r \in Streams, NEW type \in MessageTypes,
             NEW size \in Sizes \cup {0}, Send(r, type, size)
      PROVE  StreamOK(s)'
    <2>1. CASE r = s
        BY <1>2, <2>1, SendStep
    <2>2. CASE r # s
        BY <1>2, <2>2, Untouched DEF Send, process, TypeOK
    <2> QED
        BY <2>1, <2>2
<1>3. ASSUME NEW r \in Streams, NEW how \in {"closed", "broken"},
             EndOfStream(r, how)
      PROVE  StreamOK(s)'
    <2>1. CASE r = s
        BY <1>3, <2>1, EndStep
    <2>2. CASE r # s
        BY <1>3, <2>2, Untouched DEF EndOfStream, process, TypeOK
    <2> QED
        BY <2>1, <2>2
<1>4. ASSUME NEW r \in Streams, Handle(r) PROVE StreamOK(s)'
    <2>1. CASE r = s
        BY <1>4, <2>1, HandleStep
    <2>2. CASE r # s
        BY <1>4, <2>2, HandleMoves, Untouched
    <2> QED
        BY <2>1, <2>2
<1>5. CASE Terminate \/ Stop
    BY <1>5, Untouched DEF Terminate, Stop, client
<1>6. CASE Kill
    <2>1. /\ UNCHANGED <<kind, sent, offset, sender, read, object>>
          /\ pc'[s] = "end" /\ server' = "killed"
        BY <1>6 DEF Kill, client
    <2>2. SentOK(s)'
        BY <2>1 DEF StreamOK, SentOK, After
    <2> QED
        BY <2>1, <2>2 DEF StreamOK, HandlerOK, AnswerOK
<1>7. CASE UNCHANGED vars
    BY <1>7, Untouched DEF vars, client, process
<1> QED
    BY <1>1, <1>2, <1>3, <1>4, <1>5, <1>6, <1>7 DEF Next

\* The inductive invariant of every stream.
THEOREM StreamsHold == Spec => []StreamsOK
BY InitStreams, NextStreams, StreamTypeCorrect, PTL DEF Spec

\* Whatever clients send, and wherever a stream ends, breaks or is killed, an
\* object is only put for a stream that was ended with done, and holds no more
\* than was sent until then.
THEOREM OnlyConfirmedIsStored == Spec => []StoredWasConfirmed
<1>1. StreamsOK => StoredWasConfirmed
    BY DEF StreamsOK, StreamOK, AnswerOK, StoredWasConfirmed
<1> QED
    BY <1>1, StreamsHold, PTL

\* The stream of a correct client is never refused.
THEOREM CorrectClientsAreServed == Spec => []CorrectIsServed
<1>1. StreamsOK => CorrectIsServed
    BY DEF StreamsOK, StreamOK, AnswerOK, CorrectIsServed
<1> QED
    BY <1>1, StreamsHold, PTL

-----------------------------------------------------------------------------
\* The server of a stream in flight has not stopped, and has its producer.
ServerOK ==
    /\ server \in {"serving", "draining"} => producer = "open"
    /\ server \in {"stopped", "killed"} => \A s \in Streams : ~InFlight(s)

\* A shutdown closes the producer only when no request can publish any more.
THEOREM ProducerOutlivesRequests == Spec => []ServiceHasProducer
<1>1. Init => ServerOK
    BY DEF Init, ServerOK
<1>2. TypeOK /\ ServerOK /\ [Next]_vars => ServerOK'
    <2> SUFFICES ASSUME TypeOK, ServerOK, [Next]_vars PROVE ServerOK'
        OBVIOUS
    <2>1. ASSUME NEW s \in Streams,
                 \/ Open(s) \/ Handle(s)
                 \/ \E type \in MessageTypes, size \in Sizes \cup {0} :
                        Send(s, type, size)
                 \/ \E how \in {"closed", "broken"} : EndOfStream(s, how)
          PROVE  ServerOK'
        <3>1. /\ server' = server /\ producer' = producer
              /\ server \in {"serving", "draining"}
            <4>1. server' = server /\ producer' = producer
                BY <2>1 DEF Open, Send, EndOfStream, Handle, ReceiveMeta,
                            ReceiveChunk, Drain, CallService, process
            <4>2. server = "serving" \/ InFlight(s)
                BY <2>1 DEF Open, Send, EndOfStream, Handle, ReceiveMeta,
                            ReceiveChunk, Drain, CallService, InFlight
            <4> QED
                BY <4>1, <4>2 DEF ServerOK, TypeOK
        <3> QED
            BY <3>1 DEF ServerOK
    <2>2. CASE Terminate \/ Stop \/ Kill \/ UNCHANGED vars
        BY <2>2 DEF Terminate, Stop, Kill, vars, process, ServerOK, InFlight
    <2> QED
        BY <2>1, <2>2 DEF Next
<1>3. TypeOK /\ ServerOK => ServiceHasProducer
    BY DEF TypeOK, ServerOK, InFlight, ServiceHasProducer
<1> QED
    BY <1>1, <1>2, <1>3, StreamTypeCorrect, PTL DEF Spec

-----------------------------------------------------------------------------
(***************************************************************************)
(* What the liveness of the streams rests on, besides its fairness.        *)
(***************************************************************************)
\* What the handler has to do but for receiving messages.
Stage == [idle |-> 4, meta |-> 3, chunks |-> 2, drain |-> 2, service |-> 1, end |-> 0]

\* The calls that the handler of a stream may still make, when its client sends
\* no more.
CallsLeft(s) == Len(sent[s]) - read[s] + Stage[pc[s]]

\* Recv has something to return: a message, the end or an error.
RecvReturns(s) == EOF(s) \/ RecvFails(s) \/ HasMessage(s, MessageTypes)

LEMMA StageNow ==
    /\ Stage["idle"] = 4 /\ Stage["meta"] = 3 /\ Stage["chunks"] = 2
    /\ Stage["drain"] = 2 /\ Stage["service"] = 1 /\ Stage["end"] = 0
BY DEF Stage

LEMMA HandleAdvances ==
    ASSUME TypeOK, NEW s \in Streams, StreamOK(s), Handle(s)
    PROVE  CallsLeft(s)' < CallsLeft(s)
<1>1. /\ sent' = sent /\ Len(sent[s]) \in Nat /\ read[s] \in Nat
      /\ read \in [Streams -> Nat] /\ DOMAIN pc = Streams
    BY HandleMoves, MessageType DEF TypeOK
<1>2. /\ read'[s] \in {read[s], read[s] + 1}
      /\ \/ pc[s] = "meta" /\ pc'[s] \in {"end", "drain", "chunks"}
         \/ pc[s] \in {"chunks", "drain"} /\ pc'[s] \in {"end", "service"}
         \/ /\ pc[s] \in {"chunks", "drain"} /\ pc'[s] = pc[s]
            /\ read'[s] = read[s] + 1
         \/ pc[s] = "service" /\ pc'[s] = "end" /\ read'[s] = read[s]
    <2> USE <1>1 DEF Consume, Goto, Finish
    <2>1. CASE ReceiveMeta(s) BY <2>1 DEF ReceiveMeta
    <2>2. CASE ReceiveChunk(s) BY <2>2 DEF ReceiveChunk, AfterLoop
    <2>3. CASE Drain(s) BY <2>3 DEF Drain
    <2>4. CASE CallService(s) BY <2>4 DEF CallService
    <2> QED
        BY <2>1, <2>2, <2>3, <2>4 DEF Handle
<1>3. /\ Stage[pc[s]] \in Nat /\ Stage[pc'[s]] \in Nat
      /\ \/ Stage[pc'[s]] < Stage[pc[s]]
         \/ Stage[pc'[s]] = Stage[pc[s]] /\ read'[s] = read[s] + 1
    <2>1. CASE pc[s] = "meta" /\ pc'[s] \in {"end", "drain", "chunks"}
        BY <2>1, StageNow
    <2>2. CASE pc[s] \in {"chunks", "drain"} /\ pc'[s] \in {"end", "service"}
        BY <2>2, StageNow
    <2>3. CASE pc[s] \in {"chunks", "drain"} /\ pc'[s] = pc[s] /\ read'[s] = read[s] + 1
        BY <2>3, StageNow
    <2>4. CASE pc[s] = "service" /\ pc'[s] = "end"
        BY <2>4, StageNow
    <2> QED
        BY <1>2, <2>1, <2>2, <2>3, <2>4
<1>4. read'[s] = read[s] \/ read'[s] = read[s] + 1
    BY <1>2
<1> QED
    BY <1>1, <1>3, <1>4 DEF CallsLeft

\* A stream that its client has ended or broken comes to its end: Recv never waits
\* again, everything that the handler does leaves it less to do, and nothing that
\* the client, other streams or a shutdown do adds to it.
THEOREM EndedStreamsAdvance ==
    Spec => /\ [](\A s \in Streams :
                     sender[s] # "open" /\ InFlight(s) /\ pc[s] # "service"
                         => RecvReturns(s))
            /\ [][\A s \in Streams :
                     sender[s] # "open" /\ InFlight(s)
                         => /\ CallsLeft(s)' <= CallsLeft(s)
                            /\ Handle(s) => CallsLeft(s)' < CallsLeft(s)]_vars
<1>1. ASSUME TypeOK, StreamsOK, NEW s \in Streams,
             sender[s] # "open", InFlight(s), pc[s] # "service"
      PROVE  RecvReturns(s)
    <2>1. /\ Len(sent[s]) \in Nat /\ read[s] \in Nat /\ read[s] <= Len(sent[s])
          /\ sender[s] \in {"closed", "broken"}
        BY <1>1, MessageType DEF TypeOK, StreamsOK, StreamOK, HandlerOK
    <2>2. CASE read[s] < Len(sent[s])
        <3>1. sent[s][read[s] + 1] \in Messages
            <4>1. read[s] + 1 \in 1..Len(sent[s])
                BY <2>1, <2>2
            <4> QED
                BY <1>1, <4>1, MessageType
        <3> QED
            BY <2>2, <3>1 DEF RecvReturns, HasMessage, Message, Messages
    <2>3. CASE read[s] = Len(sent[s])
        BY <2>1, <2>3 DEF RecvReturns, EOF, RecvFails
    <2> QED
        BY <2>1, <2>2, <2>3
<1>2. ASSUME TypeOK, StreamsOK, Next, NEW s \in Streams,
             sender[s] # "open", InFlight(s)
      PROVE  /\ CallsLeft(s)' <= CallsLeft(s)
             /\ Handle(s) => CallsLeft(s)' < CallsLeft(s)
    <2>1. /\ Len(sent[s]) \in Nat /\ read[s] \in Nat
          /\ pc[s] \in {"meta", "chunks", "drain", "service"}
        BY <1>2, MessageType DEF TypeOK, InFlight
    <2>2. Stage[pc[s]] \in Nat
        BY <2>1, StageNow
    <2>3. Handle(s) => CallsLeft(s)' < CallsLeft(s) /\ CallsLeft(s)' <= CallsLeft(s)
        <3> SUFFICES ASSUME Handle(s)
                     PROVE  CallsLeft(s)' < CallsLeft(s) /\ CallsLeft(s)' <= CallsLeft(s)
            OBVIOUS
        <3>1. CallsLeft(s)' < CallsLeft(s)
            BY <1>2, HandleAdvances DEF StreamsOK
        <3>2. CallsLeft(s) \in Int /\ CallsLeft(s)' \in Int
            <4>1. /\ Len(sent[s])' \in Nat /\ read'[s] \in Nat
                  /\ pc'[s] \in {"idle", "meta", "chunks", "drain", "service", "end"}
                <5>1. TypeOK'
                    BY <1>2, NextType
                <5> QED
                    BY <5>1, HandleMoves, <1>2, <2>1 DEF TypeOK, StreamsOK
            <4>2. Stage[pc'[s]] \in Nat
                BY <4>1, StageNow
            <4> QED
                BY <2>1, <2>2, <4>1, <4>2 DEF CallsLeft
        <3> QED
            BY <3>1, <3>2
    <2>4. ASSUME ~Handle(s) PROVE CallsLeft(s)' <= CallsLeft(s)
        <3>1. /\ sent'[s] = sent[s] /\ read'[s] = read[s]
              /\ pc'[s] = pc[s] \/ pc'[s] = "end"
            <4>1. ASSUME NEW r \in Streams, Open(r)
                  PROVE  sent'[s] = sent[s] /\ read'[s] = read[s] /\ pc'[s] = pc[s]
                BY <1>2, <4>1 DEF Open, client, InFlight, TypeOK
            <4>2. ASSUME NEW r \in Streams, NEW type \in MessageTypes,
                         NEW size \in Sizes \cup {0}, Send(r, type, size)
                  PROVE  sent'[s] = sent[s] /\ read'[s] = read[s] /\ pc'[s] = pc[s]
                BY <1>2, <4>2 DEF Send, TypeOK
            <4>3. ASSUME NEW r \in Streams, Handle(r)
                  PROVE  sent'[s] = sent[s] /\ read'[s] = read[s] /\ pc'[s] = pc[s]
                BY <1>2, <2>4, <4>3, HandleMoves DEF StreamsOK
            <4>4. CASE \/ \E r \in Streams, how \in {"closed", "broken"} : EndOfStream(r, how)
                       \/ Terminate \/ Stop
                BY <4>4 DEF EndOfStream, Terminate, Stop, client
            <4>5. CASE Kill
                BY <4>5 DEF Kill, client
            <4> QED
                BY <1>2, <4>1, <4>2, <4>3, <4>4, <4>5 DEF Next
        <3>2. Stage["end"] <= Stage[pc[s]]
            BY <2>2, StageNow
        <3>3. Stage[pc'[s]] \in Nat /\ Stage[pc'[s]] <= Stage[pc[s]]
            <4>1. CASE pc'[s] = pc[s] BY <2>2, <4>1
            <4>2. CASE pc'[s] = "end" BY <3>2, <4>2, StageNow
            <4> QED
                BY <3>1, <4>1, <4>2
        <3> QED
            BY <2>1, <2>2, <3>1, <3>3 DEF CallsLeft
    <2> QED
        BY <2>3, <2>4
<1>3. TypeOK /\ StreamsOK => \A s \in Streams :
          sender[s] # "open" /\ InFlight(s) /\ pc[s] # "service" => RecvReturns(s)
    BY <1>1
<1>4. TypeOK /\ StreamsOK /\ [Next]_vars =>
          [\A s \in Streams :
               sender[s] # "open" /\ InFlight(s)
                   => /\ CallsLeft(s)' <= CallsLeft(s)
                      /\ Handle(s) => CallsLeft(s)' < CallsLeft(s)]_vars
    BY <1>2
<1> QED
    BY <1>3, <1>4, StreamTypeCorrect, StreamsHold, PTL DEF Spec
=============================================================================
