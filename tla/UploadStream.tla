---------------------------- MODULE UploadStream ----------------------------
(***************************************************************************)
(* The client stream of UploadSource, as the handler of the sources        *)
(* service reads it, and the shutdown of the server under it.  A client    *)
(* sends messages in any order, ends the stream or breaks it at any time;  *)
(* the handler reads the messages one by one, keeps the chunks in memory   *)
(* and calls the service when it has them all.  What the service does then *)
(* is SourceService; here it is one step with the object that it puts.     *)
(***************************************************************************)
EXTENDS Integers, Sequences

CONSTANTS
    Streams,      \* the uploads
    Kinds,        \* the kinds of files
    Sizes,        \* declared sizes, and sizes of chunks
    MinFirst,     \* the 512 bytes that the first chunk needs
    MaxFileSize,  \* the limit of a file
    MaxMessages   \* bound on the messages of a stream

AllowedContentTypes == {"application/pdf", "text/plain", "text/markdown",
    "application/vnd.openxmlformats-officedocument.wordprocessingml.document"}

\* The content type of a kind of file, and what http.DetectContentType makes of
\* its first bytes: a text comes with its charset, a docx is a zip archive.
ContentType ==
    [pdf |-> "application/pdf", txt |-> "text/plain", markdown |-> "text/markdown",
     docx |-> "application/vnd.openxmlformats-officedocument.wordprocessingml.document",
     png |-> "image/png"]
Detected ==
    [pdf |-> "application/pdf", txt |-> "text/plain; charset=utf-8",
     markdown |-> "text/plain; charset=utf-8", docx |-> "application/zip",
     png |-> "image/png"]

ASSUME KindsAreKnown == Kinds \subseteq DOMAIN Detected
ASSUME SizesAreNatural ==
    /\ Sizes \subseteq Nat
    /\ MinFirst \in Nat \ {0} /\ MaxFileSize \in Nat /\ MaxMessages \in Nat

\* "badMeta" lacks a field that is asked for, "urlMeta" announces a web page and
\* "fileMeta" a file of a size.  A chunk is the part of the file of a size that
\* begins at an offset; done carries the offset at which the client has stopped.
MessageTypes == {"badMeta", "urlMeta", "fileMeta", "chunk", "done"}
Messages == [type : MessageTypes, at : Nat, size : Sizes \cup {0}]

VARIABLES
    kind,      \* the kind of the client's file
    sent,      \* the messages that the client has sent
    offset,    \* how much of its file the client has sent
    sender,    \* the client's end: "open", "closed" or "broken"
    pc,        \* where the handler stands
    read,      \* the number of messages that the handler has received
    declared,  \* meta.Size
    total,     \* totalSize, the length of the buffer
    code,      \* the status that the handler has returned
    object,    \* the size of the object that the service has put, 0 if none
    server,    \* "serving", "draining" (GracefulStop), "stopped" or "killed"
    producer   \* whether the Kafka producer is open

client == <<kind, sent, offset, sender>>
process == <<server, producer>>
vars == <<client, pc, read, declared, total, code, object, process>>

Codes == {"none", "OK", "InvalidArgument", "Canceled", "Internal", "Failed"}

\* Every variable keeps its type; above all, no buffer outgrows the limit.
TypeOK ==
    /\ kind \in [Streams -> Kinds]
    /\ sent \in [Streams -> Seq(Messages)]
    /\ offset \in [Streams -> Nat]
    /\ sender \in [Streams -> {"open", "closed", "broken"}]
    /\ pc \in [Streams -> {"idle", "meta", "chunks", "drain", "service", "end"}]
    /\ read \in [Streams -> Nat]
    /\ declared \in [Streams -> Sizes \cup {0}]
    /\ total \in [Streams -> 0..MaxFileSize]
    /\ code \in [Streams -> Codes]
    /\ object \in [Streams -> Nat]
    /\ server \in {"serving", "draining", "stopped", "killed"}
    /\ producer \in {"open", "closed"}

Init ==
    /\ kind \in [Streams -> Kinds]
    /\ sent = [s \in Streams |-> << >>]
    /\ offset = [s \in Streams |-> 0]
    /\ sender = [s \in Streams |-> "open"]
    /\ pc = [s \in Streams |-> "idle"]
    /\ read = [s \in Streams |-> 0]
    /\ declared = [s \in Streams |-> 0]
    /\ total = [s \in Streams |-> 0]
    /\ code = [s \in Streams |-> "none"]
    /\ object = [s \in Streams |-> 0]
    /\ server = "serving"
    /\ producer = "open"

-----------------------------------------------------------------------------
(***************************************************************************)
(* The client.                                                             *)
(***************************************************************************)
InFlight(s) == pc[s] \notin {"idle", "end"}

\* A server that is draining takes no new streams.
Open(s) ==
    /\ pc[s] = "idle" /\ server = "serving"
    /\ pc' = [pc EXCEPT ![s] = "meta"]
    /\ UNCHANGED <<client, read, declared, total, code, object, process>>

Send(s, type, size) ==
    /\ InFlight(s) /\ sender[s] = "open" /\ Len(sent[s]) < MaxMessages
    /\ type \in {"badMeta", "urlMeta", "done"} => size = 0
    /\ sent' = [sent EXCEPT ![s] =
                    Append(@, [type |-> type, at |-> offset[s], size |-> size])]
    /\ offset' = [offset EXCEPT ![s] = IF type = "chunk" THEN @ + size ELSE @]
    /\ UNCHANGED <<kind, sender, pc, read, declared, total, code, object, process>>

\* The client ends its half of the stream, cancels the call or is lost.
EndOfStream(s, how) ==
    /\ InFlight(s)
    /\ \/ how = "closed" /\ sender[s] = "open"
       \/ how = "broken" /\ sender[s] # "broken"
    /\ sender' = [sender EXCEPT ![s] = how]
    /\ UNCHANGED <<kind, sent, offset, pc, read, declared, total, code, object, process>>

-----------------------------------------------------------------------------
(***************************************************************************)
(* The handler.  What stream.Recv may return: the next message, io.EOF     *)
(* after the last one, or an error.                                        *)
(***************************************************************************)
Message(s) == sent[s][read[s] + 1]
HasMessage(s, types) == read[s] < Len(sent[s]) /\ Message(s).type \in types
EOF(s) == sender[s] = "closed" /\ read[s] = Len(sent[s])
RecvFails(s) == sender[s] = "broken"

Consume(s) == read' = [read EXCEPT ![s] = @ + 1]
Goto(s, label) == pc' = [pc EXCEPT ![s] = label]

Finish(s, c) ==
    /\ Goto(s, "end")
    /\ code' = [code EXCEPT ![s] = c]

\* The first message has to be the metadata, with everything in it.
ReceiveMeta(s) ==
    /\ pc[s] = "meta"
    /\ \/ /\ EOF(s) \/ RecvFails(s)
          /\ Finish(s, "InvalidArgument")
          /\ UNCHANGED <<read, declared>>
       \/ /\ \/ HasMessage(s, MessageTypes \ {"urlMeta", "fileMeta"})
             \/ HasMessage(s, {"fileMeta"}) /\ Message(s).size <= 0
          /\ Consume(s)
          /\ Finish(s, "InvalidArgument")
          /\ UNCHANGED declared
       \/ /\ HasMessage(s, {"urlMeta"})
          /\ Consume(s)
          /\ Goto(s, "drain")
          /\ UNCHANGED <<declared, code>>
       \/ /\ HasMessage(s, {"fileMeta"}) /\ Message(s).size > 0
          /\ Consume(s)
          /\ declared' = [declared EXCEPT ![s] = Message(s).size]
          /\ Goto(s, "chunks")
          /\ UNCHANGED code
    /\ UNCHANGED <<client, total, object, process>>

\* The first chunk tells the content type, and needs enough bytes for that.
BadFirstChunk(s, size) ==
    /\ total[s] = 0
    /\ size < MinFirst \/ Detected[kind[s]] \notin AllowedContentTypes

\* Mutants: a file of just the limit is refused; a chunk is measured alone.
TooLargeInclusive(s, size) == total[s] + size >= MaxFileSize

TooLargeAlone(s, size) == size > MaxFileSize

\* The buffer with this chunk would exceed the limit.
TooLarge(s, size) == total[s] + size > MaxFileSize

\* Mutant: the end of the stream is taken for done.
AfterLoopUnconfirmed(s, doneReceived) ==
    \/ total[s] = 0 /\ Finish(s, "InvalidArgument")
    \/ total[s] > 0 /\ Goto(s, "service") /\ UNCHANGED code

\* What becomes of the buffer when no more chunks come.
AfterLoop(s, doneReceived) ==
    \/ ~doneReceived /\ Finish(s, "Canceled")
    \/ doneReceived /\ total[s] = 0 /\ Finish(s, "InvalidArgument")
    \/ doneReceived /\ total[s] > 0 /\ Goto(s, "service") /\ UNCHANGED code

\* receiveChunks
ReceiveChunk(s) ==
    /\ pc[s] = "chunks"
    /\ \/ /\ EOF(s)
          /\ AfterLoop(s, FALSE)
          /\ UNCHANGED <<read, total>>
       \/ /\ RecvFails(s)
          /\ Finish(s, "Internal")
          /\ UNCHANGED <<read, total>>
       \/ /\ HasMessage(s, {"done"})
          /\ Consume(s)
          /\ AfterLoop(s, TRUE)
          /\ UNCHANGED total
       \/ /\ \/ HasMessage(s, MessageTypes \ {"done", "chunk"})
             \/ /\ HasMessage(s, {"chunk"})
                /\ BadFirstChunk(s, Message(s).size) \/ TooLarge(s, Message(s).size)
          /\ Consume(s)
          /\ Finish(s, "InvalidArgument")
          /\ UNCHANGED total
       \/ /\ HasMessage(s, {"chunk"})
          /\ ~BadFirstChunk(s, Message(s).size) /\ ~TooLarge(s, Message(s).size)
          /\ Consume(s)
          /\ total' = [total EXCEPT ![s] = @ + Message(s).size]
          /\ UNCHANGED <<pc, code>>
    /\ UNCHANGED <<client, declared, object, process>>

\* Mutant: the end of the stream is not told from a message.
DrainUntilDone(s) ==
    /\ pc[s] = "drain"
    /\ \/ /\ HasMessage(s, {"done"})
          /\ Consume(s)
          /\ Goto(s, "service")
          /\ UNCHANGED code
       \/ /\ RecvFails(s)
          /\ Finish(s, "Internal")
          /\ UNCHANGED read
       \/ /\ HasMessage(s, MessageTypes \ {"done"})
          /\ Consume(s)
          /\ UNCHANGED <<pc, code>>
    /\ UNCHANGED <<client, declared, total, object, process>>

\* drainStream, for a web page: whatever comes until done or the end.
Drain(s) ==
    /\ pc[s] = "drain"
    /\ \/ /\ EOF(s)
          /\ Goto(s, "service")
          /\ UNCHANGED <<read, code>>
       \/ /\ HasMessage(s, {"done"})
          /\ Consume(s)
          /\ Goto(s, "service")
          /\ UNCHANGED code
       \/ /\ RecvFails(s)
          /\ Finish(s, "Internal")
          /\ UNCHANGED read
       \/ /\ HasMessage(s, MessageTypes \ {"done"})
          /\ Consume(s)
          /\ UNCHANGED <<pc, code>>
    /\ UNCHANGED <<client, declared, total, object, process>>

\* The object store is told the declared size: it fails when the buffer ends
\* before that, and puts no more than that when the buffer is longer.
Stored(s) == {n \in {declared[s]} : 0 < n /\ n <= total[s]}

\* srv.UploadSource with all that it calls, and the answer.
CallService(s) ==
    /\ pc[s] = "service"
    /\ \/ /\ Finish(s, "Failed")
          /\ UNCHANGED object
       \/ /\ declared[s] = 0
          /\ Finish(s, "OK")
          /\ UNCHANGED object
       \/ /\ \E n \in Stored(s) : object' = [object EXCEPT ![s] = n]
          /\ Finish(s, "OK")
    /\ UNCHANGED <<client, read, declared, total, process>>

-----------------------------------------------------------------------------
(***************************************************************************)
(* The process.                                                            *)
(***************************************************************************)
\* SIGTERM: GracefulStop refuses new streams and waits for those in flight.
Terminate ==
    /\ server = "serving"
    /\ server' = "draining"
    /\ UNCHANGED <<client, pc, read, declared, total, code, object, producer>>

\* Mutant: the producer is closed before the server has drained.
StopProducerFirst ==
    \/ /\ server = "draining" /\ producer = "open"
       /\ producer' = "closed"
       /\ UNCHANGED <<client, pc, read, declared, total, code, object, server>>
    \/ /\ server = "draining" /\ producer = "closed"
       /\ \A s \in Streams : ~InFlight(s)
       /\ server' = "stopped"
       /\ UNCHANGED <<client, pc, read, declared, total, code, object, producer>>

\* App.Stop: the producer is closed when GracefulStop has returned.
Stop ==
    /\ server = "draining"
    /\ \A s \in Streams : ~InFlight(s)
    /\ server' = "stopped" /\ producer' = "closed"
    /\ UNCHANGED <<client, pc, read, declared, total, code, object>>

\* The container's patience ends, or the process dies: buffers are lost.
Kill ==
    /\ server \in {"serving", "draining"}
    /\ server' = "killed" /\ producer' = "closed"
    /\ pc' = [s \in Streams |-> "end"]
    /\ UNCHANGED <<client, read, declared, total, code, object>>

Handle(s) == ReceiveMeta(s) \/ ReceiveChunk(s) \/ Drain(s) \/ CallService(s)

Next ==
    \/ \E s \in Streams :
           \/ Open(s)
           \/ \E type \in MessageTypes, size \in Sizes \cup {0} : Send(s, type, size)
           \/ \E how \in {"closed", "broken"} : EndOfStream(s, how)
           \/ Handle(s)
    \/ Terminate
    \/ Stop
    \/ Kill

Spec == Init /\ [][Next]_vars

\* A handler whose Recv or call returns goes on, and so does the main goroutine.
\* Nothing makes a client send, or end its stream.
FairSpec ==
    /\ Spec
    /\ \A s \in Streams : WF_vars(Handle(s))
    /\ WF_vars(Stop)
-----------------------------------------------------------------------------
(***************************************************************************)
(* Properties.                                                             *)
(***************************************************************************)
\* An object is only put for a stream that the client has ended with done, and
\* is part of what the client had sent until then: nothing of a stream that
\* ended, broke or was killed half way is stored.
StoredWasConfirmed ==
    \A s \in Streams :
        object[s] > 0 =>
            /\ sent[s][read[s]].type = "done"
            /\ object[s] <= sent[s][read[s]].at

\* The stream of a client that does all that is asked for: a file within the
\* limits whose size is declared truly, in chunks of which the first is large
\* enough, and done.
Correct(s) ==
    LET last == Len(sent[s]) IN
    /\ sender[s] # "broken" /\ last > 2
    /\ sent[s][1].type = "fileMeta" /\ sent[s][last].type = "done"
    /\ \A i \in 2..(last - 1) : sent[s][i].type = "chunk"
    /\ sent[s][1].size = sent[s][last].at
    /\ sent[s][last].at <= MaxFileSize
    /\ sent[s][2].size >= MinFirst

\* Such a stream is never refused as invalid or incomplete, if its content type
\* is detected as one of those allowed: only the service can fail it.
CorrectIsServed ==
    \A s \in Streams :
        /\ Correct(s) /\ Detected[kind[s]] \in AllowedContentTypes
        /\ pc[s] = "end" /\ server # "killed"
        => code[s] \in {"OK", "Failed"}

\* allowedContentTypes: a file of a content type that is allowed is not refused.
AllowedIsServed ==
    \A s \in Streams :
        /\ Correct(s) /\ ContentType[kind[s]] \in AllowedContentTypes
        /\ pc[s] = "end" /\ server # "killed"
        => code[s] \in {"OK", "Failed"}

\* A shutdown takes the producer away from no request that may still publish.
ServiceHasProducer ==
    \A s \in Streams : pc[s] = "service" => producer = "open"

\* However a client ends its stream, its handler ends too.
StreamsEnd ==
    \A s \in Streams : sender[s] # "open" ~> ~InFlight(s)

\* A shutdown comes to its end, unless a client keeps its stream open for ever:
\* nothing in the server ends a stream whose client is silent.
ClientsEnd == \A s \in Streams : []<>(~InFlight(s) \/ sender[s] # "open")
ShutdownEnds == ClientsEnd => (server = "draining" ~> server # "draining")
=============================================================================
