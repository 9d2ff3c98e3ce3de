--------------------------- MODULE ProtocolWorker ---------------------------
(***************************************************************************)
(* Where the chunks of a port are parsed: ProtocolManager                  *)
(* (packages/core/src/protocol/protocol-manager.ts) posts them to a worker *)
(* thread (protocol-worker.ts), holds them back until the thread is ready, *)
(* and parses on the main thread once the worker has failed or is late.    *)
(* Messages between the threads are queues; those the thread has posted    *)
(* are delivered even when it has been terminated.                         *)
(*                                                                         *)
(* Chunks are numbered as they arrive.  What a chunk contains, and the     *)
(* packets that continue from one chunk to the next, is PacketParser's.    *)
(***************************************************************************)
EXTENDS Naturals, Sequences, SequencesExt

CONSTANTS
    Chunks,     \* bound: how many chunks arrive
    MaxPending  \* MAX_PENDING_BYTES, in chunks

ASSUME WorkerAssumption == Chunks \in Nat /\ MaxPending \in Nat

VARIABLES
    worker,         \* of the main thread: starting (not workerReady), ready, none (worker = null)
    pendingChunks,
    thread,         \* of the worker: new, up, terminating, dead
    toThread,       \* the chunks posted to it
    toMain,         \* the messages posted by it
    received,       \* number of chunks handed to handleIncomingChunk
    processed,      \* the chunks whose packets processPacket has been called with, in that order
    parser,         \* history: whose parser has got the last of them; none, main, worker
    lost,           \* history: chunks that were in toThread when the thread died
    failed          \* history: the thread has thrown or died after it had posted 'ready'

output == <<processed, parser>>
workerVars == <<worker, pendingChunks, thread, toThread, toMain, received, output, lost, failed>>

Message(type, chunks) == [type |-> type, chunks |-> chunks]

\* initWorker, which is not called in a test and may fail.
WorkerInit ==
    /\ \/ worker = "starting" /\ thread = "new"
       \/ worker = "none" /\ thread = "dead"
    /\ pendingChunks = <<>> /\ toThread = <<>> /\ toMain = <<>> /\ processed = <<>>
    /\ received = 0 /\ parser = "none" /\ lost = {} /\ failed = FALSE

\* parseChunk of one of the two parsers has been called with these, and processPacket with the packets.
Parsed(by, chunks) ==
    /\ processed' = processed \o chunks
    /\ parser' = IF chunks = <<>> THEN parser ELSE by

\* terminateWorker: the thread ends a little later.
TerminateWorker ==
    /\ worker' = "none"
    /\ thread' = IF worker # "none" /\ thread # "dead" THEN "terminating" ELSE thread

FallbackToMain(pending, extra) ==
    /\ TerminateWorker
    /\ pendingChunks' = <<>>
    /\ Parsed("main", pending \o extra)

\* Fault: a chunk that cannot be posted yet is parsed at once.
HandleIncomingImpatiently(c) ==
    /\ IF worker = "ready"
       THEN toThread' = Append(toThread, c) /\ UNCHANGED output
       ELSE Parsed("main", <<c>>) /\ UNCHANGED toThread
    /\ UNCHANGED <<worker, thread, pendingChunks>>

HandleIncomingChunk(c) ==
    \/ /\ worker = "ready"
       /\ toThread' = Append(toThread, c)
       /\ UNCHANGED <<worker, thread, pendingChunks, output>>
    \/ /\ worker = "starting" /\ Len(pendingChunks) < MaxPending
       /\ pendingChunks' = Append(pendingChunks, c)
       /\ UNCHANGED <<worker, thread, toThread, output>>
    \/ /\ worker = "starting" /\ Len(pendingChunks) = MaxPending
       /\ FallbackToMain(Append(pendingChunks, c), <<>>)
       /\ UNCHANGED toThread
    \/ /\ worker = "none"
       /\ Parsed("main", <<c>>)
       /\ UNCHANGED <<worker, thread, pendingChunks, toThread>>

Incoming ==
    /\ received < Chunks /\ received' = received + 1
    /\ HandleIncomingChunk(received')
    /\ UNCHANGED <<toMain, lost, failed>>

-----------------------------------------------------------------------------
(* The worker thread.                                                      *)

\* 'init'.  A parser that cannot be constructed is reported like a chunk that cannot be parsed.
ThreadStarts ==
    /\ thread = "new"
    /\ \/ thread' = "up" /\ toMain' = Append(toMain, Message("ready", <<>>))
       \/ thread' = "dead" /\ toMain' = Append(toMain, Message("error", <<>>))
    /\ UNCHANGED <<worker, pendingChunks, toThread, received, output, lost, failed>>

\* A chunk: its packets are posted, or parseChunk has thrown and the chunk itself goes back.
ThreadParses ==
    /\ thread \in {"up", "terminating"} /\ toThread # <<>>
    /\ toThread' = Tail(toThread)
    /\ \E type \in {"packets", "error"} :
        /\ toMain' = Append(toMain, Message(type, <<Head(toThread)>>))
        /\ failed' = (failed \/ type = "error")
    /\ UNCHANGED <<worker, pendingChunks, thread, received, output, lost>>

\* The thread has been terminated, or ends by itself, of which 'error' tells.
ThreadDies ==
    /\ thread \in {"up", "terminating"}
    /\ thread' = "dead"
    /\ toThread' = <<>> /\ lost' = lost \cup ToSet(toThread)
    /\ failed' = (failed \/ thread = "up")
    /\ toMain' = IF thread = "up" THEN Append(toMain, Message("error", <<>>)) ELSE toMain
    /\ UNCHANGED <<worker, pendingChunks, received, output>>

-----------------------------------------------------------------------------
(* Its messages.                                                           *)

\* A thread that has died meanwhile does not receive them.
FlushPendingChunks ==
    /\ pendingChunks' = <<>>
    /\ IF thread = "dead"
       THEN lost' = lost \cup ToSet(pendingChunks) /\ UNCHANGED toThread
       ELSE toThread' = toThread \o pendingChunks /\ UNCHANGED lost

OnReady ==
    /\ Head(toMain).type = "ready"
    /\ IF worker = "none"
       THEN UNCHANGED <<worker, pendingChunks, toThread, lost>>
       ELSE worker' = "ready" /\ FlushPendingChunks
    /\ UNCHANGED <<thread, output>>

OnPackets ==
    /\ Head(toMain).type = "packets"
    /\ Parsed("worker", Head(toMain).chunks)
    /\ UNCHANGED <<worker, pendingChunks, thread, toThread, lost>>

OnError ==
    /\ Head(toMain).type = "error"
    /\ FallbackToMain(pendingChunks, Head(toMain).chunks)
    /\ UNCHANGED <<toThread, lost>>

OnMessage ==
    /\ toMain # <<>> /\ toMain' = Tail(toMain)
    /\ OnReady \/ OnPackets \/ OnError
    /\ UNCHANGED <<received, failed>>

WorkerNext == ThreadStarts \/ ThreadParses \/ ThreadDies \/ OnMessage

\* The thread gets its turn, and so do its messages.
WorkerFairness ==
    /\ WF_workerVars(ThreadStarts) /\ WF_workerVars(ThreadParses)
    /\ WF_workerVars(thread = "terminating" /\ ThreadDies) /\ WF_workerVars(OnMessage)

-----------------------------------------------------------------------------
\* Every variable holds values of the kind the two threads keep in it.
WorkerTypeOK ==
    /\ worker \in {"starting", "ready", "none"} /\ thread \in {"new", "up", "terminating", "dead"}
    /\ received \in 0..Chunks /\ failed \in BOOLEAN /\ lost \subseteq 1..received
    /\ pendingChunks \in Seq(1..received) /\ Len(pendingChunks) <= MaxPending
    /\ parser \in {"none", "main", "worker"}
    /\ toThread \in Seq(1..received) /\ processed \in Seq(1..received)
    /\ toMain \in Seq([type : {"ready", "packets", "error"}, chunks : {<<>>} \cup {<<c>> : c \in 1..received}])

InMessages == UNION {ToSet(toMain[i].chunks) : i \in DOMAIN toMain}

\* Every chunk is in one place, once: held back, in one of the queues between the threads,
\* parsed, or lost with a thread that died.  None is parsed twice and none disappears on
\* its way to the worker, back from it, or over to the main thread.
EveryChunkHasOnePlace ==
    /\ LET places == <<ToSet(pendingChunks), ToSet(toThread), InMessages, ToSet(processed), lost>>
       IN  /\ UNION ToSet(places) = 1..received
           /\ \A i, k \in DOMAIN places : i # k => places[i] \cap places[k] = {}
    /\ IsInjective(pendingChunks) /\ IsInjective(toThread) /\ IsInjective(processed)
    /\ \A i, k \in DOMAIN toMain :
          i # k => ToSet(toMain[i].chunks) \cap ToSet(toMain[k].chunks) = {}

-----------------------------------------------------------------------------
Pipe == INSTANCE ChunkPipe WITH
    sent <- received, delivered <- processed, parser <- parser, broken <- failed

\* As long as the thread does not throw or die once it is ready, the two threads are one pipe:
\* the chunks are parsed in the order in which they came, all of them and by one parser, which
\* a packet in two of them needs, also when the thread cannot be set up or is so late that the
\* main thread takes over.
ImplementsPipe == Pipe!Spec
=============================================================================
