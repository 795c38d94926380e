------------------------------ MODULE FileRead -------------------------------
(***************************************************************************)
(* Passive downloads: a client asks for a file, OnClientInternalPassive-   *)
(* Download begins to read it and answers, and the worker threads read it  *)
(* on, block by block (WTProcessFileRead), each block sent to the client   *)
(* as it comes.  The context key holds the plain pointer to the client.    *)
(* GetBuffer is two attempts with an expansion after each.                 *)
(***************************************************************************)
EXTENDS BufferPool, Sequences

CONSTANTS
    Downloads,  \* requests of the client for a file
    Blocks      \* how many blocks the file of a download has: a set of sizes

ASSUME DownloadsAssumption == IsFiniteSet(Downloads)
ASSUME BlocksAssumption == Blocks \subseteq Nat

VARIABLES
    blocks,     \* blocks of the file
    reading,    \* where the reading of the file is
    position,   \* nBytesRead, in blocks
    answer,     \* what the thread that handles the request has to answer
    sent,       \* messages of the download to the client
    keys,       \* downloads whose context key exists
    handles,    \* downloads whose file is open
    spilled,    \* buffers that are not returned
    client,     \* the client exists
    misused     \* what was sent through a pointer to a client that was gone

download_vars == <<blocks, reading, position, answer, sent, keys, handles, spilled, client, misused>>
file_vars == <<pool_vars, download_vars>>

\* Messages of a download: its blocks are numbered from 1.
Finish == 0
Begun == -1
Refused == -2
Nothing == -3

InitFiles ==
    /\ CreateBuffers
    /\ blocks = [d \in Downloads |-> 0]
    /\ reading = [d \in Downloads |-> "idle"]
    /\ position = [d \in Downloads |-> 0]
    /\ answer = [d \in Downloads |-> Nothing]
    /\ sent = [d \in Downloads |-> <<>>]
    /\ keys = {} /\ handles = {}
    /\ spilled = 0
    /\ client = TRUE /\ misused = {}

To(d, state) == reading' = [reading EXCEPT ![d] = state]
SendClientData(d, m) ==
    /\ sent' = [sent EXCEPT ![d] = Append(@, m)]
    /\ misused' = IF client THEN misused ELSE misused \union {m}
Answers(d, a) == answer' = [answer EXCEPT ![d] = a]

\* A worker handles the requests of the client one after the other.
Handling == \E d \in Downloads : reading[d] \in {"first", "second", "opening"} \/ answer[d] # Nothing
-----------------------------------------------------------------------------
(* IssueReadFile.                                                          *)

PassiveDownload(d) ==
    /\ reading[d] = "idle" /\ client /\ ~Handling
    /\ \E n \in Blocks : blocks' = [blocks EXCEPT ![d] = n]
    /\ To(d, "first")
    /\ UNCHANGED <<pool_vars, position, answer, sent, keys, handles, spilled, client, misused>>

\* GetBuffer, on the way to the first read and on the way to the next.
Attempts == [first |-> "second", again |-> "last"]
Gets == [first |-> "opening", second |-> "opening", again |-> "issuing", last |-> "issuing"]

GetBuffer(d) ==
    /\ reading[d] \in DOMAIN Gets
    /\ Dequeue
    /\ To(d, Gets[reading[d]])
    /\ UNCHANGED <<blocks, position, answer, sent, keys, handles, spilled, client, misused>>

GetBufferExpands(d) ==
    /\ reading[d] \in DOMAIN Attempts
    /\ ExpandBuffers
    /\ To(d, Attempts[reading[d]])
    /\ UNCHANGED <<blocks, position, answer, sent, keys, handles, spilled, client, misused>>

\* It returns NULL: the client is told that the download has begun.
NoFirstBuffer(d) ==
    /\ reading[d] = "second"
    /\ ExpandBuffers
    /\ To(d, "starved")
    /\ Answers(d, Begun)
    /\ UNCHANGED <<blocks, position, sent, keys, handles, spilled, client, misused>>

\* The file cannot be opened, or not be bound to the completion port.
CannotOpen(d) ==
    /\ reading[d] = "opening"
    /\ free' = free + 1 /\ Refusal /\ UNCHANGED total
    /\ To(d, "refused")
    /\ Answers(d, Refused)
    /\ UNCHANGED <<blocks, position, sent, keys, handles, spilled, client, misused>>

FirstRead(d) ==
    /\ reading[d] = "opening"
    /\ keys' = keys \union {d}
    /\ handles' = handles \union {d}
    /\ To(d, "reading")
    /\ Answers(d, Begun)
    /\ UNCHANGED <<pool_vars, blocks, position, sent, spilled, client, misused>>

\* ReadFile fails, as it may at once at the end of an empty file: the key is left.
FirstReadFails(d) ==
    /\ reading[d] = "opening"
    /\ free' = free + 1 /\ UNCHANGED total
    /\ IF blocks[d] = 0 THEN UNCHANGED refused ELSE Refusal
    /\ keys' = keys \union {d}
    /\ To(d, "refused")
    /\ Answers(d, Refused)
    /\ UNCHANGED <<blocks, position, sent, handles, spilled, client, misused>>

\* The acknowledgement; blocks may have been sent by then.
Answer(d) ==
    /\ answer[d] # Nothing
    /\ SendClientData(d, answer[d])
    /\ Answers(d, Nothing)
    /\ UNCHANGED <<pool_vars, blocks, reading, position, keys, handles, spilled, client>>
-----------------------------------------------------------------------------
(* WTProcessFileRead.                                                      *)

\* Mutation: the offset is not moved on.
BlockReadInPlace(d) ==
    /\ reading[d] = "reading"
    /\ position[d] < blocks[d]
    /\ SendClientData(d, position[d] + 1)
    /\ ReleaseBuffer
    /\ To(d, "again")
    /\ UNCHANGED <<blocks, position, answer, keys, handles, spilled, client>>

\* Mutation: the end of the file is noticed one block late.
BlockReadOnceMore(d) ==
    /\ reading[d] = "reading"
    /\ position[d] <= blocks[d]
    /\ SendClientData(d, position[d] + 1)
    /\ position' = [position EXCEPT ![d] = @ + 1]
    /\ ReleaseBuffer
    /\ To(d, "again")
    /\ UNCHANGED <<blocks, answer, keys, handles, spilled, client>>

\* A block: it is sent, and its buffer returned before another is taken.
BlockRead(d) ==
    /\ reading[d] = "reading"
    /\ position[d] < blocks[d]
    /\ SendClientData(d, position[d] + 1)
    /\ position' = [position EXCEPT ![d] = @ + 1]
    /\ ReleaseBuffer
    /\ To(d, "again")
    /\ UNCHANGED <<blocks, answer, keys, handles, spilled, client>>

\* The read completes with nothing, at the end of the file or because it failed:
\* the buffer of the operation stays with nobody.
EndOfFile(d) ==
    /\ reading[d] = "reading"
    /\ IF position[d] = blocks[d] THEN UNCHANGED refused ELSE Refusal
    /\ SendClientData(d, Finish)
    /\ keys' = keys \ {d} /\ handles' = handles \ {d}
    /\ spilled' = spilled + 1
    /\ To(d, "done")
    /\ UNCHANGED <<free, total, blocks, position, answer, client>>

NoNextBuffer(d) ==
    /\ reading[d] = "last"
    /\ ExpandBuffers
    /\ SendClientData(d, Finish)
    /\ keys' = keys \ {d} /\ handles' = handles \ {d}
    /\ To(d, "starved")
    /\ UNCHANGED <<blocks, position, answer, spilled, client>>

NextRead(d) ==
    /\ reading[d] = "issuing"
    /\ To(d, "reading")
    /\ UNCHANGED <<pool_vars, blocks, position, answer, sent, keys, handles, spilled, client, misused>>

\* Mutation: the buffer is not returned either.
NextReadFailsSpilling(d) ==
    /\ reading[d] = "issuing"
    /\ IF position[d] = blocks[d] THEN UNCHANGED refused ELSE Refusal
    /\ SendClientData(d, Finish)
    /\ keys' = keys \ {d}
    /\ To(d, "done")
    /\ UNCHANGED <<free, total, blocks, position, answer, handles, spilled, client>>

\* ReadFile fails, as it may at once at the end of the file: the handle stays open.
NextReadFails(d) ==
    /\ reading[d] = "issuing"
    /\ free' = free + 1 /\ UNCHANGED total
    /\ IF position[d] = blocks[d] THEN UNCHANGED refused ELSE Refusal
    /\ SendClientData(d, Finish)
    /\ keys' = keys \ {d}
    /\ To(d, "done")
    /\ UNCHANGED <<blocks, position, answer, handles, spilled, client>>

\* The client is torn down when none of its requests is being handled.
ClientGone ==
    /\ client /\ ~Handling
    /\ client' = FALSE
    /\ UNCHANGED <<pool_vars, blocks, reading, position, answer, sent, keys, handles, spilled, misused>>

FileStep ==
    \/ \E d \in Downloads :
          \/ PassiveDownload(d) \/ GetBuffer(d) \/ GetBufferExpands(d) \/ NoFirstBuffer(d)
          \/ CannotOpen(d) \/ FirstRead(d) \/ FirstReadFails(d) \/ Answer(d)
          \/ BlockRead(d) \/ EndOfFile(d) \/ NoNextBuffer(d) \/ NextRead(d) \/ NextReadFails(d)
    \/ ClientGone
-----------------------------------------------------------------------------
TypeOKFiles ==
    /\ free \in Nat /\ total \in Nat /\ refused \in 0..MaxRefused
    /\ blocks \in [Downloads -> Blocks \union {0}]
    /\ reading \in [Downloads -> {"idle", "first", "second", "opening", "refused", "reading",
                                  "again", "last", "issuing", "starved", "done"}]
    /\ position \in [Downloads -> Nat]
    /\ \A d \in Downloads : position[d] <= blocks[d]
    /\ answer \in [Downloads -> {Nothing, Begun, Refused}]
    /\ \A d \in Downloads :
          sent[d] \in Seq({Begun, Refused, Finish} \union 1..blocks[d])
    /\ keys \subseteq Downloads /\ handles \subseteq Downloads
    /\ spilled \in Nat
    /\ client \in BOOLEAN
    /\ misused \subseteq {Begun, Refused, Finish} \union UNION {1..n : n \in Blocks}

\* Downloads that have a buffer, and downloads that ended with one.
Held == {d \in Downloads : reading[d] \in {"opening", "reading", "issuing"}}
Spilt == {d \in Downloads : reading[d] = "done" /\ d \notin handles}

\* Every buffer is in the queue, or with a read, or was spilled by a read that
\* ended: the pool grows by one for each download it has served.
PoolAccounting ==
    /\ total = free + spilled + Cardinality(Held)
    /\ spilled = Cardinality(Spilt)

\* The messages of s that do not answer a request, in their order.
Contents(s) ==
    LET upTo[n \in 0..Len(s)] ==
            IF n = 0 THEN <<>>
            ELSE IF s[n] \in {Begun, Refused} THEN upTo[n - 1]
            ELSE Append(upTo[n - 1], s[n])
    IN  upTo[Len(s)]

Content(d) == Contents(sent[d])
Whole(d) == [n \in 1..blocks[d] |-> n]

\* What the client is sent is the file from its beginning, in order, and the end
\* once, when the reading is over.  The end is told before the end of the file only
\* after a failure or for want of a buffer, which the client cannot tell.  A client
\* that is gone is sent blocks and ends, but never an answer to its request.
DownloadInOrder ==
    /\ \A d \in Downloads :
          LET over == reading[d] = "done" \/ (reading[d] = "starved" /\ position[d] > 0)
          IN  /\ Content(d) = SubSeq(Whole(d), 1, position[d])
                                 \o (IF over THEN <<Finish>> ELSE <<>>)
              /\ reading[d] = "done" /\ position[d] < blocks[d] => refused > 0
              /\ Len(sent[d]) - Len(Content(d)) + (IF answer[d] = Nothing THEN 0 ELSE 1)
                    = (IF reading[d] \in {"idle", "first", "second", "opening"} THEN 0 ELSE 1)
    /\ misused \intersect {Begun, Refused} = {}
=============================================================================
