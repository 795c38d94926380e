---------------------------- MODULE ReceiveBuffer ----------------------------
(***************************************************************************)
(* How the bytes of a client become messages again: each READ is appended  *)
(* to the receive buffer of the client, and PreClientReceive takes whole   *)
(* messages off its front.  The bytes are counted, not stored: under       *)
(* TcpServerTypeBinaryHeader2, 4 or V IsClientDataReadable only reads the  *)
(* length field in front.  A client sends no internal messages here, into  *)
(* which a length field would be read.  HttpBuffer has the HTTP framing.   *)
(***************************************************************************)
EXTENDS Integers, Sequences

CONSTANTS
    Types,        \* framings a sub server may have
    Sizes,        \* sizes of messages
    ReadSize,     \* bytes one READ takes at most
    MaxPackage,   \* _maxSinglePackageLength
    MaxMessages   \* bound: messages a client sends

\* An empty message announces the length 0 and is as long as its length field.  The
\* field of a variable length may announce a negative length, or one it cannot hold,
\* and may take more than one unit: that of a long message takes two.
Kinds(type) ==
    {"application", "empty"} \union (IF type = "headerV" THEN {"negative", "long"} ELSE {})
Message(type) == {m \in [kind : Kinds(type), size : Sizes] : m.kind = "long" => m.size > 1}
ASSUME TypesAssumption == Types \subseteq {"header2", "header4", "headerV"}
ASSUME SizesAssumption == Sizes \subseteq Nat \ {0}
ASSUME ReadSizeAssumption == ReadSize \in Nat \ {0}
ASSUME MaxPackageAssumption == MaxPackage \in Nat
ASSUME MaxMessagesAssumption == MaxMessages \in Nat

VARIABLES
    server_type, \* _serverType
    stream,    \* the messages the client has sent
    appended,  \* bytes that AppendRecvData has taken
    next,      \* the first message that was not delivered
    loop,      \* whether a worker is in the loop of PreClientReceive
    too_large  \* the client was disconnected for its length

receive_vars == <<server_type, stream, appended, next, loop, too_large>>

InitReceive ==
    /\ server_type \in Types
    /\ stream = <<>>
    /\ appended = 0
    /\ next = 1
    /\ loop = "none"
    /\ too_large = FALSE

\* Where message k of the stream begins.
Begins == LET sum[k \in 1..(Len(stream) + 1)] ==
                 IF k = 1 THEN 0 ELSE sum[k - 1] + stream[k - 1].size
          IN  sum

\* GetBufferedMessageLength.
Buffered == appended - Begins[next]

\* All of message k is there.
Arrived(k) == k \in next..Len(stream) /\ Begins[k + 1] <= appended

\* The reader never gets past a message for which it returns 0: an empty one, whose
\* length that is, or one whose length it cannot read.
Stuck(k) ==
    \/ stream[k].kind = "empty" /\ server_type # "headerV"
    \/ stream[k].kind = "negative"

\* IsClientDataReadable returns the length of the message in front.
Readable == Arrived(next) /\ ~Stuck(next)
-----------------------------------------------------------------------------
\* The client (external).
Send(m) ==
    /\ Len(stream) < MaxMessages
    /\ loop = "none"
    /\ stream' = Append(stream, m)
    /\ UNCHANGED <<server_type, appended, next, loop, too_large>>

\* AppendRecvData: IssueClientRead fails for a client that was disconnected.
AppendRecvData ==
    /\ loop = "none" /\ ~too_large
    /\ \E n \in 1..ReadSize :
          /\ appended + n <= Begins[Len(stream) + 1]
          /\ appended' = appended + n
    /\ loop' = "application"
    /\ UNCHANGED <<server_type, stream, next, too_large>>

\* More than one package may have is buffered, or announced by a long length field.
TooLarge ==
    \/ Buffered > MaxPackage
    \/ /\ server_type \in {"header4", "headerV"}
       /\ next <= Len(stream) /\ Buffered > 0
       /\ stream[next].kind \in {"application", "long"} /\ stream[next].size > MaxPackage

\* A length field is read though its second unit is not there yet: what the buffer
\* held before stands for it, and may announce any length.
FieldCut == next <= Len(stream) /\ stream[next].kind = "long" /\ Buffered = 1

\* IsClientDataReadable.
DisconnectTooLarge ==
    /\ loop = "application"
    /\ TooLarge \/ FieldCut
    /\ too_large' = TRUE
    /\ loop' = "none"
    /\ UNCHANGED <<server_type, stream, appended, next>>

OnClientReceived ==
    /\ loop = "application" /\ ~TooLarge
    /\ Readable
    /\ next' = next + 1
    /\ UNCHANGED <<server_type, stream, appended, loop, too_large>>

\* Mutation: one message is taken for each READ.
NoMoreAfterOne ==
    /\ loop = "application" /\ ~TooLarge
    /\ Readable => next > 1
    /\ loop' = "none"
    /\ UNCHANGED <<server_type, stream, appended, next, too_large>>

\* The next READ is issued.
NoMoreMessages ==
    /\ loop = "application" /\ ~TooLarge
    /\ ~Readable
    /\ loop' = "none"
    /\ UNCHANGED <<server_type, stream, appended, next, too_large>>

ReceiveStep ==
    \/ \E m \in Message(server_type) : Send(m)
    \/ AppendRecvData \/ DisconnectTooLarge \/ OnClientReceived \/ NoMoreMessages
-----------------------------------------------------------------------------
TypeOKReceive ==
    /\ server_type \in Types
    /\ stream \in Seq(Message(server_type)) /\ Len(stream) <= MaxMessages
    /\ appended \in 0..Begins[Len(stream) + 1]
    /\ next \in 1..(Len(stream) + 1)
    /\ loop \in {"none", "application"}
    /\ too_large \in BOOLEAN

\* When a worker has handled a READ, no whole message is left, except behind one that
\* is never taken.
NothingLeftBehind ==
    loop = "none" /\ ~too_large /\ Arrived(next) => Stuck(next)

\* A client is disconnected as too large only if a message is larger than the limit,
\* or a READ could bring the rest of it and go beyond the limit, or the client waits
\* behind a message that is never taken, or a length field was cut by a READ.
CutForItsLength ==
    too_large =>
        \/ FieldCut
        \/ \E k \in 1..Len(stream) : Stuck(k) \/ stream[k].size - 1 + ReadSize > MaxPackage

StreamServed == NothingLeftBehind /\ CutForItsLength
=============================================================================
