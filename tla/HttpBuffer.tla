------------------------------ MODULE HttpBuffer ------------------------------
(***************************************************************************)
(* The HTTP framing (TcpServerTypeHttp): IsClientDataReadable looks for    *)
(* the end of a header and for a content-length line in the whole receive  *)
(* buffer, up to the first NUL, and PreClientReceive hands over what it    *)
(* makes of them; internal messages of the client come after that.         *)
(* A message is a row of cells: a line of text, the line that announces a  *)
(* body, the two halves of the end of a header, a NUL.  A READ may end     *)
(* between any two of them.                                                *)
(***************************************************************************)
EXTENDS Integers, Sequences

CONSTANTS
    Bodies,          \* cells of the bodies that a client may send
    HttpReadSize,    \* cells one READ takes at most
    HttpMaxPackage,  \* _maxSinglePackageLength, in cells
    MaxRequests      \* bound: messages a client sends

ASSUME BodiesAssumption == Bodies \subseteq Nat
ASSUME HttpReadAssumption == HttpReadSize \in Nat
ASSUME MaxRequestsAssumption == MaxRequests \in Nat

VARIABLES
    body,      \* cells of the body of each request that announces one
    row,       \* the cells that the client has sent
    requests,  \* history: the messages of the client, and the last cell of each
    fetched,   \* how many cells AppendRecvData has taken
    cut,       \* how many of these SkipRecvBuffer has removed
    turn,      \* the loop of PreClientReceive a worker is in
    dropped,   \* the client was disconnected for its length
    late,      \* history: the last READ ended an internal message
    astray     \* history: something was handed over that is not one message

http_vars == <<body, row, requests, fetched, cut, turn, dropped, late, astray>>

Cells == {"text", "length", "half", "end", "nul"}
RequestKinds == {"get", "post", "internal"}

\* An internal message begins with a header that has a NUL in it.
Written(kind) ==
    CASE kind = "get" -> <<"text", "half", "end">>
      [] kind = "post" -> <<"length", "half", "end">> \o [i \in 1..body |-> "text"]
      [] kind = "internal" -> <<"nul", "text">>

InitHttp ==
    /\ body \in Bodies
    /\ row = <<>> /\ requests = <<>>
    /\ fetched = 0 /\ cut = 0
    /\ turn = "none"
    /\ dropped = FALSE /\ late = FALSE /\ astray = FALSE

\* Where the cell is found first, and no other one stops the search before it.
FoundBefore(cell, stops) ==
    {i \in (cut + 1)..fetched :
        row[i] = cell /\ \A j \in (cut + 1)..(i - 1) : row[j] \notin {cell} \union stops}

\* Mutation of Places: a NUL stops nothing.
PlacesIgnoringNul(cell) == FoundBefore(cell, {})

\* stristr, which a NUL stops: where the cell is in what is buffered, if anywhere.
Places(cell) == FoundBefore(cell, {"nul"})
FirstPlace(cell) == IF Places(cell) = {} THEN 0 ELSE CHOOSE i \in Places(cell) : TRUE

\* Where the header may be found to end (0: nowhere).  The comparison runs on behind
\* the data: what the buffer held before may look like the missing half.
HeaderEnds ==
    LET half == FirstPlace("half")
    IN  IF half = 0 \/ fetched - cut < 2 THEN {0}
        ELSE IF half < fetched THEN {half + 1}
        ELSE {0, fetched + 1}

\* The length that IsClientDataReadable returns for the end of a header: a body counts
\* whose line is anywhere in the data, in this request or in a later one.
ReadableLength(end) ==
    LET length == end - cut + (IF FirstPlace("length") # 0 THEN body ELSE 0)
    IN  IF end = 0 \/ (FirstPlace("length") # 0 /\ length > fetched - cut) THEN 0 ELSE length

\* The next so many cells are one message.
OneMessage(length) ==
    \E i \in 1..Len(requests) :
        /\ requests[i].last = cut + length
        /\ cut = IF i = 1 THEN 0 ELSE requests[i - 1].last
-----------------------------------------------------------------------------
\* The client (external).
SendRequest(kind) ==
    /\ turn = "none"
    /\ Len(requests) < MaxRequests
    /\ row' = row \o Written(kind)
    /\ requests' = Append(requests, [kind |-> kind, last |-> Len(row')])
    /\ UNCHANGED <<body, fetched, cut, turn, dropped, late, astray>>

\* IssueClientRead fails for a client that was disconnected.
ReceiveHttp ==
    /\ turn = "none" /\ ~dropped
    /\ \E n \in 1..HttpReadSize : fetched + n <= Len(row) /\ fetched' = fetched + n
    /\ turn' = "application"
    /\ late' = FALSE
    /\ UNCHANGED <<body, row, requests, cut, dropped, astray>>

HttpTooLarge ==
    /\ turn = "application"
    /\ fetched - cut > HttpMaxPackage
    /\ dropped' = TRUE
    /\ turn' = "internal"
    /\ UNCHANGED <<body, row, requests, fetched, cut, late, astray>>

\* OnClientReceived.  When more is skipped than is buffered, memmove is given a
\* negative length: nothing is modelled after that.
TakeRequest ==
    /\ turn = "application"
    /\ fetched - cut <= HttpMaxPackage
    /\ \E end \in HeaderEnds :
          /\ ReadableLength(end) > 0
          /\ cut' = cut + ReadableLength(end)
          /\ astray' = (astray \/ ~OneMessage(ReadableLength(end)))
    /\ turn' = IF cut' > fetched THEN "overrun" ELSE turn
    /\ UNCHANGED <<body, row, requests, fetched, dropped, late>>

NoRequest ==
    /\ turn = "application"
    /\ fetched - cut <= HttpMaxPackage
    /\ \E end \in HeaderEnds : ReadableLength(end) = 0
    /\ turn' = "internal"
    /\ UNCHANGED <<body, row, requests, fetched, cut, dropped, late, astray>>

\* IsInternalClientData: the header of an internal message and its content are there.
Internal == fetched - cut >= 2 /\ row[cut + 1] = "nul"

TakeInternal ==
    /\ turn = "internal"
    /\ Internal
    /\ cut' = cut + 2
    /\ late' = TRUE
    /\ UNCHANGED <<body, row, requests, fetched, turn, dropped, astray>>

\* The next READ is issued.
NoInternal ==
    /\ turn = "internal"
    /\ ~Internal
    /\ turn' = "none"
    /\ UNCHANGED <<body, row, requests, fetched, cut, dropped, late, astray>>

HttpStep ==
    \/ \E kind \in RequestKinds : SendRequest(kind)
    \/ ReceiveHttp \/ HttpTooLarge \/ TakeRequest \/ NoRequest \/ TakeInternal \/ NoInternal
-----------------------------------------------------------------------------
TypeOKHttp ==
    /\ body \in Bodies
    /\ row \in Seq(Cells)
    /\ requests \in Seq([kind : RequestKinds, last : Nat])
    /\ fetched \in 0..Len(row)
    /\ cut \in Nat
    /\ turn \in {"none", "application", "internal", "overrun"}
    /\ dropped \in BOOLEAN /\ late \in BOOLEAN /\ astray \in BOOLEAN

\* A whole message of the kind is in front.
InFront(kind) ==
    \E i \in 1..Len(requests) :
        /\ requests[i].kind = kind /\ requests[i].last <= fetched
        /\ cut = IF i = 1 THEN 0 ELSE requests[i - 1].last

\* When a worker has handled a READ, a whole message is left in two cases only: it
\* came behind an internal one in the same READ; or it is a request without a body and
\* is held back until the body is there that a later one has announced.
NothingHeldBack ==
    turn = "none" /\ ~dropped /\ ~astray =>
        /\ ~InFront("internal")
        /\ ~late => ~InFront("post")
        /\ ~late /\ InFront("get") => FirstPlace("length") # 0 /\ FirstPlace("half") + 1 + body > fetched

\* What is handed over is one message, unless a request without a body was followed by
\* one that has a body, with no internal message between them.
CutAtMessages ==
    astray =>
        /\ body > 0
        /\ \E i, j \in 1..Len(requests) :
              /\ i < j /\ requests[i].kind = "get" /\ requests[j].kind = "post"
              /\ \A k \in i..j : requests[k].kind # "internal"

RequestsServed == NothingHeldBack /\ CutAtMessages
=============================================================================
