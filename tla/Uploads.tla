------------------------------- MODULE Uploads -------------------------------
(***************************************************************************)
(* Uploads of one client (OnClientInternalDataTransfer): the messages are  *)
(* handled one at a time.  An upload is found by its cookie, which the     *)
(* client desires or the server counts up from 1; one user data is used.   *)
(* A block is known by the upload it belongs to.                           *)
(***************************************************************************)
EXTENDS Integers, Sequences, FiniteSets

CONSTANTS
    Files,        \* uploads the client makes
    Desired,      \* cookies the client may desire, besides 0 for none
    MaxPieces     \* bound: blocks of an upload

ASSUME DesiredAssumption == Desired \subseteq Nat \ {0}
ASSUME MaxPiecesAssumption == MaxPieces \in Nat

VARIABLES
    desire,       \* the cookie the client desired, 0 for none
    cookie,       \* the cookie of the upload, 0 before it begins
    base,         \* m_dwUploadCookieBase
    buffers,      \* m_mapUploadBuffers: cookie -> the blocks written to it
    orphans,      \* buffers no cookie leads to any more
    pieces,       \* blocks the client sent that were acknowledged
    finished,     \* uploads whose end was acknowledged
    damaged       \* uploads that were completed with something else

upload_vars == <<desire, cookie, base, buffers, orphans, pieces, finished, damaged>>

InitUploads ==
    /\ desire = [f \in Files |-> 0]
    /\ cookie = [f \in Files |-> 0]
    /\ base = 1
    /\ buffers = <<>>
    /\ orphans = 0
    /\ pieces = [f \in Files |-> 0]
    /\ finished = {} /\ damaged = {}

Bind(k, content) == [c \in DOMAIN buffers \union {k} |-> IF c = k THEN content ELSE buffers[c]]
Unbind(k) == [c \in DOMAIN buffers \ {k} |-> buffers[c]]

\* Mutation: the cookie is not counted up.
PrepareUploadSame(f) ==
    /\ cookie[f] = 0
    /\ cookie' = [cookie EXCEPT ![f] = base]
    /\ orphans' = IF base \in DOMAIN buffers THEN orphans + 1 ELSE orphans
    /\ buffers' = Bind(base, <<>>)
    /\ UNCHANGED <<desire, base, pieces, finished, damaged>>

\* PrepareUpload without a desire: whatever has the cookie is forgotten.
PrepareUpload(f) ==
    /\ cookie[f] = 0
    /\ cookie' = [cookie EXCEPT ![f] = base]
    /\ orphans' = IF base \in DOMAIN buffers THEN orphans + 1 ELSE orphans
    /\ buffers' = Bind(base, <<>>)
    /\ base' = base + 1
    /\ UNCHANGED <<desire, pieces, finished, damaged>>

\* With one: what has the cookie is deleted.
PrepareDesired(f, k) ==
    /\ cookie[f] = 0
    /\ desire' = [desire EXCEPT ![f] = k]
    /\ cookie' = [cookie EXCEPT ![f] = k]
    /\ buffers' = Bind(k, <<>>)
    /\ UNCHANGED <<base, orphans, pieces, finished, damaged>>

Sends(f) == cookie[f] # 0 /\ f \notin finished

\* A block is acknowledged whether its cookie is known or not.
ProcessUpload(f) ==
    /\ Sends(f)
    /\ pieces[f] < MaxPieces
    /\ pieces' = [pieces EXCEPT ![f] = @ + 1]
    /\ buffers' = IF cookie[f] \in DOMAIN buffers
                  THEN [buffers EXCEPT ![cookie[f]] = Append(@, f)] ELSE buffers
    /\ UNCHANGED <<desire, cookie, base, orphans, finished, damaged>>

\* The end is acknowledged and the upload is completed; an unknown one is ignored.
CloseUpload(f) ==
    /\ Sends(f)
    /\ cookie[f] \in DOMAIN buffers
    /\ finished' = finished \union {f}
    /\ damaged' = IF buffers[cookie[f]] = [n \in 1..pieces[f] |-> f] THEN damaged
                                                                     ELSE damaged \union {f}
    /\ buffers' = Unbind(cookie[f])
    /\ UNCHANGED <<desire, cookie, base, orphans, pieces>>

UploadStep ==
    \E f \in Files :
        \/ PrepareUpload(f) \/ ProcessUpload(f) \/ CloseUpload(f)
        \/ \E k \in Desired : PrepareDesired(f, k)
-----------------------------------------------------------------------------
TypeOKUploads ==
    /\ desire \in [Files -> Desired \union {0}]
    /\ cookie \in [Files -> Nat]
    /\ base \in Nat \ {0}
    /\ DOMAIN buffers \subseteq Nat
    /\ \A k \in DOMAIN buffers : buffers[k] \in Seq(Files)
    /\ orphans \in Nat
    /\ pieces \in [Files -> 0..MaxPieces]
    /\ finished \subseteq Files /\ damaged \subseteq Files

\* Uploads that have the same cookie.
Shares(f, g) == f # g /\ cookie[f] = cookie[g] /\ cookie[f] # 0

\* An upload is completed with its own blocks and all of them, and can be completed,
\* unless it shares its cookie with another; two uploads do only if the client desired
\* the cookie for one of them.  Only then is a buffer forgotten.
UploadsKeptApart ==
    /\ \A f \in Files :
          f \in damaged \/ (Sends(f) /\ cookie[f] \notin DOMAIN buffers) =>
              \E g \in Files : Shares(f, g)
    /\ \A f, g \in Files : Shares(f, g) => desire[f] # 0 \/ desire[g] # 0
    /\ orphans > 0 => \E f, g \in Files : Shares(f, g)
=============================================================================
