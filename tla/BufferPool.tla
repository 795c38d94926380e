----------------------------- MODULE BufferPool ------------------------------
(***************************************************************************)
(* m_Buffers (CSTXIOCPBufferCollection): a queue of buffers that grows by  *)
(* one whenever a thread finds it empty.  The maximum it was created with  *)
(* is never consulted.                                                     *)
(***************************************************************************)
EXTENDS Integers, FiniteSets

CONSTANTS
    Buffers,    \* nBufferCount of CreateBuffers
    MaxRefused  \* bound: how often memory or the system refuses

ASSUME BuffersAssumption == Buffers \in Nat
ASSUME MaxRefusedAssumption == MaxRefused \in Nat

VARIABLES
    free,     \* buffers in m_queueBuffers
    total,    \* m_nTotalBufferCount
    refused   \* refusals so far

pool_vars == <<free, total, refused>>

CreateBuffers == free = Buffers /\ total = Buffers /\ refused = 0

Refusal == refused < MaxRefused /\ refused' = refused + 1

\* try_dequeue.
Dequeue == free > 0 /\ free' = free - 1 /\ UNCHANGED <<total, refused>>

\* It found nothing: one more is made, unless there is no memory.
ExpandBuffers ==
    /\ free = 0
    /\ \/ free' = free + 1 /\ total' = total + 1 /\ UNCHANGED refused
       \/ Refusal /\ UNCHANGED <<free, total>>

ReleaseBuffer == free' = free + 1 /\ UNCHANGED <<total, refused>>
=============================================================================
