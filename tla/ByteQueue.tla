------------------------------ MODULE ByteQueue ------------------------------
(***************************************************************************)
(* What a buffered serial line promises: bytes come out in the order in    *)
(* which they went in, each once and unchanged.                            *)
(***************************************************************************)
EXTENDS Naturals, Sequences

CONSTANTS Byte,      \* the values of a byte
          CAPACITY   \* bytes that may be under way

VARIABLES q,         \* the bytes under way, the oldest first
          io         \* the last transfer and its bytes

QueueInit == q = <<>> /\ io = <<"none", <<>>>>

Put == /\ io'[1] = "put" /\ io'[2] \in Seq(Byte)
       /\ q' = q \o io'[2] /\ Len(q') <= CAPACITY

Get == io'[1] = "get" /\ q = io'[2] \o q'

QueueNext == Put \/ Get

QueueSpec == QueueInit /\ [][QueueNext]_<<q, io>>
=============================================================================
