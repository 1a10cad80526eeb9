---------------------------- MODULE MessageQueue ----------------------------
(***************************************************************************)
(* What an outgoing message queue of bounded memory promises: messages     *)
(* come out whole, unchanged and in the order in which they were accepted. *)
(* Room for a new message may be made by dropping the oldest ones.         *)
(***************************************************************************)
EXTENDS Naturals, Sequences

CONSTANT Message

VARIABLES q,      \* the messages accepted and not yet taken or dropped
          io      \* the last operation and its message

QueueInit == q = <<>> /\ io = <<"none">>

(* One that is accepted may drop the n oldest; a refused one may drop all. *)
Accept == /\ io'[1] = "put" /\ io'[2] \in Message
          /\ \E n \in 0..Len(q) : q' = Append(SubSeq(q, n + 1, Len(q)), io'[2])

Refuse == io' = <<"refused">> /\ q' \in {q, <<>>}

Take == io'[1] = "get" /\ q = <<io'[2]>> \o q'

Nothing == io' = <<"nothing">> /\ q = <<>> /\ q' = q

QueueNext == Accept \/ Refuse \/ Take \/ Nothing

QueueSpec == QueueInit /\ [][QueueNext]_<<q, io>>
=============================================================================
