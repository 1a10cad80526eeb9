----------------------------- MODULE MCUartIntr -----------------------------
(***************************************************************************)
(* The UART driver's two views and the MQTT client's queue, side by side:  *)
(* part says which one moves, the others stay in their initial states.     *)
(*   intr     the interleavings with the interrupt, rings of SIZE bytes    *)
(*   rx, tx   the bytes in one ring; four bytes and FIFOs of two, so that  *)
(*            every alignment of pointers and data wraps round             *)
(*   mqtt     a ring of six bytes; messages with and without control bytes *)
(*            (125 to 127), and one that can never fit                     *)
(***************************************************************************)
EXTENDS UartIntr, UartRing, MqttQueue

VARIABLES part

SomeMessages == {<<1>>, <<126>>, <<1, 125>>, <<127, 125, 126>>}

MCInit == part \in {"intr", "rx", "tx", "mqtt"} /\ Init /\ RingInit /\ PutsInit

MCNext ==
  /\ UNCHANGED part
  /\ \/ part = "intr" /\ Next /\ UNCHANGED <<ringVars, queueVars>>
     \/ part = "rx" /\ Rx /\ UNCHANGED <<vars, queueVars>>
     \/ part = "tx" /\ Tx /\ UNCHANGED <<vars, queueVars>>
     \/ part = "mqtt" /\ PutsNext /\ UNCHANGED <<vars, ringVars>>

(* The fairness of UartIntr's FairSpec.                                    *)
MCSpec ==
  /\ MCInit /\ [][MCNext]_<<part, vars, ringVars, queueVars>>
  /\ WF_vars(part = "intr" /\ Code)
  /\ WF_vars(part = "intr" /\ Depart)
  /\ WF_vars(part = "intr" /\ RxIntr)
  /\ SF_vars(part = "intr" /\ TxIntr)
  /\ SF_vars(part = "intr" /\ RecvTask)
  /\ SF_vars(part = "intr" /\ rx_buff_deq)

-----------------------------------------------------------------------------
(* Both directions of the interrupt-driven driver keep moving.             *)
BytesFlow == RxFlows /\ TxDrains
=============================================================================
