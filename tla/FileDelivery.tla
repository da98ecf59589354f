---------------------------- MODULE FileDelivery ----------------------------
(***************************************************************************)
(* What the two ends promise each other: README.md's reliable delivery of  *)
(* the file over UDP.  The receiver accepts the N chunks and then the end  *)
(* of the file, in order; its user consumes what was accepted, in order.   *)
(* Either side may fail at any time, but a sender reports success only     *)
(* when the receiver accepted everything, and a receiver only when its     *)
(* user consumed everything.                                               *)
(***************************************************************************)
EXTENDS Naturals, Sequences

CONSTANT N     \* chunks of the file

VARIABLES accepted,   \* segments accepted: N chunks and the end of file
          consumed,   \* chunks consumed, in order of consumption
          sender,     \* "up", "success" or "failure"
          receiver

vars == <<accepted, consumed, sender, receiver>>

Init ==
  /\ accepted = 0 /\ consumed = <<>>
  /\ sender = "up" /\ receiver = "up"

Accept ==
  /\ receiver = "up" /\ accepted < N + 1
  /\ accepted' = accepted + 1
  /\ UNCHANGED <<consumed, sender, receiver>>

Consume ==
  /\ receiver = "up" /\ Len(consumed) < N /\ Len(consumed) < accepted
  /\ consumed' = Append(consumed, Len(consumed) + 1)
  /\ UNCHANGED <<accepted, sender, receiver>>

SenderEnds(result) ==
  /\ sender = "up"
  /\ result = "success" => accepted = N + 1
  /\ sender' = result
  /\ UNCHANGED <<accepted, consumed, receiver>>

ReceiverEnds(result) ==
  /\ receiver = "up"
  /\ result = "success" => accepted = N + 1 /\ Len(consumed) = N
  /\ receiver' = result
  /\ UNCHANGED <<accepted, consumed, sender>>

Next ==
  \/ Accept
  \/ Consume
  \/ \E result \in {"success", "failure"} : SenderEnds(result) \/ ReceiverEnds(result)

Spec == Init /\ [][Next]_vars
=============================================================================
