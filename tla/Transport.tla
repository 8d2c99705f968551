----------------------------- MODULE Transport -----------------------------
(***************************************************************************)
(* What a channel of src/ipc_channels.cpp promises whoever sends on it and *)
(* receives from it: a message that is received was sent, and none is      *)
(* received twice.  Messages are numbered in the order in which they enter *)
(* the channel.  A message may be lost at any time, silently; with InOrder *)
(* those that do arrive arrive in the order they were sent.                *)
(***************************************************************************)
EXTENDS Naturals, Sequences

CONSTANT InOrder   \* TRUE if messages cannot overtake one another

VARIABLES
    sent,       \* the number of messages sent
    received    \* the messages received, in the order of the receives

vars == <<sent, received>>

Init == sent = 0 /\ received = <<>>

Send == sent' = sent + 1 /\ UNCHANGED received

Deliver(i) ==
    /\ \A k \in DOMAIN received :
          received[k] # i /\ (InOrder => received[k] < i)
    /\ received' = Append(received, i)
    /\ UNCHANGED sent

Next == Send \/ \E i \in 1 .. sent : Deliver(i)

Spec == Init /\ [][Next]_vars
=============================================================================
