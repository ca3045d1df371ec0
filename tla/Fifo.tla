-------------------------------- MODULE Fifo --------------------------------
(* What mq.ChannelQueue promises: calls of Add and Pop take effect one     *)
(* after the other on a first-in first-out queue.                          *)
EXTENDS Sequences

CONSTANTS Clients, Data, NoData

VARIABLES
  items,   \* the queue
  pending, \* what each client has called Add with, until it takes effect
  popped   \* what each client's last Pop returned

Init == /\ items = <<>>
        /\ pending = [c \in Clients |-> NoData]
        /\ popped = [c \in Clients |-> NoData]

Call(c, d) ==
  /\ pending[c] = NoData
  /\ pending' = [pending EXCEPT ![c] = d]
  /\ UNCHANGED <<items, popped>>

Put(c) ==
  /\ pending[c] # NoData
  /\ items' = Append(items, pending[c])
  /\ pending' = [pending EXCEPT ![c] = NoData]
  /\ UNCHANGED popped

Take(c) ==
  /\ items # <<>>
  /\ items' = Tail(items)
  /\ popped' = [popped EXCEPT ![c] = Head(items)]
  /\ UNCHANGED pending

Miss(c) ==
  /\ items = <<>>
  /\ popped' = [popped EXCEPT ![c] = NoData]
  /\ UNCHANGED <<items, pending>>

Next == \E c \in Clients : Put(c) \/ Take(c) \/ Miss(c) \/ \E d \in Data : Call(c, d)

Spec == Init /\ [][Next]_<<items, pending, popped>>
=============================================================================
