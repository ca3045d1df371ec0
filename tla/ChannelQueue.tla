---------------------------- MODULE ChannelQueue ----------------------------
(***************************************************************************)
(* mq.ChannelQueue: a linked list with a mutex and a counter.  Add and Pop *)
(* change the counter first and the list afterwards, with rlock held; what *)
(* Count returns, it reads from the counter without the lock, so the two   *)
(* changes are two actions here.                                           *)
(***************************************************************************)
EXTENDS Integers, Sequences

CONSTANTS
  Clients,   \* goroutines that use the queue
  Data,      \* the channels put into it
  NoData,    \* the absent channel
  NoClient,  \* the absent holder of rlock
  MaxAdds    \* bound: calls of Add

Nil == 0     \* the nil *Node; the others are indices of nodes

ASSUME QueueAssumption ==
  NoData \notin Data /\ NoClient \notin Clients /\ MaxAdds \in Nat

VARIABLES
  nodes,  \* every Node allocated, in order
  head,   \* q.head
  end,    \* q.end
  l,      \* q.l
  rlock,  \* holder of q.rlock
  client, \* where each client is, and the argument of its Add
  popped  \* what each client's last Pop returned

queueVars == <<nodes, head, end, l, rlock, client, popped>>

Node    == [data : Data, next : Nat]
Resting == [pc |-> "idle", data |-> NoData]

QueueInit ==
  /\ nodes = <<>> /\ head = Nil /\ end = Nil /\ l = 0
  /\ rlock = NoClient
  /\ client = [c \in Clients |-> Resting]
  /\ popped = [c \in Clients |-> NoData]

Lock(c) == client[c] = Resting /\ rlock = NoClient /\ rlock' = c
Unlock(c) == rlock' = NoClient /\ client' = [client EXCEPT ![c] = Resting]

---------------------------------------------------------------------------
(* Slips that the configuration is tested against: q.end is kept when the  *)
(* last node goes, Pop counts down twice or not at all.                    *)
KeepEnd(rest) == end
LessTwo(n) == n - 2
NoLess(n) == n

---------------------------------------------------------------------------
Add(c, d) ==
  /\ Len(nodes) < MaxAdds
  /\ Lock(c)
  /\ l' = l + 1
  /\ client' = [client EXCEPT ![c] = [pc |-> "link", data |-> d]]
  /\ UNCHANGED <<nodes, head, end, popped>>

Link(c) ==
  LET n    == Len(nodes) + 1
      more == Append(nodes, [data |-> client[c].data, next |-> Nil])
  IN  /\ client[c].pc = "link"
      /\ \/ end = Nil /\ head' = n /\ nodes' = more
         \/ end # Nil /\ nodes' = [more EXCEPT ![end].next = n] /\ UNCHANGED head
      /\ end' = n
      /\ Unlock(c)
      /\ UNCHANGED <<l, popped>>

PopNothing(c) ==
  /\ client[c] = Resting /\ rlock = NoClient
  /\ head = Nil
  /\ popped' = [popped EXCEPT ![c] = NoData]
  /\ UNCHANGED <<nodes, head, end, l, rlock, client>>

Less(n) == n - 1

Pop(c) ==
  /\ Lock(c)
  /\ head # Nil
  /\ l' = Less(l)
  /\ client' = [client EXCEPT ![c] = [pc |-> "unlink", data |-> NoData]]
  /\ UNCHANGED <<nodes, head, end, popped>>

EndBefore(rest) == IF rest = Nil THEN Nil ELSE end

Unlink(c) ==
  /\ client[c].pc = "unlink"
  /\ popped' = [popped EXCEPT ![c] = nodes[head].data]
  /\ head' = nodes[head].next
  /\ end' = EndBefore(nodes[head].next)
  /\ Unlock(c)
  /\ UNCHANGED <<nodes, l>>

Count == l

QueueNext ==
  \E c \in Clients : \/ \E d \in Data : Add(c, d)
                     \/ Link(c) \/ PopNothing(c) \/ Pop(c) \/ Unlink(c)

QueueSpec == QueueInit /\ [][QueueNext]_queueVars

---------------------------------------------------------------------------
QueueTypeOK ==
  /\ nodes \in Seq(Node)
  /\ head \in Nat /\ end \in Nat /\ l \in Nat
  /\ rlock \in Clients \cup {NoClient}
  /\ client \in [Clients -> [pc : {"idle", "link", "unlink"}, data : Data \cup {NoData}]]
  /\ popped \in [Clients -> Data \cup {NoData}]

(* The list is all the nodes from head to end, in the order they were      *)
(* added, and end is the youngest of all: a node that Add links there is   *)
(* one that Pop will reach.                                                *)
Chained ==
  /\ head = Nil <=> end = Nil
  /\ head # Nil => /\ head \in 1 .. end /\ end = Len(nodes)
                   /\ nodes[end].next = Nil
                   /\ \A n \in head .. end - 1 : nodes[n].next = n + 1

Length == IF head = Nil THEN 0 ELSE end - head + 1

(* Count, which any goroutine may call at any moment, is wrong by one at   *)
(* most, and only while Add or Pop is at work.                             *)
CountIsClose ==
  /\ rlock = NoClient => Count = Length
  /\ Count \in Length - 1 .. Length + 1

(* Add and Pop take effect one after the other, first in first out, and    *)
(* an Add that returns has taken effect.                                   *)
Slice(chain, first, n) == [i \in 1 .. n |-> chain[first + i - 1].data]

Items   == Slice(nodes, head, Length)
Pending == [c \in Clients |-> client[c].data]

Abstract == INSTANCE Fifo WITH items <- Items, pending <- Pending

FirstInFirstOut == Abstract!Spec
=============================================================================
