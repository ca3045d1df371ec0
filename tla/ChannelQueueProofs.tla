------------------------ MODULE ChannelQueueProofs ------------------------
(* Theorems about ChannelQueue for any number of clients and calls: the    *)
(* list stays chained, the counter close to its length, and every step of  *)
(* the list is a step of the abstract queue or none at all.                *)
EXTENDS ChannelQueue, SequenceTheorems, TLAPS

(* Only the holder of rlock is at work, Unlink on a list with a head; the  *)
(* counter is ahead of the list while it is.                               *)
Working(c) ==
  /\ client[c].pc # "idle" => rlock = c
  /\ client[c].pc = "link" <=> client[c].data # NoData

Counted ==
  /\ rlock = NoClient => l = Length
  /\ \A c \in Clients : /\ client[c].pc = "link" => l = Length + 1
                        /\ client[c].pc = "unlink" => head # Nil /\ l = Length - 1
  /\ rlock # NoClient => client[rlock].pc # "idle"

QInv == QueueTypeOK /\ Chained /\ Counted /\ \A c \in Clients : Working(c)

---------------------------------------------------------------------------
LEMMA LengthNat == ASSUME QueueTypeOK, Chained PROVE Length \in Nat
BY DEF QueueTypeOK, Chained, Length, Nil

LEMMA InitOK == QueueInit => QInv
<1> SUFFICES ASSUME QueueInit PROVE QInv
  OBVIOUS
<1>1. QueueTypeOK
  BY QueueAssumption DEF QueueInit, QueueTypeOK, Nil, Resting, Node
<1>2. Chained /\ Length = 0
  BY DEF QueueInit, Chained, Length, Nil
<1>3. Counted /\ \A c \in Clients : Working(c)
  BY <1>2, QueueAssumption DEF QueueInit, Counted, Working, Resting
<1> QED BY <1>1, <1>2, <1>3 DEF QInv

LEMMA AddOK == ASSUME QInv, NEW c \in Clients, NEW d \in Data, Add(c, d) PROVE QInv'
<1> USE QueueAssumption DEF QInv
<1>1. Length' = Length /\ Length \in Nat
  BY LengthNat DEF Add, Length
<1>2. QueueTypeOK'
  BY DEF QueueTypeOK, Add, Lock
<1>3. Chained'
  BY DEF Chained, Add
<1>4. \A b \in Clients : client[b].pc = "idle"
  BY DEF Working, Add, Lock
<1>5. Counted'
  BY <1>1, <1>4 DEF Counted, Add, Lock, QueueTypeOK
<1>6. \A b \in Clients : Working(b)'
  BY <1>4 DEF Working, Add, Lock, QueueTypeOK, Resting
<1> QED BY <1>2, <1>3, <1>5, <1>6

LEMMA PopOK == ASSUME QInv, NEW c \in Clients, Pop(c) PROVE QInv'
<1> USE QueueAssumption DEF QInv
<1>1. Length' = Length /\ Length \in Nat \ {0} /\ l = Length
  BY LengthNat DEF Pop, Length, Lock, Counted, QueueTypeOK, Chained, Nil
<1>2. QueueTypeOK'
  BY <1>1 DEF QueueTypeOK, Pop, Lock, Less
<1>3. Chained'
  BY DEF Chained, Pop
<1>4. \A b \in Clients : client[b].pc = "idle"
  BY DEF Working, Pop, Lock
<1>5. Counted'
  BY <1>1, <1>4 DEF Counted, Pop, Lock, QueueTypeOK, Less
<1>6. \A b \in Clients : Working(b)'
  BY <1>4 DEF Working, Pop, Lock, QueueTypeOK, Resting
<1> QED BY <1>2, <1>3, <1>5, <1>6

LEMMA PopNothingOK == ASSUME QInv, NEW c \in Clients, PopNothing(c) PROVE QInv'
<1>1. QueueTypeOK'
  BY DEF QInv, QueueTypeOK, PopNothing
<1>2. Chained' /\ Counted' /\ \A b \in Clients : Working(b)'
  BY DEF QInv, Chained, Counted, Working, PopNothing, Length
<1> QED BY <1>1, <1>2 DEF QInv

(* What Link and Unlink do to the list.                                    *)
LinkEffect(c) ==
  /\ client[c].data \in Data /\ Length \in Nat
  /\ nodes' \in Seq(Node) /\ Len(nodes') = Len(nodes) + 1
  /\ end' = Len(nodes) + 1 /\ Length' = Length + 1
  /\ head' = IF head = Nil THEN end' ELSE head
  /\ nodes'[end'] = [data |-> client[c].data, next |-> Nil]
  /\ \A n \in 1 .. Len(nodes) :
       nodes'[n] = IF n = end THEN [nodes[n] EXCEPT !.next = end'] ELSE nodes[n]

UnlinkEffect ==
  /\ head \in 1 .. end /\ end = Len(nodes) /\ end \in Nat /\ nodes[head] \in Node
  /\ Length \in Nat \ {0} /\ Length' = Length - 1 /\ Length = end - head + 1
  /\ head' = (IF head = end THEN Nil ELSE head + 1)
  /\ end' = (IF head = end THEN Nil ELSE end)

LEMMA Linked == ASSUME QInv, NEW c \in Clients, Link(c) PROVE LinkEffect(c)
<1> DEFINE more == Append(nodes, [data |-> client[c].data, next |-> Nil])
<1>1. client[c].data \in Data /\ client[c].data # NoData
  BY DEF QInv, QueueTypeOK, Working, Link
<1>2. more \in Seq(Node) /\ Len(more) = Len(nodes) + 1 /\ Len(nodes) \in Nat
  BY <1>1 DEF QInv, QueueTypeOK, Node, Nil
<1>3. /\ more[Len(nodes) + 1] = [data |-> client[c].data, next |-> Nil]
      /\ \A n \in 1 .. Len(nodes) : more[n] = nodes[n]
  BY <1>1 DEF QInv, QueueTypeOK
<1>4. end' = Len(nodes) + 1
  BY DEF Link
<1>5. CASE end = Nil
  <2>1. head = Nil /\ head' = end' /\ nodes' = more
    BY <1>4, <1>5 DEF Link, QInv, Chained
  <2>2. Length = 0 /\ Length' = 1
    BY <2>1, <1>2, <1>4 DEF Length, Nil
  <2> QED BY <2>1, <2>2, <1>1, <1>2, <1>3, <1>4, <1>5 DEF Nil, LinkEffect
<1>6. CASE end # Nil
  <2>1. head # Nil /\ head' = head /\ nodes' = [more EXCEPT ![end].next = end'] /\ end = Len(nodes)
    BY <1>4, <1>6 DEF Link, QInv, Chained
  <2>2. head \in 1 .. end /\ end \in 1 .. Len(nodes)
    BY <2>1 DEF QInv, Chained, QueueTypeOK
  <2>3. Length = end - head + 1 /\ Length' = end' - head + 1
    BY <2>1 DEF Length
  <2> DEFINE joined == [more[end] EXCEPT !.next = end']
  <2>4. end \in 1 .. Len(more) /\ more[end] = nodes[end] /\ nodes[end] \in Node
    BY <2>1, <2>2, <1>2, <1>3 DEF QInv, QueueTypeOK
  <2>5. joined \in Node /\ joined = [nodes[end] EXCEPT !.next = end']
    BY <2>4, <1>2, <1>4 DEF Node
  <2>6. nodes' = [more EXCEPT ![end] = joined]
    BY <2>1
  <2> HIDE DEF more, joined
  <2>7. /\ nodes' \in Seq(Node) /\ Len(nodes') = Len(more)
        /\ \A n \in 1 .. Len(more) : nodes'[n] = IF n = end THEN joined ELSE more[n]
    BY <1>2, <2>4, <2>5, <2>6, ExceptSeq
  <2>8. nodes'[end'] = [data |-> client[c].data, next |-> Nil]
    BY <2>7, <2>1, <1>2, <1>3, <1>4
  <2>9. \A n \in 1 .. Len(nodes) :
          nodes'[n] = IF n = end THEN [nodes[n] EXCEPT !.next = end'] ELSE nodes[n]
    BY <2>5, <2>7, <1>2, <1>3
  <2>10. Length \in Nat /\ Length' = Length + 1
    BY <2>2, <2>3, <1>4, <2>1
  <2> QED BY <2>1, <2>7, <2>8, <2>9, <2>10, <1>1, <1>2, <1>4 DEF LinkEffect
<1> QED BY <1>5, <1>6

LEMMA LinkOK == ASSUME QInv, NEW c \in Clients, Link(c) PROVE QInv'
<1>0. LinkEffect(c)
  BY Linked
<1>1. QueueTypeOK'
  <2>1. head' \in Nat /\ end' \in Nat /\ nodes' \in Seq(Node)
    BY <1>0 DEF LinkEffect, QInv, QueueTypeOK
  <2> QED BY <2>1, QueueAssumption DEF QInv, QueueTypeOK, Link, Unlock, Resting
<1>2. Chained'
  <2>1. Len(nodes) \in Nat /\ head \in Nat /\ (head # Nil => head \in 1 .. end /\ end = Len(nodes))
    BY DEF QInv, QueueTypeOK, Chained
  <2>2. head' # Nil /\ end' # Nil /\ end' = Len(nodes)' /\ nodes'[end'].next = Nil
    BY <1>0, <2>1 DEF LinkEffect, Nil
  <2>3. head' \in 1 .. end'
    BY <1>0, <2>1 DEF LinkEffect, Nil
  <2>4. ASSUME NEW n \in head' .. end' - 1 PROVE nodes'[n].next = n + 1
    <3>1. head # Nil /\ head' = head /\ end = Len(nodes) /\ n \in head .. end /\ end' = end + 1
      BY <2>1, <1>0 DEF LinkEffect, Nil
    <3>2. n \in 1 .. Len(nodes) /\ nodes[n] \in Node
      BY <3>1, <2>1 DEF QInv, QueueTypeOK
    <3>3. CASE n = end
      BY <3>1, <3>2, <3>3, <1>0 DEF LinkEffect, Node
    <3>4. CASE n # end
      <4>1. n \in head .. end - 1
        BY <3>1, <3>4, <2>1
      <4> QED BY <4>1, <3>1, <3>2, <3>4, <1>0 DEF LinkEffect, QInv, Chained
    <3> QED BY <3>3, <3>4
  <2> QED BY <2>2, <2>3, <2>4 DEF Chained
<1>3. l' = l /\ l = Length + 1 /\ Length' = Length + 1 /\ rlock = c /\ rlock' = NoClient
  BY <1>0 DEF LinkEffect, QInv, Counted, Working, Link, Unlock
<1>4. \A b \in Clients : client[b].pc # "idle" => b = c
  BY <1>3 DEF QInv, Working
<1>5. Counted' /\ \A b \in Clients : Working(b)'
  BY <1>3, <1>4, QueueAssumption DEF QInv, Counted, Working, Link, Unlock, Resting, QueueTypeOK
<1> QED BY <1>1, <1>2, <1>5 DEF QInv

LEMMA Unlinked == ASSUME QInv, NEW c \in Clients, Unlink(c) PROVE UnlinkEffect
<1>1. head # Nil
  BY DEF QInv, Counted, Unlink
<1>2. head \in 1 .. end /\ end = Len(nodes) /\ end \in Nat /\ nodes[head] \in Node
  BY <1>1 DEF QInv, QueueTypeOK, Chained
<1>3. nodes[head].next = IF head = end THEN Nil ELSE head + 1
  BY <1>1, <1>2 DEF QInv, Chained
<1>4. head' = (IF head = end THEN Nil ELSE head + 1) /\ end' = (IF head = end THEN Nil ELSE end)
  BY <1>2, <1>3 DEF Unlink, EndBefore, Nil
<1>5. Length = end - head + 1 /\ Length' = Length - 1
  BY <1>1, <1>2, <1>4 DEF Length, Nil
<1> QED BY <1>2, <1>4, <1>5 DEF UnlinkEffect

LEMMA UnlinkOK == ASSUME QInv, NEW c \in Clients, Unlink(c) PROVE QInv'
<1>0. UnlinkEffect
  BY Unlinked
<1>1. QueueTypeOK'
  BY <1>0, QueueAssumption DEF UnlinkEffect, QInv, QueueTypeOK, Unlink, Unlock, Resting, Nil, Node
<1>2. Chained'
  BY <1>0 DEF UnlinkEffect, QInv, Chained, Unlink, Nil
<1>3. l' = l /\ l = Length - 1 /\ Length' = Length - 1 /\ rlock = c /\ rlock' = NoClient
  BY <1>0 DEF UnlinkEffect, QInv, Counted, Working, Unlink, Unlock
<1>4. \A b \in Clients : client[b].pc # "idle" => b = c
  BY <1>3 DEF QInv, Working
<1>5. Counted' /\ \A b \in Clients : Working(b)'
  BY <1>3, <1>4, QueueAssumption DEF QInv, Counted, Working, Unlink, Unlock, Resting, QueueTypeOK
<1> QED BY <1>1, <1>2, <1>5 DEF QInv

THEOREM QueueInvariant == QueueSpec => []QInv
<1>1. QInv /\ [QueueNext]_queueVars => QInv'
  <2> SUFFICES ASSUME QInv, [QueueNext]_queueVars PROVE QInv'
    OBVIOUS
  <2>1. CASE UNCHANGED queueVars
    BY <2>1 DEF queueVars, QInv, QueueTypeOK, Chained, Counted, Working, Length
  <2>2. CASE QueueNext
    BY <2>2, AddOK, LinkOK, PopNothingOK, PopOK, UnlinkOK DEF QueueNext
  <2> QED BY <2>1, <2>2
<1> QED BY InitOK, <1>1, PTL DEF QueueSpec

(* The queue's variables keep their types.                                 *)
THEOREM QueueTypeCorrect == QueueSpec => []QueueTypeOK
BY QueueInvariant, PTL DEF QInv

(* Whatever Add links, Pop reaches.                                        *)
THEOREM ListIsChained == QueueSpec => []Chained
BY QueueInvariant, PTL DEF QInv

(* Count is never wrong by more than one.                                  *)
THEOREM CountStaysClose == QueueSpec => []CountIsClose
<1>1. QInv => CountIsClose
  <2> SUFFICES ASSUME QInv PROVE CountIsClose
    OBVIOUS
  <2>1. Length \in Nat
    BY LengthNat DEF QInv
  <2>2. CASE rlock = NoClient
    BY <2>1, <2>2 DEF QInv, Counted, CountIsClose, Count
  <2>3. CASE rlock # NoClient
    <3>1. rlock \in Clients /\ client[rlock].pc \in {"link", "unlink"}
      BY <2>3 DEF QInv, Counted, QueueTypeOK
    <3>2. l = Length + 1 \/ l = Length - 1
      BY <3>1 DEF QInv, Counted
    <3> QED BY <2>1, <2>3, <3>2 DEF CountIsClose, Count
  <2> QED BY <2>2, <2>3
<1> QED BY QueueInvariant, <1>1, PTL

---------------------------------------------------------------------------
(* The steps of the list, seen on the abstract queue.                      *)
LEMMA SliceData ==
  ASSUME NEW chain \in Seq(Node), NEW first \in Nat, NEW n \in Nat,
         n # 0 => first # 0 /\ first + n - 1 =< Len(chain)
  PROVE  /\ Slice(chain, first, n) \in Seq(Data)
         /\ Len(Slice(chain, first, n)) = n
         /\ \A i \in 1 .. n : Slice(chain, first, n)[i] = chain[first + i - 1].data
<1>1. ASSUME NEW i \in 1 .. n PROVE chain[first + i - 1].data \in Data
  <2>1. first + i - 1 \in 1 .. Len(chain)
    OBVIOUS
  <2>2. chain[first + i - 1] \in Node
    BY <2>1, ElementOfSeq
  <2> QED BY <2>2 DEF Node
<1>2. Slice(chain, first, n) \in [1 .. n -> Data]
  BY <1>1 DEF Slice
<1>3. Slice(chain, first, n) \in Seq(Data)
  BY <1>2, SeqDef
<1>4. 1 .. Len(Slice(chain, first, n)) = 1 .. n /\ Len(Slice(chain, first, n)) \in Nat
  BY <1>2, <1>3, LenProperties
<1> QED BY <1>3, <1>4 DEF Slice

(* The list's nodes lie in a row, and so do they after a step.             *)
InRow == /\ nodes \in Seq(Node) /\ head \in Nat /\ Length \in Nat
         /\ Length # 0 => head # 0 /\ head + Length - 1 =< Len(nodes)

LEMMA Row == QInv => InRow
BY LengthNat DEF QInv, QueueTypeOK, Chained, Length, Nil, InRow

LEMMA LinkPuts ==
  ASSUME QInv, InRow', NEW c \in Clients, Link(c)
  PROVE  Items' = Append(Items, client[c].data)
<1>1. LinkEffect(c) /\ InRow
  BY Linked, Row
<1>2. /\ Items \in Seq(Data) /\ Len(Items) = Length
      /\ \A i \in 1 .. Length : Items[i] = nodes[head + i - 1].data
  BY <1>1, SliceData DEF InRow, Items
<1>3. /\ Items' \in Seq(Data) /\ Len(Items') = Length'
      /\ \A i \in 1 .. Length' : Items'[i] = nodes'[head' + i - 1].data
  BY SliceData DEF InRow, Items
<1>4. Length' = Length + 1 /\ Length \in Nat /\ client[c].data \in Data
  BY <1>1 DEF LinkEffect
<1>5. ASSUME NEW i \in 1 .. Length + 1 PROVE Items'[i] = Append(Items, client[c].data)[i]
  <2>1. CASE i = Length + 1
    <3>1. head' + i - 1 = end'
      BY <1>1, <2>1 DEF LinkEffect, Length, Nil, QInv, QueueTypeOK, Chained
    <3>2. Items'[i] = client[c].data
      BY <3>1, <1>1, <1>3, <1>4 DEF LinkEffect
    <3> QED BY <3>2, <1>2, <1>4, <2>1, AppendProperties
  <2>2. CASE i # Length + 1
    <3>1. i \in 1 .. Length
      BY <1>4, <2>2
    <3>2. head' = head /\ head + i - 1 \in 1 .. Len(nodes)
      BY <1>1, <3>1 DEF LinkEffect, InRow, Length, Nil
    <3>3. nodes[head + i - 1] \in Node
      BY <3>2, ElementOfSeq DEF QInv, QueueTypeOK
    <3>4. nodes'[head + i - 1].data = nodes[head + i - 1].data
      BY <3>2, <3>3, <1>1 DEF LinkEffect, Node
    <3> QED BY <3>1, <3>2, <3>4, <1>2, <1>3, <1>4, AppendProperties
  <2> QED BY <2>1, <2>2
<1>6. Append(Items, client[c].data) \in Seq(Data) /\ Len(Append(Items, client[c].data)) = Length + 1
  BY <1>2, <1>4, AppendProperties
<1> QED BY <1>3, <1>4, <1>5, <1>6, SeqEqual

LEMMA UnlinkTakes ==
  ASSUME QInv, InRow', NEW c \in Clients, Unlink(c)
  PROVE  Items # <<>> /\ Items' = Tail(Items) /\ Head(Items) = nodes[head].data
<1>1. UnlinkEffect /\ InRow
  BY Unlinked, Row
<1>2. /\ Items \in Seq(Data) /\ Len(Items) = Length
      /\ \A i \in 1 .. Length : Items[i] = nodes[head + i - 1].data
  BY <1>1, SliceData DEF InRow, Items
<1>3. /\ Items' \in Seq(Data) /\ Len(Items') = Length'
      /\ \A i \in 1 .. Length' : Items'[i] = nodes'[head' + i - 1].data
  BY SliceData DEF InRow, Items
<1>4. Length' = Length - 1 /\ Length \in Nat \ {0} /\ nodes' = nodes /\ head \in Nat
  BY <1>1 DEF UnlinkEffect, Unlink, QInv, QueueTypeOK
<1>5. Items # <<>> /\ Head(Items) = nodes[head].data
  BY <1>2, <1>4
<1>6. /\ Tail(Items) \in Seq(Data) /\ Len(Tail(Items)) = Length - 1
      /\ \A i \in 1 .. Length - 1 : Tail(Items)[i] = Items[i + 1]
  BY <1>2, <1>4, <1>5, HeadTailProperties
<1>7. ASSUME NEW i \in 1 .. Length - 1 PROVE Items'[i] = Tail(Items)[i]
  <2>1. head' = head + 1
    BY <1>1, <1>4, <1>7 DEF UnlinkEffect
  <2>2. i \in 1 .. Length' /\ i + 1 \in 1 .. Length /\ head' + i - 1 = head + (i + 1) - 1
    BY <1>4, <2>1
  <2> QED BY <2>2, <1>2, <1>3, <1>4, <1>6
<1> QED BY <1>3, <1>4, <1>5, <1>6, <1>7, SeqEqual

LEMMA StepRefines ==
  ASSUME QInv, InRow', [QueueNext]_queueVars
  PROVE  [Abstract!Next]_<<Items, Pending, popped>>
<1> DEFINE Same == UNCHANGED <<Items, Pending, popped>>
<1>1. ASSUME UNCHANGED <<nodes, head, end>> PROVE Items' = Items
  BY <1>1 DEF Items, Length, Slice
<1>2. ASSUME NEW c \in Clients, NEW d \in Data, Add(c, d) PROVE Abstract!Call(c, d)
  <2>1. Items' = Items /\ popped' = popped
    BY <1>1, <1>2 DEF Add
  <2>2. client[c].data = NoData /\ client' = [client EXCEPT ![c] = [pc |-> "link", data |-> d]]
    BY <1>2 DEF Add, Lock, Resting
  <2>3. Pending[c] = NoData /\ Pending' = [Pending EXCEPT ![c] = d]
    BY <2>2 DEF Pending, QInv, QueueTypeOK
  <2> QED BY <2>1, <2>3 DEF Abstract!Call
<1>3. ASSUME NEW c \in Clients, Link(c) PROVE Abstract!Put(c)
  <2>1. client[c].data # NoData /\ popped' = popped
        /\ client' = [client EXCEPT ![c] = [pc |-> "idle", data |-> NoData]]
    BY <1>3 DEF QInv, Working, Link, Unlock, Resting
  <2>2. Pending[c] = client[c].data /\ Pending' = [Pending EXCEPT ![c] = NoData]
    BY <2>1 DEF Pending, QInv, QueueTypeOK
  <2>3. Items' = Append(Items, Pending[c])
    BY <1>3, <2>2, LinkPuts
  <2> QED BY <2>1, <2>2, <2>3 DEF Abstract!Put
<1>4. ASSUME NEW c \in Clients, PopNothing(c) PROVE Abstract!Miss(c)
  <2>1. Items' = Items /\ Pending' = Pending
    BY <1>1, <1>4 DEF PopNothing, Pending
  <2>2. Items = <<>>
    <3>1. Length = 0 /\ InRow
      BY <1>4, Row DEF PopNothing, Length
    <3> QED BY <3>1, SliceData, EmptySeq DEF InRow, Items
  <2> QED BY <1>4, <2>1, <2>2 DEF PopNothing, Abstract!Miss
<1>5. ASSUME NEW c \in Clients, Pop(c) PROVE Same
  <2>1. Items' = Items /\ popped' = popped
    BY <1>1, <1>5 DEF Pop
  <2>2. client[c].data = NoData /\ client' = [client EXCEPT ![c] = [pc |-> "unlink", data |-> NoData]]
    BY <1>5 DEF Pop, Lock, Resting
  <2>3. Pending' = Pending
    BY <2>2 DEF Pending, QInv, QueueTypeOK
  <2> QED BY <2>1, <2>3
<1>6. ASSUME NEW c \in Clients, Unlink(c) PROVE Abstract!Take(c)
  <2>1. client[c].data = NoData /\ client' = [client EXCEPT ![c] = [pc |-> "idle", data |-> NoData]]
    BY <1>6 DEF QInv, QueueTypeOK, Working, Unlink, Unlock, Resting
  <2>2. Pending' = Pending
    BY <2>1 DEF Pending, QInv, QueueTypeOK
  <2> QED BY <1>6, <2>2, UnlinkTakes DEF Unlink, Abstract!Take
<1>7. CASE UNCHANGED queueVars
  BY <1>7, <1>1 DEF queueVars, Pending
<1> HIDE DEF Same
<1>8. CASE QueueNext
  <2>1. Abstract!Next \/ Same
    BY <1>2, <1>3, <1>4, <1>5, <1>6, <1>8 DEF QueueNext, Abstract!Next
  <2> QED BY <2>1 DEF Same
<1> QED BY <1>7, <1>8

(* Add and Pop, as their callers see them, are those of a first-in         *)
(* first-out queue: each takes effect in one step while rlock is held.     *)
THEOREM QueueRefinesFifo == QueueSpec => FirstInFirstOut
<1>1. QueueInit => Abstract!Init
  <2> SUFFICES ASSUME QueueInit PROVE Abstract!Init
    OBVIOUS
  <2>1. Length = 0 /\ InRow
    BY InitOK, Row DEF QueueInit, Length
  <2>2. Items = <<>>
    BY <2>1, SliceData, EmptySeq DEF InRow, Items
  <2> QED BY <2>2 DEF QueueInit, Pending, Resting, Abstract!Init
<1>2. QInv => InRow
  BY Row
<1>3. QInv /\ InRow' /\ [QueueNext]_queueVars => [Abstract!Next]_<<Items, Pending, popped>>
  BY StepRefines
<1> QED BY <1>1, <1>2, <1>3, QueueInvariant, PTL DEF QueueSpec, FirstInFirstOut, Abstract!Spec
=============================================================================
