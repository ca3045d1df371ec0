---------------------------- MODULE EsBulkProofs ----------------------------
(* Theorems about EsBulk for any batches, savers and workers: no document  *)
(* is forgotten or has two fates, and OnSuccess tells the truth.           *)
EXTENDS EsBulk, TLAPS

(* What a saver has made of its n-th document.                             *)
Made(s, n) == Item(s, n, BodyOf(s, n))

Items == [by : Savers, nth : Nat, body : {"data", "empty"}]

Flushes == [items : Seq(Items), servings : Nat, refused : SUBSET Items]

BulkTypeOK ==
  /\ batch \in [Savers -> [docs : Seq(BOOLEAN), added : Nat, pc : {"idle", "loop", "returned"}]]
  /\ bulkQueue \in Seq(Items)
  /\ buffer \in [BulkWorkers -> Seq(Items)]
  /\ flushing \in [BulkWorkers -> Flushes]
  /\ fates \in [success : SUBSET Items, failure : SUBSET Items, dropped : SUBSET Items]
  /\ \A s \in Savers : batch[s].pc = "idle" => batch[s].added = 0

(* The items that exist are those the savers have made, each in one place: *)
(* at one position of the queue, with one worker, or settled in one way.   *)
AllMade ==
  \A x : x \in InFlight \cup Settled
           <=> \E s \in Savers : \E n \in 1 .. batch[s].added : x = Made(s, n)

OncePlaced ==
  /\ \A i, j \in DOMAIN bulkQueue : bulkQueue[i] = bulkQueue[j] => i = j
  /\ \A w \in BulkWorkers : Held(w) \cap ToSet(bulkQueue) = {}
  /\ \A w \in BulkWorkers : ToSet(buffer[w]) \cap ToSet(flushing[w].items) = {}
  /\ \A v, w \in BulkWorkers : v # w => Held(v) \cap Held(w) = {}
  /\ InFlight \cap Settled = {}
  /\ fates.success \cap fates.failure = {}
  /\ fates.dropped \cap (fates.success \cup fates.failure) = {}

(* What a served request's reply will say is true already.                 *)
ReplyIsTrue ==
  \A w \in BulkWorkers : LET f == flushing[w] IN
    /\ f.refused \subseteq ToSet(f.items)
    /\ f.servings > 0 =>
         /\ ToSet(f.items) \ f.refused \subseteq indexed
         /\ \A x \in ToSet(f.items) : x.body = "empty" => x \in f.refused

BulkInv == BulkTypeOK /\ AllMade /\ OncePlaced /\ ReplyIsTrue /\ SuccessIsIndexed

---------------------------------------------------------------------------
LEMMA AppendToSet ==
  ASSUME NEW S, NEW q \in Seq(S), NEW e \in S
  PROVE  /\ Append(q, e) \in Seq(S)
         /\ \A x : x \in ToSet(Append(q, e)) <=> x \in ToSet(q) \/ x = e
<1>1. Append(q, e) \in Seq(S) /\ DOMAIN q = 1 .. Len(q) /\ Len(q) \in Nat
  OBVIOUS
<1>2. Len(Append(q, e)) = Len(q) + 1 /\ DOMAIN Append(q, e) = 1 .. Len(Append(q, e))
  BY <1>1
<1>3. Append(q, e)[Len(q) + 1] = e
  BY <1>1
<1>4. \A i \in 1 .. Len(q) : Append(q, e)[i] = q[i]
  BY <1>1
<1>5. \A i : i \in 1 .. Len(q) + 1 <=> i \in 1 .. Len(q) \/ i = Len(q) + 1
  BY <1>1
<1>6. ASSUME NEW x PROVE x \in ToSet(Append(q, e)) <=> x \in ToSet(q) \/ x = e
  BY <1>1, <1>2, <1>3, <1>4, <1>5 DEF ToSet
<1> QED BY <1>1, <1>6

(* The head of a sequence without repetitions is not in its tail.          *)
LEMMA TailToSet ==
  ASSUME NEW S, NEW q \in Seq(S), q # <<>>,
         \A i, j \in DOMAIN q : q[i] = q[j] => i = j
  PROVE  /\ Tail(q) \in Seq(S) /\ Head(q) \in S /\ Head(q) \in ToSet(q)
         /\ \A x : x \in ToSet(Tail(q)) <=> x \in ToSet(q) /\ x # Head(q)
         /\ \A i, j \in DOMAIN Tail(q) : Tail(q)[i] = Tail(q)[j] => i = j
<1>1. /\ Tail(q) \in Seq(S) /\ DOMAIN q = 1 .. Len(q) /\ Len(q) \in Nat /\ Len(q) > 0
      /\ DOMAIN Tail(q) = 1 .. Len(q) - 1 /\ Head(q) = q[1] /\ Head(q) \in S
      /\ \A i \in 1 .. Len(q) - 1 : Tail(q)[i] = q[i + 1]
  OBVIOUS
<1>2. \A i \in 1 .. Len(q) - 1 : i + 1 \in 1 .. Len(q) /\ i + 1 # 1
  BY <1>1
<1>3. \A i \in 1 .. Len(q) : i # 1 => i - 1 \in 1 .. Len(q) - 1 /\ (i - 1) + 1 = i
  BY <1>1
<1>4. 1 \in 1 .. Len(q)
  BY <1>1
<1>5. ASSUME NEW x PROVE x \in ToSet(Tail(q)) <=> x \in ToSet(q) /\ x # Head(q)
  <2>1. ASSUME NEW i \in 1 .. Len(q) - 1, x = Tail(q)[i]
        PROVE  x \in ToSet(q) /\ x # Head(q)
    BY <1>1, <1>2, <1>4, <2>1 DEF ToSet
  <2>2. ASSUME NEW i \in 1 .. Len(q), x = q[i], x # Head(q)
        PROVE  x \in ToSet(Tail(q))
    <3>1. i - 1 \in DOMAIN Tail(q) /\ Tail(q)[i - 1] = x
      BY <1>1, <1>3, <2>2
    <3> QED BY <3>1 DEF ToSet
  <2> QED BY <1>1, <2>1, <2>2 DEF ToSet
<1>6. \A i, j \in 1 .. Len(q) - 1 : i + 1 = j + 1 => i = j
  BY <1>1
<1>7. ASSUME NEW i \in DOMAIN Tail(q), NEW j \in DOMAIN Tail(q), Tail(q)[i] = Tail(q)[j] PROVE i = j
  <2>1. q[i + 1] = q[j + 1] /\ i + 1 \in DOMAIN q /\ j + 1 \in DOMAIN q
    BY <1>1, <1>2, <1>7
  <2> QED BY <1>1, <1>6, <1>7, <2>1
<1>8. Head(q) \in ToSet(q)
  BY <1>1, <1>4 DEF ToSet
<1> QED BY <1>1, <1>5, <1>7, <1>8

LEMMA EmptyToSet == ToSet(<<>>) = {}
BY DEF ToSet

LEMMA Reflushed ==
  ASSUME NEW A, NEW B, NEW C, NEW g \in [items : A, servings : B, refused : C],
         NEW n \in B, NEW r \in C
  PROVE  [g EXCEPT !.servings = n, !.refused = r] \in [items : A, servings : B, refused : C]
OBVIOUS

(* An item says by itself which document of whom it is.                    *)
LEMMA ItemFields ==
  ASSUME NEW s, NEW n, NEW body
  PROVE  /\ Item(s, n, body).by = s /\ Item(s, n, body).nth = n
         /\ Item(s, n, body).body = body
BY DEF Item

(* A step that makes no document of a batch and moves none that was made.  *)
LEMMA SameMade ==
  ASSUME BulkTypeOK,
         \A s \in Savers : batch'[s].added = batch[s].added
                           /\ (batch[s].added # 0 => batch'[s].docs = batch[s].docs)
  PROVE  \A s \in Savers : \A n \in 1 .. batch[s].added : Made(s, n)' = Made(s, n)
<1> SUFFICES ASSUME NEW s \in Savers, NEW n \in 1 .. batch[s].added
             PROVE  Made(s, n)' = Made(s, n)
  OBVIOUS
<1>1. batch[s].added # 0
  BY DEF BulkTypeOK
<1> QED BY <1>1 DEF Made, BodyOf, Sound, Item

LEMMA BulkInitOK == BulkInit => BulkInv
<1> SUFFICES ASSUME BulkInit PROVE BulkInv
  OBVIOUS
<1>1. BulkTypeOK
  BY DEF BulkInit, BulkTypeOK, NotCalled, NoFlush, NoFates, Flushes
<1>2. /\ \A w \in BulkWorkers : Held(w) = {}
      /\ ToSet(bulkQueue) = {} /\ InFlight = {} /\ Settled = {}
  BY DEF BulkInit, Held, InFlight, Settled, NoFlush, NoFates, ToSet
<1>3. AllMade
  <2>1. \A s \in Savers : 1 .. batch[s].added = {}
    BY DEF BulkInit, NotCalled
  <2> QED BY <1>2, <2>1 DEF AllMade
<1>4. OncePlaced
  BY <1>2, EmptyToSet DEF OncePlaced, BulkInit, NoFates
<1>5. ReplyIsTrue /\ SuccessIsIndexed
  BY DEF ReplyIsTrue, SuccessIsIndexed, BulkInit, NoFlush, NoFates
<1> QED BY <1>1, <1>3, <1>4, <1>5 DEF BulkInv

(* An item that is known has the body that its saver gave it.              *)
LEMMA KnownItem ==
  ASSUME BulkInv, NEW x \in InFlight \cup Settled
  PROVE  /\ x.by \in Savers /\ x.nth \in 1 .. batch[x.by].added
         /\ x = Made(x.by, x.nth)
         /\ (x.body # "empty" => Sound(x.by, x.nth))
<1>0. PICK s \in Savers : \E n \in 1 .. batch[s].added : x = Made(s, n)
  BY DEF BulkInv, AllMade
<1>1. PICK n \in 1 .. batch[s].added : x = Made(s, n)
  BY <1>0
<1>2. x.by = s /\ x.nth = n /\ x.body = BodyOf(s, n)
  BY <1>1 DEF Made, Item
<1> QED BY <1>1, <1>2 DEF BodyOf

LEMMA SaveOK ==
  ASSUME BulkInv, NEW s \in Savers, NEW docs \in Batches, DocumentBatchSave(s, docs)
  PROVE  BulkInv'
<1>1. UNCHANGED <<bulkQueue, buffer, flushing, indexed, fates>>
  BY DEF DocumentBatchSave
<1>2. BulkTypeOK'
  BY <1>1, BulkAssumption DEF DocumentBatchSave, BulkInv, BulkTypeOK
<1>3. \A r \in Savers : batch'[r].added = batch[r].added
                        /\ (batch[r].added # 0 => batch'[r].docs = batch[r].docs)
  BY DEF DocumentBatchSave, BulkInv, BulkTypeOK
<1>4. \A r \in Savers : \A n \in 1 .. batch[r].added : Made(r, n)' = Made(r, n)
  BY <1>3, SameMade DEF BulkInv
<1>5. InFlight' = InFlight /\ Settled' = Settled
  BY <1>1 DEF InFlight, Held, Settled
<1>6. AllMade'
  BY <1>3, <1>4, <1>5 DEF BulkInv, AllMade
<1>7. OncePlaced' /\ ReplyIsTrue'
  BY <1>1, <1>5 DEF BulkInv, OncePlaced, ReplyIsTrue, Held
<1>8. SuccessIsIndexed'
  <2>1. ASSUME NEW x \in fates.success PROVE Sound(x.by, x.nth)' = Sound(x.by, x.nth)
    <3>1. x.by \in Savers /\ x.nth \in 1 .. batch[x.by].added
      BY KnownItem DEF Settled
    <3>2. batch[x.by].added # 0
      BY <3>1 DEF BulkInv, BulkTypeOK
    <3> QED BY <1>3, <3>1, <3>2 DEF Sound
  <2> QED BY <1>1, <2>1 DEF BulkInv, SuccessIsIndexed
<1> QED BY <1>2, <1>6, <1>7, <1>8 DEF BulkInv

LEMMA ReturnNilOK ==
  ASSUME BulkInv, NEW s \in Savers, ReturnNil(s) PROVE BulkInv'
<1>1. UNCHANGED <<bulkQueue, buffer, flushing, indexed, fates>>
  BY DEF ReturnNil
<1>2. BulkTypeOK'
  BY <1>1 DEF ReturnNil, BulkInv, BulkTypeOK
<1>3. \A r \in Savers : batch'[r].added = batch[r].added /\ batch'[r].docs = batch[r].docs
  BY DEF ReturnNil, BulkInv, BulkTypeOK
<1>4. \A r \in Savers : \A n : Made(r, n)' = Made(r, n) /\ Sound(r, n)' = Sound(r, n)
  BY <1>3 DEF Made, BodyOf, Sound, Item
<1>5. InFlight' = InFlight /\ Settled' = Settled
  BY <1>1 DEF InFlight, Held, Settled
<1>6. AllMade'
  BY <1>3, <1>4, <1>5 DEF BulkInv, AllMade
<1>7. OncePlaced' /\ ReplyIsTrue'
  BY <1>1, <1>5 DEF BulkInv, OncePlaced, ReplyIsTrue, Held
<1>8. SuccessIsIndexed'
  <2>1. \A x \in fates.success : x.by \in Savers
    BY KnownItem DEF Settled
  <2> QED BY <1>1, <1>4, <2>1 DEF BulkInv, SuccessIsIndexed
<1> QED BY <1>2, <1>6, <1>7, <1>8 DEF BulkInv

LEMMA AddOK ==
  ASSUME BulkInv, NEW s \in Savers, AddDocument(s) PROVE BulkInv'
<1> DEFINE n == batch[s].added + 1
           x == Made(s, n)
<1>1. /\ batch[s].pc = "loop" /\ bulkQueue' = Append(bulkQueue, x)
      /\ batch' = [batch EXCEPT ![s].added = n]
      /\ UNCHANGED <<buffer, flushing, indexed, fates>>
  BY DEF AddDocument, Queued, Made
<1>2. BulkTypeOK /\ batch[s].added \in Nat /\ n \in Nat /\ bulkQueue \in Seq(Items)
  BY DEF BulkInv, BulkTypeOK
<1>3. x \in Items /\ x.by = s /\ x.nth = n
  BY <1>2 DEF Made, Items, Item, BodyOf
<1>4. x \notin InFlight \cup Settled
  <2>1. n \notin 1 .. batch[s].added
    BY <1>2
  <2> QED BY <1>3, <2>1, KnownItem
<1>5. /\ bulkQueue' \in Seq(Items)
      /\ \A y : y \in ToSet(bulkQueue)' <=> y \in ToSet(bulkQueue) \/ y = x
  BY <1>1, <1>2, <1>3, AppendToSet
<1>6. /\ \A r \in Savers : batch'[r].docs = batch[r].docs
      /\ \A r \in Savers \ {s} : batch'[r].added = batch[r].added
      /\ batch'[s].added = n
  BY <1>1, <1>2 DEF BulkTypeOK
<1>7. \A r \in Savers : \A m : Made(r, m)' = Made(r, m) /\ Sound(r, m)' = Sound(r, m)
  BY <1>6 DEF Made, BodyOf, Sound, Item
<1>8. \A w \in BulkWorkers : Held(w)' = Held(w)
  BY <1>1 DEF Held
<1>9. Settled' = Settled
  BY <1>1 DEF Settled
<1>10. \A y : y \in InFlight' <=> y \in InFlight \/ y = x
  BY <1>5, <1>8 DEF InFlight
<1>11. BulkTypeOK'
  BY <1>1, <1>2, <1>5 DEF BulkTypeOK
<1>12. AllMade'
  <2>1. \A m : m \in 1 .. n <=> m \in 1 .. batch[s].added \/ m = n
    BY <1>2
  <2>2. ASSUME NEW y
        PROVE  y \in (InFlight \cup Settled)'
                 <=> \E r \in Savers : \E m \in (1 .. batch[r].added)' : y = Made(r, m)
    <3> HIDE DEF x, n
    <3>1. y \in (InFlight \cup Settled)' <=> y \in InFlight \cup Settled \/ y = x
      BY <1>9, <1>10
    <3>2. y \in InFlight \cup Settled
            <=> \E r \in Savers : \E m \in 1 .. batch[r].added : y = Made(r, m)
      BY DEF BulkInv, AllMade
    <3>3. \A r \in Savers : \A m :
            m \in 1 .. batch'[r].added <=> m \in 1 .. batch[r].added \/ (r = s /\ m = n)
      BY <1>6, <2>1
    <3>4. x = Made(s, n)
      BY DEF x
    <3> QED BY <3>1, <3>2, <3>3, <3>4
  <2> QED BY <1>7, <2>2 DEF AllMade
<1>13. OncePlaced'
  <2> HIDE DEF x
  <2>1. \A w \in BulkWorkers : x \notin Held(w)
    BY <1>4 DEF InFlight
  <2>2. x \notin ToSet(bulkQueue)
    BY <1>4 DEF InFlight
  <2>3. \A i, j \in DOMAIN bulkQueue' : bulkQueue'[i] = bulkQueue'[j] => i = j
    <3>1. DOMAIN bulkQueue' = 1 .. Len(bulkQueue) + 1 /\ bulkQueue'[Len(bulkQueue) + 1] = x
          /\ DOMAIN bulkQueue = 1 .. Len(bulkQueue) /\ Len(bulkQueue) \in Nat
      BY <1>1, <1>2, <1>3
    <3>2. \A i \in 1 .. Len(bulkQueue) : bulkQueue'[i] = bulkQueue[i] /\ bulkQueue[i] # x
      BY <1>1, <1>2, <1>3, <2>2, <3>1 DEF ToSet
    <3>3. \A i : i \in 1 .. Len(bulkQueue) + 1 <=> i \in 1 .. Len(bulkQueue) \/ i = Len(bulkQueue) + 1
      BY <3>1
    <3> QED BY <3>1, <3>2, <3>3 DEF BulkInv, OncePlaced
  <2> QED BY <1>1, <1>4, <1>5, <1>8, <1>9, <1>10, <2>1, <2>3 DEF BulkInv, OncePlaced
<1>14. ReplyIsTrue'
  BY <1>1 DEF BulkInv, ReplyIsTrue
<1>15. SuccessIsIndexed'
  <2>1. \A y \in fates.success : y.by \in Savers
    BY KnownItem DEF Settled
  <2> QED BY <1>1, <1>7, <2>1 DEF BulkInv, SuccessIsIndexed
<1> QED BY <1>11, <1>12, <1>13, <1>14, <1>15 DEF BulkInv

---------------------------------------------------------------------------
(* A worker's step makes nothing and loses nothing.                        *)
LEMMA WorkerKeepsMade ==
  ASSUME BulkInv, UNCHANGED batch,
         \A x : x \in (InFlight \cup Settled)' <=> x \in InFlight \cup Settled
  PROVE  AllMade' /\ \A s, n : Sound(s, n)' = Sound(s, n)
<1>1. \A s, n : Made(s, n)' = Made(s, n) /\ Sound(s, n)' = Sound(s, n)
  BY DEF Made, BodyOf, Sound, Item
<1> QED BY <1>1 DEF BulkInv, AllMade

LEMMA CollectOK ==
  ASSUME BulkInv, NEW w \in BulkWorkers, Collect(w) PROVE BulkInv'
<1> DEFINE x == Head(bulkQueue)
<1>1. /\ flushing[w] = NoFlush /\ bulkQueue # <<>>
      /\ buffer' = [buffer EXCEPT ![w] = Append(buffer[w], x)]
      /\ bulkQueue' = Tail(bulkQueue)
      /\ UNCHANGED <<batch, flushing, indexed, fates>>
  BY DEF Collect, FreeWorker, BulkInv, BulkTypeOK
<1>2. BulkTypeOK /\ bulkQueue \in Seq(Items) /\ buffer[w] \in Seq(Items)
      /\ \A i, j \in DOMAIN bulkQueue : bulkQueue[i] = bulkQueue[j] => i = j
  BY DEF BulkInv, BulkTypeOK, OncePlaced
<1>3. /\ bulkQueue' \in Seq(Items) /\ x \in Items /\ x \in ToSet(bulkQueue)
      /\ \A y : y \in ToSet(bulkQueue)' <=> y \in ToSet(bulkQueue) /\ y # x
      /\ \A i, j \in DOMAIN bulkQueue' : bulkQueue'[i] = bulkQueue'[j] => i = j
  BY <1>1, <1>2, TailToSet
<1> HIDE DEF x
<1>4. /\ buffer'[w] \in Seq(Items)
      /\ \A y : y \in ToSet(buffer'[w]) <=> y \in ToSet(buffer[w]) \/ y = x
  BY <1>1, <1>2, <1>3, AppendToSet DEF BulkTypeOK
<1>5. BulkTypeOK'
  BY <1>1, <1>2, <1>3, <1>4 DEF BulkTypeOK
<1>6. /\ \A y : y \in Held(w)' <=> y \in Held(w) \/ y = x
      /\ \A v \in BulkWorkers \ {w} : Held(v)' = Held(v)
  BY <1>1, <1>2, <1>4 DEF Held, BulkTypeOK
<1>7. \A y : y \in InFlight' <=> y \in InFlight
  BY <1>3, <1>6 DEF InFlight
<1>8. Settled' = Settled
  BY <1>1 DEF Settled
<1>9. AllMade' /\ \A s, n : Sound(s, n)' = Sound(s, n)
  BY <1>1, <1>7, <1>8, WorkerKeepsMade
<1>10. OncePlaced'
  <2>1. ASSUME NEW v \in BulkWorkers PROVE (Held(v) \cap ToSet(bulkQueue))' = {}
    BY <1>3, <1>6 DEF BulkInv, OncePlaced
  <2>2. ASSUME NEW u \in BulkWorkers, NEW v \in BulkWorkers, u # v
        PROVE  Held(u)' \cap Held(v)' = {}
    <3>1. x \notin Held(u) /\ x \notin Held(v) /\ Held(u) \cap Held(v) = {}
      BY <1>3, <2>2 DEF BulkInv, OncePlaced
    <3> QED BY <1>6, <2>2, <3>1
  <2>3. (InFlight \cap Settled)' = {}
    BY <1>7, <1>8 DEF BulkInv, OncePlaced
  <2>4. ASSUME NEW v \in BulkWorkers PROVE (ToSet(buffer[v]) \cap ToSet(flushing[v].items))' = {}
    <3>1. CASE v = w
      BY <1>1, <3>1, EmptyToSet DEF NoFlush
    <3>2. CASE v # w
      BY <1>1, <1>2, <3>2 DEF BulkInv, OncePlaced, BulkTypeOK
    <3> QED BY <3>1, <3>2
  <2> QED BY <1>1, <1>3, <2>1, <2>2, <2>3, <2>4 DEF BulkInv, OncePlaced
<1>11. ReplyIsTrue' /\ SuccessIsIndexed'
  BY <1>1, <1>9 DEF BulkInv, ReplyIsTrue, SuccessIsIndexed
<1> QED BY <1>5, <1>9, <1>10, <1>11 DEF BulkInv

LEMMA FlushOK ==
  ASSUME BulkInv, NEW w \in BulkWorkers, FlushBuffer(w) PROVE BulkInv'
<1> DEFINE f == [NoFlush EXCEPT !.items = buffer[w]]
<1>1. /\ flushing[w] = NoFlush
      /\ flushing' = [flushing EXCEPT ![w] = f]
      /\ buffer' = [buffer EXCEPT ![w] = <<>>]
      /\ UNCHANGED <<batch, bulkQueue, indexed, fates>>
  BY DEF FlushBuffer, FreeWorker
<1>2. BulkTypeOK /\ buffer[w] \in Seq(Items) /\ <<>> \in Seq(Items)
  BY DEF BulkInv, BulkTypeOK
<1>3. f.items = buffer[w] /\ f.servings = 0 /\ f.refused = {}
  BY DEF NoFlush
<1>4. f \in Flushes
  BY <1>2 DEF NoFlush, Flushes
<1> HIDE DEF f
<1>5. buffer'[w] = <<>> /\ flushing'[w] = f
      /\ \A v \in BulkWorkers \ {w} : buffer'[v] = buffer[v] /\ flushing'[v] = flushing[v]
  BY <1>1, <1>2 DEF BulkTypeOK
<1>6. BulkTypeOK'
  BY <1>1, <1>2, <1>4 DEF BulkTypeOK
<1>7. \A v \in BulkWorkers : Held(v)' = Held(v)
  <2>1. Held(w)' = Held(w)
    <3>1. ToSet(flushing[w].items) = {}
      BY <1>1, EmptyToSet DEF NoFlush
    <3> QED BY <1>3, <1>5, <3>1, EmptyToSet DEF Held
  <2> QED BY <1>5, <2>1 DEF Held
<1>8. InFlight' = InFlight /\ Settled' = Settled
  BY <1>1, <1>7 DEF InFlight, Settled
<1>9. AllMade' /\ \A s, n : Sound(s, n)' = Sound(s, n)
  BY <1>1, <1>8, WorkerKeepsMade
<1>10. OncePlaced'
  BY <1>1, <1>5, <1>7, <1>8, EmptyToSet DEF BulkInv, OncePlaced
<1>11. ReplyIsTrue'
  BY <1>1, <1>3, <1>5 DEF BulkInv, ReplyIsTrue
<1>12. SuccessIsIndexed'
  BY <1>1, <1>9 DEF BulkInv, SuccessIsIndexed
<1> QED BY <1>6, <1>9, <1>10, <1>11, <1>12 DEF BulkInv

LEMMA ServeOK ==
  ASSUME BulkInv, NEW w \in BulkWorkers, ServeBulk(w) PROVE BulkInv'
<1> DEFINE items == ToSet(flushing[w].items)
<1>1. PICK refused \in SUBSET items :
        /\ { x \in items : x.body = "empty" } \subseteq refused
        /\ indexed' = indexed \cup (items \ refused)
        /\ flushing' = [flushing EXCEPT ![w].servings = @ + 1, ![w].refused = refused]
  BY DEF ServeBulk
<1>2. UNCHANGED <<batch, bulkQueue, buffer, fates>>
  BY DEF ServeBulk
<1>3. BulkTypeOK /\ flushing[w] \in Flushes
  BY DEF BulkInv, BulkTypeOK
<1> DEFINE f == [flushing[w] EXCEPT !.servings = @ + 1, !.refused = refused]
<1>4. f.items = flushing[w].items /\ f.refused = refused
  BY <1>3 DEF Flushes
<1>5. f \in Flushes
  <2>1. items \subseteq Items
    BY <1>3 DEF Flushes, ToSet
  <2>2. flushing[w].servings + 1 \in Nat /\ refused \in SUBSET Items
    BY <1>3, <2>1 DEF Flushes
  <2> QED BY <1>3, <2>2, Reflushed DEF Flushes
<1>6. flushing' = [flushing EXCEPT ![w] = f]
  BY <1>1, <1>3 DEF BulkTypeOK
<1> HIDE DEF f
<1>7. flushing'[w] = f /\ \A v \in BulkWorkers \ {w} : flushing'[v] = flushing[v]
  BY <1>3, <1>6 DEF BulkTypeOK
<1>8. BulkTypeOK'
  BY <1>2, <1>3, <1>5, <1>6 DEF BulkTypeOK
<1>9. \A v \in BulkWorkers : Held(v)' = Held(v)
  BY <1>2, <1>4, <1>7 DEF Held
<1>10. InFlight' = InFlight /\ Settled' = Settled
  BY <1>2, <1>9 DEF InFlight, Settled
<1>11. AllMade' /\ \A s, n : Sound(s, n)' = Sound(s, n)
  BY <1>2, <1>10, WorkerKeepsMade
<1>12. OncePlaced'
  BY <1>2, <1>4, <1>7, <1>9, <1>10 DEF BulkInv, OncePlaced
<1>13. ReplyIsTrue'
  <2> SUFFICES ASSUME NEW v \in BulkWorkers
               PROVE  /\ flushing'[v].refused \subseteq ToSet(flushing'[v].items)
                      /\ flushing'[v].servings > 0 =>
                           /\ ToSet(flushing'[v].items) \ flushing'[v].refused \subseteq indexed'
                           /\ \A x \in ToSet(flushing'[v].items) :
                                x.body = "empty" => x \in flushing'[v].refused
    BY DEF ReplyIsTrue, ToSet
  <2>1. CASE v = w
    BY <1>1, <1>4, <1>7, <2>1
  <2>2. CASE v # w
    BY <1>1, <1>7, <2>2 DEF BulkInv, ReplyIsTrue
  <2> QED BY <2>1, <2>2
<1>14. SuccessIsIndexed'
  BY <1>1, <1>2, <1>11 DEF BulkInv, SuccessIsIndexed
<1> QED BY <1>8, <1>11, <1>12, <1>13, <1>14 DEF BulkInv

(* A worker is done with its request: some of its items have succeeded,    *)
(* some have failed, some are lost.                                        *)
FateSets == [success : SUBSET Items, failure : SUBSET Items, dropped : SUBSET Items]

Settles(w, good, bad, lost) ==
  /\ UNCHANGED <<batch, bulkQueue, buffer, indexed>>
  /\ flushing' = [flushing EXCEPT ![w] = NoFlush]
  /\ fates' \in FateSets
  /\ \A x : x \in ToSet(flushing[w].items) <=> x \in good \/ x \in bad \/ x \in lost
  /\ good \cap bad = {} /\ lost \cap (good \cup bad) = {}
  /\ fates'.success = fates.success \cup good
  /\ fates'.failure = fates.failure \cup bad
  /\ fates'.dropped = fates.dropped \cup lost
  /\ \A x \in good : x \in indexed /\ x.body # "empty"

LEMMA SettleOK ==
  ASSUME BulkInv, NEW w \in BulkWorkers, NEW good, NEW bad, NEW lost, Settles(w, good, bad, lost)
  PROVE  BulkInv'
<1> USE DEF Settles
<1> DEFINE items == ToSet(flushing[w].items)
<1>1. BulkTypeOK /\ NoFlush \in Flushes
  BY DEF BulkInv, BulkTypeOK, NoFlush, Flushes
<1>2. BulkTypeOK'
  BY <1>1 DEF BulkTypeOK, FateSets
<1>3. flushing'[w] = NoFlush /\ \A v \in BulkWorkers \ {w} : flushing'[v] = flushing[v]
  BY <1>1 DEF BulkTypeOK
<1>4. /\ Held(w)' = ToSet(buffer[w])
      /\ \A v \in BulkWorkers \ {w} : Held(v)' = Held(v)
  BY <1>3, EmptyToSet DEF Held, NoFlush
<1>5. items \subseteq Held(w)
  BY DEF Held
<1>6. \A x : x \in Settled' <=> x \in Settled \/ x \in items
  BY DEF Settled
<1>7. ToSet(buffer[w]) \cap items = {}
  BY DEF BulkInv, OncePlaced
<1>8. \A x : x \in InFlight' <=> x \in InFlight /\ x \notin items
  <2>1. \A x : x \in Held(w)' <=> x \in Held(w) /\ x \notin items
    BY <1>4, <1>7 DEF Held
  <2>2. \A v \in BulkWorkers \ {w} : \A x \in Held(v) : x \notin items
    BY <1>5 DEF BulkInv, OncePlaced
  <2>3. \A x \in ToSet(bulkQueue) : x \notin items
    BY <1>5 DEF BulkInv, OncePlaced
  <2> QED BY <1>4, <2>1, <2>2, <2>3 DEF InFlight
<1>9. items \subseteq InFlight
  BY <1>5 DEF InFlight
<1>10. AllMade' /\ \A s, n : Sound(s, n)' = Sound(s, n)
  BY <1>6, <1>8, <1>9, WorkerKeepsMade
<1>11. OncePlaced'
  <2>1. \A v \in BulkWorkers : Held(v)' \subseteq Held(v)
    BY <1>4 DEF Held
  <2>2. InFlight' \cap Settled' = {}
    BY <1>6, <1>8 DEF BulkInv, OncePlaced
  <2>3. items \cap Settled = {}
    BY <1>9 DEF BulkInv, OncePlaced
  <2>4. /\ fates'.success \cap fates'.failure = {}
        /\ fates'.dropped \cap (fates'.success \cup fates'.failure) = {}
    BY <2>3 DEF BulkInv, OncePlaced, Settled
  <2>5. \A v \in BulkWorkers : (ToSet(buffer[v]) \cap ToSet(flushing[v].items))' = {}
    BY <1>3, EmptyToSet DEF BulkInv, OncePlaced, NoFlush
  <2> QED BY <2>1, <2>2, <2>4, <2>5 DEF BulkInv, OncePlaced
<1>12. ReplyIsTrue'
  BY <1>3, EmptyToSet DEF BulkInv, ReplyIsTrue, NoFlush
<1>13. SuccessIsIndexed'
  <2>1. \A x \in good : Sound(x.by, x.nth)
    BY <1>9, KnownItem
  <2> QED BY <1>10, <2>1 DEF BulkInv, SuccessIsIndexed
<1> QED BY <1>2, <1>10, <1>11, <1>12, <1>13 DEF BulkInv

LEMMA AnswerOK ==
  ASSUME BulkInv, NEW w \in BulkWorkers, BulkAnswered(w) PROVE BulkInv'
<1> DEFINE f    == flushing[w]
           good == ToSet(f.items) \ f.refused
           next == [fates EXCEPT !.success = @ \cup good, !.failure = @ \cup f.refused]
<1>1. /\ f.servings > 0 /\ fates' = next
      /\ flushing' = [flushing EXCEPT ![w] = NoFlush]
      /\ UNCHANGED <<batch, bulkQueue, buffer, indexed>>
  BY DEF BulkAnswered
<1>2. /\ fates \in [success : SUBSET Items, failure : SUBSET Items, dropped : SUBSET Items]
      /\ f \in Flushes
  BY DEF BulkInv, BulkTypeOK
<1>3. ToSet(f.items) \subseteq Items /\ f.refused \subseteq Items
  BY <1>2 DEF Flushes, ToSet
<1>4. next \in FateSets
  BY <1>2, <1>3 DEF FateSets
<1>5. /\ next.success = fates.success \cup good
      /\ next.failure = fates.failure \cup f.refused
      /\ next.dropped = fates.dropped \cup {}
  BY <1>2
<1>6. /\ f.refused \subseteq ToSet(f.items)
      /\ \A x \in good : x \in indexed /\ x.body # "empty"
  BY <1>1 DEF BulkInv, ReplyIsTrue
<1>7. /\ \A x : x \in ToSet(f.items) <=> x \in good \/ x \in f.refused \/ x \in {}
      /\ good \cap f.refused = {} /\ {} \cap (good \cup f.refused) = {}
  BY <1>6
<1> HIDE DEF next, good
<1>8. Settles(w, good, f.refused, {})
  BY <1>1, <1>4, <1>5, <1>6, <1>7 DEF Settles
<1> QED BY <1>8, SettleOK

LEMMA FailOK ==
  ASSUME BulkInv, NEW w \in BulkWorkers, FlushFails(w) PROVE BulkInv'
<1> DEFINE lost == ToSet(flushing[w].items)
           next == [fates EXCEPT !.dropped = @ \cup lost]
<1>1. /\ fates' = next
      /\ flushing' = [flushing EXCEPT ![w] = NoFlush]
      /\ UNCHANGED <<batch, bulkQueue, buffer, indexed>>
  BY DEF FlushFails
<1>2. /\ fates \in [success : SUBSET Items, failure : SUBSET Items, dropped : SUBSET Items]
      /\ flushing[w] \in Flushes
  BY DEF BulkInv, BulkTypeOK
<1>3. lost \subseteq Items
  BY <1>2 DEF Flushes, ToSet
<1>4. next \in FateSets
  BY <1>2, <1>3 DEF FateSets
<1>5. /\ next.success = fates.success \cup {}
      /\ next.failure = fates.failure \cup {}
      /\ next.dropped = fates.dropped \cup lost
  BY <1>2
<1> HIDE DEF next
<1>6. /\ \A x : x \in lost <=> x \in {} \/ x \in {} \/ x \in lost
      /\ {} \cap {} = {} /\ lost \cap ({} \cup {}) = {}
      /\ \A x \in {} : x \in indexed /\ x.body # "empty"
  OBVIOUS
<1> HIDE DEF lost
<1>7. Settles(w, {}, {}, ToSet(flushing[w].items))
  BY <1>1, <1>4, <1>5, <1>6 DEF Settles, lost
<1> QED BY <1>7, SettleOK

---------------------------------------------------------------------------
(* Documents stay accounted for and apart: the inductive invariant.        *)
THEOREM BulkInvariant == BulkSpec => []BulkInv
<1>1. ASSUME BulkInv, [BulkNext]_bulkVars PROVE BulkInv'
  <2>1. CASE UNCHANGED bulkVars
    <3>1. \A s \in Savers : \A n : Made(s, n)' = Made(s, n) /\ Sound(s, n)' = Sound(s, n)
      BY <2>1 DEF bulkVars, Made, BodyOf, Sound, Item
    <3>2. InFlight' = InFlight /\ Settled' = Settled /\ \A w \in BulkWorkers : Held(w)' = Held(w)
      BY <2>1 DEF bulkVars, InFlight, Settled, Held
    <3> QED BY <1>1, <2>1, <3>1, <3>2, WorkerKeepsMade
            DEF bulkVars, BulkInv, BulkTypeOK, OncePlaced, ReplyIsTrue, SuccessIsIndexed
  <2>2. CASE BulkNext
    BY <1>1, <2>2, SaveOK, AddOK, ReturnNilOK, CollectOK, FlushOK, ServeOK, AnswerOK, FailOK
    DEF BulkNext, SaverStep, WorkerStep
  <2> QED BY <1>1, <2>1, <2>2
<1> QED BY <1>1, BulkInitOK, PTL DEF BulkSpec

(* Every document that DocumentBatchSave has been through is with the      *)
(* indexer or settled, with one worker, in one way, whatever the batches   *)
(* and the workers are.                                                    *)
THEOREM NoDocumentForgotten == BulkSpec => []NoneForgotten
<1>1. BulkInv => NoneForgotten
  <2> SUFFICES ASSUME BulkInv PROVE NoneForgotten
    OBVIOUS
  <2>1. ASSUME NEW d
        PROVE  d \in UNION { PassedBy(s) : s \in Savers } <=> d \in Documents(InFlight \cup Settled)
    <3>1. ASSUME NEW s \in Savers, NEW n \in 1 .. batch[s].added, d = Document(s, n)
          PROVE  d \in Documents(InFlight \cup Settled)
      <4>1. Made(s, n) \in InFlight \cup Settled
        BY DEF BulkInv, AllMade
      <4>2. Made(s, n).by = s /\ Made(s, n).nth = n
        BY DEF Made, Item
      <4> QED BY <3>1, <4>1, <4>2 DEF Documents
    <3>2. ASSUME NEW x \in InFlight \cup Settled, d = Document(x.by, x.nth)
          PROVE  d \in UNION { PassedBy(s) : s \in Savers }
      BY <3>2, KnownItem DEF PassedBy
    <3>3. d \in UNION { PassedBy(s) : s \in Savers } =>
            \E s \in Savers : \E n \in 1 .. batch[s].added : d = Document(s, n)
      BY DEF PassedBy
    <3>4. d \in Documents(InFlight \cup Settled) =>
            \E x \in InFlight \cup Settled : d = Document(x.by, x.nth)
      BY DEF Documents
    <3> QED BY <3>1, <3>2, <3>3, <3>4
  <2>2. UNION { PassedBy(s) : s \in Savers } = Documents(InFlight \cup Settled)
    BY <2>1
  <2> QED BY <2>2 DEF BulkInv, OncePlaced, NoneForgotten
<1> QED BY <1>1, BulkInvariant, PTL

(* OnSuccess runs only for documents that the server has indexed and that  *)
(* could be encoded.                                                       *)
THEOREM SuccessTellsTheTruth == BulkSpec => []SuccessIsIndexed
<1>1. BulkInv => SuccessIsIndexed
  BY DEF BulkInv
<1> QED BY <1>1, BulkInvariant, PTL
=============================================================================
