---------------------------- MODULE RemoteProofs ----------------------------
(* What the callers of any server can rely on.  A reply that was accepted  *)
(* was carried out while its caller waited; one that was not accepted, and *)
(* of which no try was given up, was not carried out.  Q is what is asked, *)
(* R what the server replies.                                              *)
EXTENDS Remote, TLAPS

Letters(Q) == [by : Callers, call : Nat, try : Nat, request : Q]

Replies(R) == R \cup {NoReply, TimedOut}

Waits(Q, R) ==
  [busy : BOOLEAN, call : Nat, try : Nat, request : Q \cup {NoRequest},
   reply : Replies(R), done : BOOLEAN, doubt : BOOLEAN]

RemoteTypeOK(Q, R) ==
  /\ wire \subseteq Letters(Q)
  /\ waiting \in [Callers -> Waits(Q, R)]
  /\ timeouts \in 0 .. MaxTimeouts

Own(c, m) == m.by = c /\ m.call = waiting[c].call

(* No letter is from a call to come; those of the present call carry its   *)
(* request.  Without a doubt there is one of them, until it is served.     *)
OwnLetters(Q, c) ==
  LET w == waiting[c] IN
    /\ \A m \in wire : m.by = c => m.call <= w.call
    /\ w.busy =>
         /\ w.request \in Q /\ w.try >= 1
         /\ \A m \in wire : Own(c, m) => m.request = w.request /\ m.try \in 1 .. w.try
    /\ w.busy /\ ~w.doubt => w.try = 1
    /\ w.busy /\ ~w.doubt /\ w.reply # NoReply => \A m \in wire : ~Own(c, m)

DoneIsAccepted(c) ==
  LET w == waiting[c] IN
    /\ w.busy /\ w.reply.accepted => w.done
    /\ w.busy /\ w.done /\ ~w.doubt => w.reply.accepted

RemoteInv(Q, R) ==
  RemoteTypeOK(Q, R) /\ \A c \in Callers : OwnLetters(Q, c) /\ DoneIsAccepted(c)

---------------------------------------------------------------------------
(* What the steps make of what a caller waits for.                         *)
Begun(n, q)       == [Idle EXCEPT !.busy = TRUE, !.call = n, !.try = 1, !.request = q]
Replied(w, d, r)  == [w EXCEPT !.done = d, !.reply = r]
Retried(w)        == [w EXCEPT !.try = w.try + 1, !.reply = NoReply, !.doubt = TRUE]
GivenUp(w)        == [w EXCEPT !.reply = TimedOut, !.doubt = TRUE]

LEMMA WaitReplied ==
  ASSUME NEW Q, NEW R, NEW w \in Waits(Q, R), NEW r \in Replies(R), NEW d \in BOOLEAN
  PROVE  LET v == Replied(w, d, r) IN
           /\ v \in Waits(Q, R) /\ v.reply = r /\ v.done = d
           /\ v.busy = w.busy /\ v.call = w.call /\ v.try = w.try
           /\ v.request = w.request /\ v.doubt = w.doubt
BY DEF Waits, Replied

LEMMA WaitRetried ==
  ASSUME NEW Q, NEW R, NEW w \in Waits(Q, R)
  PROVE  LET v == Retried(w) IN
           /\ v \in Waits(Q, R) /\ v.try = w.try + 1 /\ v.reply = NoReply /\ v.doubt
           /\ v.busy = w.busy /\ v.call = w.call /\ v.request = w.request /\ v.done = w.done
<1>1. NoReply \in Replies(R) /\ w.try + 1 \in Nat
  BY DEF Replies, Waits
<1> QED BY <1>1 DEF Waits, Retried

LEMMA WaitGivenUp ==
  ASSUME NEW Q, NEW R, NEW w \in Waits(Q, R)
  PROVE  LET v == GivenUp(w) IN
           /\ v \in Waits(Q, R) /\ v.reply = TimedOut /\ v.doubt
           /\ v.busy = w.busy /\ v.call = w.call /\ v.try = w.try
           /\ v.request = w.request /\ v.done = w.done
<1>1. TimedOut \in Replies(R)
  BY DEF Replies
<1> QED BY <1>1 DEF Waits, GivenUp

LEMMA IdleWaits == ASSUME NEW Q, NEW R PROVE Idle \in Waits(Q, R)
<1>1. NoReply \in Replies(R)
  BY DEF Replies
<1> HIDE DEF NoReply
<1> QED BY <1>1 DEF Idle, Waits

LEMMA WaitBegun ==
  ASSUME NEW Q, NEW R, NEW n \in Nat, NEW q \in Q
  PROVE  LET v == Begun(n, q) IN
           /\ v \in Waits(Q, R) /\ v.busy /\ v.call = n /\ v.try = 1 /\ v.request = q
           /\ v.reply = NoReply /\ ~v.done /\ ~v.doubt
BY IdleWaits DEF Waits, Idle, Begun

LEMMA WaitEnded ==
  ASSUME NEW Q, NEW R, NEW n \in Nat, NEW v, v = [Idle EXCEPT !.call = n]
  PROVE  v \in Waits(Q, R) /\ ~v.busy /\ v.call = n
BY IdleWaits DEF Waits, Idle

(* A step that changes what one caller waits for, and adds no letters but  *)
(* of its own.                                                             *)
LEMMA OneCaller ==
  ASSUME NEW Q, NEW R, RemoteInv(Q, R), NEW c \in Callers, NEW w \in Waits(Q, R),
         waiting' = [waiting EXCEPT ![c] = w],
         wire' \subseteq Letters(Q), \A m \in wire' : m.by # c => m \in wire,
         timeouts' \in 0 .. MaxTimeouts,
         OwnLetters(Q, c)', DoneIsAccepted(c)'
  PROVE  RemoteInv(Q, R)'
<1>1. RemoteTypeOK(Q, R)'
  BY DEF RemoteInv, RemoteTypeOK
<1>2. ASSUME NEW d \in Callers \ {c} PROVE OwnLetters(Q, d)' /\ DoneIsAccepted(d)'
  <2>1. waiting'[d] = waiting[d]
    BY DEF RemoteInv, RemoteTypeOK
  <2>2. OwnLetters(Q, d) /\ DoneIsAccepted(d)
    BY DEF RemoteInv
  <2>3. \A m \in wire' : m.by = d => m \in wire
    OBVIOUS
  <2> QED BY <2>1, <2>2, <2>3 DEF OwnLetters, DoneIsAccepted, Own
<1> QED BY <1>1, <1>2 DEF RemoteInv

LEMMA RemoteInitOK ==
  ASSUME NEW Q, NEW R, NEW data, RemoteInit(data), MaxTimeouts \in Nat PROVE RemoteInv(Q, R)
<1>1. RemoteTypeOK(Q, R)
  BY IdleWaits DEF RemoteInit, RemoteTypeOK
<1>2. \A c \in Callers : waiting[c] = Idle
  BY DEF RemoteInit
<1> QED BY <1>1, <1>2 DEF RemoteInit, RemoteInv, OwnLetters, DoneIsAccepted, Idle

LEMMA SendOK ==
  ASSUME NEW Q, NEW R, RemoteInv(Q, R), NEW c \in Callers, NEW q \in Q, Send(c, q)
  PROVE  RemoteInv(Q, R)'
<1> DEFINE n == waiting[c].call
           w == Begun(n + 1, q)
           l == Letter(c, w)
<1>1. /\ wire \subseteq Letters(Q) /\ n \in Nat /\ n + 1 \in Nat /\ OwnLetters(Q, c)
      /\ waiting \in [Callers -> Waits(Q, R)] /\ timeouts \in 0 .. MaxTimeouts
  BY DEF RemoteInv, RemoteTypeOK, Waits
<1>2. waiting' = [waiting EXCEPT ![c] = w] /\ wire' = wire \cup {l} /\ UNCHANGED timeouts
  BY DEF Send, Transmit, Begun
<1>3. \A m \in wire : m.by = c => m.call <= n /\ m.call \in Nat
  BY <1>1 DEF OwnLetters, Letters
<1>4. /\ w \in Waits(Q, R) /\ w.busy /\ w.call = n + 1 /\ w.try = 1 /\ w.request = q
      /\ w.reply = NoReply /\ ~w.done /\ ~w.doubt
  BY <1>1, WaitBegun
<1> HIDE DEF w, n
<1>5. l \in Letters(Q) /\ l.by = c /\ l.call = n + 1 /\ l.try = 1 /\ l.request = q
  BY <1>1, <1>4 DEF Letter, Letters
<1> HIDE DEF l
<1>6. waiting'[c] = w
  BY <1>1, <1>2
<1>7. \A m \in wire' : m.by = c => m.call <= n + 1 /\ (m.call = n + 1 => m = l)
  BY <1>1, <1>2, <1>3, <1>5
<1>8. OwnLetters(Q, c)'
  BY <1>4, <1>5, <1>6, <1>7 DEF OwnLetters, Own
<1>9. DoneIsAccepted(c)'
  BY <1>4, <1>6 DEF DoneIsAccepted, NoReply
<1>10. wire' \subseteq Letters(Q) /\ \A m \in wire' : m.by # c => m \in wire
  BY <1>1, <1>2, <1>5
<1> QED BY <1>1, <1>2, <1>4, <1>8, <1>9, <1>10, OneCaller

(* Serving: an accepted reply marks its caller's call as done, and reaches *)
(* it unless it was given up.                                              *)
LEMMA ServeOK ==
  ASSUME NEW Q, NEW R, RemoteInv(Q, R), NEW m \in wire, Serve(m),
         Apply(m.request, server).reply \in R
  PROVE  RemoteInv(Q, R)'
<1> DEFINE c       == m.by
           v       == waiting[c]
           reply   == Apply(m.request, server).reply
           own     == v.busy /\ v.call = m.call
           current == own /\ v.try = m.try /\ v.reply = NoReply
           d       == v.done \/ (own /\ reply.accepted)
           r       == IF current THEN reply ELSE v.reply
           w       == Replied(v, d, r)
<1>1. /\ c \in Callers /\ v \in Waits(Q, R) /\ OwnLetters(Q, c) /\ DoneIsAccepted(c)
      /\ wire \subseteq Letters(Q) /\ waiting \in [Callers -> Waits(Q, R)]
      /\ timeouts \in 0 .. MaxTimeouts
  BY DEF RemoteInv, RemoteTypeOK, Letters
<1>2. waiting' = [waiting EXCEPT ![c] = w] /\ wire' = wire \ {m} /\ UNCHANGED timeouts
  BY DEF Serve, Replied
<1>3. r \in Replies(R) /\ d \in BOOLEAN
  BY <1>1 DEF Waits, Replies
<1>4. v.busy /\ ~v.doubt /\ own => current
  BY <1>1 DEF OwnLetters, Own
<1>5. v.busy /\ ~v.doubt /\ r # NoReply => \A k \in wire' : ~(k.by = c /\ k.call = v.call)
  <2>1. SUFFICES ASSUME v.busy, ~v.doubt, r # NoReply, NEW k \in wire, k # m, k.by = c, k.call = v.call
                 PROVE  FALSE
    BY <1>2
  <2>2. k.request = v.request /\ k.try = 1 /\ v.try = 1
    BY <1>1, <2>1 DEF OwnLetters, Own
  <2>3. v.reply = NoReply
    BY <1>1, <2>1 DEF OwnLetters, Own
  <2>4. current
    BY <2>1, <2>3
  <2>5. m.request = v.request /\ m.try = 1 /\ m.call = v.call
    BY <1>1, <2>1, <2>2, <2>4 DEF OwnLetters, Own
  <2>6. k = m
    <3>1. k \in Letters(Q) /\ m \in Letters(Q)
      BY <1>1
    <3> QED BY <2>1, <2>2, <2>5, <3>1 DEF Letters
  <2> QED BY <2>1, <2>6
<1>6. v.busy /\ r.accepted => d
  BY <1>1 DEF DoneIsAccepted
<1>7. v.busy /\ d /\ ~v.doubt => r.accepted
  BY <1>1, <1>4 DEF DoneIsAccepted, NoReply
<1> HIDE DEF d, r
<1>8. /\ w \in Waits(Q, R) /\ w.reply = r /\ w.done = d /\ w.busy = v.busy /\ w.call = v.call
      /\ w.try = v.try /\ w.request = v.request /\ w.doubt = v.doubt
  BY <1>1, <1>3, WaitReplied
<1> HIDE DEF w
<1>9. waiting'[c] = w
  BY <1>1, <1>2
<1>10. OwnLetters(Q, c)'
  BY <1>1, <1>2, <1>5, <1>8, <1>9 DEF OwnLetters, Own
<1>11. DoneIsAccepted(c)'
  BY <1>6, <1>7, <1>8, <1>9 DEF DoneIsAccepted
<1>12. wire' \subseteq Letters(Q) /\ \A k \in wire' : k.by # c => k \in wire
  BY <1>1, <1>2
<1> QED BY <1>1, <1>2, <1>8, <1>10, <1>11, <1>12, OneCaller

LEMMA RetryOK ==
  ASSUME NEW Q, NEW R, RemoteInv(Q, R), NEW c \in Callers, Retry(c), MaxTimeouts \in Nat
  PROVE  RemoteInv(Q, R)'
<1> DEFINE v == waiting[c]
           w == Retried(v)
           l == Letter(c, w)
<1>1. /\ v \in Waits(Q, R) /\ OwnLetters(Q, c)
      /\ wire \subseteq Letters(Q) /\ waiting \in [Callers -> Waits(Q, R)]
      /\ timeouts \in 0 .. MaxTimeouts /\ v.busy /\ v.try \in Nat /\ v.try + 1 \in Nat
      /\ v.call \in Nat /\ v.request \in Q /\ v.try >= 1
  BY DEF RemoteInv, RemoteTypeOK, Retry, Expecting, Waits, OwnLetters
<1>2. /\ waiting' = [waiting EXCEPT ![c] = w] /\ wire' = wire \cup {l}
      /\ timeouts' \in 0 .. MaxTimeouts
  BY <1>1 DEF Retry, Expecting, Transmit, Retried
<1>3. /\ w \in Waits(Q, R) /\ w.try = v.try + 1 /\ w.reply = NoReply /\ w.doubt
      /\ w.busy = v.busy /\ w.call = v.call /\ w.request = v.request /\ w.done = v.done
  <2>1. v \in Waits(Q, R)
    BY <1>1
  <2> HIDE DEF v
  <2> QED BY ONLY <2>1, WaitRetried
<1> HIDE DEF w
<1>4. l \in Letters(Q) /\ l.by = c /\ l.call = v.call /\ l.try = v.try + 1 /\ l.request = v.request
  BY <1>1, <1>3 DEF Letter, Letters
<1> HIDE DEF l
<1>5. waiting'[c] = w
  BY <1>1, <1>2
<1>6. OwnLetters(Q, c)'
  <2>1. \A m \in wire' : m.by = c => m.call <= v.call
    BY <1>1, <1>2, <1>4 DEF OwnLetters
  <2>2. \A m \in wire' : m.by = c /\ m.call = v.call =>
                           m.request = v.request /\ m.try \in 1 .. v.try + 1
    BY <1>1, <1>2, <1>4 DEF OwnLetters, Own
  <2> QED BY <1>1, <1>3, <1>5, <2>1, <2>2 DEF OwnLetters, Own
<1>7. DoneIsAccepted(c)'
  BY <1>3, <1>5 DEF DoneIsAccepted, NoReply
<1>8. wire' \subseteq Letters(Q) /\ \A m \in wire' : m.by # c => m \in wire
  BY <1>1, <1>2, <1>4
<1> QED BY <1>1, <1>2, <1>3, <1>6, <1>7, <1>8, OneCaller

LEMMA GiveUpOK ==
  ASSUME NEW Q, NEW R, RemoteInv(Q, R), NEW c \in Callers, GiveUp(c), MaxTimeouts \in Nat
  PROVE  RemoteInv(Q, R)'
<1> DEFINE v == waiting[c]
           w == GivenUp(v)
<1>1. /\ v \in Waits(Q, R) /\ OwnLetters(Q, c)
      /\ wire \subseteq Letters(Q) /\ waiting \in [Callers -> Waits(Q, R)]
      /\ timeouts \in 0 .. MaxTimeouts
  BY DEF RemoteInv, RemoteTypeOK
<1>2. /\ waiting' = [waiting EXCEPT ![c] = w] /\ wire' = wire
      /\ timeouts' \in 0 .. MaxTimeouts
  BY <1>1 DEF GiveUp, Expecting, GivenUp
<1>3. /\ w \in Waits(Q, R) /\ w.reply = TimedOut /\ w.doubt /\ w.busy = v.busy
      /\ w.call = v.call /\ w.try = v.try /\ w.request = v.request /\ w.done = v.done
  BY <1>1, WaitGivenUp
<1> HIDE DEF w
<1>4. waiting'[c] = w
  BY <1>1, <1>2
<1>5. OwnLetters(Q, c)'
  BY <1>1, <1>2, <1>3, <1>4 DEF OwnLetters, Own
<1>6. DoneIsAccepted(c)'
  BY <1>3, <1>4 DEF DoneIsAccepted, TimedOut
<1> QED BY <1>1, <1>2, <1>3, <1>5, <1>6, OneCaller

LEMMA FinishOK ==
  ASSUME NEW Q, NEW R, RemoteInv(Q, R), NEW c \in Callers, Finish(c)
  PROVE  RemoteInv(Q, R)'
<1> DEFINE n == waiting[c].call
           w == [Idle EXCEPT !.call = n]
<1>1. /\ n \in Nat /\ OwnLetters(Q, c)
      /\ wire \subseteq Letters(Q) /\ waiting \in [Callers -> Waits(Q, R)]
      /\ timeouts \in 0 .. MaxTimeouts
  BY DEF RemoteInv, RemoteTypeOK, Waits
<1>2. waiting' = [waiting EXCEPT ![c] = w] /\ UNCHANGED <<wire, timeouts>>
  BY DEF Finish
<1>3. w \in Waits(Q, R) /\ ~w.busy /\ w.call = n
  BY <1>1, WaitEnded
<1> HIDE DEF w
<1>4. waiting'[c] = w
  BY <1>1, <1>2
<1>5. OwnLetters(Q, c)' /\ DoneIsAccepted(c)'
  BY <1>1, <1>2, <1>3, <1>4 DEF OwnLetters, Own, DoneIsAccepted
<1> QED BY <1>1, <1>2, <1>3, <1>5, OneCaller

LEMMA DisconnectOK ==
  ASSUME NEW Q, NEW R, RemoteInv(Q, R), Disconnect
  PROVE  RemoteInv(Q, R)'
<1>1. /\ wire \subseteq Letters(Q) /\ waiting \in [Callers -> Waits(Q, R)]
      /\ timeouts \in 0 .. MaxTimeouts /\ UNCHANGED <<wire, timeouts>>
  BY DEF RemoteInv, RemoteTypeOK, Disconnect
<1> DEFINE w(c) == IF waiting[c].busy /\ waiting[c].reply = NoReply
                   THEN GivenUp(waiting[c]) ELSE waiting[c]
<1>2. waiting' = [c \in Callers |-> w(c)]
  BY DEF Disconnect, GivenUp
<1>3. ASSUME NEW c \in Callers
      PROVE  /\ w(c) \in Waits(Q, R) /\ w(c).busy = waiting[c].busy /\ w(c).call = waiting[c].call
             /\ w(c).try = waiting[c].try /\ w(c).request = waiting[c].request
             /\ w(c).done = waiting[c].done
             /\ \/ w(c) = waiting[c]
                \/ w(c).reply = TimedOut /\ w(c).doubt
    <2>1. waiting[c] \in Waits(Q, R)
      BY <1>1
    <2> QED BY <2>1, WaitGivenUp
<1> HIDE DEF w
<1>4. waiting' \in [Callers -> Waits(Q, R)] /\ \A c \in Callers : waiting'[c] = w(c)
  BY <1>2, <1>3
<1>5. ASSUME NEW c \in Callers PROVE OwnLetters(Q, c)' /\ DoneIsAccepted(c)'
  <2>1. OwnLetters(Q, c) /\ DoneIsAccepted(c)
    BY DEF RemoteInv
  <2>2. CASE w(c) = waiting[c]
    BY <1>1, <1>4, <2>1, <2>2 DEF OwnLetters, Own, DoneIsAccepted
  <2>3. CASE w(c).reply = TimedOut /\ w(c).doubt
    <3> DEFINE u == w(c)
    <3>1. /\ waiting'[c] = u /\ wire' = wire /\ u.reply = TimedOut /\ u.doubt
          /\ u.busy = waiting[c].busy /\ u.call = waiting[c].call
          /\ u.try = waiting[c].try /\ u.request = waiting[c].request
          /\ u.done = waiting[c].done
      BY <1>1, <1>3, <1>4, <2>3
    <3> HIDE DEF u
    <3>2. OwnLetters(Q, c)'
      BY <2>1, <3>1 DEF OwnLetters, Own
    <3>3. ~u.reply.accepted
      BY <3>1 DEF TimedOut
    <3>4. DoneIsAccepted(c)'
      BY <3>1, <3>3 DEF DoneIsAccepted
    <3> QED BY <3>2, <3>4
  <2> QED BY <1>3, <2>2, <2>3
<1> QED BY <1>1, <1>4, <1>5 DEF RemoteInv, RemoteTypeOK

(* A step of the transport.                                                *)
LEMMA UnderwayOK ==
  ASSUME NEW Q, NEW R, RemoteInv(Q, R), Underway, MaxTimeouts \in Nat,
         \A m \in wire : Apply(m.request, server).reply \in R
  PROVE  RemoteInv(Q, R)'
BY ServeOK, RetryOK, GiveUpOK DEF Underway

LEMMA RemoteUnchanged ==
  ASSUME NEW Q, NEW R, RemoteInv(Q, R), UNCHANGED <<wire, waiting, timeouts>>
  PROVE  RemoteInv(Q, R)'
BY DEF RemoteInv, RemoteTypeOK, OwnLetters, Own, DoneIsAccepted

---------------------------------------------------------------------------
(* A caller that only sends requests of Q and takes what comes back.       *)
RemoteNext(Q) ==
  \/ \E c \in Callers : Finish(c) \/ \E q \in Q : Send(c, q)
  \/ Underway \/ Disconnect

Honest(c) ==
  LET w == waiting[c]
  IN  /\ w.busy /\ w.reply.accepted => w.done
      /\ w.busy /\ ~w.doubt /\ ~w.reply.accepted => ~w.done

(* An accepted reply means that the server did what its caller asked while *)
(* the caller waited; a refusal, or no reply yet, that it did not, unless  *)
(* a try of the call was given up: whatever was sent twice, arrived late   *)
(* or was answered after a timeout, for any number of callers and tries    *)
(* and for any server with states S and replies R.                         *)
THEOREM RepliesAreHonest ==
  ASSUME NEW Q, NEW R, NEW S, NEW data \in S, MaxTimeouts \in Nat,
         \A q \in Q, s \in S : Apply(q, s).server \in S /\ Apply(q, s).reply \in R
  PROVE  RemoteInit(data) /\ [][RemoteNext(Q)]_<<server, wire, waiting, timeouts>>
           => [](\A c \in Callers : Honest(c))
<1> DEFINE Inv == RemoteInv(Q, R) /\ server \in S
<1>1. RemoteInit(data) => Inv
  BY RemoteInitOK DEF RemoteInit
<1>2. Inv /\ [RemoteNext(Q)]_<<server, wire, waiting, timeouts>> => Inv'
  <2> SUFFICES ASSUME Inv, [RemoteNext(Q)]_<<server, wire, waiting, timeouts>> PROVE Inv'
    OBVIOUS
  <2>1. \A m \in wire : m.request \in Q
    BY DEF RemoteInv, RemoteTypeOK, Letters
  <2>2. CASE Underway
    <3>1. RemoteInv(Q, R)'
      BY <2>1, <2>2, UnderwayOK
    <3>2. server' \in S
      <4>1. ASSUME NEW m \in wire, Serve(m) PROVE server' \in S
        <5>1. server' = Apply(m.request, server).server
          BY <4>1 DEF Serve
        <5> QED BY <2>1, <5>1
      <4>2. ASSUME NEW c \in Callers, Retry(c) \/ GiveUp(c) PROVE server' = server
        BY <4>2 DEF Retry, GiveUp, Expecting
      <4> QED BY <2>2, <4>1, <4>2 DEF Underway
    <3> QED BY <3>1, <3>2
  <2>3. ASSUME NEW c \in Callers, NEW q \in Q, Send(c, q) PROVE Inv'
    BY <2>3, SendOK DEF Send
  <2>4. ASSUME NEW c \in Callers, Finish(c) PROVE Inv'
    BY <2>4, FinishOK DEF Finish
  <2>5. CASE Disconnect
    BY <2>5, DisconnectOK DEF Disconnect
  <2>6. CASE UNCHANGED <<server, wire, waiting, timeouts>>
    BY <2>6, RemoteUnchanged
  <2> QED BY <2>2, <2>3, <2>4, <2>5, <2>6 DEF RemoteNext
<1>3. Inv => \A c \in Callers : Honest(c)
  BY DEF RemoteInv, DoneIsAccepted, Honest
<1> QED BY <1>1, <1>2, <1>3, PTL
=============================================================================
