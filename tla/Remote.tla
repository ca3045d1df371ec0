------------------------------- MODULE Remote -------------------------------
(***************************************************************************)
(* A client library and the server behind it, as es and cache use them.    *)
(* The library sends a request, waits for its reply, and after a timeout   *)
(* or a broken connection sends it again, MaxTries times in all.  A try    *)
(* that was given up may be on its way to the server still, which serves   *)
(* it whenever it arrives.                                                 *)
(***************************************************************************)
EXTENDS Integers

CONSTANTS
  Callers,      \* goroutines that use the library
  MaxTries,     \* times a request is sent
  MaxTimeouts,  \* bound: tries given up
  Apply(_, _),  \* what a request does to the server, and its reply
  NoRequest     \* the absent request

VARIABLES
  server,   \* the server's data
  wire,     \* tries on their way to the server
  waiting,  \* what each caller waits for
  timeouts  \* tries given up so far

(* No reply has come; the library has given up and made one itself.        *)
NoReply  == [accepted |-> FALSE, body |-> -2]
TimedOut == [accepted |-> FALSE, body |-> -1]

(* done and doubt are history: some try was carried out while the caller   *)
(* waited; some try was given up.                                          *)
Idle == [busy |-> FALSE, call |-> 0, try |-> 0, request |-> NoRequest,
         reply |-> NoReply, done |-> FALSE, doubt |-> FALSE]

RemoteInit(data) == /\ server = data
                    /\ wire = {}
                    /\ waiting = [c \in Callers |-> Idle]
                    /\ timeouts = 0

Letter(c, w) == [by |-> c, call |-> w.call, try |-> w.try, request |-> w.request]

Transmit(c, w) == /\ waiting' = [waiting EXCEPT ![c] = w]
                  /\ wire' = wire \cup {Letter(c, w)}

Send(c, q) ==
  /\ ~waiting[c].busy
  /\ Transmit(c, [Idle EXCEPT !.busy = TRUE, !.call = waiting[c].call + 1,
                              !.try = 1, !.request = q])
  /\ UNCHANGED <<server, timeouts>>

(* The server's answer finds the caller only if it still waits for it.     *)
Serve(m) ==
  LET w       == waiting[m.by]
      effect  == Apply(m.request, server)
      own     == w.busy /\ w.call = m.call
      current == own /\ w.try = m.try /\ w.reply = NoReply
  IN  /\ m \in wire /\ wire' = wire \ {m}
      /\ server' = effect.server
      /\ waiting' = [waiting EXCEPT ![m.by] =
           [w EXCEPT !.done  = w.done \/ (own /\ effect.reply.accepted),
                     !.reply = IF current THEN effect.reply ELSE w.reply]]
      /\ UNCHANGED timeouts

(* The connection breaks or the answer takes too long; one that is under   *)
(* way is lost.                                                            *)
Expecting(c) == /\ waiting[c].busy /\ waiting[c].reply # TimedOut
                /\ timeouts < MaxTimeouts /\ timeouts' = timeouts + 1
                /\ UNCHANGED server

Retry(c) ==
  LET w == waiting[c]
  IN  /\ Expecting(c)
      /\ w.try < MaxTries
      /\ Transmit(c, [w EXCEPT !.try = w.try + 1, !.reply = NoReply, !.doubt = TRUE])

GiveUp(c) ==
  /\ Expecting(c)
  /\ waiting[c].try = MaxTries
  /\ waiting' = [waiting EXCEPT ![c] = [@ EXCEPT !.reply = TimedOut, !.doubt = TRUE]]
  /\ UNCHANGED wire

(* The client is closed under the callers that wait.                       *)
Disconnect ==
  /\ waiting' = [c \in Callers |->
       IF waiting[c].busy /\ waiting[c].reply = NoReply
       THEN [waiting[c] EXCEPT !.reply = TimedOut, !.doubt = TRUE] ELSE waiting[c]]
  /\ UNCHANGED <<server, wire, timeouts>>

Finish(c) ==
  /\ waiting[c].busy /\ waiting[c].reply # NoReply
  /\ waiting' = [waiting EXCEPT ![c] = [Idle EXCEPT !.call = waiting[c].call]]
  /\ UNCHANGED <<server, wire, timeouts>>

Underway == (\E m \in wire : Serve(m)) \/ (\E c \in Callers : Retry(c) \/ GiveUp(c))
=============================================================================
