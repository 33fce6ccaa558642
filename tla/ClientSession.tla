--------------------------- MODULE ClientSession ---------------------------
(***************************************************************************)
(* The browser's call session: joining, reconnecting and leaving           *)
(* (web/src/lib/session.ts over web/src/lib/signaling.ts).                 *)
(*                                                                         *)
(* Everything runs in one thread, but join() and reconnectLoop() stop at   *)
(* every await and go on later, in a world that events and the user have   *)
(* changed.  An action is one turn of the event loop: the handler of an    *)
(* event and whatever continuations it releases.  A continuation that is   *)
(* waiting is a record in client.flows:                                    *)
(*   kind    "join" (CallSession.join) or "loop" (reconnectLoop)           *)
(*   at      where it waits: for the camera ("media"), in a backoff, for   *)
(*           its socket to open, for its offer or the end of the grace     *)
(*           period ("offer"), for a late offer, for the join's answer     *)
(*           ("done")                                                      *)
(*   sock    the socket it made (0: none)                                  *)
(*   offer   "none", "pending" or "made"; live: its connection isn't closed*)
(*   done    what became of the promise of its attempt                     *)
(*   n       the number of the attempt                                     *)
(*                                                                         *)
(* Of a frame it matters what it is if it is the first one handed to its   *)
(* socket; the subscriptions it carries are applied at once.               *)
(***************************************************************************)
EXTENDS Integers, FiniteSets

CONSTANTS
  Sockets,        (* names of the sockets that exist at one time           *)
  Tracks,         (* what remote participants can publish                  *)
  Attempts,       (* RECONNECT_ATTEMPTS (8)                                *)
  MaxRevision     (* the room changes no more at this revision             *)

ASSUME SocketsAssumption == Sockets \subseteq Nat \ {0} /\ IsFiniteSet(Sockets)
ASSUME AttemptsAssumption == Attempts \in Nat \ {0}

VARIABLES
  client,         (* the fields of CallSession, its sockets and flows      *)
  tracks          (* what remote participants publish now                  *)

vars == <<client, tracks>>

NoSocket == [st |-> "none", first |-> "none", in |-> FALSE, applied |-> 0, subs |-> {}]
Waiting == [kind |-> "join", at |-> "media", sock |-> 0, offer |-> "none", live |-> FALSE,
            done |-> "none", n |-> 0]

\* torn is history: a rejoin lost its socket between its answer and its late
\* offer.
NewClient ==
  [phase |-> "idle", sig |-> 0, sockets |-> [i \in Sockets |-> NoSocket], rtc |-> FALSE,
   joined |-> FALSE, joinSent |-> FALSE, reconnecting |-> FALSE, rejoin |-> FALSE, attempt |-> 0,
   requested |-> {}, rev |-> 0, flows |-> {}, torn |-> FALSE]

SessionInit == client = NewClient /\ tracks \in SUBSET Tracks

(***************************************************************************)
(* SignalingClient: frames wait in the outbox while the socket connects,   *)
(* and are dropped when it is gone.                                        *)
(***************************************************************************)
IsOpen(c, i) == i # 0 /\ c.sockets[i].st = "open"
IsConnecting(c, i) == i # 0 /\ c.sockets[i].st = "connecting"

\* The outbox keeps the order: what is handed over first goes out first.
Send(c, i, f) ==
  IF (IsOpen(c, i) \/ IsConnecting(c, i)) /\ c.sockets[i].first = "none"
  THEN [c EXCEPT !.sockets[i].first = f] ELSE c

\* What a socket carried is of no consequence once it is closed.
Close(c, i) == IF i = 0 THEN c ELSE [c EXCEPT !.sockets[i] = [NoSocket EXCEPT !.st = "closing"]]

Free(c) == {i \in Sockets : c.sockets[i] = NoSocket /\ \A f \in c.flows : f.sock # i}

\* A new socket becomes the session's.
Connect(c) ==
  LET i == CHOOSE i \in Free(c) : \A j \in Free(c) : i =< j
  IN [c EXCEPT !.sig = i, !.sockets[i].st = "connecting"]

Without(c, f) == [c EXCEPT !.flows = @ \ {f}]
Move(c, f, g) == [c EXCEPT !.flows = (@ \ {f}) \cup {g}]

\* Closing the peer connections: an offer that is not made yet may never be.
CloseRtc(c) == [c EXCEPT !.rtc = FALSE, !.flows = {[f EXCEPT !.live = FALSE] : f \in @}]

\* The join goes out; candidates that were held back go out behind it.
SendJoin(c, i) == [Send(c, i, "join") EXCEPT !.joinSent = TRUE]

\* Every track that is not yet requested, and no other.  The server applies
\* a batch whose revision is newer than the last.
Subscribe(c, published) ==
  IF ~IsOpen(c, c.sig) \/ ~c.joined \/ c.requested = published THEN c
  ELSE LET s == c.sockets[c.sig]
           subs == (s.subs \cup (published \ c.requested)) \ (c.requested \ published)
       IN [c EXCEPT !.requested = published, !.rev = @ + 1,
                    !.sockets[c.sig] = IF c.rev + 1 =< s.applied THEN s
                                       ELSE [s EXCEPT !.applied = c.rev + 1, !.subs = subs]]

(***************************************************************************)
(* Teardown and the reconnect loop.                                        *)
(***************************************************************************)
LoopGoesOn(c) == c.reconnecting

\* The promise of the attempt c.attempt settles while its loop still waits
\* for a late offer.
Settled(c, how) ==
  [c EXCEPT !.flows = {IF f.at = "late" /\ f.kind = "loop" /\ f.sock = c.attempt
                       THEN [f EXCEPT !.done = how] ELSE f : f \in @}]

\* A loop in its backoff wakes up to find that nobody is reconnecting.  One
\* that waits for its attempt fails with it and ends; if the attempt was its
\* last it tears down again, which changes nothing any more.
Teardown(c) ==
  LET d == [CloseRtc(Close(Settled(c, "fail"), c.sig)) EXCEPT
              !.phase = "closed", !.sig = 0, !.joined = FALSE, !.joinSent = FALSE,
              !.requested = {}, !.rev = 0, !.reconnecting = FALSE, !.rejoin = FALSE,
              !.attempt = 0, !.torn = FALSE]
  IN [d EXCEPT !.flows = {f \in @ : /\ f.at = "backoff" => LoopGoesOn(d)
                                    /\ ~(f.at = "done" /\ f.sock = c.attempt)}]

\* Fault: the socket that is given up is not closed.
BeginReconnectLeavesOpen(c) ==
  IF c.reconnecting \/ ~c.joined THEN c
  ELSE [c EXCEPT !.reconnecting = TRUE, !.rejoin = TRUE, !.sig = 0,
                 !.flows = @ \cup {[Waiting EXCEPT !.kind = "loop", !.at = "backoff", !.n = 1]}]

BeginReconnect(c) ==
  IF c.reconnecting \/ ~c.joined THEN c
  ELSE [Close(c, c.sig) EXCEPT
          !.reconnecting = TRUE, !.rejoin = TRUE, !.sig = 0,
          !.flows = @ \cup {[Waiting EXCEPT !.kind = "loop", !.at = "backoff", !.n = 1]}]

\* The attempt of the loop f threw.
Fails(c, f) ==
  CASE f.n = Attempts -> Teardown(Without(c, f))
    [] f.n < Attempts /\ ~LoopGoesOn(c) -> Without(c, f)
    [] OTHER -> Move(c, f, [Waiting EXCEPT !.kind = "loop", !.at = "backoff", !.n = f.n + 1])

\* Fault: an answer is taken for success, the socket not looked at again.
SettleTrustsAnswer(c, f, ok) ==
  LET d == [c EXCEPT !.attempt = 0]
  IN IF ok THEN [Without(d, f) EXCEPT !.reconnecting = FALSE] ELSE Fails(d, f)

\* The attempt of the loop f came to its end.
Settle(c, f, ok) ==
  LET d == [c EXCEPT !.attempt = 0]
  IN IF ok /\ IsOpen(d, d.sig) THEN [Without(d, f) EXCEPT !.reconnecting = FALSE]
     ELSE Fails(d, f)

\* Fault: only a socket that was replaced counts as lost, not a missing one.
SocketLostIfReplaced(c, f) == c.sig \notin {0, f.sock}

SocketLost(c, f) == c.sig # f.sock \/ ~IsOpen(c, f.sock)

\* The race between the offer and the grace period is decided: for join(),
JoinGoesOn(c, f, late) ==
  LET d == SendJoin(c, c.sig)
  IN CASE c.sig = 0 -> Without(c, f)
       [] c.sig # 0 /\ late -> Move(d, f, [f EXCEPT !.at = "late"])
       [] OTHER -> Without(d, f)

\* and for an attempt of the loop.
AttemptGoesOn(c, f, late) ==
  IF SocketLost(c, f) THEN Fails(c, f)
  ELSE LET g == IF late THEN [f EXCEPT !.at = "late"] ELSE [f EXCEPT !.at = "done", !.offer = "made"]
       IN Move([SendJoin(c, f.sock) EXCEPT !.attempt = f.sock], f, [g EXCEPT !.done = "pending"])

Proceed(c, f, late) ==
  IF f.kind = "join" THEN JoinGoesOn(c, f, late) ELSE AttemptGoesOn(c, f, late)

\* A late offer is there, or its making failed (~made).
Late(c, f, made) ==
  LET d == IF made THEN Send(c, IF f.kind = "join" THEN c.sig ELSE f.sock, "other") ELSE c
  IN CASE f.kind = "join" -> Without(d, f)
       [] f.kind = "loop" /\ f.done = "pending" -> Move(d, f, [f EXCEPT !.at = "done", !.offer = "made"])
       [] OTHER -> Settle(d, f, f.done = "ok")

(***************************************************************************)
(* What the user does.                                                     *)
(***************************************************************************)
\* Bound: the next call starts when no continuation of the last one waits.
UserJoins ==
  /\ client.phase \in {"idle", "closed"}
  /\ client.flows = {}
  /\ client' = [client EXCEPT !.phase = "media", !.flows = {Waiting}]
  /\ UNCHANGED tracks

\* The call screen, and its way out, are there while phase is "joined",
\* which it stays through a reconnect.
UserLeaves ==
  /\ client.phase = "joined"
  /\ client' = Teardown(client)
  /\ UNCHANGED tracks

\* A toggle, a chat message, a screen share, an answer: sent over whatever
\* socket the session has.
FrameSent ==
  /\ client.phase = "joined"
  /\ client' = Send(client, client.sig, "other")
  /\ UNCHANGED tracks

\* The peer connections gathered candidates.  Those of the connection made
\* for this socket are told from those of one that is still to be replaced.
Candidates ==
  /\ client.rtc
  /\ client' = IF ~client.joinSent THEN client
               ELSE Send(client, client.sig,
                         IF IsOpen(client, client.sig) THEN "candidates" ELSE "other")
  /\ UNCHANGED tracks

(***************************************************************************)
(* Continuations.                                                          *)
(***************************************************************************)
\* The camera is there, or is not: connect, and begin to make an offer.
MediaReady(f) ==
  /\ f.at = "media"
  /\ Free(client) # {}
  /\ client' = LET c == Connect(client)
               IN Move([c EXCEPT !.phase = "connecting", !.rtc = TRUE], f,
                       [f EXCEPT !.at = "open", !.sock = c.sig, !.offer = "pending", !.live = TRUE])
  /\ UNCHANGED tracks

\* The timer, the Retry button or a visible tab ends the backoff.
BackoffOver(f) ==
  /\ f.at = "backoff"
  /\ Free(client) # {}
  /\ client' = IF ~LoopGoesOn(client) THEN Without(client, f)
               ELSE LET c == Connect(client) IN Move(c, f, [f EXCEPT !.at = "open", !.sock = c.sig])
  /\ UNCHANGED tracks

GraceOver(f) ==
  /\ f.at = "offer"
  /\ client' = Proceed(client, f, TRUE)
  /\ UNCHANGED tracks

\* The offer is made, or cannot be made.  In time for the join the two are
\* the same to the session.
OfferReady(f) ==
  /\ f.offer = "pending"
  /\ \/ f.at = "open" /\ client' = Move(client, f, [f EXCEPT !.offer = "made"])
     \/ f.at = "offer" /\ client' = Proceed(client, f, FALSE)
     \/ f.at = "late" /\ \E made \in BOOLEAN : client' = Late(client, f, made)
  /\ UNCHANGED tracks

(***************************************************************************)
(* Events of sockets and peer connections.                                 *)
(***************************************************************************)
\* The outbox goes first, then whoever waited for the socket.
JoinOpen(c, f) ==
  LET d == [c EXCEPT !.phase = "joining"]
  IN IF f.offer = "made" THEN Proceed(d, f, FALSE) ELSE Move(d, f, [f EXCEPT !.at = "offer"])

\* Fault: candidates of the new connection are not held back.
LoopOpenHoldsNothing(c, f) ==
  Move([CloseRtc(c) EXCEPT !.rtc = TRUE], f,
       [f EXCEPT !.at = "offer", !.offer = "pending", !.live = TRUE])

LoopOpen(c, f) ==
  Move([CloseRtc(c) EXCEPT !.rtc = TRUE, !.joinSent = FALSE], f,
       [f EXCEPT !.at = "offer", !.offer = "pending", !.live = TRUE])

SocketOpens(i) ==
  /\ client.sockets[i].st = "connecting"
  /\ client' = LET c == [client EXCEPT !.sockets[i].st = "open"]
                   f == CHOOSE f \in c.flows : f.at = "open" /\ f.sock = i
               IN IF f.kind = "join" THEN JoinOpen(c, f) ELSE LoopOpen(c, f)
  /\ UNCHANGED tracks

\* handleSocketClose, for the session's own socket.
OwnSocketClosed(c) ==
  LET torn == \E f \in c.flows : f.kind = "loop" /\ f.at = "late" /\ f.done = "ok"
      d == [Settled(c, "fail") EXCEPT !.sig = 0, !.attempt = 0, !.torn = @ \/ torn]
  IN CASE d.reconnecting -> d
       [] ~d.reconnecting /\ d.joined -> BeginReconnect(d)
       [] ~d.reconnecting /\ ~d.joined /\ d.phase \notin {"closed", "idle"} -> Teardown(d)
       [] OTHER -> d

\* Then waitOpen rejects, or the attempt that waited for its answer fails.
Closed(c, i) ==
  LET own == c.sig = i
      d == [c EXCEPT !.sockets[i] = NoSocket]
      e == IF own THEN OwnSocketClosed(d) ELSE d
      hit == {f \in e.flows : \/ f.at = "open" /\ f.sock = i
                              \/ f.at = "done" /\ own /\ f.sock = c.attempt}
      f == CHOOSE f \in hit : TRUE
  IN CASE hit = {} -> e
       [] hit # {} /\ f.kind = "join" -> Teardown(Without(e, f))
       [] hit # {} /\ f.kind = "loop" /\ f.at = "open" -> Fails(e, f)
       [] OTHER -> Settle(e, f, FALSE)

\* A socket that is connecting or closing comes to its end ...
SocketEnds(i) ==
  /\ client.sockets[i].st \in {"connecting", "closing"}
  /\ client' = Closed(client, i)
  /\ UNCHANGED tracks
\* ... and an open one may be lost.
SocketDies(i) ==
  /\ client.sockets[i].st = "open"
  /\ client' = Closed(client, i)
  /\ UNCHANGED tracks

IceFails ==
  /\ client.rtc /\ client.joined /\ ~client.reconnecting
  /\ client' = BeginReconnect(client)
  /\ UNCHANGED tracks

(***************************************************************************)
(* What the server says.                                                   *)
(***************************************************************************)
\* The first answer to a rejoin voids what was bound to the last session.
Reset(c) ==
  IF c.rejoin THEN [c EXCEPT !.rejoin = FALSE, !.requested = {}, !.rev = 0, !.torn = FALSE] ELSE c

JoinAnswered(i) ==
  /\ IsOpen(client, i) /\ ~client.sockets[i].in
  /\ client.sockets[i].first = "join"
  /\ client' = LET c == [Reset(client) EXCEPT !.joined = TRUE, !.phase = "joined",
                                              !.sockets[i].in = TRUE]
                   d == Subscribe(Send(c, c.sig, "other"), tracks)
                   attempts == {f \in d.flows : f.at = "done" /\ f.sock = d.attempt}
               IN IF attempts # {} THEN Settle(d, CHOOSE f \in attempts : TRUE, TRUE)
                  ELSE [Settled(d, "ok") EXCEPT !.attempt = 0]
  /\ UNCHANGED tracks

\* A refusal of the join, of a first frame that is no join, of a second
\* join; a kick; the end of the room.
Disconnected(i) ==
  /\ IsOpen(client, i)
  /\ client' = Teardown(client)
  /\ UNCHANGED tracks

\* The room's tracks change; who is in the room is told.
RoomChanges ==
  /\ client.rev < MaxRevision
  /\ \E now \in (SUBSET Tracks) \ {tracks} :
       /\ tracks' = now
       /\ client' = IF IsOpen(client, client.sig) /\ client.sockets[client.sig].in
                    THEN Subscribe(client, now) ELSE client

(***************************************************************************)
(* The specification.                                                      *)
(***************************************************************************)
\* The server answers whatever a session's first frame is.
Answer(i) == /\ client.sockets[i].first # "none" /\ ~client.sockets[i].in
             /\ JoinAnswered(i) \/ Disconnected(i)

SessionNext ==
  \/ UserJoins
  \/ UserLeaves
  \/ FrameSent
  \/ Candidates
  \/ IceFails
  \/ RoomChanges
  \/ \E f \in client.flows : MediaReady(f) \/ BackoffOver(f) \/ GraceOver(f) \/ OfferReady(f)
  \/ \E i \in Sockets : \/ SocketOpens(i) \/ SocketEnds(i) \/ SocketDies(i)
                        \/ JoinAnswered(i) \/ Disconnected(i)

\* Timers run out, sockets stop connecting and closing, offers of live peer
\* connections are made, and the server answers.
SessionFairness ==
  /\ WF_vars(\E f \in client.flows : BackoffOver(f))
  /\ WF_vars(\E f \in client.flows : GraceOver(f))
  /\ WF_vars(\E f \in client.flows : f.live /\ OfferReady(f))
  /\ \A i \in Sockets : WF_vars(SocketOpens(i) \/ SocketEnds(i)) /\ WF_vars(Answer(i))

SessionSpec == SessionInit /\ [][SessionNext]_vars /\ SessionFairness

(***************************************************************************)
(* Properties.                                                             *)
(***************************************************************************)
\* However attempts follow each other, the session holds no connection besides
\* its own, for a second one would leave a ghost of the user in the room; and
\* after the end of a call it holds none, nor a peer connection, whatever
\* continuation was still waiting (beginReconnect, reconnectLoop, teardown).
NoGhosts ==
  /\ \A i \in Sockets : client.sockets[i].st \in {"connecting", "open"} => client.sig = i
  /\ client.phase = "closed" =>
       client.sig = 0 /\ ~client.joined /\ ~client.reconnecting /\ ~client.rtc

\* Whoever is in a call and not shown as reconnecting has a socket that the
\* server has let in: the loop never declares victory over a dead one (the
\* check after reconnectOnce), and no loss goes unnoticed.  And as soon as a
\* connection is let in it is subscribed to every track of the others, since
\* its server session starts from nothing (handleJoinResponse).  Excepted is
\* the attempt after a rejoin that was torn: rejoinPending is spent by then,
\* and the requests of the lost session pass for its own.
CallsAreServed ==
  LET served == IsOpen(client, client.sig) /\ client.sockets[client.sig].in
  IN /\ client.joined /\ ~client.reconnecting => served
     /\ served /\ ~client.torn => client.sockets[client.sig].subs = tracks

\* "Candidates the new PC produces before join must not hit the wire first"
\* (the comment in reconnectOnce): they go out behind the join of their
\* connection, in a first call, in a later one and in every attempt.
CandidatesWait ==
  \A i \in Sockets : IsOpen(client, i) => client.sockets[i].first # "candidates"

\* Connecting and reconnecting come to an end, in a call or outside of it: no
\* attempt waits for an answer that nobody will give it (reconnectOnce,
\* handleSocketClose).
Settles ==
  /\ client.reconnecting ~> ~client.reconnecting
  /\ client.phase \in {"connecting", "joining"} ~> client.phase \in {"joined", "closed"}
=============================================================================
