------------------------ MODULE ClientSessionProofs ------------------------
(***************************************************************************)
(* Proofs about the client's session, for any number of sockets, tracks    *)
(* and reconnect attempts.                                                 *)
(*                                                                         *)
(* What goes wrong in such code is that a continuation wakes up in a world *)
(* it was not made for.  The inductive invariant says of each place where  *)
(* one can wait what the session looks like then: beside joins that have   *)
(* nothing left to do but to make a late offer there is one continuation   *)
(* at most, a join that is not sent yet or the loop, and whoever waits for *)
(* an answer waits for the session's own socket.                           *)
(***************************************************************************)
EXTENDS ClientSession, FiniteSetTheorems, WellFoundedInduction, TLAPS

Places == {"media", "backoff", "open", "offer", "late", "done"}
Frames == {"none", "join", "other", "candidates"}

SocketType == [st: {"none", "connecting", "open", "closing"}, first: Frames,
               in: BOOLEAN, applied: Nat, subs: SUBSET Tracks]

FlowType == [kind: {"join", "loop"}, at: Places, sock: Sockets \cup {0},
             offer: {"none", "pending", "made"}, live: BOOLEAN,
             done: {"none", "pending", "ok", "fail"}, n: 0 .. Attempts]

ClientType == [phase: {"idle", "media", "connecting", "joining", "joined", "closed"},
               sig: Sockets \cup {0}, sockets: [Sockets -> SocketType], rtc: BOOLEAN,
               joined: BOOLEAN, joinSent: BOOLEAN, reconnecting: BOOLEAN, rejoin: BOOLEAN,
               attempt: Sockets \cup {0}, requested: SUBSET Tracks, rev: Nat,
               flows: SUBSET FlowType, torn: BOOLEAN]

-----------------------------------------------------------------------------
(* The inductive invariant, of a client c *)

\* Every socket that is not closed is the session's own.
Exclusive(c) == \A i \in Sockets : c.sockets[i].st \in {"connecting", "open"} => c.sig = i

CleanSockets(c) ==
  \A i \in Sockets :
    /\ c.sockets[i].st # "open" => ~c.sockets[i].in
    /\ ~c.sockets[i].in => c.sockets[i].applied = 0 /\ c.sockets[i].subs = {}
    /\ c.sockets[i].first # "candidates"

\* The session's socket is there.
OwnIsUp(c) ==
  c.sig # 0 => /\ c.sockets[c.sig].st \in {"connecting", "open"}
               /\ c.joinSent /\ c.sockets[c.sig].st = "open" => c.sockets[c.sig].first # "none"

\* What the phase of the call says of the session.
PhaseIsTrue(c) ==
  /\ c.phase = "joined" <=> c.joined
  /\ ~c.joined => ~c.reconnecting /\ c.requested = {} /\ c.rev = 0 /\ ~c.rejoin /\ ~c.torn
  /\ c.phase \in {"idle", "media", "closed"} => c.sig = 0 /\ ~c.rtc /\ ~c.joinSent

IsIn(c) == c.sig # 0 /\ c.sockets[c.sig].in

\* Who is in is in a call, who is in a call is in, and what is requested is
\* what the server has, unless a rejoin was torn.
Served(c, now) ==
  /\ IsIn(c) => c.joined
  /\ c.joined /\ ~c.reconnecting => IsIn(c)
  /\ ~IsIn(c) /\ ~c.torn => c.rejoin \/ (c.requested = {} /\ c.rev = 0)
  /\ IsIn(c) /\ ~c.torn => /\ c.requested = now /\ c.sockets[c.sig].subs = now
                           /\ c.sockets[c.sig].applied = c.rev

\* A join that went out, or never will.
Spent(f) == f.kind = "join" /\ f.at = "late"

\* The only continuation that is not spent.
Only(c, f) == \A g \in c.flows : g = f \/ Spent(g)

\* A join before it is sent.
JoinWaits(c, f) ==
  /\ f.kind = "join" /\ f.at \in {"media", "open", "offer"}
  /\ ~c.joined /\ ~c.joinSent
  /\ f.at = "media" => c.phase = "media"
  /\ f.at = "open" => /\ c.phase = "connecting" /\ c.sig = f.sock /\ c.sig # 0
                      /\ c.sockets[c.sig].st = "connecting"
                      /\ c.sockets[c.sig].first # "join"
  /\ f.at = "offer" =>
       \/ c.phase = "closed"
       \/ /\ c.phase = "joining" /\ c.sig = f.sock /\ c.sig # 0
          /\ c.sockets[c.sig].st = "open" /\ c.sockets[c.sig].first # "join"

\* The loop waits for the session's socket, or for nothing that comes.
LoopWaits(c, f) ==
  /\ f.kind = "loop" /\ f.at \in {"backoff", "open", "offer", "late", "done"}
  /\ c.reconnecting \/ (c.phase = "closed" /\ f.at \notin {"backoff", "done"})
  /\ c.sig \in {0, f.sock}
  /\ f.at \in {"backoff", "open"} => f.offer = "none" /\ ~f.live
  /\ f.at = "backoff" => c.sig = 0
  /\ f.at # "backoff" => f.sock # 0
  /\ f.at = "open" /\ c.reconnecting => c.sig # 0 /\ c.sockets[c.sig].st = "connecting"
  /\ f.at = "offer" => ~c.joinSent
  /\ f.at \in {"open", "offer"} /\ c.sig # 0 =>
       c.sockets[c.sig].first # "join" /\ ~c.sockets[c.sig].in
  /\ f.at \in {"offer", "late", "done"} /\ c.sig # 0 => c.sockets[c.sig].st = "open"
  /\ f.at = "late" => f.done \in {"pending", "ok", "fail"}
  /\ f.at = "done" \/ (f.at = "late" /\ f.done = "pending") =>
       c.sig # 0 /\ c.attempt = f.sock /\ ~c.sockets[c.sig].in
  /\ f.at = "late" /\ f.done = "ok" /\ c.sig # 0 => c.sockets[c.sig].in
  /\ f.at = "late" /\ f.done = "fail" => c.sig = 0

FlowsFit(c) ==
  /\ \A f \in c.flows : Spent(f) \/ (Only(c, f) /\ (JoinWaits(c, f) \/ LoopWaits(c, f)))
  /\ c.reconnecting => \E f \in c.flows : f.kind = "loop"
  /\ c.sig # 0 /\ c.sockets[c.sig].st = "connecting" =>
       \E f \in c.flows : f.at = "open" /\ f.sock = c.sig

\* All but the continuations.
Sound(c, now) == /\ Exclusive(c) /\ CleanSockets(c) /\ OwnIsUp(c)
                 /\ PhaseIsTrue(c) /\ Served(c, now)

Fits(c, now) == Sound(c, now) /\ FlowsFit(c)

SessionInv == client \in ClientType /\ tracks \in SUBSET Tracks /\ Fits(client, tracks)

-----------------------------------------------------------------------------
(* Sockets *)

\* d is c but for its sockets.
Kept(c, d) ==
  /\ d.phase = c.phase /\ d.sig = c.sig /\ d.rtc = c.rtc /\ d.joined = c.joined
  /\ d.joinSent = c.joinSent /\ d.reconnecting = c.reconnecting /\ d.rejoin = c.rejoin
  /\ d.attempt = c.attempt /\ d.requested = c.requested /\ d.rev = c.rev
  /\ d.flows = c.flows /\ d.torn = c.torn

\* A socket after a frame was handed to it, or to another.
Handed(s, t, f) ==
  /\ t.st = s.st /\ t.in = s.in /\ t.applied = s.applied /\ t.subs = s.subs
  /\ t.first = s.first \/ (s.first = "none" /\ t.first = f)

LEMMA SendFields ==
  ASSUME NEW c \in ClientType, NEW i \in Sockets \cup {0}, NEW f \in Frames \ {"none"}
  PROVE  LET d == Send(c, i, f)
         IN  /\ d \in ClientType /\ Kept(c, d)
             /\ \A j \in Sockets : Handed(c.sockets[j], d.sockets[j], f)
             /\ \A j \in Sockets : j # i => d.sockets[j] = c.sockets[j]
             /\ i # 0 /\ c.sockets[i].st \in {"connecting", "open"} => d.sockets[i].first # "none"
             /\ c.sockets[i].first # "none" => d = c
<1> DEFINE d == Send(c, i, f)
           hears == (IsOpen(c, i) \/ IsConnecting(c, i)) /\ c.sockets[i].first = "none"
<1>1. CASE ~hears
  <2>1. d = c
    BY <1>1 DEF Send
  <2> QED
    BY <1>1, <2>1 DEF IsOpen, IsConnecting, Kept, Handed
<1>2. CASE hears
  <2>1. i \in Sockets /\ c.sockets \in [Sockets -> SocketType] /\ c.sockets[i] \in SocketType
    BY <1>2, SocketsAssumption DEF IsOpen, IsConnecting, ClientType
  <2>2. d = [c EXCEPT !.sockets = [c.sockets EXCEPT ![i] = [c.sockets[i] EXCEPT !.first = f]]]
    BY <1>2 DEF Send
  <2> HIDE DEF d
  <2>3. [c.sockets[i] EXCEPT !.first = f] \in SocketType
    BY <2>1 DEF SocketType
  <2>4. d \in ClientType /\ Kept(c, d)
        /\ d.sockets = [c.sockets EXCEPT ![i] = [c.sockets[i] EXCEPT !.first = f]]
    BY <2>1, <2>2, <2>3 DEF ClientType, Kept
  <2>5. Handed(c.sockets[i], [c.sockets[i] EXCEPT !.first = f], f)
        /\ [c.sockets[i] EXCEPT !.first = f].first = f
    BY <1>2, <2>1 DEF SocketType, Handed
  <2>6. ASSUME NEW j \in Sockets PROVE Handed(c.sockets[j], d.sockets[j], f)
    BY <2>1, <2>4, <2>5 DEF Handed
  <2>7. d.sockets[i].first = f /\ \A j \in Sockets : j # i => d.sockets[j] = c.sockets[j]
    BY <2>1, <2>4, <2>5
  <2> QED
    BY <1>2, <2>4, <2>6, <2>7 DEF d
<1> QED
  BY <1>1, <1>2

\* What is given up is closing.
LEMMA CloseFields ==
  ASSUME NEW c \in ClientType, NEW i \in Sockets \cup {0}
  PROVE  LET d == Close(c, i)
         IN  /\ d \in ClientType /\ Kept(c, d)
             /\ \A j \in Sockets : j # i => d.sockets[j] = c.sockets[j]
             /\ i # 0 => d.sockets[i] = [NoSocket EXCEPT !.st = "closing"]
<1> DEFINE gone == [NoSocket EXCEPT !.st = "closing"]
<1>1. gone \in SocketType
  BY DEF NoSocket, SocketType, Frames
<1>2. CASE i = 0
  BY <1>2 DEF Close, Kept
<1>3. CASE i # 0
  <2>1. Close(c, i) = [c EXCEPT !.sockets = [c.sockets EXCEPT ![i] = gone]]
    BY <1>3 DEF Close
  <2> HIDE DEF gone
  <2>2. i \in Sockets /\ c.sockets \in [Sockets -> SocketType]
    BY <1>3 DEF ClientType
  <2>3. Close(c, i) \in ClientType /\ Kept(c, Close(c, i))
        /\ Close(c, i).sockets = [c.sockets EXCEPT ![i] = gone]
    BY <1>1, <2>1, <2>2 DEF ClientType, Kept
  <2> QED
    BY <1>3, <2>2, <2>3 DEF gone
<1> QED
  BY <1>2, <1>3

LEMMA LeastNatural ==
  ASSUME NEW S \in SUBSET Nat, S # {}
  PROVE  \E m \in S : \A n \in S : m <= n
<1> DEFINE Below == {0 .. n : n \in S}
           R == StrictSubsetOrdering(Nat)
<1>1. IsWellFoundedOn(R, FiniteSubsetsOf(Nat))
  BY FS_StrictSubsetOrderingWellFounded
<1>2. Below \subseteq FiniteSubsetsOf(Nat) /\ Below # {}
  <2>1. ASSUME NEW n \in S PROVE IsFiniteSet(0 .. n) /\ 0 .. n \in SUBSET Nat
    BY FS_Interval
  <2> QED
    BY <2>1 DEF FiniteSubsetsOf
<1>3. PICK x \in Below : \A y \in Below : ~(<<y, x>> \in R)
  <2> HIDE DEF Below, R
  <2> QED
    BY <1>1, <1>2, WFMin
<1>4. PICK m \in S : x = 0 .. m
  BY <1>3
<1>5. ASSUME NEW n \in S, n < m PROVE FALSE
  <2>1. <<0 .. n, 0 .. m>> \in R
    BY <1>5 DEF StrictSubsetOrdering
  <2> QED
    BY <1>3, <1>4, <2>1
<1> QED
  BY <1>5

\* A new socket takes a free place.
LEMMA ConnectFields ==
  ASSUME NEW c \in ClientType, Free(c) # {}
  PROVE  LET d == Connect(c)
         IN  /\ d.sig \in Free(c) /\ d.sig # 0
             /\ d = [c EXCEPT !.sig = d.sig,
                              !.sockets = [c.sockets EXCEPT ![d.sig] =
                                             [NoSocket EXCEPT !.st = "connecting"]]]
<1> DEFINE i == CHOOSE i \in Free(c) : \A j \in Free(c) : i =< j
<1>1. Free(c) \in SUBSET Nat /\ 0 \notin Free(c) /\ Free(c) \subseteq Sockets
  BY SocketsAssumption DEF Free
<1>2. \E j \in Free(c) : \A n \in Free(c) : j =< n
  BY <1>1, LeastNatural
<1>3. i \in Free(c)
  BY <1>2
<1>4. Connect(c) = [c EXCEPT !.sig = i, !.sockets[i].st = "connecting"]
  BY DEF Connect
<1> HIDE DEF i
<1>5. i # 0 /\ i \in Sockets /\ c.sockets[i] = NoSocket /\ c.sockets \in [Sockets -> SocketType]
  BY <1>1, <1>3 DEF Free, ClientType
<1>6. Connect(c) = [c EXCEPT !.sig = i, !.sockets = [c.sockets EXCEPT ![i] =
                                             [NoSocket EXCEPT !.st = "connecting"]]]
  BY <1>4, <1>5 DEF ClientType
<1>7. Connect(c).sig = i
  BY <1>6 DEF ClientType
<1> QED
  BY <1>3, <1>5, <1>6, <1>7

-----------------------------------------------------------------------------
(* Continuations *)

\* What f becomes when the promise of its attempt settles, and when the call
\* is torn down around it.
Told(c, how, f) ==
  IF f.at = "late" /\ f.kind = "loop" /\ f.sock = c.attempt THEN [f EXCEPT !.done = how] ELSE f

Aged(c, f) == [Told(c, "fail", f) EXCEPT !.live = FALSE]

LEMMA ToldFields ==
  ASSUME NEW c \in ClientType, NEW how \in {"ok", "fail"}, NEW f \in FlowType
  PROVE  LET g == Told(c, how, f)
         IN  /\ g \in FlowType /\ g.kind = f.kind /\ g.at = f.at /\ g.sock = f.sock
             /\ g.offer = f.offer /\ g.live = f.live /\ g.n = f.n
             /\ g.done = IF f.at = "late" /\ f.kind = "loop" /\ f.sock = c.attempt
                         THEN how ELSE f.done
BY DEF Told, FlowType

LEMMA AgedFields ==
  ASSUME NEW c \in ClientType, NEW f \in FlowType
  PROVE  LET g == Aged(c, f)
         IN  /\ g \in FlowType /\ g.kind = f.kind /\ g.at = f.at /\ g.sock = f.sock
             /\ g.offer = f.offer /\ ~g.live /\ g.n = f.n
             /\ g.done = IF f.at = "late" /\ f.kind = "loop" /\ f.sock = c.attempt
                         THEN "fail" ELSE f.done
<1> DEFINE t == Told(c, "fail", f)
<1>1. /\ t \in FlowType /\ t.kind = f.kind /\ t.at = f.at /\ t.sock = f.sock
      /\ t.offer = f.offer /\ t.live = f.live /\ t.n = f.n
      /\ t.done = IF f.at = "late" /\ f.kind = "loop" /\ f.sock = c.attempt
                  THEN "fail" ELSE f.done
  BY ToldFields
<1>2. Aged(c, f) = [t EXCEPT !.live = FALSE]
  BY DEF Aged
<1> HIDE DEF t
<1> QED
  BY <1>1, <1>2 DEF FlowType

LEMMA SettledFields ==
  ASSUME NEW c \in ClientType, NEW how \in {"ok", "fail"}
  PROVE  LET d == Settled(c, how)
         IN  /\ d \in ClientType
             /\ d = [c EXCEPT !.flows = d.flows]
             /\ d.flows = {Told(c, how, f) : f \in c.flows}
<1> DEFINE told == {Told(c, how, f) : f \in c.flows}
<1>1. told \in SUBSET FlowType
  BY ToldFields DEF ClientType
<1>2. Settled(c, how) = [c EXCEPT !.flows = told]
  BY DEF Settled, Told
<1> HIDE DEF told
<1>3. Settled(c, how) \in ClientType /\ Settled(c, how).flows = told
  BY <1>1, <1>2 DEF ClientType
<1> QED
  BY <1>2, <1>3 DEF told

-----------------------------------------------------------------------------
(* The end of a call *)

LEMMA TeardownFields ==
  ASSUME NEW c \in ClientType
  PROVE  LET d == Teardown(c)
         IN  /\ d \in ClientType /\ d.phase = "closed" /\ d.sig = 0 /\ ~d.rtc /\ ~d.joined
             /\ ~d.joinSent /\ ~d.reconnecting /\ ~d.rejoin /\ d.attempt = 0
             /\ d.requested = {} /\ d.rev = 0 /\ ~d.torn
             /\ \A j \in Sockets : j # c.sig => d.sockets[j] = c.sockets[j]
             /\ c.sig # 0 => d.sockets[c.sig] = [NoSocket EXCEPT !.st = "closing"]
             /\ \A g \in d.flows : /\ g.at # "backoff" /\ ~(g.at = "done" /\ g.sock = c.attempt)
                                   /\ \E f \in c.flows : g = Aged(c, f)
             /\ \A f \in c.flows : f.at = "open" => Aged(c, f) \in d.flows
<1> DEFINE s == Settled(c, "fail")
           cl == Close(s, c.sig)
           aged == {Aged(c, f) : f \in c.flows}
           d == [CloseRtc(cl) EXCEPT
              !.phase = "closed", !.sig = 0, !.joined = FALSE, !.joinSent = FALSE,
              !.requested = {}, !.rev = 0, !.reconnecting = FALSE, !.rejoin = FALSE,
              !.attempt = 0, !.torn = FALSE]
           left == {f \in d.flows : /\ f.at = "backoff" => LoopGoesOn(d)
                                    /\ ~(f.at = "done" /\ f.sock = c.attempt)}
<1>1. /\ s \in ClientType /\ s = [c EXCEPT !.flows = s.flows]
      /\ s.flows = {Told(c, "fail", f) : f \in c.flows}
  BY SettledFields
<1>2. Teardown(c) = [d EXCEPT !.flows = left]
  BY DEF Teardown
<1> HIDE DEF s
<1>3. c.sig \in Sockets \cup {0} /\ s.sockets = c.sockets /\ s.sig = c.sig
  BY <1>1 DEF ClientType
<1>4. /\ cl \in ClientType /\ Kept(s, cl)
      /\ \A j \in Sockets : j # c.sig => cl.sockets[j] = s.sockets[j]
      /\ c.sig # 0 => cl.sockets[c.sig] = [NoSocket EXCEPT !.st = "closing"]
  BY <1>1, <1>3, CloseFields
<1> HIDE DEF cl
<1>5. {[f EXCEPT !.live = FALSE] : f \in cl.flows} = aged
  BY <1>1, <1>4 DEF Kept, Aged
<1>6. aged \in SUBSET FlowType
  BY AgedFields DEF ClientType
<1>7. CloseRtc(cl) = [cl EXCEPT !.rtc = FALSE, !.flows = aged]
  BY <1>5 DEF CloseRtc
<1> HIDE DEF aged
<1>8. /\ d \in ClientType /\ d.phase = "closed" /\ d.sig = 0 /\ ~d.rtc /\ ~d.joined
      /\ ~d.joinSent /\ ~d.reconnecting /\ ~d.rejoin /\ d.attempt = 0
      /\ d.requested = {} /\ d.rev = 0 /\ ~d.torn /\ d.sockets = cl.sockets /\ d.flows = aged
  <2> DEFINE rt == CloseRtc(cl)
  <2>1. rt \in ClientType /\ ~rt.rtc /\ rt.sockets = cl.sockets /\ rt.flows = aged
    BY <1>4, <1>6, <1>7 DEF ClientType
  <2>2. d = [rt EXCEPT !.phase = "closed", !.sig = 0, !.joined = FALSE, !.joinSent = FALSE,
                       !.requested = {}, !.rev = 0, !.reconnecting = FALSE, !.rejoin = FALSE,
                       !.attempt = 0, !.torn = FALSE]
    OBVIOUS
  <2> HIDE DEF rt, d
  <2>3. d \in ClientType
    BY <2>1, <2>2 DEF ClientType
  <2>4. /\ d.phase = "closed" /\ d.sig = 0 /\ ~d.rtc /\ ~d.joined
        /\ ~d.joinSent /\ ~d.reconnecting /\ ~d.rejoin /\ d.attempt = 0
    BY <2>1, <2>2 DEF ClientType
  <2>5. d.requested = {} /\ d.rev = 0 /\ ~d.torn /\ d.sockets = cl.sockets /\ d.flows = aged
    BY <2>1, <2>2 DEF ClientType
  <2> QED
    BY <2>3, <2>4, <2>5
<1> HIDE DEF d
<1>9. left \subseteq aged
      /\ \A g \in left : g.at # "backoff" /\ ~(g.at = "done" /\ g.sock = c.attempt)
  BY <1>8 DEF LoopGoesOn
<1>10. ASSUME NEW f \in c.flows, f.at = "open" PROVE Aged(c, f) \in left
  <2>1. Aged(c, f) \in d.flows
    BY <1>8 DEF aged
  <2>2. Aged(c, f).at = "open"
    BY <1>10, AgedFields DEF ClientType
  <2> QED
    BY <2>1, <2>2
<1> HIDE DEF left
<1>11. /\ Teardown(c) \in ClientType /\ Teardown(c).flows = left /\ Teardown(c).sockets = d.sockets
       /\ LET t == Teardown(c)
          IN /\ t.phase = "closed" /\ t.sig = 0 /\ ~t.rtc /\ ~t.joined
             /\ ~t.joinSent /\ ~t.reconnecting /\ ~t.rejoin /\ t.attempt = 0
             /\ t.requested = {} /\ t.rev = 0 /\ ~t.torn
  BY <1>2, <1>6, <1>8, <1>9 DEF ClientType
<1>12. \A g \in left : \E f \in c.flows : g = Aged(c, f)
  BY <1>9 DEF aged
<1> QED
  BY <1>3, <1>4, <1>8, <1>9, <1>10, <1>11, <1>12

\* A continuation that finds the call over.
Ends(c, f) ==
  \/ f.kind = "join" /\ f.at = "offer"
  \/ /\ f.kind = "loop" /\ f.at \in {"backoff", "open", "offer", "late", "done"}
     /\ f.at # "backoff" => f.sock # 0
     /\ f.at \in {"backoff", "open"} => f.offer = "none" /\ ~f.live
     /\ f.at = "late" => f.done \in {"pending", "ok", "fail"}
     /\ f.at = "done" \/ (f.at = "late" /\ f.done = "pending") => f.sock = c.attempt

\* However a call ends, what is left fits: nothing is connected, no attempt is
\* waited for.
LEMMA TornFits ==
  ASSUME NEW c \in ClientType, NEW now, Exclusive(c), CleanSockets(c),
         \A f \in c.flows : Spent(f) \/ (Only(c, f) /\ Ends(c, f))
  PROVE  Teardown(c) \in ClientType /\ Fits(Teardown(c), now)
<1> DEFINE d == Teardown(c)
<1>1. /\ d \in ClientType /\ d.phase = "closed" /\ d.sig = 0 /\ ~d.rtc /\ ~d.joined
      /\ ~d.joinSent /\ ~d.reconnecting /\ ~d.rejoin /\ d.attempt = 0
      /\ d.requested = {} /\ d.rev = 0 /\ ~d.torn
      /\ \A j \in Sockets : j # c.sig => d.sockets[j] = c.sockets[j]
      /\ c.sig # 0 => d.sockets[c.sig] = [NoSocket EXCEPT !.st = "closing"]
      /\ \A g \in d.flows : /\ g.at # "backoff" /\ ~(g.at = "done" /\ g.sock = c.attempt)
                            /\ \E f \in c.flows : g = Aged(c, f)
  BY TeardownFields
<1> HIDE DEF d
<1>2. Exclusive(d)
  BY <1>1 DEF Exclusive, NoSocket
<1>3. CleanSockets(d)
  <2> DEFINE gone == [NoSocket EXCEPT !.st = "closing"]
  <2>1. gone.st = "closing" /\ gone.first = "none" /\ gone.in = FALSE
        /\ gone.applied = 0 /\ gone.subs = {}
    BY DEF NoSocket
  <2> HIDE DEF gone
  <2>2. \A j \in Sockets : d.sockets[j] = c.sockets[j] \/ d.sockets[j] = gone
    BY <1>1, SocketsAssumption DEF gone
  <2> QED
    BY <2>1, <2>2 DEF CleanSockets
<1>4. OwnIsUp(d) /\ PhaseIsTrue(d) /\ Served(d, now)
  BY <1>1 DEF OwnIsUp, PhaseIsTrue, Served, IsIn
<1>5. ASSUME NEW g \in d.flows PROVE Spent(g) \/ (Only(d, g) /\ (JoinWaits(d, g) \/ LoopWaits(d, g)))
  <2>1. PICK f \in c.flows : g = Aged(c, f)
    BY <1>1
  <2>2. f \in FlowType
    BY DEF ClientType
  <2>3. /\ g \in FlowType /\ g.kind = f.kind /\ g.at = f.at /\ g.sock = f.sock
        /\ g.offer = f.offer /\ ~g.live /\ g.n = f.n
        /\ g.done = IF f.at = "late" /\ f.kind = "loop" /\ f.sock = c.attempt
                    THEN "fail" ELSE f.done
    BY <2>1, <2>2, AgedFields
  <2>4. CASE Spent(f)
    BY <2>3, <2>4 DEF Spent
  <2>5. CASE Only(c, f) /\ Ends(c, f)
    <3>1. ASSUME NEW h \in d.flows PROVE h = g \/ Spent(h)
      <4>1. PICK k \in c.flows : h = Aged(c, k)
        BY <1>1
      <4>2. h.kind = k.kind /\ h.at = k.at
        BY <4>1, AgedFields DEF ClientType
      <4> QED
        BY <2>1, <2>5, <4>1, <4>2 DEF Only, Spent
    <3>2. JoinWaits(d, g) \/ LoopWaits(d, g)
      BY <1>1, <2>3, <2>5 DEF Ends, JoinWaits, LoopWaits
    <3> QED
      BY <3>1, <3>2 DEF Only
  <2> QED
    BY <2>4, <2>5
<1> QED
  BY <1>1, <1>2, <1>3, <1>4, <1>5 DEF Fits, Sound, FlowsFit, d

-----------------------------------------------------------------------------
(* The loop *)

LEMMA WithoutFields ==
  ASSUME NEW c \in ClientType, NEW f
  PROVE  LET d == Without(c, f)
         IN  d \in ClientType /\ d.flows = c.flows \ {f} /\ d.sockets = c.sockets /\ d = [c EXCEPT !.flows = d.flows]
BY DEF Without, ClientType

LEMMA MoveFields ==
  ASSUME NEW c \in ClientType, NEW f, NEW g \in FlowType
  PROVE  LET d == Move(c, f, g)
         IN  d \in ClientType /\ d.flows = (c.flows \ {f}) \cup {g} /\ d.sockets = c.sockets /\ d = [c EXCEPT !.flows = d.flows]
BY DEF Move, ClientType

LEMMA SoundFlows ==
  ASSUME NEW c \in ClientType, NEW now, NEW d, d = [c EXCEPT !.flows = d.flows], Sound(c, now)
  PROVE  Sound(d, now)
<1>1. /\ d.phase = c.phase /\ d.sig = c.sig /\ d.rtc = c.rtc /\ d.joined = c.joined
      /\ d.joinSent = c.joinSent /\ d.reconnecting = c.reconnecting /\ d.rejoin = c.rejoin
      /\ d.requested = c.requested /\ d.rev = c.rev /\ d.torn = c.torn /\ d.sockets = c.sockets
  BY DEF ClientType
<1> QED
  BY <1>1 DEF Sound, Exclusive, CleanSockets, OwnIsUp, PhaseIsTrue, Served, IsIn

\* A failed attempt is made again, unless it was the last or the call is over.
LEMMA FailsFits ==
  ASSUME NEW c \in ClientType, NEW now, Sound(c, now), c.sig = 0,
         NEW f \in c.flows, f.kind = "loop", Only(c, f), c.reconnecting \/ c.phase = "closed"
  PROVE  Fails(c, f) \in ClientType /\ Fits(Fails(c, f), now)
<1> DEFINE w == Without(c, f)
<1>1. /\ w \in ClientType /\ w.flows = c.flows \ {f} /\ w.sockets = c.sockets
      /\ w = [c EXCEPT !.flows = w.flows]
  BY WithoutFields
<1>2. f \in FlowType /\ f.n \in 0 .. Attempts
  BY DEF ClientType, FlowType
<1>3. \A g \in w.flows : Spent(g)
  BY <1>1 DEF Only
<1>4. w.sig = c.sig /\ w.reconnecting = c.reconnecting
  BY <1>1 DEF ClientType
<1>5. CASE f.n = Attempts
  <2>1. Exclusive(w) /\ CleanSockets(w)
    BY <1>1, <1>4 DEF Sound, Exclusive, CleanSockets
  <2>2. Fails(c, f) = Teardown(w)
    <3>1. ~(f.n < Attempts)
      BY <1>5, AttemptsAssumption
    <3> QED
      BY <1>5, <3>1 DEF Fails
  <2> HIDE DEF w
  <2> QED
    BY <1>1, <1>3, <2>1, <2>2, TornFits
<1>6. CASE f.n < Attempts /\ ~c.reconnecting
  <2>1. f.n # Attempts
    BY <1>2, <1>6, AttemptsAssumption
  <2>2. Fails(c, f) = w
    BY <1>6, <2>1 DEF Fails, LoopGoesOn
  <2> HIDE DEF w
  <2>3. Sound(w, now)
    BY <1>1, SoundFlows
  <2>4. FlowsFit(w)
    BY <1>3, <1>4, <1>6 DEF FlowsFit
  <2> QED
    BY <1>1, <2>2, <2>3, <2>4 DEF Fits
<1>7. CASE f.n < Attempts /\ c.reconnecting
  <2> DEFINE g == [Waiting EXCEPT !.kind = "loop", !.at = "backoff", !.n = f.n + 1]
             d == Move(c, f, g)
  <2>1. f.n # Attempts /\ f.n + 1 \in 0 .. Attempts
    BY <1>2, <1>7, AttemptsAssumption
  <2>2. Fails(c, f) = d
    BY <1>7, <2>1 DEF Fails, LoopGoesOn
  <2>3. g \in FlowType /\ g.kind = "loop" /\ g.at = "backoff" /\ g.offer = "none" /\ ~g.live
    BY <2>1 DEF FlowType, Waiting, Places
  <2> HIDE DEF g
  <2>4. /\ d \in ClientType /\ d.flows = (c.flows \ {f}) \cup {g} /\ d.sockets = c.sockets
        /\ d = [c EXCEPT !.flows = d.flows]
    BY <2>3, MoveFields
  <2> HIDE DEF d
  <2>5. Sound(d, now) /\ d.sig = 0 /\ d.reconnecting
    BY <1>7, <2>4, SoundFlows DEF ClientType
  <2>6. \A h \in d.flows : h = g \/ Spent(h)
    BY <2>4 DEF Only
  <2>7. LoopWaits(d, g)
    BY <2>3, <2>5 DEF LoopWaits
  <2>8. FlowsFit(d)
    BY <2>3, <2>4, <2>5, <2>6, <2>7 DEF FlowsFit, Only
  <2> QED
    BY <2>2, <2>4, <2>5, <2>8 DEF Fits
<1> QED
  BY <1>2, <1>5, <1>6, <1>7, AttemptsAssumption

\* An attempt that ends leaves a served session, or is made again.
LEMMA SettleFits ==
  ASSUME NEW c \in ClientType, NEW now, NEW ok \in BOOLEAN, Sound(c, now),
         NEW f \in c.flows, f.kind = "loop", Only(c, f), c.reconnecting \/ c.phase = "closed",
         c.sig = 0 \/ (ok /\ IsIn(c))
  PROVE  Settle(c, f, ok) \in ClientType /\ Fits(Settle(c, f, ok), now)
<1> DEFINE d == [c EXCEPT !.attempt = 0]
<1>1. /\ d \in ClientType /\ d.flows = c.flows /\ d.sockets = c.sockets
      /\ d.phase = c.phase /\ d.sig = c.sig /\ d.rtc = c.rtc /\ d.joined = c.joined
      /\ d.joinSent = c.joinSent /\ d.reconnecting = c.reconnecting /\ d.rejoin = c.rejoin
      /\ d.requested = c.requested /\ d.rev = c.rev /\ d.torn = c.torn
  BY DEF ClientType
<1>2. Settle(c, f, ok) = IF ok /\ IsOpen(d, d.sig) THEN [Without(d, f) EXCEPT !.reconnecting = FALSE]
                         ELSE Fails(d, f)
  BY DEF Settle
<1> HIDE DEF d
<1>3. Sound(d, now)
  BY <1>1 DEF Sound, Exclusive, CleanSockets, OwnIsUp, PhaseIsTrue, Served, IsIn
<1>4. Only(d, f) /\ f \in d.flows
  BY <1>1 DEF Only
<1>5. CASE c.sig = 0
  <2>1. Settle(c, f, ok) = Fails(d, f)
    BY <1>1, <1>2, <1>5 DEF IsOpen
  <2> QED
    BY <1>1, <1>3, <1>4, <1>5, <2>1, FailsFits
<1>6. CASE c.sig # 0 /\ ok /\ IsIn(c)
  <2> DEFINE w == Without(d, f)
             e == [w EXCEPT !.reconnecting = FALSE]
  <2>1. c.sig \in Sockets /\ c.sockets[c.sig].st = "open"
    BY <1>6 DEF ClientType, Sound, CleanSockets, IsIn
  <2>2. Settle(c, f, ok) = e
    BY <1>1, <1>2, <1>6, <2>1 DEF IsOpen
  <2>3. /\ w \in ClientType /\ w.flows = d.flows \ {f} /\ w.sockets = d.sockets
        /\ w = [d EXCEPT !.flows = w.flows]
    BY <1>1, WithoutFields
  <2> HIDE DEF w
  <2>4. /\ e \in ClientType /\ e.flows = d.flows \ {f} /\ e.sockets = d.sockets
        /\ e.phase = d.phase /\ e.sig = d.sig /\ e.rtc = d.rtc /\ e.joined = d.joined
        /\ e.joinSent = d.joinSent /\ ~e.reconnecting /\ e.rejoin = d.rejoin
        /\ e.requested = d.requested /\ e.rev = d.rev /\ e.torn = d.torn
    BY <1>1, <2>3 DEF ClientType
  <2> HIDE DEF e
  <2>5. Sound(e, now)
    BY <1>1, <1>3, <1>6, <2>4 DEF Sound, Exclusive, CleanSockets, OwnIsUp, PhaseIsTrue, Served, IsIn
  <2>6. FlowsFit(e)
    BY <1>1, <1>4, <2>1, <2>4 DEF FlowsFit, Only
  <2> QED
    BY <2>2, <2>4, <2>5, <2>6 DEF Fits
<1> QED
  BY <1>5, <1>6

-----------------------------------------------------------------------------
(* Frames, subscriptions and reconnects of a session that fits *)

\* Handing a frame over changes nothing, but candidates go behind the join.
LEMMA SendFits ==
  ASSUME NEW c \in ClientType, NEW now, Fits(c, now), NEW f \in {"other", "candidates"},
         f = "candidates" => c.joinSent /\ IsOpen(c, c.sig)
  PROVE  Send(c, c.sig, f) \in ClientType /\ Fits(Send(c, c.sig, f), now)
<1> DEFINE d == Send(c, c.sig, f)
<1>1. c.sig \in Sockets \cup {0} /\ f \in Frames \ {"none"}
  BY DEF ClientType, Frames
<1>2. /\ d \in ClientType /\ Kept(c, d)
      /\ \A j \in Sockets : Handed(c.sockets[j], d.sockets[j], f)
      /\ \A j \in Sockets : j # c.sig => d.sockets[j] = c.sockets[j]
      /\ c.sockets[c.sig].first # "none" => d = c
  BY <1>1, SendFields
<1>3. CASE c.sockets[c.sig].first # "none"
  BY <1>2, <1>3
<1>4. CASE c.sig = 0
  <2>1. d = c
    BY <1>4 DEF Send, IsOpen, IsConnecting
  <2> QED
    BY <2>1
<1>5. CASE c.sig # 0 /\ c.sockets[c.sig].first = "none"
  <2> HIDE DEF d
  <2>1. c.sig \in Sockets
    BY <1>1, <1>5
  <2>2. f = "other"
    BY <1>5 DEF Fits, Sound, OwnIsUp, IsOpen
  <2>3. Sound(d, now)
    <3>1. Exclusive(d) /\ CleanSockets(d)
      BY <1>2, <2>2 DEF Fits, Sound, Exclusive, CleanSockets, Kept, Handed
    <3>2. OwnIsUp(d)
      BY <1>2, <2>1, <2>2 DEF Fits, Sound, OwnIsUp, Kept, Handed
    <3>3. PhaseIsTrue(d)
      BY <1>2 DEF Fits, Sound, PhaseIsTrue, Kept
    <3>4. Served(d, now)
      BY <1>2, <2>1 DEF Fits, Sound, Served, IsIn, Kept, Handed
    <3> QED
      BY <3>1, <3>2, <3>3, <3>4 DEF Sound
  <2>4. ASSUME NEW g \in d.flows PROVE Spent(g) \/ (Only(d, g) /\ (JoinWaits(d, g) \/ LoopWaits(d, g)))
    <3>1. g \in c.flows /\ (Only(c, g) => Only(d, g))
      BY <1>2 DEF Kept, Only
    <3>2. JoinWaits(c, g) => JoinWaits(d, g)
      BY <1>2, <2>1, <2>2 DEF JoinWaits, Kept, Handed
    <3>3. LoopWaits(c, g) => LoopWaits(d, g)
      BY <1>2, <2>1, <2>2 DEF LoopWaits, Kept, Handed
    <3> QED
      BY <3>1, <3>2, <3>3 DEF Fits, FlowsFit
  <2>5. FlowsFit(d)
    BY <1>2, <2>1, <2>4 DEF FlowsFit, Fits, Kept, Handed
  <2> QED
    BY <1>2, <2>3, <2>5 DEF Fits, d
<1> QED
  BY <1>3, <1>4, <1>5

\* The subscriptions catch up with the room.
LEMMA SubscribeFields ==
  ASSUME NEW c \in ClientType, NEW now \in SUBSET Tracks, c.joined,
         c.sig \in Sockets, c.sockets[c.sig].st = "open",
         c.torn \/ (c.requested = c.sockets[c.sig].subs /\ c.sockets[c.sig].applied = c.rev)
  PROVE  LET d == Subscribe(c, now)
         IN  /\ d \in ClientType
             /\ d = [c EXCEPT !.requested = d.requested, !.rev = d.rev, !.sockets = d.sockets]
             /\ \A j \in Sockets : j # c.sig => d.sockets[j] = c.sockets[j]
             /\ d.sockets[c.sig].st = "open" /\ d.sockets[c.sig].in = c.sockets[c.sig].in
             /\ d.sockets[c.sig].first = c.sockets[c.sig].first
             /\ c.torn \/ (/\ d.requested = now /\ d.sockets[c.sig].subs = now
                           /\ d.sockets[c.sig].applied = d.rev)
<1> DEFINE s == c.sockets[c.sig]
           subs == (s.subs \cup (now \ c.requested)) \ (c.requested \ now)
           t == IF c.rev + 1 =< s.applied THEN s
                ELSE [s EXCEPT !.applied = c.rev + 1, !.subs = subs]
<1>1. /\ c.sockets \in [Sockets -> SocketType] /\ s \in SocketType
      /\ c.requested \in SUBSET Tracks /\ c.rev \in Nat /\ s.applied \in Nat
  BY DEF ClientType, SocketType
<1>2. c.sig # 0
  BY SocketsAssumption
<1>3. CASE c.requested = now
  <2>1. Subscribe(c, now) = c
    BY <1>3 DEF Subscribe
  <2> QED
    BY <1>3, <2>1 DEF ClientType
<1>4. CASE c.requested # now
  <2>1. Subscribe(c, now) = [c EXCEPT !.requested = now, !.rev = c.rev + 1,
                                      !.sockets = [c.sockets EXCEPT ![c.sig] = t]]
    BY <1>1, <1>2, <1>4 DEF Subscribe, IsOpen, ClientType
  <2>2. t \in SocketType /\ t.st = s.st /\ t.in = s.in /\ t.first = s.first
    <3>1. subs \in SUBSET Tracks
      BY <1>1 DEF SocketType
    <3> DEFINE u == [s EXCEPT !.applied = c.rev + 1, !.subs = subs]
    <3>2. t = s \/ t = u
      OBVIOUS
    <3> HIDE DEF subs, s, t
    <3>3. c.rev + 1 \in Nat
      BY <1>1
    <3>4. u \in SocketType /\ u.st = s.st /\ u.in = s.in /\ u.first = s.first
      BY <1>1, <3>1, <3>3 DEF SocketType
    <3> QED
      BY <1>1, <3>2, <3>4
  <2>3. c.torn \/ (t.subs = now /\ t.applied = c.rev + 1)
    BY <1>1 DEF SocketType
  <2> HIDE DEF t
  <2> DEFINE d == Subscribe(c, now)
  <2>4. /\ d \in ClientType /\ d.requested = now /\ d.rev = c.rev + 1
        /\ d.sockets = [c.sockets EXCEPT ![c.sig] = t]
    <3> DEFINE all == [c.sockets EXCEPT ![c.sig] = t]
    <3>1. all \in [Sockets -> SocketType] /\ c.rev + 1 \in Nat
      BY <1>1, <2>2
    <3>2. d = [c EXCEPT !.requested = now, !.rev = c.rev + 1, !.sockets = all]
      BY <2>1
    <3> HIDE DEF all, d
    <3>3. d \in ClientType /\ d.requested = now /\ d.rev = c.rev + 1 /\ d.sockets = all
      BY <3>1, <3>2 DEF ClientType
    <3> QED
      BY <3>3 DEF all
  <2>5. d = [c EXCEPT !.requested = d.requested, !.rev = d.rev, !.sockets = d.sockets]
    BY <2>1, <2>4
  <2> HIDE DEF d
  <2> QED
    BY <1>1, <2>2, <2>3, <2>4, <2>5 DEF d
<1> QED
  BY <1>3, <1>4

\* A call that lost its socket, or its media, gets the loop.
LEMMA BeginReconnectFits ==
  ASSUME NEW c \in ClientType, NEW now, Exclusive(c), CleanSockets(c), PhaseIsTrue(c),
         c.joined, ~c.reconnecting, \A f \in c.flows : Spent(f)
  PROVE  LET d == BeginReconnect(c)
         IN  /\ d \in ClientType /\ Fits(d, now)
             /\ \A f \in d.flows : Spent(f) \/ f.at = "backoff"
<1> DEFINE b == Close(c, c.sig)
           g == [Waiting EXCEPT !.kind = "loop", !.at = "backoff", !.n = 1]
           d == [b EXCEPT !.reconnecting = TRUE, !.rejoin = TRUE, !.sig = 0,
                          !.flows = b.flows \cup {g}]
           gone == [NoSocket EXCEPT !.st = "closing"]
<1>1. BeginReconnect(c) = d
  BY DEF BeginReconnect
<1>2. /\ b \in ClientType /\ Kept(c, b)
      /\ \A j \in Sockets : j # c.sig => b.sockets[j] = c.sockets[j]
      /\ c.sig # 0 => b.sockets[c.sig] = gone
  <2>1. c.sig \in Sockets \cup {0}
    BY DEF ClientType
  <2> HIDE DEF b
  <2> QED
    BY <2>1, CloseFields DEF b
<1>3. g \in FlowType /\ g.kind = "loop" /\ g.at = "backoff" /\ g.offer = "none" /\ ~g.live
  <2>1. 1 \in 0 .. Attempts
    BY AttemptsAssumption
  <2> QED
    BY <2>1 DEF FlowType, Waiting, Places
<1>4. gone.st = "closing" /\ gone.first = "none" /\ gone.in = FALSE
      /\ gone.applied = 0 /\ gone.subs = {}
  BY DEF NoSocket
<1> HIDE DEF b, g, gone
<1>5. /\ d \in ClientType /\ d.flows = b.flows \cup {g} /\ d.sockets = b.sockets
      /\ d.phase = b.phase /\ d.sig = 0 /\ d.rtc = b.rtc /\ d.joined = b.joined
      /\ d.joinSent = b.joinSent /\ d.reconnecting /\ d.rejoin
      /\ d.requested = b.requested /\ d.rev = b.rev /\ d.torn = b.torn
  BY <1>2, <1>3, SocketsAssumption DEF ClientType
<1> HIDE DEF d
<1>6. \A j \in Sockets : d.sockets[j] = c.sockets[j] \/ d.sockets[j] = gone
  BY <1>2, <1>5, SocketsAssumption
<1>7. Exclusive(d) /\ CleanSockets(d)
  <2>1. Exclusive(d)
    BY <1>2, <1>4, <1>5, SocketsAssumption DEF Exclusive
  <2>2. CleanSockets(d)
    BY <1>4, <1>6 DEF CleanSockets
  <2> QED
    BY <2>1, <2>2
<1>8. OwnIsUp(d) /\ PhaseIsTrue(d) /\ Served(d, now)
  BY <1>2, <1>5 DEF OwnIsUp, PhaseIsTrue, Served, IsIn, Kept
<1>9. \A f \in d.flows : f = g \/ Spent(f)
  BY <1>2, <1>5 DEF Kept
<1>10. LoopWaits(d, g)
  BY <1>3, <1>5 DEF LoopWaits
<1>11. FlowsFit(d)
  BY <1>3, <1>5, <1>9, <1>10 DEF FlowsFit, Only
<1> QED
  BY <1>1, <1>3, <1>5, <1>7, <1>8, <1>9, <1>11 DEF Fits, Sound

-----------------------------------------------------------------------------
(* What the user does *)

LEMMA FlowKinds ==
  ASSUME NEW c \in ClientType, NEW now, Fits(c, now), NEW f \in c.flows, ~Spent(f)
  PROVE  Only(c, f) /\ (JoinWaits(c, f) \/ LoopWaits(c, f))
BY DEF Fits, FlowsFit

LEMMA UserJoinsFits ==
  ASSUME SessionInv, UserJoins
  PROVE  SessionInv'
<1> DEFINE d == [client EXCEPT !.phase = "media", !.flows = {Waiting}]
<1>1. client' = d /\ tracks' = tracks /\ client.flows = {}
      /\ client.phase \in {"idle", "closed"}
  BY DEF UserJoins
<1>2. Waiting \in FlowType /\ Waiting.kind = "join" /\ Waiting.at = "media"
  BY AttemptsAssumption DEF Waiting, FlowType, Places
<1>3. /\ d \in ClientType /\ d.flows = {Waiting} /\ d.sockets = client.sockets
      /\ d.phase = "media" /\ d.sig = client.sig /\ d.rtc = client.rtc /\ d.joined = client.joined
      /\ d.joinSent = client.joinSent /\ d.reconnecting = client.reconnecting
      /\ d.rejoin = client.rejoin /\ d.requested = client.requested /\ d.rev = client.rev
      /\ d.torn = client.torn
  BY <1>2 DEF SessionInv, ClientType
<1> HIDE DEF d
<1>4. Sound(d, tracks)
  BY <1>1, <1>3 DEF SessionInv, Fits, Sound, Exclusive, CleanSockets, OwnIsUp, PhaseIsTrue, Served, IsIn
<1>5. FlowsFit(d)
  BY <1>1, <1>2, <1>3 DEF SessionInv, Fits, Sound, PhaseIsTrue, FlowsFit, Only, JoinWaits
<1>6. tracks \in SUBSET Tracks
  BY DEF SessionInv
<1> QED
  BY <1>1, <1>3, <1>4, <1>5, <1>6 DEF SessionInv, Fits

\* Torn down at a moment when nothing waits for the camera or the socket.
LEMMA TeardownFits ==
  ASSUME NEW c \in ClientType, NEW now, Fits(c, now),
         c.joined \/ (c.sig # 0 /\ c.sockets[c.sig].st = "open")
  PROVE  Teardown(c) \in ClientType /\ Fits(Teardown(c), now)
<1>1. ASSUME NEW f \in c.flows PROVE Spent(f) \/ (Only(c, f) /\ Ends(c, f))
  <2>1. CASE Spent(f)
    BY <2>1
  <2>2. CASE ~Spent(f)
    <3>1. Only(c, f) /\ (JoinWaits(c, f) \/ LoopWaits(c, f))
      BY <2>2, FlowKinds
    <3>2. Ends(c, f)
      BY <3>1 DEF Fits, Sound, PhaseIsTrue, JoinWaits, LoopWaits, Ends
    <3> QED
      BY <3>1, <3>2
  <2> QED
    BY <2>1, <2>2
<1> QED
  BY <1>1, TornFits DEF Fits, Sound

LEMMA UserLeavesFits ==
  ASSUME SessionInv, UserLeaves
  PROVE  SessionInv'
BY TeardownFits DEF SessionInv, UserLeaves, Fits, Sound, PhaseIsTrue

LEMMA FrameSentFits ==
  ASSUME SessionInv, FrameSent \/ Candidates
  PROVE  SessionInv'
<1>1. CASE FrameSent
  BY <1>1, SendFits DEF SessionInv, FrameSent
<1>2. CASE Candidates
  BY <1>2, SendFits DEF SessionInv, Candidates
<1> QED
  BY <1>1, <1>2

LEMMA NobodyWaits ==
  ASSUME NEW c \in ClientType, NEW now, Fits(c, now), c.joined, ~c.reconnecting
  PROVE  \A f \in c.flows : Spent(f)
<1> SUFFICES ASSUME NEW f \in c.flows, ~Spent(f) PROVE FALSE
  OBVIOUS
<1>1. JoinWaits(c, f) \/ LoopWaits(c, f)
  BY FlowKinds
<1> QED
  BY <1>1 DEF Fits, Sound, PhaseIsTrue, JoinWaits, LoopWaits

LEMMA IceFailsFits ==
  ASSUME SessionInv, IceFails
  PROVE  SessionInv'
<1>1. \A f \in client.flows : Spent(f)
  BY NobodyWaits DEF SessionInv, IceFails
<1>2. LET d == BeginReconnect(client) IN d \in ClientType /\ Fits(d, tracks)
  BY <1>1, BeginReconnectFits DEF SessionInv, IceFails, Fits, Sound
<1> QED
  BY <1>2 DEF SessionInv, IceFails

\* The subscriptions of a session that is in.
LEMMA SubscribeFits ==
  ASSUME NEW c \in ClientType, NEW was, NEW now \in SUBSET Tracks, Fits(c, was), IsIn(c)
  PROVE  Subscribe(c, now) \in ClientType /\ Fits(Subscribe(c, now), now)
<1> DEFINE d == Subscribe(c, now)
<1>1. c.sig \in Sockets /\ c.sockets[c.sig].st = "open" /\ c.joined /\ c.sig # 0
      /\ c.sockets[c.sig].in
  BY DEF ClientType, IsIn, Fits, Sound, CleanSockets, Served
<1>2. c.torn \/ (c.requested = c.sockets[c.sig].subs /\ c.sockets[c.sig].applied = c.rev)
  BY DEF Fits, Sound, Served
<1>3. /\ d \in ClientType
      /\ d = [c EXCEPT !.requested = d.requested, !.rev = d.rev, !.sockets = d.sockets]
      /\ \A j \in Sockets : j # c.sig => d.sockets[j] = c.sockets[j]
      /\ d.sockets[c.sig].st = "open" /\ d.sockets[c.sig].in = c.sockets[c.sig].in
      /\ d.sockets[c.sig].first = c.sockets[c.sig].first
      /\ c.torn \/ (/\ d.requested = now /\ d.sockets[c.sig].subs = now
                    /\ d.sockets[c.sig].applied = d.rev)
  BY <1>1, <1>2, SubscribeFields
<1> HIDE DEF d
<1>4. /\ d.phase = c.phase /\ d.sig = c.sig /\ d.rtc = c.rtc /\ d.joined = c.joined
      /\ d.joinSent = c.joinSent /\ d.reconnecting = c.reconnecting /\ d.rejoin = c.rejoin
      /\ d.attempt = c.attempt /\ d.flows = c.flows /\ d.torn = c.torn
  BY <1>3 DEF ClientType
<1>5. /\ Exclusive(c) /\ CleanSockets(c) /\ OwnIsUp(c) /\ PhaseIsTrue(c) /\ Served(c, was)
      /\ FlowsFit(c)
  BY DEF Fits, Sound
<1>6. Exclusive(d) /\ CleanSockets(d)
  <2>1. Exclusive(d)
    BY <1>1, <1>3, <1>4, <1>5 DEF Exclusive
  <2>2. ASSUME NEW j \in Sockets
        PROVE  /\ d.sockets[j].st # "open" => ~d.sockets[j].in
               /\ ~d.sockets[j].in => d.sockets[j].applied = 0 /\ d.sockets[j].subs = {}
               /\ d.sockets[j].first # "candidates"
    <3>1. /\ c.sockets[j].st # "open" => ~c.sockets[j].in
          /\ ~c.sockets[j].in => c.sockets[j].applied = 0 /\ c.sockets[j].subs = {}
          /\ c.sockets[j].first # "candidates"
      BY <1>5 DEF CleanSockets
    <3>2. CASE j = c.sig
      BY <1>1, <1>3, <3>1, <3>2
    <3>3. CASE j # c.sig
      <4>1. d.sockets[j] = c.sockets[j]
        BY <1>3, <3>3
      <4> QED
        BY <3>1, <4>1
    <3> QED
      BY <3>2, <3>3
  <2> QED
    BY <2>1, <2>2 DEF CleanSockets
<1>7. OwnIsUp(d) /\ PhaseIsTrue(d)
  BY <1>1, <1>3, <1>4, <1>5 DEF OwnIsUp, PhaseIsTrue
<1>8. Served(d, now)
  BY <1>1, <1>3, <1>4, <1>5 DEF Served, IsIn
<1>9. ASSUME NEW f \in d.flows
      PROVE  Spent(f) \/ (Only(d, f) /\ (JoinWaits(d, f) \/ LoopWaits(d, f)))
  <2>1. Only(c, f) => Only(d, f)
    BY <1>4 DEF Only
  <2>2. JoinWaits(c, f) => JoinWaits(d, f)
    BY <1>1, <1>3, <1>4 DEF JoinWaits
  <2>3. LoopWaits(c, f) => LoopWaits(d, f)
    <3>1. /\ d.sig = c.sig /\ d.sockets[d.sig].st = c.sockets[c.sig].st
          /\ d.sockets[d.sig].in = c.sockets[c.sig].in
          /\ d.sockets[d.sig].first = c.sockets[c.sig].first
      BY <1>1, <1>3, <1>4
    <3> QED
      BY ONLY <3>1, <1>4 DEF LoopWaits
  <2> QED
    BY <1>4, <1>5, <2>1, <2>2, <2>3 DEF FlowsFit
<1>10. FlowsFit(d)
  BY <1>1, <1>3, <1>4, <1>5, <1>9 DEF FlowsFit
<1> QED
  BY <1>3, <1>6, <1>7, <1>8, <1>10 DEF Fits, Sound, d

LEMMA RoomChangesFits ==
  ASSUME SessionInv, RoomChanges
  PROVE  SessionInv'
<1>1. PICK now \in SUBSET Tracks :
        /\ tracks' = now
        /\ client' = IF IsOpen(client, client.sig) /\ client.sockets[client.sig].in
                     THEN Subscribe(client, now) ELSE client
  BY DEF RoomChanges
<1>2. client \in ClientType /\ Fits(client, tracks)
  BY DEF SessionInv
<1>3. CASE IsOpen(client, client.sig) /\ client.sockets[client.sig].in
  <2>1. IsIn(client)
    BY <1>3 DEF IsIn, IsOpen
  <2> QED
    BY <1>1, <1>2, <1>3, <2>1, SubscribeFits DEF SessionInv
<1>4. CASE ~(IsOpen(client, client.sig) /\ client.sockets[client.sig].in)
  <2>1. ~IsIn(client)
    BY <1>2, <1>4 DEF IsIn, IsOpen, Fits, Sound, CleanSockets, ClientType
  <2>2. Fits(client, now)
    BY <1>2, <2>1 DEF Fits, Sound, Served
  <2> QED
    BY <1>1, <1>2, <1>4, <2>2 DEF SessionInv
<1> QED
  BY <1>3, <1>4

-----------------------------------------------------------------------------
(* Continuations go on *)

\* The join goes out over the session's open socket.
LEMMA SendJoinFields ==
  ASSUME NEW c \in ClientType, NEW now, Sound(c, now), c.sig # 0, c.sockets[c.sig].st = "open"
  PROVE  LET d == SendJoin(c, c.sig)
         IN  /\ d \in ClientType /\ Sound(d, now) /\ d.joinSent
             /\ d.phase = c.phase /\ d.sig = c.sig /\ d.joined = c.joined
             /\ d.reconnecting = c.reconnecting /\ d.attempt = c.attempt /\ d.flows = c.flows
             /\ d.sockets[c.sig].st = "open" /\ d.sockets[c.sig].in = c.sockets[c.sig].in
<1> DEFINE s == Send(c, c.sig, "join")
           d == [s EXCEPT !.joinSent = TRUE]
<1>1. c.sig \in Sockets \cup {0} /\ c.sig \in Sockets /\ "join" \in Frames \ {"none"}
  BY DEF ClientType, Frames
<1>2. /\ s \in ClientType /\ Kept(c, s)
      /\ \A j \in Sockets : Handed(c.sockets[j], s.sockets[j], "join")
      /\ c.sig # 0 /\ c.sockets[c.sig].st \in {"connecting", "open"} =>
           s.sockets[c.sig].first # "none"
  BY <1>1, SendFields
<1>3. SendJoin(c, c.sig) = d
  BY DEF SendJoin
<1> HIDE DEF s
<1>4. /\ d \in ClientType /\ d.joinSent /\ d.sockets = s.sockets /\ d.flows = s.flows
      /\ d.phase = s.phase /\ d.sig = s.sig /\ d.rtc = s.rtc /\ d.joined = s.joined
      /\ d.reconnecting = s.reconnecting /\ d.rejoin = s.rejoin /\ d.attempt = s.attempt
      /\ d.requested = s.requested /\ d.rev = s.rev /\ d.torn = s.torn
  BY <1>2 DEF ClientType
<1> HIDE DEF d
<1>5. /\ Exclusive(c) /\ CleanSockets(c) /\ OwnIsUp(c) /\ PhaseIsTrue(c) /\ Served(c, now)
  BY DEF Sound
<1>6. Exclusive(d) /\ CleanSockets(d)
  BY <1>2, <1>4, <1>5 DEF Exclusive, CleanSockets, Kept, Handed
<1>7. OwnIsUp(d) /\ PhaseIsTrue(d)
  BY <1>1, <1>2, <1>4, <1>5 DEF OwnIsUp, PhaseIsTrue, Kept, Handed
<1>8. Served(d, now)
  BY <1>1, <1>2, <1>4, <1>5 DEF Served, IsIn, Kept, Handed
<1> QED
  BY <1>1, <1>2, <1>3, <1>4, <1>6, <1>7, <1>8 DEF Sound, Kept, Handed

\* One continuation takes the place of another, or none does.
LEMMA MoveFits ==
  ASSUME NEW c \in ClientType, NEW now, Sound(c, now), NEW f, Only(c, f), NEW g \in FlowType,
         LET d == Move(c, f, g) IN Spent(g) \/ JoinWaits(d, g) \/ LoopWaits(d, g),
         c.reconnecting => g.kind = "loop",
         c.sig # 0 /\ c.sockets[c.sig].st = "connecting" => g.at = "open" /\ g.sock = c.sig
  PROVE  Move(c, f, g) \in ClientType /\ Fits(Move(c, f, g), now)
<1> DEFINE d == Move(c, f, g)
<1>1. /\ d \in ClientType /\ d.flows = (c.flows \ {f}) \cup {g} /\ d.sockets = c.sockets
      /\ d = [c EXCEPT !.flows = d.flows]
  BY MoveFields
<1> HIDE DEF d
<1>2. Sound(d, now) /\ d.sig = c.sig /\ d.reconnecting = c.reconnecting
  BY <1>1, SoundFlows DEF ClientType
<1>3. \A h \in d.flows : h = g \/ Spent(h)
  BY <1>1 DEF Only
<1>4. Spent(g) \/ JoinWaits(d, g) \/ LoopWaits(d, g)
  BY DEF d
<1>5. FlowsFit(d)
  BY <1>1, <1>2, <1>3, <1>4 DEF FlowsFit, Only
<1> QED
  BY <1>1, <1>2, <1>5 DEF Fits, d

LEMMA WithoutFits ==
  ASSUME NEW c \in ClientType, NEW now, Sound(c, now), NEW f, Only(c, f), ~c.reconnecting,
         c.sig # 0 => c.sockets[c.sig].st = "open"
  PROVE  Without(c, f) \in ClientType /\ Fits(Without(c, f), now)
<1> DEFINE d == Without(c, f)
<1>1. /\ d \in ClientType /\ d.flows = c.flows \ {f} /\ d.sockets = c.sockets
      /\ d = [c EXCEPT !.flows = d.flows]
  BY WithoutFields
<1> HIDE DEF d
<1>2. Sound(d, now) /\ d.sig = c.sig /\ d.reconnecting = c.reconnecting
  BY <1>1, SoundFlows DEF ClientType
<1>3. \A h \in d.flows : Spent(h)
  BY <1>1 DEF Only
<1>4. FlowsFit(d)
  BY <1>1, <1>2, <1>3 DEF FlowsFit
<1> QED
  BY <1>1, <1>2, <1>4 DEF Fits, d

\* The join that waited for its offer goes out.
LEMMA JoinGoesOnFits ==
  ASSUME NEW c \in ClientType, NEW now, Sound(c, now), NEW f \in c.flows, Only(c, f),
         f.kind = "join", ~c.reconnecting, c.sig # 0 => c.sockets[c.sig].st = "open",
         NEW late \in BOOLEAN
  PROVE  LET d == JoinGoesOn(c, f, late) IN d \in ClientType /\ Fits(d, now)
<1> DEFINE d == SendJoin(c, c.sig)
           g == [f EXCEPT !.at = "late"]
<1>1. f \in FlowType /\ g \in FlowType /\ Spent(g)
  BY DEF ClientType, FlowType, Places, Spent
<1>2. CASE c.sig = 0
  <2>1. JoinGoesOn(c, f, late) = Without(c, f)
    BY <1>2 DEF JoinGoesOn
  <2> QED
    BY <1>2, <2>1, WithoutFits
<1>3. CASE c.sig # 0
  <2>1. /\ d \in ClientType /\ Sound(d, now) /\ d.joinSent
        /\ d.phase = c.phase /\ d.sig = c.sig /\ d.joined = c.joined
        /\ d.reconnecting = c.reconnecting /\ d.attempt = c.attempt /\ d.flows = c.flows
        /\ d.sockets[c.sig].st = "open" /\ d.sockets[c.sig].in = c.sockets[c.sig].in
    BY <1>3, SendJoinFields
  <2>2. JoinGoesOn(c, f, late) = IF late THEN Move(d, f, g) ELSE Without(d, f)
    BY <1>3 DEF JoinGoesOn
  <2> HIDE DEF d, g
  <2>3. Only(d, f)
    BY <2>1 DEF Only
  <2>4. CASE late
    BY <1>1, <2>1, <2>2, <2>3, <2>4, MoveFits
  <2>5. CASE ~late
    BY <2>1, <2>2, <2>3, <2>5, WithoutFits
  <2> QED
    BY <2>4, <2>5
<1> QED
  BY <1>2, <1>3

\* The attempt that waited for its offer goes on, if its socket is there.
LEMMA AttemptGoesOnFits ==
  ASSUME NEW c \in ClientType, NEW now, Fits(c, now), NEW f \in c.flows, Only(c, f),
         LoopWaits(c, f), f.at = "offer", NEW late \in BOOLEAN
  PROVE  LET d == AttemptGoesOn(c, f, late) IN d \in ClientType /\ Fits(d, now)
<1>1. Sound(c, now) /\ f \in FlowType /\ f.sock # 0
  BY DEF Fits, ClientType, LoopWaits
<1>2. CASE c.sig = 0
  <2>1. AttemptGoesOn(c, f, late) = Fails(c, f)
    BY <1>1, <1>2 DEF AttemptGoesOn, SocketLost
  <2> QED
    BY <1>1, <1>2, <2>1, FailsFits DEF LoopWaits
<1>3. CASE c.sig # 0
  <2> DEFINE s == SendJoin(c, c.sig)
             d == [s EXCEPT !.attempt = c.sig]
             h == IF late THEN [f EXCEPT !.at = "late"] ELSE [f EXCEPT !.at = "done", !.offer = "made"]
             g == [h EXCEPT !.done = "pending"]
  <2>1. /\ c.sig = f.sock /\ c.sockets[c.sig].st = "open" /\ ~c.sockets[c.sig].in
        /\ c.reconnecting /\ f.kind = "loop" /\ c.sig \in Sockets
    BY <1>1, <1>3 DEF LoopWaits, Sound, PhaseIsTrue, ClientType
  <2>2. /\ s \in ClientType /\ Sound(s, now) /\ s.joinSent
        /\ s.phase = c.phase /\ s.sig = c.sig /\ s.joined = c.joined
        /\ s.reconnecting = c.reconnecting /\ s.attempt = c.attempt /\ s.flows = c.flows
        /\ s.sockets[c.sig].st = "open" /\ s.sockets[c.sig].in = c.sockets[c.sig].in
    BY <1>1, <1>3, <2>1, SendJoinFields
  <2>3. AttemptGoesOn(c, f, late) = Move(d, f, g)
    BY <1>3, <2>1 DEF AttemptGoesOn, SocketLost, IsOpen
  <2> HIDE DEF s
  <2>4. /\ d \in ClientType /\ d.sockets = s.sockets /\ d.flows = s.flows /\ d.phase = s.phase
        /\ d.sig = s.sig /\ d.rtc = s.rtc /\ d.joined = s.joined /\ d.joinSent = s.joinSent
        /\ d.reconnecting = s.reconnecting /\ d.rejoin = s.rejoin /\ d.attempt = c.sig
        /\ d.requested = s.requested /\ d.rev = s.rev /\ d.torn = s.torn
    BY <2>1, <2>2 DEF ClientType
  <2>5. /\ g \in FlowType /\ g.kind = "loop" /\ g.sock = f.sock /\ g.done = "pending"
        /\ g.at = IF late THEN "late" ELSE "done"
    <3>1. h \in FlowType /\ h.kind = "loop" /\ h.sock = f.sock /\ h.at = IF late THEN "late" ELSE "done"
      <4>1. CASE late
        BY <1>1, <2>1, <4>1 DEF FlowType, Places
      <4>2. CASE ~late
        BY <1>1, <2>1, <4>2 DEF FlowType, Places
      <4> QED
        BY <4>1, <4>2
    <3> HIDE DEF h
    <3> QED
      BY <3>1 DEF FlowType
  <2> HIDE DEF d, g
  <2>6. Sound(d, now)
    BY <2>2, <2>4 DEF Sound, Exclusive, CleanSockets, OwnIsUp, PhaseIsTrue, Served, IsIn
  <2>7. Only(d, f)
    BY <2>2, <2>4 DEF Only
  <2> DEFINE m == Move(d, f, g)
  <2>8. m.sockets = d.sockets /\ m = [d EXCEPT !.flows = m.flows]
    BY <2>4, <2>5, MoveFields
  <2>9. LoopWaits(m, g)
    <3> HIDE DEF m
    <3>1. m.sig = d.sig /\ m.reconnecting = d.reconnecting /\ m.attempt = d.attempt /\ m.phase = d.phase
      BY <2>4, <2>8 DEF ClientType
    <3> QED
      BY <1>1, <1>3, <2>1, <2>2, <2>4, <2>5, <2>8, <3>1 DEF LoopWaits
  <2> QED
    BY <2>1, <2>2, <2>3, <2>4, <2>5, <2>6, <2>7, <2>9, MoveFits
<1> QED
  BY <1>2, <1>3

LEMMA MediaReadyFits ==
  ASSUME SessionInv, NEW f \in client.flows, MediaReady(f)
  PROVE  SessionInv'
<1> DEFINE c == Connect(client)
           i == c.sig
           e == [c EXCEPT !.phase = "connecting", !.rtc = TRUE]
           g == [f EXCEPT !.at = "open", !.sock = i, !.offer = "pending", !.live = TRUE]
<1>1. client \in ClientType /\ Sound(client, tracks) /\ f \in FlowType /\ tracks \in SUBSET Tracks
      /\ f.at = "media" /\ Free(client) # {} /\ tracks' = tracks
  BY DEF SessionInv, Fits, ClientType, MediaReady
<1>2. client' = Move(e, f, g)
  BY DEF MediaReady
<1>3. Only(client, f) /\ JoinWaits(client, f)
  BY <1>1, FlowKinds DEF SessionInv, Spent, LoopWaits
<1>4. f.kind = "join" /\ client.sig = 0 /\ ~client.joined /\ ~client.joinSent
      /\ ~client.reconnecting
  BY <1>1, <1>3 DEF JoinWaits, Sound, PhaseIsTrue
<1>5. /\ i \in Free(client) /\ i # 0
      /\ c = [client EXCEPT !.sig = i,
                            !.sockets = [client.sockets EXCEPT ![i] =
                                           [NoSocket EXCEPT !.st = "connecting"]]]
  BY <1>1, ConnectFields
<1>6. i \in Sockets
  BY <1>5 DEF Free
<1> DEFINE new == [NoSocket EXCEPT !.st = "connecting"]
<1>7. new \in SocketType /\ new.st = "connecting" /\ new.first = "none" /\ ~new.in
      /\ new.applied = 0 /\ new.subs = {}
  BY DEF NoSocket, SocketType, Frames
<1> HIDE DEF new, c
<1>8. e = [client EXCEPT !.sig = i, !.sockets = [client.sockets EXCEPT ![i] = new],
                         !.phase = "connecting", !.rtc = TRUE]
  <2>1. c = [client EXCEPT !.sig = i, !.sockets = [client.sockets EXCEPT ![i] = new]]
    BY <1>5 DEF new
  <2> HIDE DEF i
  <2> QED
    BY <1>1, <2>1 DEF ClientType
<1> HIDE DEF i, e
<1>9. /\ e \in ClientType /\ e.sockets = [client.sockets EXCEPT ![i] = new]
      /\ e.flows = client.flows /\ e.phase = "connecting" /\ e.sig = i /\ e.rtc = TRUE
      /\ e.joined = client.joined /\ e.joinSent = client.joinSent
      /\ e.reconnecting = client.reconnecting /\ e.rejoin = client.rejoin
      /\ e.requested = client.requested /\ e.rev = client.rev /\ e.torn = client.torn
  BY <1>1, <1>6, <1>7, <1>8 DEF ClientType
<1>10. /\ e.sockets[i] = new /\ \A j \in Sockets : j # i => e.sockets[j] = client.sockets[j]
  BY <1>1, <1>6, <1>9 DEF ClientType
<1>11. Exclusive(e) /\ CleanSockets(e)
  <2>1. Exclusive(e)
    BY <1>1, <1>4, <1>9, <1>10, SocketsAssumption DEF Exclusive, Sound
  <2>2. CleanSockets(e)
    BY <1>1, <1>7, <1>10 DEF CleanSockets, Sound
  <2> QED
    BY <2>1, <2>2
<1>12. OwnIsUp(e) /\ PhaseIsTrue(e)
  BY <1>1, <1>4, <1>7, <1>9, <1>10 DEF OwnIsUp, PhaseIsTrue, Sound
<1>13. Served(e, tracks)
  BY <1>1, <1>4, <1>7, <1>9, <1>10 DEF Served, Sound, IsIn
<1>14. g \in FlowType /\ g.kind = "join" /\ g.at = "open" /\ g.sock = i
  BY <1>1, <1>4, <1>6 DEF FlowType, Places
<1> HIDE DEF g
<1>15. Only(e, f)
  BY <1>3, <1>9 DEF Only
<1> DEFINE m == Move(e, f, g)
<1>16. m.sockets = e.sockets /\ m = [e EXCEPT !.flows = m.flows]
  BY <1>9, <1>14, MoveFields
<1>17. JoinWaits(m, g)
  <2> HIDE DEF m
  <2>1. m.sig = e.sig /\ m.joined = e.joined /\ m.joinSent = e.joinSent /\ m.phase = e.phase
    BY <1>9, <1>16 DEF ClientType
  <2> QED
    BY <1>4, <1>5, <1>7, <1>9, <1>10, <1>14, <1>16, <2>1 DEF JoinWaits
<1>18. m \in ClientType /\ Fits(m, tracks)
  BY <1>4, <1>9, <1>11, <1>12, <1>13, <1>14, <1>15, <1>17, MoveFits DEF Sound
<1> QED
  BY <1>1, <1>2, <1>18 DEF SessionInv

LEMMA BackoffOverFits ==
  ASSUME SessionInv, NEW f \in client.flows, BackoffOver(f)
  PROVE  SessionInv'
<1> DEFINE c == Connect(client)
           i == c.sig
           g == [f EXCEPT !.at = "open", !.sock = i]
<1>1. client \in ClientType /\ Sound(client, tracks) /\ f \in FlowType /\ tracks \in SUBSET Tracks
      /\ f.at = "backoff" /\ Free(client) # {} /\ tracks' = tracks
  BY DEF SessionInv, Fits, ClientType, BackoffOver
<1>2. Only(client, f) /\ LoopWaits(client, f)
  BY <1>1, FlowKinds DEF SessionInv, Spent, JoinWaits
<1>3. f.kind = "loop" /\ client.sig = 0 /\ client.reconnecting /\ f.offer = "none" /\ ~f.live
      /\ client.phase = "joined" /\ client.joined
  BY <1>1, <1>2 DEF LoopWaits, Sound, PhaseIsTrue
<1>4. client' = Move(c, f, g)
  BY <1>3 DEF BackoffOver, LoopGoesOn
<1>5. /\ i \in Free(client) /\ i # 0
      /\ c = [client EXCEPT !.sig = i,
                            !.sockets = [client.sockets EXCEPT ![i] =
                                           [NoSocket EXCEPT !.st = "connecting"]]]
  BY <1>1, ConnectFields
<1>6. i \in Sockets
  BY <1>5 DEF Free
<1> DEFINE new == [NoSocket EXCEPT !.st = "connecting"]
<1>7. new \in SocketType /\ new.st = "connecting" /\ new.first = "none" /\ ~new.in
      /\ new.applied = 0 /\ new.subs = {}
  BY DEF NoSocket, SocketType, Frames
<1>8. c = [client EXCEPT !.sig = i, !.sockets = [client.sockets EXCEPT ![i] = new]]
  BY <1>5 DEF new
<1> HIDE DEF new, c, i
<1>9. /\ c \in ClientType /\ c.sockets = [client.sockets EXCEPT ![i] = new]
      /\ c.flows = client.flows /\ c.phase = client.phase /\ c.sig = i /\ c.rtc = client.rtc
      /\ c.joined = client.joined /\ c.joinSent = client.joinSent
      /\ c.reconnecting = client.reconnecting /\ c.rejoin = client.rejoin
      /\ c.requested = client.requested /\ c.rev = client.rev /\ c.torn = client.torn
  BY <1>1, <1>6, <1>7, <1>8 DEF ClientType
<1>10. /\ c.sockets[i] = new /\ \A j \in Sockets : j # i => c.sockets[j] = client.sockets[j]
  BY <1>1, <1>6, <1>9 DEF ClientType
<1>11. Exclusive(c) /\ CleanSockets(c)
  <2>1. Exclusive(c)
    BY <1>1, <1>3, <1>9, <1>10, SocketsAssumption DEF Exclusive, Sound
  <2>2. CleanSockets(c)
    BY <1>1, <1>7, <1>10 DEF CleanSockets, Sound
  <2> QED
    BY <2>1, <2>2
<1>12. OwnIsUp(c) /\ PhaseIsTrue(c)
  BY <1>1, <1>3, <1>7, <1>9, <1>10 DEF OwnIsUp, PhaseIsTrue, Sound
<1>13. Served(c, tracks)
  BY <1>1, <1>3, <1>7, <1>9, <1>10 DEF Served, Sound, IsIn
<1>14. /\ g \in FlowType /\ g.kind = "loop" /\ g.at = "open" /\ g.sock = i
       /\ g.offer = "none" /\ ~g.live
  BY <1>1, <1>3, <1>6 DEF FlowType, Places
<1> HIDE DEF g
<1>15. Only(c, f)
  BY <1>2, <1>9 DEF Only
<1> DEFINE m == Move(c, f, g)
<1>16. m.sockets = c.sockets /\ m = [c EXCEPT !.flows = m.flows]
  BY <1>9, <1>14, MoveFields
<1>17. LoopWaits(m, g)
  <2> HIDE DEF m
  <2>1. m.sig = c.sig /\ m.reconnecting = c.reconnecting
    BY <1>9, <1>16 DEF ClientType
  <2> QED
    BY <1>3, <1>5, <1>7, <1>9, <1>10, <1>14, <1>16, <2>1 DEF LoopWaits
<1>18. m \in ClientType /\ Fits(m, tracks)
  BY <1>9, <1>11, <1>12, <1>13, <1>14, <1>15, <1>17, MoveFits DEF Sound
<1> QED
  BY <1>1, <1>4, <1>18 DEF SessionInv, c, i, g

\* The race between the offer and the grace period is over.
LEMMA ProceedFits ==
  ASSUME NEW c \in ClientType, NEW now, Fits(c, now), NEW f \in c.flows, f.at = "offer",
         NEW late \in BOOLEAN
  PROVE  LET d == Proceed(c, f, late) IN d \in ClientType /\ Fits(d, now)
<1>1. Only(c, f) /\ (JoinWaits(c, f) \/ LoopWaits(c, f)) /\ Sound(c, now)
  BY FlowKinds DEF Spent, Fits
<1>2. CASE JoinWaits(c, f)
  <2>1. /\ f.kind = "join" /\ ~c.reconnecting
        /\ c.sig # 0 => c.sockets[c.sig].st = "open"
    BY <1>1, <1>2 DEF JoinWaits, Sound, PhaseIsTrue
  <2> QED
    BY <1>1, <2>1, JoinGoesOnFits DEF Proceed
<1>3. CASE LoopWaits(c, f)
  <2>1. f.kind # "join"
    BY <1>3 DEF LoopWaits
  <2> QED
    BY <1>1, <1>3, <2>1, AttemptGoesOnFits DEF Proceed
<1> QED
  BY <1>1, <1>2, <1>3

LEMMA GraceOverFits ==
  ASSUME SessionInv, NEW f \in client.flows, GraceOver(f)
  PROVE  SessionInv'
BY ProceedFits DEF SessionInv, GraceOver

\* A late offer: the join has nothing left to do, the loop may be over.
LEMMA LateFits ==
  ASSUME NEW c \in ClientType, NEW now, Fits(c, now), NEW f \in c.flows, f.at = "late",
         NEW made \in BOOLEAN
  PROVE  LET d == Late(c, f, made) IN d \in ClientType /\ Fits(d, now)
<1> DEFINE d == IF made THEN Send(c, IF f.kind = "join" THEN c.sig ELSE f.sock, "other") ELSE c
<1>1. f \in FlowType
  BY DEF ClientType
<1>2. ASSUME f.kind = "loop"
      PROVE  Only(c, f) /\ LoopWaits(c, f)
  BY <1>2, FlowKinds DEF Spent, JoinWaits
<1>3. Send(c, IF f.kind = "join" THEN c.sig ELSE f.sock, "other") \in {c, Send(c, c.sig, "other")}
  <2>1. CASE f.kind = "join"
    BY <2>1
  <2>2. CASE f.kind = "loop" /\ c.sig = f.sock
    BY <2>2
  <2>3. CASE f.kind = "loop" /\ c.sig # f.sock
    <3>1. f.sock \in Sockets /\ c.sig = 0
      BY <1>1, <1>2, <2>3 DEF LoopWaits, FlowType
    <3>2. ~IsOpen(c, f.sock) /\ ~IsConnecting(c, f.sock)
      BY <3>1, SocketsAssumption DEF Fits, Sound, Exclusive, IsOpen, IsConnecting
    <3> QED
      BY <2>3, <3>2 DEF Send
  <2> QED
    BY <1>1, <2>1, <2>2, <2>3 DEF FlowType
<1>4. d \in {c, Send(c, c.sig, "other")}
  BY <1>3
<1>5. d \in ClientType /\ Fits(d, now)
  <2>1. Send(c, c.sig, "other") \in ClientType /\ Fits(Send(c, c.sig, "other"), now)
    BY SendFits
  <2> HIDE DEF d
  <2> QED
    BY <1>4, <2>1
<1>6. /\ d.flows = c.flows /\ d.sig = c.sig /\ d.reconnecting = c.reconnecting
      /\ \A i \in Sockets : d.sockets[i].st = c.sockets[i].st
  <2>1. c.sig \in Sockets \cup {0} /\ "other" \in Frames \ {"none"}
    BY DEF ClientType, Frames
  <2>2. LET s == Send(c, c.sig, "other")
        IN Kept(c, s) /\ \A j \in Sockets : Handed(c.sockets[j], s.sockets[j], "other")
    BY <2>1, SendFields
  <2> HIDE DEF d
  <2> QED
    BY <1>4, <2>2 DEF Kept, Handed
<1>7. Late(c, f, made) =
        CASE f.kind = "join" -> Without(d, f)
          [] f.kind = "loop" /\ f.done = "pending" -> Move(d, f, [f EXCEPT !.at = "done", !.offer = "made"])
          [] OTHER -> Settle(d, f, f.done = "ok")
  BY DEF Late
<1> HIDE DEF d
<1>8. CASE f.kind = "join"
  <2> DEFINE w == Without(d, f)
  <2>1. Late(c, f, made) = w
    BY <1>7, <1>8
  <2>2. /\ w \in ClientType /\ w.flows = d.flows \ {f} /\ w.sockets = d.sockets
        /\ w = [d EXCEPT !.flows = w.flows]
    BY <1>5, WithoutFields
  <2> HIDE DEF w
  <2>3. /\ w.phase = d.phase /\ w.sig = d.sig /\ w.joined = d.joined /\ w.joinSent = d.joinSent
        /\ w.reconnecting = d.reconnecting /\ w.attempt = d.attempt
    BY <1>5, <2>2 DEF ClientType
  <2>4. Sound(w, now)
    BY <1>5, <2>2, SoundFlows DEF Fits
  <2>5. ASSUME NEW g \in w.flows
        PROVE  Spent(g) \/ (Only(w, g) /\ (JoinWaits(w, g) \/ LoopWaits(w, g)))
    <3>1. Only(d, g) => Only(w, g)
      BY <2>2 DEF Only
    <3>2. JoinWaits(d, g) => JoinWaits(w, g)
      BY <2>2, <2>3 DEF JoinWaits
    <3>3. LoopWaits(d, g) => LoopWaits(w, g)
      BY <2>2, <2>3 DEF LoopWaits
    <3> QED
      BY <1>5, <2>2, <3>1, <3>2, <3>3 DEF Fits, FlowsFit
  <2>6. FlowsFit(w)
    BY <1>5, <1>8, <2>2, <2>3, <2>5 DEF Fits, FlowsFit
  <2> QED
    BY <2>1, <2>2, <2>4, <2>6 DEF Fits
<1>9. CASE f.kind = "loop"
  <2>1. Only(d, f) /\ LoopWaits(d, f) /\ Sound(d, now) /\ f \in d.flows
    <3>1. f \in d.flows
      BY <1>6
    <3> QED
      BY <1>5, <1>9, <3>1, FlowKinds DEF Spent, JoinWaits, Fits
  <2>2. d.sig # 0 => d.sig \in Sockets /\ d.sig = f.sock /\ d.sockets[d.sig].st = "open"
    BY <1>5, <2>1 DEF LoopWaits, ClientType
  <2>3. CASE f.done = "pending"
    <3> DEFINE g == [f EXCEPT !.at = "done", !.offer = "made"]
               m == Move(d, f, g)
    <3>1. Late(c, f, made) = m
      BY <1>7, <1>9, <2>3
    <3>2. g \in FlowType /\ g.kind = "loop" /\ g.at = "done" /\ g.sock = f.sock
      BY <1>1, <1>9 DEF FlowType, Places
    <3> HIDE DEF g
    <3>3. m.sockets = d.sockets /\ m = [d EXCEPT !.flows = m.flows]
      BY <1>5, <3>2, MoveFields
    <3>4. LoopWaits(m, g)
      <4> HIDE DEF m
      <4>1. m.sig = d.sig /\ m.reconnecting = d.reconnecting /\ m.attempt = d.attempt /\ m.phase = d.phase
        BY <1>5, <3>3 DEF ClientType
      <4>2. m.sig # 0
        BY <2>1, <2>3, <4>1 DEF LoopWaits
      <4>3. m.reconnecting
        BY <2>1, <4>1, <4>2 DEF LoopWaits, Sound, PhaseIsTrue
      <4> QED
        BY <2>1, <2>2, <2>3, <3>2, <3>3, <4>1, <4>2, <4>3 DEF LoopWaits
    <3> QED
      BY <1>5, <2>1, <2>2, <3>1, <3>2, <3>4, MoveFits
  <2>4. CASE f.done # "pending"
    <3>1. Late(c, f, made) = Settle(d, f, f.done = "ok")
      BY <1>7, <1>9, <2>4
    <3>2. d.sig = 0 \/ (f.done = "ok" /\ IsIn(d))
      BY <2>1, <2>4 DEF LoopWaits, IsIn
    <3>3. d.reconnecting \/ d.phase = "closed"
      BY <2>1 DEF LoopWaits
    <3> QED
      BY <1>5, <1>9, <2>1, <3>1, <3>2, <3>3, SettleFits
  <2> QED
    BY <2>3, <2>4
<1> QED
  BY <1>1, <1>8, <1>9 DEF FlowType

LEMMA OfferReadyFits ==
  ASSUME SessionInv, NEW f \in client.flows, OfferReady(f)
  PROVE  SessionInv'
<1>1. client \in ClientType /\ Fits(client, tracks) /\ Sound(client, tracks) /\ f \in FlowType
      /\ tracks \in SUBSET Tracks /\ tracks' = tracks /\ f.offer = "pending"
  BY DEF SessionInv, Fits, ClientType, OfferReady
<1>2. CASE f.at = "open" /\ client' = Move(client, f, [f EXCEPT !.offer = "made"])
  <2> DEFINE g == [f EXCEPT !.offer = "made"]
             m == Move(client, f, g)
  <2>1. Only(client, f) /\ JoinWaits(client, f)
    BY <1>1, <1>2, FlowKinds DEF Spent, LoopWaits
  <2>2. g \in FlowType /\ g.kind = f.kind /\ g.at = f.at /\ g.sock = f.sock
    BY <1>1 DEF FlowType
  <2> HIDE DEF g
  <2>3. m.sockets = client.sockets /\ m = [client EXCEPT !.flows = m.flows]
    BY <1>1, <2>2, MoveFields
  <2>4. JoinWaits(m, g)
    <3> HIDE DEF m
    <3>1. m.sig = client.sig /\ m.joined = client.joined /\ m.joinSent = client.joinSent
          /\ m.phase = client.phase
      BY <1>1, <2>3 DEF ClientType
    <3> QED
      BY <2>1, <2>2, <2>3, <3>1 DEF JoinWaits
  <2>5. ~client.reconnecting /\ g.at = "open" /\ g.sock = client.sig
    BY <1>1, <1>2, <2>1, <2>2 DEF JoinWaits, Sound, PhaseIsTrue
  <2>6. m \in ClientType /\ Fits(m, tracks)
    BY <1>1, <2>1, <2>2, <2>4, <2>5, MoveFits
  <2> QED
    BY <1>1, <1>2, <2>6 DEF SessionInv, g
<1>3. CASE f.at = "offer" /\ client' = Proceed(client, f, FALSE)
  BY <1>1, <1>3, ProceedFits DEF SessionInv
<1>4. CASE f.at = "late" /\ \E made \in BOOLEAN : client' = Late(client, f, made)
  BY <1>1, <1>4, LateFits DEF SessionInv
<1> QED
  BY <1>2, <1>3, <1>4 DEF OfferReady

-----------------------------------------------------------------------------
(* Sockets open and close *)

LEMMA DisconnectedFits ==
  ASSUME SessionInv, NEW i \in Sockets, Disconnected(i)
  PROVE  SessionInv'
<1>1. client.sig # 0 /\ client.sockets[client.sig].st = "open"
  BY SocketsAssumption DEF SessionInv, Fits, Sound, Exclusive, Disconnected, IsOpen
<1> QED
  BY <1>1, TeardownFits DEF SessionInv, Disconnected

LEMMA SocketOpensFits ==
  ASSUME SessionInv, NEW i \in Sockets, SocketOpens(i)
  PROVE  SessionInv'
<1> DEFINE s == [client.sockets[i] EXCEPT !.st = "open"]
           c == [client EXCEPT !.sockets[i].st = "open"]
           f == CHOOSE f \in c.flows : f.at = "open" /\ f.sock = i
<1>1. client \in ClientType /\ Fits(client, tracks) /\ Sound(client, tracks)
      /\ client.sockets[i].st = "connecting" /\ client.sockets \in [Sockets -> SocketType]
      /\ i # 0 /\ tracks \in SUBSET Tracks /\ tracks' = tracks
  BY SocketsAssumption DEF SessionInv, Fits, SocketOpens, ClientType
<1>2. client' = IF f.kind = "join" THEN JoinOpen(c, f) ELSE LoopOpen(c, f)
  BY DEF SocketOpens
<1>3. client.sig = i
  BY <1>1 DEF Sound, Exclusive
<1>4. /\ s \in SocketType /\ s.st = "open" /\ s.first = client.sockets[i].first
      /\ s.in = client.sockets[i].in /\ s.applied = client.sockets[i].applied
      /\ s.subs = client.sockets[i].subs
  BY <1>1 DEF SocketType
<1>5. c = [client EXCEPT !.sockets = [client.sockets EXCEPT ![i] = s]]
  BY <1>1 DEF ClientType
<1> HIDE DEF s, c
<1>6. /\ c \in ClientType /\ c.sockets = [client.sockets EXCEPT ![i] = s]
      /\ Kept(client, c)
  BY <1>1, <1>4, <1>5 DEF ClientType, Kept
<1>7. c.sockets[i] = s /\ \A j \in Sockets : j # i => c.sockets[j] = client.sockets[j]
  BY <1>1, <1>6
<1>8. f \in c.flows /\ f.at = "open" /\ f.sock = i
  <2>1. \E g \in client.flows : g.at = "open" /\ g.sock = client.sig
    BY <1>1, <1>3 DEF Fits, FlowsFit
  <2> QED
    BY <1>3, <1>6, <2>1 DEF Kept
<1> HIDE DEF f
<1>9. f \in client.flows /\ f \in FlowType /\ Only(client, f) /\ Only(c, f)
      /\ (JoinWaits(client, f) \/ LoopWaits(client, f))
  <2>1. f \in client.flows /\ ~Spent(f)
    BY <1>6, <1>8 DEF Kept, Spent
  <2> QED
    BY <1>1, <1>6, <2>1, FlowKinds DEF Kept, Only, ClientType
<1>10. ~client.sockets[i].in /\ client.phase \notin {"idle", "media", "closed"}
  BY <1>1, <1>3 DEF Sound, CleanSockets, PhaseIsTrue
<1>11. Exclusive(c) /\ CleanSockets(c)
  <2>1. Exclusive(c)
    BY <1>1, <1>3, <1>6, <1>7 DEF Sound, Exclusive, Kept
  <2>2. CleanSockets(c)
    BY <1>1, <1>4, <1>7 DEF Sound, CleanSockets
  <2> QED
    BY <2>1, <2>2
<1>12. Served(c, tracks)
  BY <1>1, <1>3, <1>4, <1>6, <1>7, <1>10 DEF Sound, Served, IsIn, Kept
<1>13. CASE f.kind = "join"
  <2>1. ~client.joined /\ ~client.joinSent /\ ~client.reconnecting
        /\ client.sockets[client.sig].first # "join"
    BY <1>1, <1>8, <1>9, <1>13 DEF JoinWaits, LoopWaits, Sound, PhaseIsTrue
  <2> DEFINE d == [c EXCEPT !.phase = "joining"]
             g == [f EXCEPT !.at = "offer"]
  <2>2. client' = IF f.offer = "made" THEN Proceed(d, f, FALSE) ELSE Move(d, f, g)
    BY <1>2, <1>13 DEF JoinOpen
  <2>3. /\ d \in ClientType /\ d.sockets = c.sockets /\ d.flows = c.flows /\ d.phase = "joining"
        /\ d.sig = c.sig /\ d.rtc = c.rtc /\ d.joined = c.joined /\ d.joinSent = c.joinSent
        /\ d.reconnecting = c.reconnecting /\ d.rejoin = c.rejoin
        /\ d.requested = c.requested /\ d.rev = c.rev /\ d.torn = c.torn
    BY <1>6 DEF ClientType
  <2> HIDE DEF d
  <2>4. Sound(d, tracks)
    <3>1. Exclusive(d) /\ CleanSockets(d) /\ Served(d, tracks)
      BY <1>11, <1>12, <2>3 DEF Exclusive, CleanSockets, Served, IsIn
    <3>2. OwnIsUp(d)
      BY <1>3, <1>4, <1>6, <1>7, <2>1, <2>3 DEF OwnIsUp, Kept
    <3>3. PhaseIsTrue(d)
      BY <1>1, <1>6, <2>1, <2>3 DEF Sound, PhaseIsTrue, Kept
    <3> QED
      BY <3>1, <3>2, <3>3 DEF Sound
  <2>5. Only(d, f) /\ f \in d.flows /\ ~d.reconnecting /\ d.sig = i
        /\ d.sockets[d.sig].st = "open"
    BY <1>3, <1>4, <1>6, <1>7, <1>8, <1>9, <2>1, <2>3 DEF Only, Kept
  <2>6. CASE f.offer = "made"
    <3>1. client' = JoinGoesOn(d, f, FALSE)
      BY <1>13, <2>2, <2>6 DEF Proceed
    <3> QED
      BY <1>1, <1>13, <2>3, <2>4, <2>5, <3>1, JoinGoesOnFits DEF SessionInv
  <2>7. CASE f.offer # "made"
    <3> DEFINE m == Move(d, f, g)
    <3>1. g \in FlowType /\ g.kind = "join" /\ g.at = "offer" /\ g.sock = i
      BY <1>8, <1>9, <1>13 DEF FlowType, Places
    <3> HIDE DEF g
    <3>2. m.sockets = d.sockets /\ m = [d EXCEPT !.flows = m.flows]
      BY <2>3, <3>1, MoveFields
    <3>3. JoinWaits(m, g)
      <4> HIDE DEF m
      <4>1. m.sig = d.sig /\ m.joined = d.joined /\ m.joinSent = d.joinSent /\ m.phase = d.phase
        BY <2>3, <3>2 DEF ClientType
      <4> QED
        BY <1>1, <1>3, <1>4, <1>6, <1>7, <2>1, <2>3, <2>5, <3>1, <3>2, <4>1 DEF JoinWaits, Kept
    <3>4. m \in ClientType /\ Fits(m, tracks)
      BY <2>3, <2>4, <2>5, <3>1, <3>3, MoveFits
    <3> QED
      BY <1>1, <2>2, <2>7, <3>4 DEF SessionInv
  <2> QED
    BY <2>6, <2>7
<1>14. CASE f.kind # "join"
  <2>1. LoopWaits(client, f) /\ f.kind = "loop"
    BY <1>9, <1>14 DEF JoinWaits, LoopWaits
  <2>2. client.reconnecting /\ client.joined /\ client.phase = "joined" /\ ~f.live
        /\ f.sock # 0 /\ client.sockets[i].first # "join"
    BY <1>1, <1>3, <1>8, <1>10, <2>1 DEF LoopWaits, Sound, PhaseIsTrue
  <2> DEFINE quiet == {[h EXCEPT !.live = FALSE] : h \in c.flows}
             d == [c EXCEPT !.rtc = TRUE, !.joinSent = FALSE, !.flows = quiet]
             g == [f EXCEPT !.at = "offer", !.offer = "pending", !.live = TRUE]
  <2>3. quiet \in SUBSET FlowType
    <3>1. ASSUME NEW h \in c.flows PROVE [h EXCEPT !.live = FALSE] \in FlowType
      <4>1. h \in FlowType
        BY <1>6 DEF ClientType
      <4> QED
        BY <4>1 DEF FlowType
    <3> QED
      BY <3>1
  <2>4. client' = Move(d, f, g)
    <3>1. client' = Move([CloseRtc(c) EXCEPT !.rtc = TRUE, !.joinSent = FALSE], f, g)
      BY <1>2, <1>14 DEF LoopOpen
    <3>2. CloseRtc(c) = [c EXCEPT !.rtc = FALSE, !.flows = quiet]
      BY DEF CloseRtc
    <3> HIDE DEF quiet
    <3>3. [CloseRtc(c) EXCEPT !.rtc = TRUE, !.joinSent = FALSE] = d
      BY <1>6, <2>3, <3>2 DEF ClientType
    <3> QED
      BY <3>1, <3>3
  <2>5. \A h \in quiet : h = f \/ Spent(h)
    <3>1. ASSUME NEW k \in c.flows
          PROVE  [k EXCEPT !.live = FALSE] = f \/ Spent([k EXCEPT !.live = FALSE])
      <4>1. k \in FlowType /\ (k = f \/ Spent(k))
        BY <1>6, <1>9, <3>1 DEF Only, ClientType
      <4>2. [f EXCEPT !.live = FALSE] = f
        BY <1>9, <2>2 DEF FlowType
      <4>3. [k EXCEPT !.live = FALSE].kind = k.kind /\ [k EXCEPT !.live = FALSE].at = k.at
        BY <4>1 DEF FlowType
      <4> QED
        BY <4>1, <4>2, <4>3 DEF Spent
    <3> QED
      BY <3>1
  <2> HIDE DEF quiet
  <2>6. /\ d \in ClientType /\ d.sockets = c.sockets /\ d.flows = quiet /\ d.phase = c.phase
        /\ d.sig = c.sig /\ d.rtc = TRUE /\ d.joined = c.joined /\ d.joinSent = FALSE
        /\ d.reconnecting = c.reconnecting /\ d.rejoin = c.rejoin
        /\ d.requested = c.requested /\ d.rev = c.rev /\ d.torn = c.torn
    BY <1>6, <2>3 DEF ClientType
  <2> HIDE DEF d
  <2>7. Sound(d, tracks)
    <3>1. Exclusive(d) /\ CleanSockets(d) /\ Served(d, tracks)
      BY <1>11, <1>12, <2>6 DEF Exclusive, CleanSockets, Served, IsIn
    <3>2. OwnIsUp(d)
      BY <1>3, <1>4, <1>6, <1>7, <2>6 DEF OwnIsUp, Kept
    <3>3. PhaseIsTrue(d)
      BY <1>1, <1>6, <2>2, <2>6 DEF Sound, PhaseIsTrue, Kept
    <3> QED
      BY <3>1, <3>2, <3>3 DEF Sound
  <2>8. Only(d, f) /\ d.sig = i /\ d.sockets[d.sig].st = "open" /\ ~d.sockets[d.sig].in
        /\ d.sockets[d.sig].first # "join" /\ d.reconnecting
    BY <1>3, <1>4, <1>6, <1>7, <1>10, <2>2, <2>5, <2>6 DEF Only, Kept
  <2>9. g \in FlowType /\ g.kind = "loop" /\ g.at = "offer" /\ g.sock = i
    BY <1>8, <1>9, <2>1 DEF FlowType, Places
  <2> HIDE DEF g
  <2> DEFINE m == Move(d, f, g)
  <2>10. m.sockets = d.sockets /\ m = [d EXCEPT !.flows = m.flows]
    BY <2>6, <2>9, MoveFields
  <2>11. LoopWaits(m, g)
    <3> HIDE DEF m
    <3>1. m.sig = d.sig /\ m.reconnecting = d.reconnecting /\ m.joinSent = d.joinSent
      BY <2>6, <2>10 DEF ClientType
    <3> QED
      BY <1>1, <2>6, <2>8, <2>9, <2>10, <3>1 DEF LoopWaits
  <2>12. m \in ClientType /\ Fits(m, tracks)
    BY <2>6, <2>7, <2>8, <2>9, <2>11, MoveFits
  <2> QED
    BY <1>1, <2>4, <2>12 DEF SessionInv
<1> QED
  BY <1>13, <1>14

\* The session without its socket i, and when it takes note of it.
Bare(c, i) == [c EXCEPT !.sockets[i] = NoSocket]
OwnGone(c, i, torn) ==
  [Settled(Bare(c, i), "fail") EXCEPT !.sig = 0, !.attempt = 0, !.torn = @ \/ torn]

LEMMA OwnGoneFields ==
  ASSUME NEW c \in ClientType, NEW now, Fits(c, now), NEW i \in Sockets, c.sig = i,
         NEW torn \in BOOLEAN
  PROVE  LET d == Bare(c, i)
             u == OwnGone(c, i, torn)
         IN  /\ d.flows = c.flows /\ d.reconnecting = c.reconnecting /\ d.joined = c.joined
             /\ d.phase = c.phase
             /\ u \in ClientType /\ Exclusive(u) /\ CleanSockets(u) /\ OwnIsUp(u)
             /\ \A f \in c.flows : Told(c, "fail", f) \in u.flows
             /\ \A g \in u.flows : \E f \in c.flows : g = Told(c, "fail", f)
             /\ u.phase = c.phase /\ u.sig = 0 /\ u.rtc = c.rtc /\ u.joined = c.joined
             /\ u.joinSent = c.joinSent /\ u.reconnecting = c.reconnecting /\ u.rejoin = c.rejoin
             /\ u.attempt = 0 /\ u.requested = c.requested /\ u.rev = c.rev
             /\ u.torn = (c.torn \/ torn)
<1> DEFINE d == Bare(c, i)
           t == Settled(d, "fail")
           u == [t EXCEPT !.sig = 0, !.attempt = 0, !.torn = @ \/ torn]
<1>9. OwnGone(c, i, torn) = u
  BY DEF OwnGone
<1>1. NoSocket \in SocketType /\ NoSocket.st = "none" /\ NoSocket.first = "none"
      /\ ~NoSocket.in /\ NoSocket.applied = 0 /\ NoSocket.subs = {}
  BY DEF NoSocket, SocketType, Frames
<1>2. /\ d \in ClientType /\ d.sockets = [c.sockets EXCEPT ![i] = NoSocket] /\ d.flows = c.flows
      /\ d.phase = c.phase /\ d.rtc = c.rtc /\ d.joined = c.joined
      /\ d.joinSent = c.joinSent /\ d.reconnecting = c.reconnecting /\ d.rejoin = c.rejoin
      /\ d.attempt = c.attempt /\ d.requested = c.requested /\ d.rev = c.rev /\ d.torn = c.torn
  BY <1>1 DEF ClientType, Bare
<1> HIDE DEF d
<1>3. /\ t \in ClientType /\ t = [d EXCEPT !.flows = t.flows]
      /\ t.flows = {Told(d, "fail", f) : f \in d.flows}
  BY <1>2, SettledFields
<1> HIDE DEF t
<1>4. /\ \A f \in c.flows : Told(c, "fail", f) \in t.flows
      /\ \A g \in t.flows : \E f \in c.flows : g = Told(c, "fail", f)
  BY <1>2, <1>3 DEF Told
<1>5. /\ u \in ClientType /\ u.sockets = d.sockets /\ u.flows = t.flows
      /\ u.phase = d.phase /\ u.sig = 0 /\ u.rtc = d.rtc /\ u.joined = d.joined
      /\ u.joinSent = d.joinSent /\ u.reconnecting = d.reconnecting /\ u.rejoin = d.rejoin
      /\ u.attempt = 0 /\ u.requested = d.requested /\ u.rev = d.rev
      /\ u.torn = (d.torn \/ torn)
  BY <1>2, <1>3 DEF ClientType
<1> HIDE DEF u
<1>6. u.sockets[i] = NoSocket /\ \A j \in Sockets : j # i => u.sockets[j] = c.sockets[j]
  BY <1>2, <1>5 DEF ClientType
<1>7. Exclusive(u)
  BY <1>1, <1>6 DEF Fits, Sound, Exclusive
<1>8. CleanSockets(u)
  BY <1>1, <1>6 DEF Fits, Sound, CleanSockets
<1> QED
  BY <1>2, <1>3, <1>4, <1>5, <1>7, <1>8, <1>9 DEF OwnIsUp, d

\* The loop loses its attempt, wherever it waits.
LEMMA LoopLosesSocket ==
  ASSUME NEW c \in ClientType, NEW now, Fits(c, now), NEW i \in Sockets, c.sig = i, i # 0,
         c.reconnecting
  PROVE  Closed(c, i) \in ClientType /\ Fits(Closed(c, i), now)
<1> DEFINE heard == \E f \in c.flows : f.kind = "loop" /\ f.at = "late" /\ f.done = "ok"
<1>0. PICK torn \in BOOLEAN : torn = heard
  OBVIOUS
<1> DEFINE d == Bare(c, i)
           u == OwnGone(c, i, torn)
           hit == {h \in u.flows : \/ h.at = "open" /\ h.sock = i
                                   \/ h.at = "done" /\ h.sock = c.attempt}
           x == CHOOSE h \in hit : TRUE
<1>2. /\ d.flows = c.flows /\ d.reconnecting = c.reconnecting /\ d.joined = c.joined
      /\ u \in ClientType /\ Exclusive(u) /\ CleanSockets(u) /\ OwnIsUp(u)
      /\ \A f \in c.flows : Told(c, "fail", f) \in u.flows
      /\ \A g \in u.flows : \E f \in c.flows : g = Told(c, "fail", f)
      /\ u.phase = c.phase /\ u.sig = 0 /\ u.rtc = c.rtc /\ u.joined = c.joined
      /\ u.joinSent = c.joinSent /\ u.reconnecting = c.reconnecting /\ u.rejoin = c.rejoin
      /\ u.attempt = 0 /\ u.requested = c.requested /\ u.rev = c.rev
      /\ u.torn = (c.torn \/ torn)
  <2> HIDE DEF heard, hit, x
  <2>1. Fits(c, now) /\ i \in Sockets /\ c.sig = i /\ torn \in BOOLEAN /\ c \in ClientType
    OBVIOUS
  <2> QED
    BY ONLY <2>1, OwnGoneFields
<1>3. Closed(c, i) = CASE hit = {} -> u
                       [] hit # {} /\ x.kind = "join" -> Teardown(Without(u, x))
                       [] hit # {} /\ x.kind = "loop" /\ x.at = "open" -> Fails(u, x)
                       [] OTHER -> Settle(u, x, FALSE)
  <2>1. OwnSocketClosed(d) = u
    BY <1>0, <1>2 DEF OwnSocketClosed, OwnGone
  <2> QED
    BY <2>1 DEF Closed, Bare
<1>4. PICK f \in c.flows : f.kind = "loop"
  BY DEF Fits, FlowsFit
<1>5. Only(c, f) /\ LoopWaits(c, f) /\ f \in FlowType
  BY <1>4, FlowKinds DEF Spent, JoinWaits, ClientType
<1> DEFINE g == Told(c, "fail", f)
<1>6. /\ g \in FlowType /\ g.kind = f.kind /\ g.at = f.at /\ g.sock = f.sock
      /\ g.offer = f.offer /\ g.live = f.live /\ g.n = f.n
      /\ g.done = IF f.at = "late" /\ f.kind = "loop" /\ f.sock = c.attempt
                  THEN "fail" ELSE f.done
  BY <1>5, ToldFields
<1>7. g \in u.flows
  BY <1>2
<1>8. \A h \in u.flows : h = g \/ Spent(h)
  <2>1. ASSUME NEW k \in c.flows PROVE Told(c, "fail", k) = g \/ Spent(Told(c, "fail", k))
    BY <1>5 DEF Only, Told, Spent
  <2> QED
    BY <1>2, <2>1
<1>9. torn \/ ~IsIn(c)
  BY <1>0, <1>4, <1>5 DEF LoopWaits, IsIn
<1> HIDE DEF g, d, u, heard
<1>10. PhaseIsTrue(u)
  BY <1>2 DEF Fits, Sound, PhaseIsTrue
<1>11. Served(u, now)
  BY <1>2, <1>9 DEF Fits, Sound, Served, IsIn
<1>12. Sound(u, now) /\ Only(u, g)
  BY <1>2, <1>8, <1>10, <1>11 DEF Sound, Only
<1>13. /\ f.sock = i /\ f.at \in {"open", "offer", "late", "done"}
       /\ f.at = "done" => f.sock = c.attempt
  BY <1>5 DEF LoopWaits
<1>14. CASE f.at \in {"open", "done"}
  <2>1. hit = {g}
    BY <1>6, <1>7, <1>8, <1>13, <1>14 DEF Spent
  <2>2. x = g /\ hit # {}
    BY <2>1
  <2> HIDE DEF hit, x
  <2>3. CASE f.at = "open"
    <3>1. Closed(c, i) = Fails(u, g)
      BY <1>3, <1>4, <1>6, <2>2, <2>3
    <3> QED
      BY <1>2, <1>4, <1>6, <1>7, <1>12, <3>1, FailsFits
  <2>4. CASE f.at = "done"
    <3>1. Closed(c, i) = Settle(u, g, FALSE)
      BY <1>3, <1>4, <1>6, <2>2, <2>4
    <3> QED
      BY <1>2, <1>4, <1>6, <1>7, <1>12, <3>1, SettleFits
  <2> QED
    BY <1>14, <2>3, <2>4
<1>15. CASE f.at \in {"offer", "late"}
  <2>1. hit = {}
    BY <1>6, <1>8, <1>15 DEF Spent
  <2>2. Closed(c, i) = u
    BY <1>3, <2>1
  <2>3. LoopWaits(u, g)
    BY <1>2, <1>4, <1>5, <1>6, <1>15 DEF LoopWaits
  <2>4. FlowsFit(u)
    BY <1>2, <1>4, <1>6, <1>7, <1>8, <2>3 DEF FlowsFit, Only
  <2> QED
    BY <1>2, <1>12, <2>2, <2>4 DEF Fits
<1> QED
  BY <1>13, <1>14, <1>15

\* A call that nobody is reconnecting loses its socket: the loop begins.
LEMMA CallLosesSocket ==
  ASSUME NEW c \in ClientType, NEW now, Fits(c, now), NEW i \in Sockets, c.sig = i, i # 0,
         ~c.reconnecting, c.joined
  PROVE  Closed(c, i) \in ClientType /\ Fits(Closed(c, i), now)
<1> DEFINE heard == \E f \in c.flows : f.kind = "loop" /\ f.at = "late" /\ f.done = "ok"
<1>1. PICK torn \in BOOLEAN : torn = heard
  OBVIOUS
<1> HIDE DEF heard
<1> DEFINE d == Bare(c, i)
           u == OwnGone(c, i, torn)
           b == BeginReconnect(u)
<1>2. /\ d.flows = c.flows /\ d.reconnecting = c.reconnecting /\ d.joined = c.joined
      /\ u \in ClientType /\ Exclusive(u) /\ CleanSockets(u)
      /\ \A g \in u.flows : \E f \in c.flows : g = Told(c, "fail", f)
      /\ u.phase = c.phase /\ u.sig = 0 /\ u.rtc = c.rtc /\ u.joined = c.joined
      /\ u.joinSent = c.joinSent /\ u.reconnecting = c.reconnecting
  <2>1. Fits(c, now) /\ i \in Sockets /\ c.sig = i /\ torn \in BOOLEAN /\ c \in ClientType
    OBVIOUS
  <2> QED
    BY ONLY <2>1, OwnGoneFields
<1>3. OwnSocketClosed(d) = b
  BY <1>1, <1>2 DEF OwnSocketClosed, OwnGone, heard
<1> HIDE DEF u, d
<1>4. \A g \in u.flows : Spent(g)
  <2>1. \A f \in c.flows : Spent(f)
    BY NobodyWaits
  <2> QED
    BY <1>2, <2>1 DEF Told, Spent
<1>5. PhaseIsTrue(u)
  BY <1>2 DEF Fits, Sound, PhaseIsTrue
<1>6. /\ b \in ClientType /\ Fits(b, now)
      /\ \A f \in b.flows : Spent(f) \/ f.at = "backoff"
  BY <1>2, <1>4, <1>5, BeginReconnectFits
<1> HIDE DEF b
<1>7. Closed(c, i) = b
  <2>1. {f \in b.flows : \/ f.at = "open" /\ f.sock = i
                         \/ f.at = "done" /\ f.sock = c.attempt} = {}
    BY <1>6 DEF Spent
  <2> QED
    BY <1>3, <2>1 DEF Closed, Bare, d
<1> QED
  BY <1>6, <1>7

\* A join loses its socket before it is let in: the call ends.
LEMMA JoinLosesSocket ==
  ASSUME NEW c \in ClientType, NEW now, Fits(c, now), NEW i \in Sockets, c.sig = i, i # 0,
         ~c.reconnecting, ~c.joined
  PROVE  Closed(c, i) \in ClientType /\ Fits(Closed(c, i), now)
<1> DEFINE heard == \E f \in c.flows : f.kind = "loop" /\ f.at = "late" /\ f.done = "ok"
<1>1. PICK torn \in BOOLEAN : torn = heard
  OBVIOUS
<1> HIDE DEF heard
<1> DEFINE d == Bare(c, i)
           u == OwnGone(c, i, torn)
           e == Teardown(u)
           hit == {f \in e.flows : \/ f.at = "open" /\ f.sock = i
                                   \/ f.at = "done" /\ f.sock = c.attempt}
           x == CHOOSE f \in hit : TRUE
<1>2. /\ d.flows = c.flows /\ d.reconnecting = c.reconnecting /\ d.joined = c.joined
      /\ d.phase = c.phase
      /\ u \in ClientType /\ Exclusive(u) /\ CleanSockets(u)
      /\ \A f \in c.flows : Told(c, "fail", f) \in u.flows
      /\ \A g \in u.flows : \E f \in c.flows : g = Told(c, "fail", f)
      /\ u.phase = c.phase /\ u.sig = 0 /\ u.joined = c.joined /\ u.reconnecting = c.reconnecting
  <2>1. Fits(c, now) /\ i \in Sockets /\ c.sig = i /\ torn \in BOOLEAN /\ c \in ClientType
    OBVIOUS
  <2> QED
    BY ONLY <2>1, OwnGoneFields
<1>3. c.phase \notin {"closed", "idle", "media"}
  BY DEF Fits, Sound, PhaseIsTrue
<1>4. OwnSocketClosed(d) = e
  BY <1>1, <1>2, <1>3 DEF OwnSocketClosed, OwnGone, heard
<1> HIDE DEF u, d
<1>5. ASSUME NEW f \in c.flows
      PROVE  f.kind = "join" /\ (Spent(f) \/ (Only(c, f) /\ f.at \in {"open", "offer"}))
  <2>1. CASE Spent(f)
    BY <2>1 DEF Spent
  <2>2. CASE ~Spent(f)
    <3>1. Only(c, f) /\ (JoinWaits(c, f) \/ LoopWaits(c, f))
      BY <2>2, FlowKinds
    <3> QED
      BY <1>3, <3>1 DEF JoinWaits, LoopWaits
  <2> QED
    BY <2>1, <2>2
<1>6. u.flows = c.flows
  <2>1. \A f \in c.flows : Told(c, "fail", f) = f
    BY <1>5 DEF Told
  <2> QED
    BY <1>2, <2>1
<1>7. Closed(c, i) = CASE hit = {} -> e
                       [] hit # {} /\ x.kind = "join" -> Teardown(Without(e, x))
                       [] hit # {} /\ x.kind = "loop" /\ x.at = "open" -> Fails(e, x)
                       [] OTHER -> Settle(e, x, FALSE)
  BY <1>4 DEF Closed, Bare, d
<1>8. /\ e \in ClientType /\ e.sig = 0
      /\ \A j \in Sockets : e.sockets[j] = u.sockets[j]
      /\ \A g \in e.flows : \E f \in u.flows : g = Aged(u, f)
      /\ \A f \in u.flows : f.at = "open" => Aged(u, f) \in e.flows
  BY <1>2, TeardownFields, SocketsAssumption
<1>9. \A f \in c.flows : /\ Aged(u, f).kind = f.kind /\ Aged(u, f).at = f.at
                         /\ Aged(u, f).sock = f.sock
  BY <1>2, AgedFields DEF ClientType
<1>10. Exclusive(e) /\ CleanSockets(e)
  BY <1>2, <1>8 DEF Exclusive, CleanSockets
<1>11. CASE \E f \in c.flows : f.at = "open"
  <2>1. PICK f \in c.flows : f.at = "open"
    BY <1>11
  <2>2. Only(c, f) /\ f.sock = i /\ f.kind = "join"
    <3>1. Only(c, f) /\ f.kind = "join" /\ ~Spent(f)
      BY <1>5, <2>1 DEF Spent
    <3>2. JoinWaits(c, f)
      BY <3>1, FlowKinds DEF LoopWaits
    <3> QED
      BY <2>1, <3>1, <3>2 DEF JoinWaits
  <2> DEFINE g == Aged(u, f)
             w == Without(e, g)
  <2>3. g \in e.flows /\ g.kind = "join" /\ g.at = "open" /\ g.sock = i
    BY <1>6, <1>8, <1>9, <2>1, <2>2
  <2>4. \A h \in e.flows : h = g \/ Spent(h)
    <3>1. ASSUME NEW h \in e.flows PROVE h = g \/ Spent(h)
      <4>1. PICK k \in c.flows : h = Aged(u, k)
        BY <1>6, <1>8
      <4> QED
        BY <1>9, <2>2, <4>1 DEF Only, Spent
    <3> QED
      BY <3>1
  <2> HIDE DEF g, e
  <2>5. hit = {g}
    BY <2>3, <2>4 DEF Spent
  <2>6. x = g /\ hit # {}
    BY <2>5
  <2> HIDE DEF hit, x
  <2>7. Closed(c, i) = Teardown(w)
    BY <1>7, <2>3, <2>6
  <2>8. /\ w \in ClientType /\ w.flows = e.flows \ {g} /\ w.sockets = e.sockets
        /\ w = [e EXCEPT !.flows = w.flows]
    BY <1>8, WithoutFields
  <2> HIDE DEF w
  <2>9. w.sig = e.sig
    BY <1>8, <2>8 DEF ClientType
  <2>10. Exclusive(w) /\ CleanSockets(w)
    BY <1>10, <2>8, <2>9 DEF Exclusive, CleanSockets
  <2> QED
    BY <2>4, <2>7, <2>8, <2>10, TornFits
<1>12. CASE ~\E f \in c.flows : f.at = "open"
  <2>1. ASSUME NEW f \in u.flows PROVE Spent(f) \/ (Only(u, f) /\ Ends(u, f))
    BY <1>5, <1>6, <1>12 DEF Only, Ends
  <2>2. Fits(e, now)
    BY <1>2, <2>1, TornFits
  <2>3. hit = {}
    <3>1. ASSUME NEW h \in e.flows PROVE h.at \notin {"open", "done"}
      <4>1. PICK k \in c.flows : h = Aged(u, k)
        BY <1>6, <1>8
      <4> QED
        BY <1>5, <1>9, <1>12, <4>1 DEF Spent
    <3> QED
      BY <3>1
  <2> HIDE DEF e, hit
  <2>4. Closed(c, i) = e
    BY <1>7, <2>3
  <2> QED
    BY <1>8, <2>2, <2>4
<1> QED
  BY <1>11, <1>12

\* A socket that the session gave up is gone; a loop may have waited for it.
LEMMA GivenUpSocketGoes ==
  ASSUME NEW c \in ClientType, NEW now, Fits(c, now), NEW i \in Sockets, c.sig # i,
         c.sockets[i].st # "none"
  PROVE  Closed(c, i) \in ClientType /\ Fits(Closed(c, i), now)
<1> DEFINE d == Bare(c, i)
           hit == {f \in d.flows : f.at = "open" /\ f.sock = i}
           x == CHOOSE f \in hit : TRUE
<1>1. NoSocket \in SocketType /\ NoSocket.st = "none" /\ NoSocket.first = "none"
      /\ ~NoSocket.in /\ NoSocket.applied = 0 /\ NoSocket.subs = {}
  BY DEF NoSocket, SocketType, Frames
<1>2. /\ d \in ClientType /\ d.sockets = [c.sockets EXCEPT ![i] = NoSocket] /\ Kept(c, d)
  BY <1>1 DEF ClientType, Bare, Kept
<1>3. d.sockets[i] = NoSocket /\ \A j \in Sockets : j # i => d.sockets[j] = c.sockets[j]
  BY <1>2 DEF ClientType
<1>4. Closed(c, i) = CASE hit = {} -> d
                       [] hit # {} /\ x.kind = "join" -> Teardown(Without(d, x))
                       [] hit # {} /\ x.kind = "loop" /\ x.at = "open" -> Fails(d, x)
                       [] OTHER -> Settle(d, x, FALSE)
  BY DEF Closed, Bare
<1>5. c.sig # 0 => c.sig \in Sockets
  BY DEF ClientType
<1> HIDE DEF d
<1>6. Sound(d, now)
  <2>1. Exclusive(d) /\ CleanSockets(d)
    <3>1. Exclusive(d)
      BY <1>1, <1>2, <1>3 DEF Fits, Sound, Exclusive, Kept
    <3>2. CleanSockets(d)
      BY <1>1, <1>3 DEF Fits, Sound, CleanSockets
    <3> QED
      BY <3>1, <3>2
  <2>2. OwnIsUp(d) /\ PhaseIsTrue(d)
    BY <1>2, <1>3, <1>5 DEF Fits, Sound, OwnIsUp, PhaseIsTrue, Kept
  <2>3. Served(d, now)
    BY <1>2, <1>3, <1>5 DEF Fits, Sound, Served, IsIn, Kept
  <2> QED
    BY <2>1, <2>2, <2>3 DEF Sound
<1>7. ASSUME NEW f \in c.flows
      PROVE  /\ Only(c, f) => Only(d, f)
             /\ JoinWaits(c, f) => JoinWaits(d, f)
             /\ LoopWaits(c, f) => LoopWaits(d, f)
  BY <1>2, <1>3, <1>5 DEF Only, JoinWaits, LoopWaits, Kept
<1>8. FlowsFit(d)
  <2>1. d.flows = c.flows /\ d.sig = c.sig /\ d.reconnecting = c.reconnecting
    BY <1>2 DEF Kept
  <2>2. \A f \in d.flows : Spent(f) \/ (Only(d, f) /\ (JoinWaits(d, f) \/ LoopWaits(d, f)))
    BY <1>7, <2>1 DEF Fits, FlowsFit
  <2> QED
    BY <1>3, <1>5, <2>1, <2>2 DEF Fits, FlowsFit
<1>9. Fits(d, now)
  BY <1>6, <1>8 DEF Fits
<1>10. CASE hit = {}
  BY <1>2, <1>4, <1>9, <1>10
<1>11. CASE hit # {}
  <2>1. x \in d.flows /\ x.at = "open" /\ x.sock = i
    BY <1>11
  <2> HIDE DEF x, hit
  <2>2. Only(d, x) /\ (JoinWaits(d, x) \/ LoopWaits(d, x))
    BY <1>2, <1>9, <2>1, FlowKinds DEF Spent
  <2>3. d.sig # i
    BY <1>2 DEF Kept
  <2>4. x.kind = "loop" /\ ~d.reconnecting /\ d.phase = "closed"
    BY <2>1, <2>2, <2>3 DEF JoinWaits, LoopWaits
  <2>5. d.sig = 0
    BY <1>6, <2>4 DEF Sound, PhaseIsTrue
  <2>6. Closed(c, i) = Fails(d, x)
    BY <1>4, <1>11, <2>1, <2>4
  <2> QED
    BY <1>2, <1>6, <2>1, <2>2, <2>4, <2>5, <2>6, FailsFits
<1> QED
  BY <1>10, <1>11

LEMMA SocketGoesFits ==
  ASSUME SessionInv, NEW i \in Sockets, SocketEnds(i) \/ SocketDies(i)
  PROVE  SessionInv'
<1>1. client' = Closed(client, i) /\ tracks' = tracks /\ client.sockets[i].st # "none"
      /\ client \in ClientType /\ Fits(client, tracks) /\ i # 0
  BY SocketsAssumption DEF SocketEnds, SocketDies, SessionInv
<1>2. Closed(client, i) \in ClientType /\ Fits(Closed(client, i), tracks)
  <2>1. CASE client.sig # i
    BY <1>1, <2>1, GivenUpSocketGoes
  <2>2. CASE client.sig = i /\ client.reconnecting
    BY <1>1, <2>2, LoopLosesSocket
  <2>3. CASE client.sig = i /\ ~client.reconnecting /\ client.joined
    BY <1>1, <2>3, CallLosesSocket
  <2>4. CASE client.sig = i /\ ~client.reconnecting /\ ~client.joined
    BY <1>1, <2>4, JoinLosesSocket
  <2> QED
    BY <2>1, <2>2, <2>3, <2>4
<1> QED
  BY <1>1, <1>2 DEF SessionInv

-----------------------------------------------------------------------------
(* The answer to the join *)

\* Who is let in while it waits for the answer is the attempt of the loop.
LEMMA WhoIsLetIn ==
  ASSUME NEW c \in ClientType, NEW now, Fits(c, now), c.sig # 0, c.sockets[c.sig].st = "open",
         ~c.sockets[c.sig].in, c.sockets[c.sig].first = "join",
         NEW f \in c.flows, ~Spent(f)
  PROVE  /\ Only(c, f) /\ f.kind = "loop" /\ c.reconnecting /\ f.sock = c.sig /\ c.attempt = c.sig
         /\ f.at = "done" \/ (f.at = "late" /\ f.done = "pending")
<1>1. Only(c, f) /\ (JoinWaits(c, f) \/ LoopWaits(c, f))
  BY FlowKinds
<1>2. c.phase \notin {"idle", "media", "closed"}
  BY DEF Fits, Sound, PhaseIsTrue
<1>3. ~JoinWaits(c, f)
  BY <1>2 DEF JoinWaits
<1> QED
  BY <1>1, <1>2, <1>3 DEF LoopWaits

\* The session once it is let in and has subscribed.
LEMMA LetIn ==
  ASSUME NEW c \in ClientType, NEW now \in SUBSET Tracks, Fits(c, now), NEW i \in Sockets, c.sig = i,
         c.sockets[i].st = "open", ~c.sockets[i].in, c.sockets[i].first = "join"
  PROVE  LET j == [Reset(c) EXCEPT !.joined = TRUE, !.phase = "joined", !.sockets[i].in = TRUE]
             d == Subscribe(Send(j, j.sig, "other"), now)
         IN  /\ d \in ClientType /\ Sound(d, now) /\ IsIn(d) /\ d.sig = c.sig
             /\ d.sockets[i].st = "open" /\ d.flows = c.flows
             /\ d.attempt = c.attempt /\ d.reconnecting = c.reconnecting
<1> DEFINE r == Reset(c)
           j == [r EXCEPT !.joined = TRUE, !.phase = "joined", !.sockets[i].in = TRUE]
           s == [c.sockets[i] EXCEPT !.in = TRUE]
           d == Subscribe(j, now)
<1>1. /\ r \in ClientType /\ r.sockets = c.sockets /\ r.flows = c.flows /\ r.phase = c.phase
      /\ r.sig = c.sig /\ r.rtc = c.rtc /\ r.joined = c.joined /\ r.joinSent = c.joinSent
      /\ r.reconnecting = c.reconnecting /\ r.attempt = c.attempt
      /\ r.torn \/ (r.requested = {} /\ r.rev = 0)
  <2>1. CASE c.rejoin
    BY <2>1 DEF Reset, ClientType
  <2>2. CASE ~c.rejoin
    BY <2>2 DEF Reset, Fits, Sound, Served, IsIn
  <2> QED
    BY <2>1, <2>2
<1>2. i # 0 /\ c.sockets \in [Sockets -> SocketType]
  BY SocketsAssumption DEF ClientType
<1>3. /\ s \in SocketType /\ s.in /\ s.st = "open" /\ s.first = "join"
      /\ s.applied = c.sockets[i].applied /\ s.subs = c.sockets[i].subs
  BY <1>2 DEF SocketType
<1>4. j = [r EXCEPT !.joined = TRUE, !.phase = "joined", !.sockets = [c.sockets EXCEPT ![i] = s]]
  BY <1>1 DEF ClientType
<1> HIDE DEF r, s, j
<1>5. /\ j \in ClientType /\ j.sockets = [c.sockets EXCEPT ![i] = s] /\ j.flows = c.flows
      /\ j.phase = "joined" /\ j.sig = c.sig /\ j.rtc = c.rtc /\ j.joined /\ j.joinSent = c.joinSent
      /\ j.reconnecting = c.reconnecting /\ j.attempt = c.attempt
      /\ j.torn \/ (j.requested = {} /\ j.rev = 0)
  BY <1>1, <1>2, <1>3, <1>4 DEF ClientType
<1>6. j.sockets[i] = s /\ \A k \in Sockets : k # i => j.sockets[k] = c.sockets[k]
  BY <1>2, <1>5
<1>7. s.applied = 0 /\ s.subs = {}
  BY <1>3 DEF Fits, Sound, CleanSockets
<1>8. Send(j, j.sig, "other") = j
  BY <1>3, <1>5, <1>6 DEF Send
<1>9. j.sig \in Sockets /\ j.sockets[j.sig].st = "open"
      /\ (j.torn \/ (j.requested = j.sockets[j.sig].subs /\ j.sockets[j.sig].applied = j.rev))
  BY <1>3, <1>5, <1>6, <1>7
<1>10. /\ d \in ClientType
       /\ d = [j EXCEPT !.requested = d.requested, !.rev = d.rev, !.sockets = d.sockets]
       /\ \A k \in Sockets : k # j.sig => d.sockets[k] = j.sockets[k]
       /\ d.sockets[j.sig].st = "open" /\ d.sockets[j.sig].in = j.sockets[j.sig].in
       /\ d.sockets[j.sig].first = j.sockets[j.sig].first
       /\ j.torn \/ (/\ d.requested = now /\ d.sockets[j.sig].subs = now
                     /\ d.sockets[j.sig].applied = d.rev)
  BY <1>5, <1>9, SubscribeFields
<1> HIDE DEF d
<1>11. /\ d.phase = "joined" /\ d.sig = i /\ d.rtc = c.rtc /\ d.joined
       /\ d.joinSent = c.joinSent /\ d.reconnecting = c.reconnecting /\ d.attempt = c.attempt
       /\ d.flows = c.flows /\ d.torn = j.torn
  <2>1. /\ d.phase = j.phase /\ d.sig = j.sig /\ d.rtc = j.rtc /\ d.joined = j.joined
        /\ d.joinSent = j.joinSent /\ d.reconnecting = j.reconnecting
        /\ d.attempt = j.attempt /\ d.flows = j.flows /\ d.torn = j.torn
    <3>1. j \in ClientType /\ d = [j EXCEPT !.requested = d.requested, !.rev = d.rev, !.sockets = d.sockets]
      BY <1>5, <1>10
    <3> QED
      BY ONLY <3>1 DEF ClientType
  <2> QED
    BY <1>5, <2>1
<1>12. /\ d.sockets[i].st = "open" /\ d.sockets[i].in /\ d.sockets[i].first = "join"
       /\ \A k \in Sockets : k # i => d.sockets[k] = c.sockets[k]
       /\ d.torn \/ (d.requested = now /\ d.sockets[i].subs = now /\ d.sockets[i].applied = d.rev)
  BY <1>3, <1>5, <1>6, <1>10, <1>11
<1>13. Exclusive(d) /\ CleanSockets(d)
  <2>1. Exclusive(d)
    BY <1>11, <1>12 DEF Fits, Sound, Exclusive
  <2>2. ASSUME NEW k \in Sockets
        PROVE  /\ d.sockets[k].st # "open" => ~d.sockets[k].in
               /\ ~d.sockets[k].in => d.sockets[k].applied = 0 /\ d.sockets[k].subs = {}
               /\ d.sockets[k].first # "candidates"
    <3>1. CASE k = i
      BY <1>12, <3>1
    <3>2. CASE k # i
      BY <1>12, <3>2 DEF Fits, Sound, CleanSockets
    <3> QED
      BY <3>1, <3>2
  <2> QED
    BY <2>1, <2>2 DEF CleanSockets
<1>14. OwnIsUp(d) /\ PhaseIsTrue(d)
  BY <1>11, <1>12 DEF OwnIsUp, PhaseIsTrue
<1>15. IsIn(d) /\ Served(d, now)
  BY <1>2, <1>11, <1>12 DEF Served, IsIn
<1>16. d \in ClientType /\ Sound(d, now)
  BY <1>10, <1>13, <1>14, <1>15 DEF Sound
<1> QED
  BY <1>8, <1>11, <1>12, <1>15, <1>16 DEF d, j, r

LEMMA JoinAnsweredFits ==
  ASSUME SessionInv, NEW i \in Sockets, JoinAnswered(i)
  PROVE  SessionInv'
<1> DEFINE j == [Reset(client) EXCEPT !.joined = TRUE, !.phase = "joined", !.sockets[i].in = TRUE]
           d == Subscribe(Send(j, j.sig, "other"), tracks)
           attempts == {f \in d.flows : f.at = "done" /\ f.sock = d.attempt}
           x == CHOOSE f \in attempts : TRUE
           t == Settled(d, "ok")
           e == [t EXCEPT !.attempt = 0]
<1>1. client \in ClientType /\ Fits(client, tracks) /\ i # 0 /\ tracks \in SUBSET Tracks
      /\ tracks' = tracks /\ client.sockets[i].st = "open" /\ ~client.sockets[i].in
      /\ client.sockets[i].first = "join"
  BY SocketsAssumption DEF SessionInv, JoinAnswered, IsOpen
<1>2. client.sig = i
  BY <1>1 DEF Fits, Sound, Exclusive
<1>3. client' = IF attempts # {} THEN Settle(d, x, TRUE) ELSE e
  BY DEF JoinAnswered
<1>4. /\ d \in ClientType /\ Sound(d, tracks) /\ IsIn(d) /\ d.sig = client.sig
      /\ d.sockets[i].st = "open" /\ d.flows = client.flows
      /\ d.attempt = client.attempt /\ d.reconnecting = client.reconnecting
  BY <1>1, <1>2, LetIn
<1> HIDE DEF d
<1>5. ASSUME NEW f \in d.flows, ~Spent(f)
      PROVE  /\ Only(d, f) /\ f.kind = "loop" /\ d.reconnecting /\ f.sock = i /\ d.attempt = i
             /\ f.at = "done" \/ (f.at = "late" /\ f.done = "pending")
  <2>1. /\ Only(client, f) /\ f.kind = "loop" /\ client.reconnecting /\ f.sock = client.sig
        /\ client.attempt = client.sig
        /\ f.at = "done" \/ (f.at = "late" /\ f.done = "pending")
    BY <1>1, <1>2, <1>4, <1>5, WhoIsLetIn
  <2> QED
    BY <1>2, <1>4, <2>1 DEF Only
<1>6. CASE attempts # {}
  <2>1. x \in d.flows /\ x.at = "done"
    BY <1>6
  <2> HIDE DEF x, attempts
  <2>2. Only(d, x) /\ x.kind = "loop" /\ d.reconnecting
    BY <1>5, <2>1 DEF Spent
  <2>3. Settle(d, x, TRUE) \in ClientType /\ Fits(Settle(d, x, TRUE), tracks)
    BY <1>4, <2>1, <2>2, SettleFits
  <2> QED
    BY <1>1, <1>3, <1>6, <2>3 DEF SessionInv
<1>7. CASE attempts = {}
  <2>1. /\ t \in ClientType /\ t = [d EXCEPT !.flows = t.flows]
        /\ t.flows = {Told(d, "ok", f) : f \in d.flows}
    BY <1>4, SettledFields
  <2>2. /\ \A g \in t.flows : \E f \in d.flows : g = Told(d, "ok", f)
        /\ \A f \in d.flows : Told(d, "ok", f) \in t.flows
    BY <2>1
  <2> HIDE DEF t
  <2>3. Sound(t, tracks)
    BY <1>4, <2>1, SoundFlows
  <2>4. /\ e \in ClientType /\ e.flows = t.flows /\ e.sockets = t.sockets
        /\ e.phase = t.phase /\ e.sig = t.sig /\ e.rtc = t.rtc /\ e.joined = t.joined
        /\ e.joinSent = t.joinSent /\ e.reconnecting = t.reconnecting /\ e.rejoin = t.rejoin
        /\ e.requested = t.requested /\ e.rev = t.rev /\ e.torn = t.torn
    BY <2>1 DEF ClientType
  <2>5. t.sockets = d.sockets /\ t.sig = d.sig /\ t.reconnecting = d.reconnecting
    BY <1>4, <2>1 DEF ClientType
  <2> HIDE DEF e
  <2>6. Sound(e, tracks)
    BY <2>3, <2>4 DEF Sound, Exclusive, CleanSockets, OwnIsUp, PhaseIsTrue, Served, IsIn
  <2>7. /\ e.sig = i /\ e.sockets[i].st = "open" /\ e.sockets[i].in
        /\ e.reconnecting = d.reconnecting
    BY <1>2, <1>4, <2>4, <2>5 DEF IsIn
  <2>8. ASSUME NEW g \in e.flows
        PROVE  Spent(g) \/ (Only(e, g) /\ LoopWaits(e, g))
    <3>1. PICK f \in d.flows : g = Told(d, "ok", f)
      BY <2>2, <2>4
    <3>2. f \in FlowType
      BY <1>4 DEF ClientType
    <3>3. /\ g.kind = f.kind /\ g.at = f.at /\ g.sock = f.sock
          /\ g.done = IF f.at = "late" /\ f.kind = "loop" /\ f.sock = d.attempt
                      THEN "ok" ELSE f.done
      BY <1>4, <3>1, <3>2, ToldFields
    <3>4. CASE Spent(f)
      BY <3>3, <3>4 DEF Spent
    <3>5. CASE ~Spent(f)
      <4>1. /\ Only(d, f) /\ f.kind = "loop" /\ d.reconnecting /\ f.sock = i /\ d.attempt = i
            /\ f.at = "done" \/ (f.at = "late" /\ f.done = "pending")
        BY <1>5, <3>5
      <4>2. f.at = "late"
        BY <1>7, <4>1
      <4>3. LoopWaits(e, g)
        BY <1>1, <2>7, <3>3, <4>1, <4>2 DEF LoopWaits
      <4>4. ASSUME NEW h \in e.flows PROVE h = g \/ Spent(h)
        <5>1. PICK k \in d.flows : h = Told(d, "ok", k)
          BY <2>2, <2>4
        <5> QED
          BY <3>1, <4>1, <5>1 DEF Only, Told, Spent
      <4> QED
        BY <4>3, <4>4 DEF Only
    <3> QED
      BY <3>4, <3>5
  <2>9. e.reconnecting => \E g \in e.flows : g.kind = "loop"
    <3>1. SUFFICES ASSUME e.reconnecting PROVE \E g \in e.flows : g.kind = "loop"
      OBVIOUS
    <3>2. PICK f \in d.flows : f.kind = "loop"
      BY <1>1, <1>4, <2>7, <3>1 DEF Fits, FlowsFit
    <3>3. Told(d, "ok", f) \in e.flows /\ Told(d, "ok", f).kind = "loop"
      BY <1>4, <2>2, <2>4, <3>2, ToldFields DEF ClientType
    <3> QED
      BY <3>3
  <2>10. FlowsFit(e)
    BY <1>1, <2>7, <2>8, <2>9 DEF FlowsFit
  <2> QED
    BY <1>1, <1>3, <1>7, <2>4, <2>6, <2>10 DEF SessionInv, Fits
<1> QED
  BY <1>6, <1>7

-----------------------------------------------------------------------------
(* The theorems *)

LEMMA NewClientFits ==
  SessionInit => SessionInv
<1> SUFFICES ASSUME SessionInit PROVE SessionInv
  OBVIOUS
<1>1. NoSocket \in SocketType /\ NoSocket.st = "none" /\ NoSocket.first = "none"
      /\ ~NoSocket.in /\ NoSocket.applied = 0 /\ NoSocket.subs = {}
  BY DEF NoSocket, SocketType, Frames
<1>2. client = NewClient /\ tracks \in SUBSET Tracks
  BY DEF SessionInit
<1>3. client \in ClientType
  BY <1>1, <1>2 DEF NewClient, ClientType
<1>4. \A i \in Sockets : client.sockets[i] = NoSocket
  BY <1>2 DEF NewClient
<1>5. /\ client.phase = "idle" /\ client.sig = 0 /\ ~client.rtc /\ ~client.joined
      /\ ~client.joinSent /\ ~client.reconnecting /\ ~client.rejoin /\ client.requested = {}
      /\ client.rev = 0 /\ client.flows = {} /\ ~client.torn
  BY <1>2 DEF NewClient
<1>6. Sound(client, tracks)
  BY <1>1, <1>4, <1>5 DEF Sound, Exclusive, CleanSockets, OwnIsUp, PhaseIsTrue, Served, IsIn
<1>7. FlowsFit(client)
  BY <1>5 DEF FlowsFit
<1> QED
  BY <1>2, <1>3, <1>6, <1>7 DEF SessionInv, Fits

LEMMA SessionInvariant ==
  SessionSpec => []SessionInv
<1>1. SessionInv /\ [SessionNext]_vars => SessionInv'
  <2> SUFFICES ASSUME SessionInv, [SessionNext]_vars PROVE SessionInv'
    OBVIOUS
  <2>1. CASE UserJoins
    BY <2>1, UserJoinsFits
  <2>2. CASE UserLeaves
    BY <2>2, UserLeavesFits
  <2>3. CASE FrameSent \/ Candidates
    BY <2>3, FrameSentFits
  <2>4. CASE IceFails
    BY <2>4, IceFailsFits
  <2>5. CASE RoomChanges
    BY <2>5, RoomChangesFits
  <2>6. CASE \E f \in client.flows : MediaReady(f) \/ BackoffOver(f) \/ GraceOver(f) \/ OfferReady(f)
    BY <2>6, MediaReadyFits, BackoffOverFits, GraceOverFits, OfferReadyFits
  <2>7. CASE \E i \in Sockets : \/ SocketOpens(i) \/ SocketEnds(i) \/ SocketDies(i)
                                \/ JoinAnswered(i) \/ Disconnected(i)
    BY <2>7, SocketOpensFits, SocketGoesFits, JoinAnsweredFits, DisconnectedFits
  <2>8. CASE UNCHANGED vars
    BY <2>8 DEF vars, SessionInv, Fits, Sound, Exclusive, CleanSockets, OwnIsUp, PhaseIsTrue,
                Served, IsIn, FlowsFit, Only, JoinWaits, LoopWaits
  <2> QED
    BY <2>1, <2>2, <2>3, <2>4, <2>5, <2>6, <2>7, <2>8 DEF SessionNext
<1> QED
  BY <1>1, NewClientFits, PTL DEF SessionSpec

\* NoGhosts: the session never holds a connection besides its own, and none
\* after the end of a call, whatever continuation still waits (beginReconnect,
\* reconnectLoop and teardown in session.ts).
THEOREM NoGhostsAlways == SessionSpec => []NoGhosts
<1>1. SessionInv => NoGhosts
  BY DEF SessionInv, Fits, Sound, Exclusive, PhaseIsTrue, NoGhosts
<1> QED
  BY <1>1, SessionInvariant, PTL

\* CallsAreServed: who is in a call and not shown as reconnecting is on a
\* socket the server has let in, and who is let in is subscribed to all the
\* others publish, unless a rejoin was torn (handleJoinResponse, the checks
\* after reconnectOnce, the batches of revisions).
THEOREM CallsAreServedAlways == SessionSpec => []CallsAreServed
<1>1. SessionInv => CallsAreServed
  <2> SUFFICES ASSUME SessionInv PROVE CallsAreServed
    OBVIOUS
  <2>1. (IsOpen(client, client.sig) /\ client.sockets[client.sig].in) <=> IsIn(client)
    BY DEF SessionInv, Fits, Sound, CleanSockets, IsIn, IsOpen, ClientType
  <2> QED
    BY <2>1 DEF SessionInv, Fits, Sound, Served, IsIn, CallsAreServed
<1> QED
  BY <1>1, SessionInvariant, PTL

\* CandidatesWait: the candidates of a connection never reach the server ahead
\* of its join, in a first call, a later one or any attempt (reconnectOnce).
THEOREM CandidatesWaitAlways == SessionSpec => []CandidatesWait
<1>1. SessionInv => CandidatesWait
  BY DEF SessionInv, Fits, Sound, CleanSockets, CandidatesWait
<1> QED
  BY <1>1, SessionInvariant, PTL
=============================================================================
