----------------------------- MODULE Signaling -----------------------------
(***************************************************************************)
(* The signaling plane of wroomd (crate wroom-signaling): the websocket    *)
(* task of every connection (ws.rs run), the Sans-IO session it drives     *)
(* (session.rs) and the hub that owns the registry and the outbound queues *)
(* behind one mutex (ws.rs Hub).  Whatever happens under one lock of the   *)
(* hub is one action; between two locks any other task may run.            *)
(*                                                                         *)
(* A connection's task polls its own outbound queue before its socket      *)
(* (biased select), so it reads a frame only when the queue was empty, and *)
(* peers may fill the queue again before it gets the lock:                 *)
(*                                                                         *)
(*      poll --WriteOut--> poll          write one queued message          *)
(*      poll --PollFrame--> frame        a frame was read, lock not held   *)
(*      frame --dispatch--> poll | flush a decoded message was handled     *)
(*      flush --Flush--> closing         queued output pushed out          *)
(*      poll | flush --SocketEnds--> closing                               *)
(*      closing --TransportClose--> done                                   *)
(*                                                                         *)
(* The client end of the socket is the roster the web client keeps         *)
(* (session.ts applyRoomDelta) and its chat log.  Session descriptions are *)
(* forwarded opaquely; trickled candidates are parked and read by nobody.  *)
(***************************************************************************)
EXTENDS Registry, Sequences

CONSTANTS
  Conns,       (* websocket connections, each used once                    *)
  NoRoom,      (* room_id = None                                           *)
  OutCap,      (* OUTBOUND_CAPACITY                                        *)
  Traffic,     (* bound: kinds of traffic besides joins, out of Kinds      *)
  MaxFrames,   (* bound: frames clients and media runtime get to send      *)
  MaxCtl       (* bound: control events waiting when another is posted     *)

Kinds == {"malformed", "reject", "sdp", "ignored", "tracks", "subs", "chat",
          "leave", "media"}

ASSUME SignalingAssumption ==
  /\ NoRoom \notin RoomIds
  /\ OutCap \in Nat
  /\ Traffic \subseteq Kinds
  /\ MaxFrames \in Nat
  /\ MaxCtl \in Nat

VARIABLES
  task,        (* connection -> where its websocket task is                *)
  sess,        (* connection -> session state                              *)
  pid,         (* connection -> participant_id                             *)
  home,        (* connection -> room_id                                    *)
  outbounds,   (* participant ids with an outbound channel in the hub      *)
  queue,       (* connection -> its outbound mpsc queue                    *)
  lost,        (* connection -> a message for it was dropped (history)     *)
  view,        (* connection -> the roster its client holds                *)
  chat,        (* connection -> the chat log its client holds              *)
  chatSeq,     (* connection -> chat_seq                                   *)
  frames,      (* frames sent so far, by clients and media runtime (bound) *)
  ctl          (* the control channel to the media plane                   *)

clientVars == <<view, chat>>
signalingVars == <<registryVars, task, sess, pid, home, outbounds, queue, lost,
                   view, chat, chatSeq, frames, ctl>>

NoPid == -1

-----------------------------------------------------------------------------
(* Messages *)

Roster == [here: SUBSET Pid, tracks: [Pid -> SUBSET TrackIds],
           muted: [Pid -> SUBSET TrackIds]]

EmptyRoster == [here |-> {}, tracks |-> [p \in Pid |-> {}],
                muted |-> [p \in Pid |-> {}]]

\* The room as JoinResponse carries it, given its members.
Snapshot(here) ==
  [here   |-> here,
   tracks |-> [p \in Pid |-> IF p \in here THEN tracks[p] ELSE {}],
   muted  |-> [p \in Pid |-> IF p \in here THEN muted[p] ELSE {}]]

ServerMessage ==
       [t: {"join"}, p: Pid, roster: Roster]
  \cup [t: {"joined", "left"}, p: Pid]
  \cup [t: {"tracks"}, p: Pid, pub: SUBSET TrackIds, pubMuted: SUBSET TrackIds,
        unpub: SUBSET TrackIds, mute: SUBSET TrackIds, unmute: SUBSET TrackIds]
  \cup [t: {"subs"}, rev: Nat]
  \cup [t: {"chat"}, p: Pid, n: Nat]
  \cup [t: {"disconnect", "sdp"}]

MediaControl ==
       [t: {"Joined", "PublisherOffer", "SubscriberAnswer", "Left"},
        r: RoomIds, p: Pid]
  \cup [t: {"TracksPublished"}, r: RoomIds, p: Pid, ids: Seq(TrackIds)]
  \cup [t: {"SubscriptionsChanged"}, r: RoomIds, p: Pid, refs: SUBSET Refs]

Event(type, c) == [t |-> type, r |-> home[c], p |-> pid[c]]

-----------------------------------------------------------------------------
(* The client *)

\* session.ts applyRoomDelta: joined, left, published, unpublished, mutes.
ApplyTracks(v, m) ==
  IF m.p \notin v.here
  THEN v
  ELSE LET now == (v.tracks[m.p] \cup m.pub) \ m.unpub
       IN  [v EXCEPT !.tracks[m.p] = now,
                     !.muted[m.p] = (((@ \cup m.pubMuted) \cap now) \ m.unmute)
                                      \cup (m.mute \cap now)]

\* What one server message does to the roster of the client that reads it.
Apply(v, m) ==
  CASE m.t = "join"   -> m.roster
    [] m.t = "joined" -> [here   |-> v.here \cup {m.p},
                          tracks |-> [v.tracks EXCEPT ![m.p] = {}],
                          muted  |-> [v.muted EXCEPT ![m.p] = {}]]
    [] m.t = "left"   -> [here   |-> v.here \ {m.p},
                          tracks |-> [v.tracks EXCEPT ![m.p] = {}],
                          muted  |-> [v.muted EXCEPT ![m.p] = {}]]
    [] m.t = "tracks" -> ApplyTracks(v, m)
    [] OTHER          -> v

Log(l, m) == IF m.t = "chat" THEN Append(l, <<m.p, m.n>>) ELSE l

\* The client reads the message at the head of its connection's queue.
Receive(c) ==
  /\ queue[c] # <<>>
  /\ view' = [view EXCEPT ![c] = Apply(@, Head(queue[c]))]
  /\ chat' = [chat EXCEPT ![c] = Log(@, Head(queue[c]))]
  /\ queue' = [queue EXCEPT ![c] = Tail(@)]

-----------------------------------------------------------------------------
(* Delivery (Hub::deliver, Hub::post_media) *)

\* The other members of the room that have an outbound channel.
Peers(c, r) == {d \in Conns \ {c} : /\ r # NoRoom
                                    /\ pid[d] \in members'[r]
                                    /\ pid[d] \in outbounds'}

\* Fault: the queue has no bound.
DeliverUnbounded(c, r, toSelf, toPeers) ==
  LET mail(d) == IF d = c THEN toSelf ELSE IF d \in Peers(c, r) THEN toPeers ELSE <<>>
  IN  /\ queue' = [d \in Conns |-> queue[d] \o mail(d)]
      /\ UNCHANGED lost

\* Fault: the sender's echo overtakes what is already queued for it.
DeliverEchoFirst(c, r, toSelf, toPeers) ==
  LET mail(d) == IF d = c THEN toSelf ELSE IF d \in Peers(c, r) THEN toPeers ELSE <<>>
      full(d) == Len(queue[d]) + Len(mail(d)) > OutCap
  IN  /\ queue' = [d \in Conns |-> IF full(d) THEN queue[d]
                                   ELSE IF d = c THEN mail(d) \o queue[d]
                                   ELSE queue[d] \o mail(d)]
      /\ lost' = [d \in Conns |-> lost[d] \/ full(d)]

\* toSelf goes to the session's own queue, toPeers to its peers; a full queue
\* drops the message (try_send), which only a log line records.  Both hold
\* at most one message.
Deliver(c, r, toSelf, toPeers) ==
  LET mail(d) == IF d = c THEN toSelf ELSE IF d \in Peers(c, r) THEN toPeers ELSE <<>>
      full(d) == Len(queue[d]) + Len(mail(d)) > OutCap
  IN  /\ queue' = [d \in Conns |-> IF full(d) THEN queue[d] ELSE queue[d] \o mail(d)]
      /\ lost' = [d \in Conns |-> lost[d] \/ full(d)]

\* The same when the socket of c is gone, and c's queue with it.
DeliverToPeers(c, r, toPeers) ==
  LET full(d) == d \in Peers(c, r) /\ Len(queue[d]) + Len(toPeers) > OutCap
  IN  /\ queue' = [d \in Conns |-> IF d = c THEN <<>>
                                   ELSE IF d \in Peers(c, r) /\ ~full(d)
                                        THEN queue[d] \o toPeers ELSE queue[d]]
      /\ lost' = [d \in Conns |-> lost[d] \/ full(d)]

Post(msgs) == ctl' = ctl \o msgs

-----------------------------------------------------------------------------
(* The websocket task (ws.rs run) *)

\* The select found the outbound queue empty and a frame on the socket.
PollFrame(c) ==
  /\ task[c] = "poll"
  /\ queue[c] = <<>>
  /\ frames < MaxFrames
  /\ task' = [task EXCEPT ![c] = "frame"]
  /\ frames' = frames + 1
  /\ UNCHANGED <<registryVars, sess, pid, home, outbounds, queue, lost,
                 clientVars, chatSeq, ctl>>

WriteOut(c) ==
  /\ task[c] = "poll"
  /\ Receive(c)
  /\ UNCHANGED <<registryVars, task, sess, pid, home, outbounds, lost,
                 chatSeq, frames, ctl>>

Flush(c) ==
  /\ task[c] = "flush"
  /\ \/ Receive(c) /\ UNCHANGED task
     \/ /\ queue[c] = <<>>
        /\ task' = [task EXCEPT ![c] = "closing"]
        /\ UNCHANGED <<queue, clientVars>>
  /\ UNCHANGED <<registryVars, sess, pid, home, outbounds, lost, chatSeq,
                 frames, ctl>>

\* The peer closed, or a read or a write on the socket failed.
SocketEnds(c) ==
  /\ task[c] \in {"poll", "flush"}
  /\ task' = [task EXCEPT ![c] = "closing"]
  /\ UNCHANGED <<registryVars, sess, pid, home, outbounds, queue, lost,
                 clientVars, chatSeq, frames, ctl>>

\* The control channel is unbounded; the model lets MaxCtl events wait.
MediaKeepsUp == Len(ctl) <= MaxCtl

\* What every dispatched frame has in common.
Dispatched(c, kind, next) ==
  /\ kind \in Traffic \cup {"join"}
  /\ MediaKeepsUp
  /\ task[c] = "frame"
  /\ task' = [task EXCEPT ![c] = next]
  /\ UNCHANGED <<clientVars, frames>>

\* An undecodable frame: the session is not told, the socket is closed.
Malformed(c) ==
  /\ Dispatched(c, "malformed", "flush")
  /\ UNCHANGED <<registryVars, sess, pid, home, outbounds, chatSeq, ctl>>
  /\ Deliver(c, NoRoom, <<[t |-> "disconnect"]>>, <<>>)

-----------------------------------------------------------------------------
(* Hub::dispatch: one frame through the session, the registry and the hub  *)

\* reject: a Disconnect for this socket and a close.  The participant, when
\* there is one, stays in the registry until the socket task is done; only
\* its outbound channel goes (deliver, on Output::Close).
Reject(c) ==
  /\ Dispatched(c, "reject", "flush")
  /\ sess' = [sess EXCEPT ![c] = "Closed"]
  /\ outbounds' = outbounds \ {pid[c]}
  /\ UNCHANGED <<registryVars, pid, home, chatSeq, ctl>>
  /\ Deliver(c, home[c], <<[t |-> "disconnect"]>>, <<>>)

\* The first frame is not a join, carries an invalid token, or names a room
\* the registry refuses.
RejectFirst(c) == sess[c] = "AwaitingJoin" /\ Reject(c)

\* A second join on the same socket.
RejectSecondJoin(c) == sess[c] = "Joined" /\ Reject(c)

\* Fault: the offer that rode in the join reaches the media plane before the
\* participant does.
JoinOfferFirst(c, r, offer) ==
  /\ sess[c] = "AwaitingJoin"
  /\ Dispatched(c, "join", "poll")
  /\ Join(r)
  /\ sess' = [sess EXCEPT ![c] = "Joined"]
  /\ pid' = [pid EXCEPT ![c] = nextSeq]
  /\ home' = [home EXCEPT ![c] = r]
  /\ outbounds' = outbounds \cup {nextSeq}
  /\ UNCHANGED chatSeq
  /\ Post((IF offer THEN <<[t |-> "PublisherOffer", r |-> r, p |-> nextSeq]>> ELSE <<>>)
            \o <<[t |-> "Joined", r |-> r, p |-> nextSeq]>>)
  /\ Deliver(c, r, <<[t |-> "join", p |-> nextSeq, roster |-> Snapshot(members'[r])]>>,
                   <<[t |-> "joined", p |-> nextSeq]>>)

\* An accepted join; offer tells whether a publisher offer came with it.
JoinRoom(c, r, offer) ==
  /\ sess[c] = "AwaitingJoin"
  /\ Dispatched(c, "join", "poll")
  /\ Join(r)
  /\ sess' = [sess EXCEPT ![c] = "Joined"]
  /\ pid' = [pid EXCEPT ![c] = nextSeq]
  /\ home' = [home EXCEPT ![c] = r]
  /\ outbounds' = outbounds \cup {nextSeq}
  /\ UNCHANGED chatSeq
  /\ Post(<<[t |-> "Joined", r |-> r, p |-> nextSeq]>>
            \o (IF offer THEN <<[t |-> "PublisherOffer", r |-> r, p |-> nextSeq]>> ELSE <<>>))
  /\ Deliver(c, r, <<[t |-> "join", p |-> nextSeq, roster |-> Snapshot(members'[r])]>>,
                   <<[t |-> "joined", p |-> nextSeq]>>)

\* A publisher offer or a subscriber answer is parked and handed on.
SessionDescription(c, type) ==
  /\ sess[c] = "Joined"
  /\ Dispatched(c, "sdp", "poll")
  /\ Post(<<Event(type, c)>>)
  /\ UNCHANGED <<registryVars, sess, pid, home, outbounds, queue, lost, chatSeq>>

\* Pong, trickled candidates, an empty message, a chat message over the size
\* or the rate limit: nothing another part can see.
Ignored(c) ==
  /\ sess[c] = "Joined"
  /\ Dispatched(c, "ignored", "poll")
  /\ UNCHANGED <<registryVars, sess, pid, home, outbounds, queue, lost, chatSeq, ctl>>

\* The lists a set can come in (the client's list order), nothing twice.
Listings(S) == {f \in [1 .. Cardinality(S) -> S] : \A x \in S : \E i \in DOMAIN f : f[i] = x}

\* Fault: unpublished tracks are left out of the delta.
TracksDeltaNoUnpublish(c, pub, pubMuted, unpub, fresh) ==
  LET p    == pid[c]
      flip == Flipped(p, pub, pubMuted)
  IN  IF fresh \cup flip = {}
      THEN <<>>
      ELSE <<[t |-> "tracks", p |-> p, pub |-> fresh, pubMuted |-> pubMuted \cap fresh,
              unpub |-> {}, mute |-> flip \cap pubMuted, unmute |-> flip \ pubMuted]>>

\* The combined RoomDelta of one UpdateLocalTracks, or no message at all.
TracksDelta(c, pub, pubMuted, unpub, fresh) ==
  LET p    == pid[c]
      gone == unpub \cap (tracks[p] \cup fresh)
      flip == Flipped(p, pub, pubMuted)
  IN  IF fresh \cup gone \cup flip = {}
      THEN <<>>
      ELSE <<[t |-> "tracks", p |-> p, pub |-> fresh, pubMuted |-> pubMuted \cap fresh,
              unpub |-> gone, mute |-> flip \cap pubMuted, unmute |-> flip \ pubMuted]>>

\* UpdateLocalTracks; list is the order of the newly published tracks.
LocalTracks(c, pub, pubMuted, unpub, list) ==
  LET fresh == {list[i] : i \in DOMAIN list}
  IN  /\ sess[c] = "Joined"
      /\ Dispatched(c, "tracks", "poll")
      /\ UpdateTracks(pid[c], pub, pubMuted, unpub, fresh)
      /\ UNCHANGED <<sess, pid, home, outbounds, chatSeq>>
      /\ Post(IF list = <<>> THEN <<>>
              ELSE <<[t |-> "TracksPublished", r |-> home[c], p |-> pid[c], ids |-> list]>>)
      /\ Deliver(c, home[c], <<>>, TracksDelta(c, pub, pubMuted, unpub, fresh))

\* UpdateSubscriptions: the media plane gets the whole applied set, also when
\* the batch was refused; the client gets the revision that is applied now.
Subscriptions(c, upsert, remove, rev) ==
  /\ sess[c] = "Joined"
  /\ Dispatched(c, "subs", "poll")
  /\ UpdateSubscriptions(pid[c], upsert, remove, rev)
  /\ UNCHANGED <<sess, pid, home, outbounds, chatSeq>>
  /\ Post(<<[t |-> "SubscriptionsChanged", r |-> home[c], p |-> pid[c],
             refs |-> subs'[pid[c]]]>>)
  /\ Deliver(c, home[c],
             <<[t |-> "subs",
                rev |-> IF revision'[pid[c]] = NoRevision THEN 0 ELSE revision'[pid[c]]]>>,
             <<>>)

\* A chat message within the limits: to the peers, and back to the sender.
SendChat(c) ==
  LET m == [t |-> "chat", p |-> pid[c], n |-> chatSeq[c] + 1]
  IN  /\ sess[c] = "Joined"
      /\ Dispatched(c, "chat", "poll")
      /\ chatSeq' = [chatSeq EXCEPT ![c] = @ + 1]
      /\ UNCHANGED <<registryVars, sess, pid, home, outbounds, ctl>>
      /\ Deliver(c, home[c], <<m>>, <<m>>)

\* LeaveRequest: goodbye, out of the registry, left for everybody else.
LeaveRequest(c) ==
  /\ sess[c] = "Joined"
  /\ Dispatched(c, "leave", "flush")
  /\ Leave(home[c], pid[c])
  /\ sess' = [sess EXCEPT ![c] = "Closed"]
  /\ outbounds' = outbounds \ {pid[c]}
  /\ UNCHANGED <<pid, home, chatSeq>>
  /\ Post(<<Event("Left", c)>>)
  /\ Deliver(c, home[c], <<[t |-> "disconnect"]>>, <<[t |-> "left", p |-> pid[c]]>>)

-----------------------------------------------------------------------------
(* Hub::on_transport_close: the task's last act.  A participant that is    *)
(* still in the registry leaves it now, and Left is posted twice (here and *)
(* by deliver); one that left by LeaveRequest is reported once more.  The  *)
(* queue and the client's roster end with the connection.                  *)

CloseSilently(c) ==
  /\ pid[c] = NoPid
  /\ queue' = [queue EXCEPT ![c] = <<>>]
  /\ UNCHANGED <<registryVars, outbounds, lost, ctl>>

CloseMember(c) ==
  /\ pid[c] # NoPid
  /\ pid[c] \in members[home[c]]
  /\ Leave(home[c], pid[c])
  /\ outbounds' = outbounds \ {pid[c]}
  /\ Post(<<Event("Left", c), Event("Left", c)>>)
  /\ DeliverToPeers(c, home[c], <<[t |-> "left", p |-> pid[c]]>>)

\* Fault: the departure is broadcast a second time.
CloseAfterLeaveAgain(c) ==
  /\ pid[c] # NoPid
  /\ pid[c] \notin members[home[c]]
  /\ UNCHANGED registryVars
  /\ outbounds' = outbounds \ {pid[c]}
  /\ Post(<<Event("Left", c)>>)
  /\ DeliverToPeers(c, home[c], <<[t |-> "left", p |-> pid[c]]>>)

CloseAfterLeave(c) ==
  /\ pid[c] # NoPid
  /\ pid[c] \notin members[home[c]]
  /\ outbounds' = outbounds \ {pid[c]}
  /\ queue' = [queue EXCEPT ![c] = <<>>]
  /\ Post(<<Event("Left", c)>>)
  /\ UNCHANGED <<registryVars, lost>>

\* Fault: a session the hub already closed is taken to be out of the room.
TransportCloseTrustsState(c) ==
  /\ task[c] = "closing"
  /\ MediaKeepsUp
  /\ task' = [task EXCEPT ![c] = "done"]
  /\ sess' = [sess EXCEPT ![c] = "Closed"]
  /\ IF sess[c] = "Closed"
     THEN /\ queue' = [queue EXCEPT ![c] = <<>>]
          /\ UNCHANGED <<registryVars, outbounds, lost, ctl>>
     ELSE CloseSilently(c) \/ CloseMember(c) \/ CloseAfterLeave(c)
  /\ view' = [view EXCEPT ![c] = EmptyRoster]
  /\ UNCHANGED <<pid, home, chat, chatSeq, frames>>

TransportClose(c) ==
  /\ task[c] = "closing"
  /\ MediaKeepsUp
  /\ task' = [task EXCEPT ![c] = "done"]
  /\ sess' = [sess EXCEPT ![c] = "Closed"]
  /\ CloseSilently(c) \/ CloseMember(c) \/ CloseAfterLeave(c)
  /\ view' = [view EXCEPT ![c] = EmptyRoster]
  /\ UNCHANGED <<pid, home, chat, chatSeq, frames>>

-----------------------------------------------------------------------------
SignalingInit ==
  /\ RegistryInit
  /\ task = [c \in Conns |-> "poll"]
  /\ sess = [c \in Conns |-> "AwaitingJoin"]
  /\ pid = [c \in Conns |-> NoPid]
  /\ home = [c \in Conns |-> NoRoom]
  /\ outbounds = {}
  /\ queue = [c \in Conns |-> <<>>]
  /\ lost = [c \in Conns |-> FALSE]
  /\ view = [c \in Conns |-> EmptyRoster]
  /\ chat = [c \in Conns |-> <<>>]
  /\ chatSeq = [c \in Conns |-> 0]
  /\ frames = 0
  /\ ctl = <<>>

\* One frame of an established session, whatever it is.
RoomFrame(c) ==
  \/ RejectSecondJoin(c)
  \/ \E type \in {"PublisherOffer", "SubscriberAnswer"} : SessionDescription(c, type)
  \/ Ignored(c)
  \/ /\ sess[c] = "Joined"
     /\ \E pub, unpub \in SUBSET TrackIds : \E pubMuted \in SUBSET pub :
          \E fresh \in Fresh(pid[c], pub) : \E list \in Listings(fresh) :
            LocalTracks(c, pub, pubMuted, unpub, list)
  \/ \E upsert, remove \in SUBSET Refs, rev \in Revisions :
       Subscriptions(c, upsert, remove, rev)
  \/ SendChat(c)
  \/ LeaveRequest(c)

ConnStep(c) ==
  \/ PollFrame(c) \/ WriteOut(c) \/ Flush(c) \/ SocketEnds(c)
  \/ Malformed(c) \/ RejectFirst(c)
  \/ \E r \in RoomIds, offer \in BOOLEAN : JoinRoom(c, r, offer)
  \/ RoomFrame(c)
  \/ TransportClose(c)

HubNext == \E c \in Conns : ConnStep(c)

\* The media runtime answers an offer, or offers, on the reply channel that
\* went with Joined: a clone of the session's own queue.
MediaReplies(c) ==
  /\ "media" \in Traffic
  /\ pid[c] # NoPid
  /\ task[c] # "done"
  /\ frames < MaxFrames
  /\ frames' = frames + 1
  /\ Len(queue[c]) < OutCap
  /\ queue' = [queue EXCEPT ![c] = Append(@, [t |-> "sdp"])]
  /\ UNCHANGED <<registryVars, task, sess, pid, home, outbounds, lost,
                 clientVars, chatSeq, ctl>>

\* Signaling on its own: the media plane is whoever takes the events.
MediaTakes ==
  /\ ctl # <<>>
  /\ ctl' = Tail(ctl)
  /\ UNCHANGED <<registryVars, task, sess, pid, home, outbounds, queue, lost,
                 clientVars, chatSeq, frames>>

SignalingNext == HubNext \/ (\E c \in Conns : MediaReplies(c)) \/ MediaTakes

SignalingSpec == SignalingInit /\ [][SignalingNext]_signalingVars
=============================================================================
