# wroom in TLA+

A verification project for wroom, a self-hosted video-call server (a selective
forwarding unit with its own signaling) and its browser client. The modules are
written from the code under `src/server/crates` and `src/web/src`; TLC checks
them on small instances and TLAPS proves what matters most for every instance.

`PROJECT.json` says for every definition which lines it models, for every run
what it checks, and for every property a plausible bug (a *fault*, an operator
whose comment begins with "Fault:") that the property catches.

## 1. The system

A browser opens one websocket. Over it, protobuf messages join a room, announce
tracks, choose subscriptions, chat, and negotiate two peer connections: a
*publisher* leg that the client offers and a *subscriber* leg that the server
offers. The server is one process: signaling tasks on tokio, one router task,
and one pinned thread per media shard.

| Part | State it keeps | Operations | Talks to |
| --- | --- | --- | --- |
| Registry, `wroom-core/room.rs` | rooms, participants, published tracks with mute flags, subscriptions with their applied revision, the id sequence | join, leave, publish, unpublish, set_muted, update_subscriptions | called by sessions under the hub's lock |
| Session, `wroom-signaling/session.rs` | state (awaiting join, joined, closed), participant and room, parked SDP and candidates, chat counter and rate bucket | handle, close | returns outputs to the hub |
| Hub and connection task, `wroom-signaling/ws.rs` | participant to outbound queue (bounded, 256), one mutex over registry and queues | dispatch, deliver, on_transport_close; the task polls queue before socket | sessions, clients, control channel |
| Control channel, `wroom-signaling/media.rs` | unbounded queue of events | Joined, PublisherOffer, SubscriberAnswer, TracksPublished, SubscriptionsChanged, Left | hub to router |
| Router, `wroomd/media.rs` | rooms and members by name with dense ids, published lists, wants, dirty offers, speaker partials | on_control, flush_offers, merge_speakers | shards, through bounded control queues |
| Shard, `wroomd/media.rs` | transports, the tables `by_ufrag` and `by_addr` that lead datagrams to them; per room its members, want-tables, demand masks and fan-out tables | control messages, datagrams, forwarded packets, ticks | other shards by rings; clients by UDP and by the reply channel; the router by the report ring |
| Receiver feedback, `wroomd/media.rs` | counters per source, window of arrival times | on_rtp, on_rtcp, reports, flushes | shard |
| Peer transport, `wroom-edge/transport.rs` | one ICE agent, DTLS endpoint and pair of SRTP contexts; the nominated address | datagrams, timers, protect and unprotect | shard |
| ICE agent, `wroom-edge/ice.rs` | local and remote credentials, pairs with the time they were last seen, the nominated pair | checks, indications, expiry, restart | transport |
| DTLS endpoint, `wroom-edge/dtls.rs` | the handshake of a library, latched failure, exported keys | input, timer | transport |
| SRTP contexts, `wroom-edge/srtp.rs` | per source an index window for each direction, the SRTCP index | protect, unprotect for RTP and RTCP | transport |
| Codecs, `wroom-edge/rtp.rs`, `rtcp.rs`, `sdp.rs` | none | parse, build, rewrite | shard, router |
| Client session, `web/src/lib/session.ts`, `signaling.ts` | phase of the call, its socket with an outbox, flags of the reconnect, the subscriptions it asked for; continuations of `join` and `reconnectLoop` that wait | user actions, server messages, socket and timer events | server, publisher leg |
| Client publisher leg, `web/src/lib/webrtc.ts` | capture, transceivers, announcements | offers, toggles, screen share | session, server |

What is hard about it:

- *Interleaving.* Each connection is a task; between two critical sections of
  the hub any other task runs. A rejected session is still in the registry
  until its task has flushed its socket.
- *Asynchrony.* The router trails the registry by the events in flight, clients
  trail it by their queues, every shard trails the router by a queue of its own
  while packets cross between shards.
- *Loss.* Outbound queues, shard control queues, rings and the report ring drop
  when full; datagrams are lost, late, repeated and overtaken.
- *Two derivations of one name.* The canonical mid of a track is computed by
  the router from announcements and by the shard from m-lines.
- *Continuations.* The client's `join` and `reconnectLoop` stop at every await
  and go on in a world that sockets, timers and the user have changed; what
  they find in `this` may belong to the next attempt or the next call.
- *Coalescing.* The router flushes offers only when its channel has run dry.
- *Lifetime.* Rooms end when empty, participants are reported gone
  twice, ids must never be reused; addresses and ICE credentials outlive the
  legs they belonged to.
- *Arithmetic.* Projected subscription counts; sequence numbers, roll-over
  counters, reports and windows that wrap; lengths patched into messages whose
  digest covers the length.

What makes each part correct, in one line each: the registry keeps its caps,
its revision rule and its lifetimes; sessions, registry and queues agree at
every moment; a client that reads its queue has the registry's roster; all
clients see one chat order; the media plane hears of a participant once before
and never after its life; the router ends up with the registry's members and
intents and offers what they ask for; a name of a track means one track; every
ended session is forgotten. A shard that has read its queue has the tables that
follow from the router's; a packet reaches whoever wants its line, once, and
nobody else; a list of speakers is current and names nobody who has left; a
datagram finds the leg it belongs to and a leg sends only where its browser
agreed to receive; a leg that is up comes to carry media; no IV is used twice
and no packet accepted twice; feedback says what arrived and when; every format
reads back as it was meant, and an m-line keeps its place. A browser has one
connection at a time and none after a call, holds its candidates back until the
join, asks every server session for all tracks, and comes to an end of every
reconnect.

## 2. The modules

### Signaling and the control channel

| Module | Models | State and actions |
| --- | --- | --- |
| `Registry` | `room.rs` | A participant's record is spread over maps keyed by id. One operator per public method; `UpdateTracks` is the batch of publishes and unpublishes that one UpdateLocalTracks makes, `Fresh` says which new tracks fit under the cap. |
| `Signaling` | `session.rs`, `ws.rs`, and the client's roster in `session.ts` | `EXTENDS Registry`. What happens under one lock is one action, which conjoins the registry operation, the session's new state, the control events (`Post`) and the delivery to queues (`Deliver`). `task[c]` is the control point of the connection's task. |
| `SignalingProperties` | - | What the signaling plane promises, the fairness of its tasks, and `Feed`, the mapping of its state to `MediaFeed`. |
| `MediaFeed` | `MediaControl` | The abstract contract of the control channel: announced once, then events in its room, then only Left. Signaling implements it (`FeedIsOrderly`), the media plane relies on it (`MediaPlane` runs it as the environment). |
| `ControlPlane` | hub and router running concurrently | `EXTENDS Signaling`, `INSTANCE Router`; they share the control channel only. |
| `TrackIdentity` | `webrtc.ts`, `session.ts`, and the numbering in `on_control` and `on_pub_offer` | One participant: capture, transceivers, announcements in order on a socket, the server's two numberings. |

### The browser's session, `web/src/lib`

| Module | Models | State and actions |
| --- | --- | --- |
| `ClientSession` | `session.ts`, `signaling.ts` | `client` holds the fields of `CallSession`, its sockets, and a record for every continuation that waits (`flows`). An action is one turn of the event loop: a handler and the continuations it releases. `SocketEnds`, `SocketDies`, `GraceOver`, `OfferReady`, `BackoffOver` are the events an await waits for; `UserJoins`, `UserLeaves`, `FrameSent`, `Candidates` come at any time in between. The server is its answers: `JoinAnswered`, `Disconnected`, `RoomChanges`. |

### The media plane, `wroomd/media.rs`

`MediaPlane` EXTENDS `Speakers`, which EXTENDS `ShardTables`, which EXTENDS
`Router`.

| Module | Models | State and actions |
| --- | --- | --- |
| `Router` | `Router` | Tables by member name; `OnControl` is `on_control` event by event; `FlushOffers` is the flush when the channel is empty. It owns its end of the control channel and of the shards' queues. |
| `ShardTables` | `Shard::on_control` and `rebuild` | A shard is a record; one operator per control message maps it to what it becomes. |
| `Speakers` | `report_speakers`, `merge_speakers` | The report ring, the partial lists and what each participant was last told. |
| `MediaPlane` | packets, sender reports, feedback and key frame requests between legs | Queues of events, deltas, forwarded packets and reports, each read at its own pace. `post` remembers whom a packet was for when it was sent and whom it reached. |

### One leg, `wroom-edge` and the shard's use of it

`LegSetup` (a leg until it carries media) EXTENDS `PeerTransport`, which EXTENDS
`IceAgent`, which EXTENDS `Stun`. `LegMedia` (a leg that does) EXTENDS `Srtp`
(which EXTENDS `IndexWindow`) and `ReceiverFeedback` (which EXTENDS `TwccWire`).

| Module | Models | State and actions |
| --- | --- | --- |
| `Stun` | messages of `ice.rs` | Attributes with their lengths, integrity and checksum as records of what they cover; a reader and a builder. |
| `IceAgent` | `IceLiteAgent` | An agent is a record; handling a datagram gives the new agent, the reply and the nomination. |
| `PeerTransport` | `transport.rs`, `dtls.rs` | A transport is a record; a datagram or a timer gives the new transport and the events for the shard. |
| `LegSetup` | the shard's transports and routing tables | All legs behind one socket: offers, answers, checks, handshake, close, timers, departures, against browsers on a lossy network. |
| `IndexWindow` | `IndexWindow` | The window as a set of distances; estimation of the roll-over counter. |
| `Srtp` | `srtp.rs` | Both ends of a DTLS session and all datagrams ever sealed between them. |
| `ReceiverFeedback` | `RrSlot`, `RecvFeedback` | Report counters per source and the window of arrival times. |
| `LegMedia` | `on_datagram`, `on_tick` and the senders of a connected leg | Either a publisher's leg (packets come in, feedback goes out) or a subscriber's. |

### Formats, `wroom-edge`

| Module | Models |
| --- | --- |
| `TwccWire` | transport-wide feedback: symbols, chunks and delta bytes |
| `RtpWire` | headers, extension elements, and the rewrite of a forwarded packet |
| `RtcpWire` | compounds: builders, the walk, the accessors of each block |
| `SdpWire` | reading offers and answers, answering a publisher, offering to a subscriber |
| `WireFormats` | INSTANCEs these and `IceAgent`; the state is one message that grows piece by piece |

Eight modules hold the theorems. `SignalingProofs` has those about the registry,
which are used for the hub, and those about the hub; `ControlProofs` extends it,
as they are used for the control plane. `FollowProofs` extends `MediaPlaneProofs`: that shards know what the
router knows needs the order in which they hear of it, and that packets arrive
and lists of speakers are current needs what they know. `IdentityProofs`, `ClientSessionProofs`,
`LegSetupProofs` and `LegProofs` stand on their own. `MC*` are the instances.

### Abstractions

- Names, layers, SDP text in signaling, chat text, timestamps and priorities are
  payload and left out. A message that changes nothing another part can see
  (a pong, candidates, an empty, over-long or rate-limited chat message) is
  `Ignored`.
- A participant id is the number of the sequence. Maps are total over the ids
  that can occur; whoever is not a member has the record of a fresh
  participant, which `RoomsAreOccupied` checks and `NothingOutlivesItsRoom`
  proves.
- A batch names a track once. The list order of a batch is the client's choice
  and stays a choice (`Listings`).
- The verdict on a token, the moment a socket fails and the frames a client
  sends are chosen freely. A client reads its messages in order.
- Of a client's frame it matters what it is if it is the first one handed to its
  socket. Subscriptions it asks for are applied at once.
  An offer that cannot be made is one that is made, unless it is late. Delays
  have no length, and Retry or a visible tab is the end of a backoff.
- The media plane's replies on a session's queue (`MediaReplies`) are one kind
  of message that changes no roster.
- `TransportClose` empties the queue and roster of the connection: nobody reads
  them again.
- Ciphers, HMACs and checksums are ideal: what was sealed under a key and an
  index opens under them and under nothing else; a digest is a record of
  what it covers.
- The handshake engine is a library. `Engine` and `EngineTimer` say what it may
  put out for an input, from how `dtls.rs` drives it; they are marked external.
- Browsers are honest in their credentials and keys. The network is not
  reliable: a browser may send now whatever it could send at any time before,
  and an SRTP datagram may arrive at any time, again or never, next to
  datagrams sealed under no key.
- Loudness is a rank, times are ticks, interarrival jitter and the delay since
  the last sender report are left out.
- The batch of 512 targets and the retries of `sendmmsg` are left out: a packet
  goes to its targets in one step.
- Formats are elements, blocks, chunks and lines with their lengths. Widths
  (`SeqSpace`, `RocSpace`, `WindowLen`, `Advance`, `Behind`, `Word`,
  `ByteSpace`, `Narrow`, `Wide`, ...) are parameters; each module's head names
  the code's values.

## 3. The runs

| Run | Question | Instance |
| --- | --- | --- |
| `hub` | Do sessions, registry, queues and clients agree, is there one chat order, is the control channel orderly, are ids fresh | 3 connections, 1 room of 3, 1 track, every kind of traffic, 4 frames, queues of 2 |
| `control` | Do router and registry agree, do offers cover wants, are mids stable, do caps and revisions hold | 2 participants, 2 tracks, subscription cap 1, 2 revisions, 4 frames |
| `control_members` | Is whoever is gone forgotten for good | 3 connections, rooms of 2, 4 frames, fair tasks |
| `track_identity` | Are the two numberings equal (camera captured at the join) | 3 toggles and 1 share; or 1 share and 2 reconnects |
| `media_plane` | Do shards follow the router, do packets and feedback arrive, are speaker lists current | 3 participants, 2 shards, 1 room, 1 batch of two tracks, the budgets of `MCMediaPlane` |
| `leg_setup` | Are routes, nominations and consent right, do legs come up | one publisher's and one subscriber's leg seen at one address, or one leg with two addresses; 2 transports, 2 ICE sessions per browser |
| `leg_media` | No IV twice, no replay, no loss of orderly streams, exact feedback | 8 sequence numbers, 4 roll-overs, windows of 3, 4 packets sealed, up to 4 late or 2 ahead |
| `wire_formats` | Does everything written read back | up to 6 statuses, 4 attributes, 3 extension elements, 3 blocks, 3 media sections |
| `client_session` | One connection at a time and none after a call, subscriptions complete, candidates behind the join, connects and reconnects come to an end | any number of calls one after the other, losses and late offers, 3 sockets, reconnects of up to 3 attempts, 1 remote track |
| `wedged` | *violated*: a full queue does not mean that the peer closes | 2 connections, queues of 1 |
| `track_identity_camera_off` | *violated*: the numberings differ after a join with the camera off | 1 share |
| `rr_late` | *violated*: a packet that is a little late moves the high-water mark | 3 packets, 1 late |

### Bounds

*Signaling and control.* `MaxSeq` (ids), `MaxFrames` (frames of all clients
together), `MaxCtl` (events waiting in the unbounded control channel when
another is posted), `OutCap` (the code's 256), `Traffic` (kinds of messages a
run sends), the registry's caps. Caps are set so low that they are hit. Four
frames let two sessions join and each do one more thing, or one session join
and do three things; with three connections a third session joins between two
steps of the others, which is the longest pattern the listed races need. Queues
of two hold a reply and a delta, so that both "fits" and "dropped" occur. In the
runs about router and hub `OutCap` is 0: clients' queues play no part in what
the router learns. `MaxCtl = 0` still lets one action post several events. In
`ControlPlane` no shard is configured (`NShards = 0`): `MediaPlane` has them.

*Track identity.* A plan holds the toggles, shares and reconnects of one
behaviour. A second share before the answer to the end of the first, or a
reconnect with a screen and the camera off, makes the numberings differ for the
reason that `track_identity_camera_off` shows: an m-line that is not announced.
`NumberingsAgree` is about all plans without these cases.

*Media plane.* A behaviour starts empty, or settled with everybody in the room,
and has a budget: control events, packets, dropped legs, changes of voice, and
how far the queues of the shards may trail when another event is sent (`lag`).
The first budget exercises membership and negotiation from nothing; the second
three queues that trail each other; the third and fourth packets next to a
change, two packets at once through rings of one (`RingCap`), and a leg that
drops; the next two speakers who leave or fall silent. With the last one the
queues trail so far behind that a packet reaches a shard which has not heard of
its room yet. Participants one and
three share a shard, so every packet has takers here and across. `SsrcCap = 2`
is reached. `TopN = 1` makes one speaker displace another. `ReportCap = 2`
holds one report of each shard. `ShardCap = 16` never fills, see Not modelled.

*Leg setup.* `MaxGen` and `MaxUfrag` of 2 allow one re-creation and one ICE
restart. `MaxPairs = 1` makes a second address evict the first; `PairTtl = 0`
makes every pair that is silent for a tick expire. `PathChoices` says at which
addresses browsers are seen.

*Leg media.* With 8 numbers and a start at 6 every behaviour of four packets
can wrap. A window of 3 is left behind by a packet that is 4 late; `Advance` and
`Behind` (3000 and 100) put all three cases of the report counters in reach:
ahead, a little late, far behind. `TwCap` and `TwBatch` of 3 are reached by
the third packet. `MaxNow` ticks make both reports due. `MaxStreams = 1` makes
the shard's own RTCP compete with the source for the table of streams,
`RtcpLimit = 2` exhausts the SRTCP index. Two sources add nothing to the
window of either, and the theorems of section 4 hold for any number.

*Wire formats.* `MaxStatuses` must exceed the length of a two-bit vector chunk
(`Wide`, 7 in the code, is 2 here, `Narrow`, 14, is 4) so that packets take
several chunks; deltas lie on both sides of the limits of one and two bytes.
Attributes, elements, blocks and sections are the ordinary ones and those
at the limits of their encodings; 17 unknown attributes exceed the code's 16.

*Client session.* Nothing is counted but attempts (`Attempts`, 8 in the code; of
three one is the first, one the last, one neither) and the revision at which the
room changes no more (`MaxRevision`). Calls, losses and reconnects go on for
ever: names of sockets are used again. Three sockets are the session's own, one
that is still closing, and the one a late continuation of `join` remembers; when
none is free the next connect waits, which the fairness of closing ends.
The user starts a call only when every continuation of the last one has come to
its end (the guard of `UserJoins`); section 3 says below what the code does when
calls overlap. This run checks for deadlock.

The other next-state relations have no deadlock to look for: connections are used
once and every other supply is bounded, so every behaviour ends
(`CHECK_DEADLOCK FALSE`). What must not end early is said by the liveness
properties.

### Fairness

*Signaling.* Weak fairness of `WriteOut`, `Flush` and `TransportClose` of every
connection: tokio schedules every ready task, and a write either completes or
fails. Weak fairness of the media task taking events, and of the router's loop.
Nothing is assumed of clients: they owe no frame and need not hang up, and no
dispatch is assumed to happen. A peer whose writes never complete and never fail
would hold its session for ever; the server has no keepalive that ends it.

*Leg setup.* Weak fairness of the shard handling a description that waits, as
its loop reads its control queue. Strong fairness of one check with current
credentials (`FreshCheck`) and of one flight of the handshake that is not lost
(`Handshake`): browsers repeat both until they are answered, and a network that
loses some datagrams does not lose all of them. Strong, because a leg that is
re-created, or a pair that expires, takes the chance away for a moment.

*Client session.* Weak fairness of each event that an await waits for: timers run
out, a socket that connects opens or fails and one that closes closes, the
offer of a peer connection that is not closed is made or fails, and the server
answers the first frame of a connection. Nothing is assumed of the user, of the
camera, of open sockets, or of the offer of a closed peer connection, which may
never settle.

### What the properties except

- `RostersAgree` speaks of clients that lost no message (see `wedged`).
- `RoutesAreExact` excepts addresses a leg moved away from, or lost with an ICE
  restart: `by_addr` keeps them, they lead to the leg and outlive it. A browser
  that shows up behind such an address is not heard, since `on_datagram` asks
  `by_addr` first; `SetupCompletes` therefore excepts browsers all of whose
  addresses lead elsewhere, next to legs whose handshake failed: the failure is
  latched and the leg is kept.
- `InOrderStreamsOpen` is about senders that keep their order. A source whose
  packets arrive at the shard out of order at a wrap is forwarded so, and the
  receiver may guess another roll-over count than the one the packet is sealed
  under.
- `ReportsAreExact` excepts packets that are a little late (see `rr_late`), far
  ahead, or recorded twice: a packet that makes the window flush is recorded
  again, in window and counters.
- `RewritesReadBack` excepts a rewrite that inserts a transport-wide number and
  a mid at once: `rtp.rs:607` does not advance, and the second overwrites the
  first. No caller in `wroomd` does both.
- `DescriptionsReadBack` excepts the DTLS role told to an offerer that is passive
  itself. `answer` then says `active`, "a passive offerer is the one case we must take
  the active role" (`sdp.rs:836-841`), but every leg is the DTLS server
  (`transport.rs:38-40`, line 83; only tests call `set_active`, `dtls.rs:206-208`). Such
  an offerer would wait for a ClientHello that never comes. To all others, mixed
  descriptions with rejected sections included, the answer names the role the server
  has. Browsers offer `actpass`.
- `CallsAreServed` excepts the subscriptions of the attempt after a rejoin that
  was torn. `rejoinPending` is set once per reconnect (`session.ts:417`) and spent
  by the first JoinResponse; when that attempt fails after all, because its
  socket dies before its late offer, the next JoinResponse does not clear
  `requested`, and the browser asks its new server session for nothing. Without
  the conjunct `~client.torn` TLC finds it with two attempts.
- `CandidatesWait` is about candidates of the connection made for the socket. While
  a reconnect's socket connects, the call screen is still there and `joinSent` is
  still true: a toggle, a chat message, an answer or candidates of the old peer
  connection go into the outbox, which is flushed before the join, and the
  server ends the call ("first message must be join").
- `NoGhosts`, `CandidatesWait` and the others hold of calls that do not overlap. A
  `join()` whose socket died in the grace period looks only whether `this.sig` is
  null (line 174); in the next call it is not, and the old `join()` sends a second
  JoinRequest over the new socket. Leaving during the last attempt makes that
  attempt fail, and the loop falls into a second teardown, "Could not
  reconnect." (line 454), which replaces the reason of the end and would tear
  down a call started meanwhile. A path that fails while a reconnect waits for
  a late offer is not noticed by it: `beginReconnect` returns early.
- `MediaFollowsIntent` takes what the router was told. After a first batch that the
  registry refuses as a whole, `dispatch` still reports "the applied set"
  (`ws.rs:161`); for a member that had none applied this is the empty set, and it
  turns "receives everything" into "receives nothing".

### What the violated runs show

1. `wedged` - `deliver` drops a room update that does not fit and expects that
   the peer's task will fail. A queue that is full for a moment drops a delta of
   a healthy peer, which stays connected with a wrong roster.
2. `track_identity_camera_off` - the video transceiver exists whether or not
   the camera is on, its announcement only once the camera has been on. After a
   join with the camera off, a screen share is m-line 2 for the shard and index
   1 for the router.
3. `rr_late` - `RrSlot::record` (`media.rs:471-488`) takes a packet that is less
   than 100 numbers behind for a restart of the source. It resets base, highest
   number and count but not the priors of the last report, so that the next
   report subtracts them from smaller values. Being late by a few packets is
   the ordinary case of reordering, which the comment says is handled.

## 4. The proofs

Everything is proved from the named assumptions on the constants
(`RegistryAssumption`, `SignalingAssumption`, `SocketsAssumption`,
`AttemptsAssumption`, `LegSetupAssumption`, `WindowAssumption`, `SrtpAssumption`,
`TwccAssumption`, `FeedbackAssumption`, `LegAssumption`, `ShardAssumption`,
`SpeakersAssumption`, `PlaneAssumption`), which the runs evaluate. Some theorems have
a condition of their own: `InOrderStreamsOpenAlways`, `ReportsAreExactHolds`,
`TwccIsExactHolds`, `NumberingsAgree`, and those about the media plane.

| Property | Theorem | Module |
| --- | --- | --- |
| `RegistryTypeOK`, `WithinCaps`, `RoomsAreOccupied` | `RegistryTypes`, `CapsHold`, `NothingOutlivesItsRoom` | `SignalingProofs` |
| `IdsNeverReused`, `IntentFollowsRevisions` (action properties) | `IdsAreFresh`, `StaleBatchesAreInert` | `SignalingProofs` |
| `SessionsMatchRegistry` | `SessionsAndRegistryAgree` | `SignalingProofs` |
| the hub implements the registry | `HubImplementsRegistry` | `SignalingProofs` |
| `SignalingTypeOK` | `SignalingTypes` | `SignalingProofs` |
| `FeedIsOrderly`: the hub implements `MediaFeed` | `SignalingImplementsFeed` | `SignalingProofs` |
| `RostersAgree`, `DeltasApplyCleanly`, `ChatOrderIsShared` | the same with `Always` | `SignalingProofs` |
| hub and router together implement the hub | `ControlRefinesSignaling` | `ControlProofs` |
| `MediaMirrorsRoom`, `MediaFollowsIntent`, `OffersCoverIntent`; `MidsAreStable` (action property) | the same with `Always` | `ControlProofs` |
| `NoGhosts`, `CallsAreServed`, `CandidatesWait` | the same with `Always` | `ClientSessionProofs` |
| `SpeakersArePresent` | `SpeakersArePresentHolds` (no control queue fills) | `MediaPlaneProofs` |
| `ShardsFollowRouter` | `ShardsFollowRouterHolds` (no control queue fills) | `FollowProofs` |
| `TrafficArrives` | `TrafficArrivesHolds` (no control queue fills; rings may) | `FollowProofs` |
| `ListsAreCurrent` | `ListsAreCurrentHolds` (no control queue fills, the ring of reports has room) | `FollowProofs` |
| `CanonicalMidsAgree` | `NumberingsAgree` (a microphone; no screen before the camera is announced; settled shares) | `IdentityProofs` |
| `RoutesAreExact`, `NominationIsCurrent`, `PairsAreVouched` | the same with `Always` | `LegSetupProofs` |
| `NoIvReuse`, `AcceptedOnce`, `InOrderStreamsOpen` | `NoIvIsReused`, `NothingIsReplayed`, `InOrderStreamsOpenAlways` | `LegProofs` |
| `ReportsAreExact` | `ReportsAreExactHolds` (numbers are fewer than the values of a counter) | `LegProofs` |
| `TwccIsExact` | `TwccIsExactHolds` (windows are young, numbers near) | `LegProofs` |
| a built feedback packet reads back | `FeedbackReadsBack` | `LegProofs` |

`SignalingProofs`, the registry. The inductive invariant is `RegistryInv`: types, finiteness of
`rooms`, `WithinCaps` and `RoomsAreOccupied`. The caps alone are not inductive:
that a batch stays under the subscription cap needs the projected size to be
the real one, for any overlap of upserts and removes (`ProjectedIsExact`, by
cardinalities of disjoint unions), and that a joining participant brings no
tracks needs that ids beyond the sequence have no record. One lemma per
operation (`JoinInv`, `LeaveInv`, `UpdateTracksInv`, `UpdateSubscriptionsInv`).
From it: `RegistryTypes`, `CapsHold`, `NothingOutlivesItsRoom`, and the action
properties `IdsAreFresh` and `StaleBatchesAreInert`.

The same module, the hub. The inductive invariant is `HubInv`: `RegistryInv`, types of
the session variables, `SessionsAreSane` (a session's id and room are set
together and only by a join, task positions fit session states) and
`SessionsMatchRegistry`. The last one needs the others: that a second session
never gets the id of a first one follows from ids in sessions being below the
sequence; that a member always has a session that will remove it needs the
rejected sessions, whose outbound channel is gone but whose task is not done.
From it: `SessionsAndRegistryAgree`, and `HubImplementsRegistry`: every step of
the signaling plane is a registry step or leaves the registry alone, so all
theorems about the registry hold of the hub.

The same module, the control channel. The queues, the clients' rosters and the control channel are typed
(`WiresTypeOK`), given `HubInv`. The refinement to `MediaFeed` maps a participant
id to the room of the connection that holds it, so it needs `EveryIdIsHeld`:
every id below the sequence belongs to a connection for ever, and a connection
keeps its id when it ends. Then one step of the hub is one step of the abstract
sender: a batch of events it accepts (`Joined` once; publications, subscriptions
and offers of a member; `Left` once and nothing after) or none.

The same module, rosters and chat. What a client will have when it has read its queue is a
recursive function of the queue (`Reading`, `Logging`). `RostersAgree` and
`DeltasApplyCleanly` are inductive only together (`Faithful`): a delta makes
sense because the roster it will meet is the registry's room before the step,
and it leads to the room after the step. For the chat order, `ChatInv` says that
no log, read or still to be read, has a message its sender has not numbered yet
(`Numbered`), so that the next one is new to all of them, that no log has a
message twice (`Distinct`), and that any two logs have what they share in one
order (`Ordered`).

`IdentityProofs`. The two numberings are not equal in general: an m-line that is
never announced shifts the router's numbers (`track_identity_camera_off`).
`NumberingsAgree` says when they are, for any number of toggles, shares and
reconnects and any capture: there is a microphone (`MicCaptured`), the screen is
shared only while the camera is, or has been, announced (`CameraBeforeScreen`),
and a share starts only when the answer has freed the m-line of the one before
(`SharesAreSettled`). All behaviours of the run `track_identity` meet these; those of
`track_identity_camera_off` that fail break the second. The inductive invariant
`IdentityInv` is about the frames on the socket: one that announces the camera
finds the microphone numbered, by the server or by a frame in front of it, and one
that announces the screen finds the camera (`InOrder`); a joined client's
announcements are numbered or on their way (`PhasesFit`), so the next one finds
its predecessor. Then the router's list is always a beginning of microphone,
camera, screen, the order of the m-lines.

`ControlProofs`. That hub and router together implement the hub alone
(`ControlRefinesSignaling`) carries over everything proved of it. The inductive
invariant is `ControlInv`: `Hearing` is what the router will know of a participant
when it has taken the events in the channel, and `Mirrored` says that this
matches the registry, with any number of events in flight; `JoinsAreNew` says
that a Joined in the channel is about somebody unknown when its turn comes,
without which a late Joined would wipe what is known. The router's own tables
satisfy `TablesInv` (rooms live as long as members, pids within a room differ,
the mids in offers mean what they meant and agree between members), and whoever
has no offer due is `Covered`. From them follow the properties of the
moment when the channel is empty. `MidsAreStable` rests on
`OffersHold`: while a room lives its pids only rise, so that nobody gets the pid
of a member who left as long as an offer names it, and published lists only
grow at the end.

`MediaPlaneProofs`. A control queue of a shard is bounded and what does not fit is
lost; afterwards a shard may disagree with the router for ever. The theorems
about the media plane are therefore about behaviours in which no such queue
fills (`QueuesHaveRoom`: always `Len(inbox[s]) < ShardCap`), and the run's queues of
16 never do. The inductive invariant, `SpeakersInv`, follows a participant
through the plane. Before its Joined is taken nothing names it
(`NewcomersAreNew`); a room comes up in a queue before anything else about it
(`RoomsComeUp`); who is seated is known to every shard, or will be, and is not
about to go (`SeatedAreKnown`); and every message finds what it needs when its
turn comes (`QueuesInOrder`), a list of speakers above all: everybody it names is
known by then and nobody's departure is queued before it. A list is merged from
reports of any age, but by `Merged` from seated members only, and queues keep
their order: that is all the argument needs of reports and rings.

`FollowProofs`. What a shard will know of a room once it has read its queue is a
recursive function of the queue (`Learning`), as in `ControlProofs`.
`ShardsWillAgree` says that this is the router's room: pids, resolved wants, own
members. A message the router appends changes the last value of the function
only, one the shard takes its first, and both leave the agreement alone. A
deviation is possible in between: after its MemberUp a newcomer wants
everything, and only the table behind it tells the truth (`Sketch`, then
`Picture`). That the forwarding tables are those of the members' wants
(`RoomsAreSane`) and that legs are at the home of a seated member, or its
departure is queued there (`LegsAreOwned`), complete `FollowInv`; from it, for an
empty queue, `ShardsFollowRouter`.

`TrafficArrives` rests on that. Its inductive invariant `TrafficInv` adds that a
participant has legs, or offers of legs on their way, on one shard only
(`OneSpot`), that a post is in a ring at most once, and two halves. Nobody gets a
post twice (`PostsOnce`): whoever has got it, or sent it, has no leg on a shard in
whose ring it still is. This survives members who leave and rejoin, because a
participant is seated once, a new leg is at the home of its seat, and a spot once
free is not taken by anybody but a newcomer (`SpotsKeep`). And a calm post gets to
everybody (`CalmArrives`): those it is due to are those who have got it and those
whom a ring entry still serves (`Pending`). At the post this is where
`ShardsFollowRouter` enters: with nothing on its way all shards have the router's
room, so the publisher's shard knows which shards have takers, each of these
knows which of its members they are, and a leg that is up is there and nowhere
else (`CalmServes`). A packet whose SSRC the shard did not know is not calm for
the others on their way, since the shard's members change with it; of a known SSRC
it changes nothing that forwarding looks at (`MediaStill`, for which `Tagged` says
that publishers' records are well-formed). Every step leaves posts alone (`Kept`),
adds one (`Posted`) or takes one from a ring, and there is one lemma for each.

`ListsAreCurrent` rests on `FollowInv` too. The inductive invariant `ListsInv` speaks
of the times when nothing but lists of speakers is queued (`OnlyLists`). A shard
then knows its own members as the router does, so that what it has reported
since the last change is true of them (`ReportsAreIn`), be the report in the ring
or already taken from it. From there it is about ranks: that the loudest of a room
are the loudest of what each shard found loudest, although every shard sends no
more than `TopN` names (`LoudestOfLoudest`). So a merge of all reports has the true
list, and each member has been told it, or the last list of its room in its
shard's queue is that one (`EverybodyHears`). `Merge` sends nothing when the list is
what it sent before; this is right because who has joined since is a change, and
where no list was ever sent nobody has been told anything (`NobodyToldYet`).
The theorem has a second hypothesis besides `QueuesHaveRoom`: before a shard
reports, the ring has room for what it will report (`ReportsFit`). It cannot be
dropped: a report that is lost leaves the merge with an older one of that shard,
and the list is wrong until the next. The code's ring has 1024 places for all
shards together and a shard reports every room it ever had, so it holds for
servers that have not seen too many rooms. On the run's instance, where whoever
talks is in the one room there is and `ReportCap` is the number of shards, TLC
found it true in every state, as it did the other parts of `ListsInv`.

`ClientSessionProofs`. The inductive invariant is `SessionInv`: `Sound` says of the
session without its continuations that no socket is up but its own
(`Exclusive`), what a socket that is not open can hold (`CleanSockets`), what the
phase tells of the rest (`PhaseIsTrue`) and that what is requested is what the
server has (`Served`); `FlowsFit` says which continuations can wait next to each
other. Beside joins that have nothing left to do but to make a late offer there
is at most one, a `join` that is not sent yet (`JoinWaits`) or the loop
(`LoopWaits`), and for each place where either may stop, what the socket, the
phase and the flags are then. There is one lemma per action, and one per
continuation it resumes. Sockets and attempts are arbitrary; that the loop ends
is liveness (`Settles`) and model-checked.

`LegSetupProofs`. The inductive invariant is `LegsInv`: the three tables and the
legs name each other (`TablesOK`), of a transport that is up only its own browser
has credentials (`Owned`, because a ufrag is never given out twice), and each leg
is `Sane`: pairs, the selected pair and the nominated address rest on checks
accepted from its browser. `NominationIsCurrent` alone is not inductive: a
subscriber's leg is nominated before its first answer tells the agent the
browser's ufrag. `Awaiting` says that until then all credentials the browser has
for this generation, and the answer in the mail, carry one ufrag, so that the
check which nominated is of the session the answer will name.

`LegProofs`. The inductive invariant is `ContextsInv`: the tables of streams
hold streams (`TablesOK`), what is on the wire is well-formed (`WireOK`), every
packet ever sealed is marked in the window of its sender (`SealedIsMarked`),
every packet ever accepted was sealed and is marked in the window of its
receiver (`OpenedIsMarked`), and the two properties themselves. A window says
something about a few recent indices only; that none repeats in the whole
history needs that marks are never lost (`RecordMarks`: an index that leaves the
window stays refused) and that whatever passes the check is not marked. The
properties speak of the history, so both halves have to be tied to it. SRTCP on
the sender has no window but a counter, which `SealedIsMarked` covers with
"behind the counter". Ideal ciphers enter in one place: a packet opens only as
what it was sealed as. From it, for all widths, windows, limits of the table,
sources, late and repeated packets and forgeries: `NoIvIsReused` and
`NothingIsReplayed`. The receiver's guess of the roll-over counter plays no part
in either: a wrong guess loses a packet, but cannot let one in twice.

The guess matters for `InOrderStreamsOpenAlways`. Here the windows have to be
tied to the history from the other side as well: what they mark is what was sent
or accepted and nothing else (`Holds`), so that two windows of the same packets
end at the same index (`SameHighest`) and a forgery leaves no trace. While a
sender is in order its window ends at the number handed over last, or else the
last roll-over count is being used up and what wraps is refused (`Follows`); the
packet sent last is then one whose index the receiver guesses (`SendFits`,
`LastFits`). The condition `MaxJump < Half` says that a source is never half the
number space ahead of itself. It cannot be dropped: a gap of 2^15 is where the
guess of RFC 3711, and with it the code's, turns to the other roll-over count.
The run has gaps up to 2 with 8 numbers.

`ReportsAreExactHolds` ties the counters of a slot to the set of numbers that
arrived of its source (`Accounts`): `base` and `max` are the first and the highest
number modulo the number space, `cycles` makes up the difference, `received` is
the size of the set, and what the last report noted is no more than what there
is now. That the size grows with every packet needs that no number comes twice,
which is where the contexts come in: a browser numbers upwards (`NumbersRise`),
so a number that comes again is the same packet, and `AcceptedOnce` refuses it.
One step of the counters is arithmetic modulo the number space (`AheadIs`,
`CountedAccounts`); that a report says what is missing is the cardinality of an
interval without a subset (`AccountsAreExact`). The exceptions are those of the
property. The condition, that no number reaches `Word` (2^32), is where
`Expected` wraps and falls below what the last report noted.

`TwccIsExactHolds` goes through the whole of the transport feedback: notes in a
window, a window into deltas, deltas into chunks and bytes, and back. From the
packet upwards:

- `FeedbackReadsBack`. The chunks, laid end to end, begin with the symbols
  (`ChunksSpellOut`, by induction from the last symbol back: every chunk but the last
  is full, so the padding of the last is all a reader has to ignore). Where the bytes
  of a status start is the same sum on both sides (`Offsets`, `DeltaAtIs`, `FlattenAt`), and
  two bytes in two's complement give the delta back (`LargeBytes`). Hence the reader
  accepts the packet and sees the statuses, for all sizes of chunks and bytes.
- `HeardAre`. The deltas of a window add up to its times (`SumsAre`), if none is
  clamped (`TimesFit`).
- `WindowOK`. A window holds only what arrived, at its time, at its distance from the
  base, and nothing older than its opening. `WindowIsHeard`: what a browser hears of
  such a window is the window.
- `TwccInv`. A packet that arrived ahead of all before it is told, or in the window.
  `NotedOK` and `ArrivesKeeps` show that a note overwrites no place but its own, in
  particular when the packet comes to a window that is full or out of reach and is
  noted again after the flush.

Two conditions are assumed of the behaviour. `WindowIsYoung`: a window is sent before
half of the range of a delta has passed. The code flushes after 100 ms and a delta
reaches 8.2 s; that a shard polls at least that often is not something a step of the
model says. `NumbersNear`: no two packets that arrive within such a time are 2^15
numbers apart, or a distance modulo 2^16 means nothing. Both hold in every state that
`leg_media` reaches. Without the first, deltas are clamped and times are not exact;
the property would be false.

Inductions over data are done without the library's induction theorems:
that a set of naturals with 0 and all successors is `Nat` (`SetInduction`) follows from
the well-foundedness of the subset order on finite sets (`LeastNatural`), and
`FiniteSetTheorems` does the rest. Recursive functions are equations to the
provers; those of the models are over the naturals and go down by one.

What the proofs changed in the models: a set difference next to a set of
records was parsed the other way in `MediaFeed` and `ClientSession`, without
consequence for the runs, and has parentheses now; the verdicts of `IceAgent` had
overlapping CASE guards, whose meaning is the first true one to TLC and any to
the logic, and are IF chains now; `Router` looks a track up in the list as it
grows, as the code does, not in the list before the batch, and sends the offers
of a flush one after the other, each to what the queue has left;
`rebuild_fanout`'s two tables have names of their own (`DemandTable`, `FanTable`);
`FanOut` lacked the early return of `fanout_send` for a room the shard has not
heard of, which no run had reached, and the last budget of `MCMediaPlane` is there
to reach it; `Demand` has parentheses around its union; `TrackIdentity` writes
the announcements and the router's list as what the code appends, one after the
other; `Speakers` says which report of a shard is the latest (`Latest`) where it
folded over the ring, and `SpeakersAssumption` says that the ring's capacity is a
natural number; `DeltaAt` counts bytes with a recursive function where it folded a
part of the symbols, with the same values; `TwccAssumption`, `FeedbackAssumption` and
`LegAssumption` say what the proofs need of the feedback's constants: the window is
at most half of the number space (512 of 65536 in the code), the unit of the reference
time at most half of a delta's range (256 of 32768 ticks), and the widths are
positive.

Only model-checked, and why:

- `WireFormats`: what the recursive readers and builders of STUN, RTP, RTCP and SDP
  compute for every input. The part of `TwccReadsBack` about the codec is proved for all
  packets as `FeedbackReadsBack`; that the statuses the run enumerates are buildable
  is left to the run.
- That hub, router and shards together implement the media plane with `MediaFeed` as
  its environment: `MediaPlane` also starts in the middle (`Settled`), in states
  that stand for many histories of the hub.
- `EndedSessionsAreForgotten`, `SetupCompletes`, `Settles`: liveness under fairness is
  out of the prover's reach.

## 5. Plan

Done, most important behaviour first:

1. Registry, then signaling with the clients' rosters. *Abstract spec:*
   `MediaFeed`.
2. Router, and hub and router together.
3. Track identity across client, router and shard.
4. Proofs of the registry's and the hub's invariants and of the refinement.
5. Shards, rings and speakers against `MediaFeed`, with two shards and three
   members.
6. One leg from offer to media: routing tables, ICE, DTLS, timers.
7. A connected leg: SRTP contexts with their proof, receiver reports and
   transport-wide feedback.
8. The formats.
9. The browser's session with its reconnects.
10. Proofs of the contract of the control channel, of rosters and chat, of the
    router's mirror, its offers and mids, of the browser's session, of routes,
    nominations and consent, and of orderly streams.
11. Proofs that shards follow the router, that no list names a stranger, that
    packets, reports and requests arrive, and that lists of speakers are current,
    for queues that do not fill.
12. Proof of the condition under which the two numberings agree.
13. Proofs that receiver reports and transport-wide feedback are exact.

Left: recovery of a shard that missed a control message, once the code has one,
and a DTLS client role for an offerer that is passive, once a leg can take it.

## 6. Not modelled

- Ciphers, key derivation beyond its labels, and the cryptography of the
  handshake; characters and byte order of the formats; protobuf; the token
  format (its verdict is a free choice).
- Encoder tuning, statistics, device selection, layout and rendering,
  configuration and start-up.
- The client's bindings of mids to tracks and elements, its chat list and its
  notices; the announcements of a rejoin are in `TrackIdentity`.
- Batches of 512 targets and the retries of `sendmmsg`; interarrival jitter.
- Losses on the last step to a member whose outbound queue is full: a shard's speaker
  list (`media.rs:1268`), which the heartbeat repeats within a second, and a session
  description (`media.rs:1593`), which nothing repeats.
- Inputs that end without an effect on the state modelled: a publisher's offer that
  does not parse (`media.rs:1279`), STUN methods other than Binding (`ice.rs:884`);
  and keying material of a wrong length (`transport.rs:202`), which a finished
  handshake does not export.

Hazards without a property, and why:

- A full shard control queue (`media.rs:239`) loses a delta for good. The model
  drops what does not fit, but nothing heals it, so no property of the shard
  survives; `media_plane` gives the queue room.
- A line that no longer publishes and whose SSRC is forgotten is forwarded under
  the name of the only other line of its kind (`media.rs:1647`). The model
  takes the same line; a property that it is the right one would be false by
  construction of the code.
- The ninth source of a publisher (`media.rs:95`): the bound is in the model, a
  property would restate it.
- A shard that is never idle never ticks (`media.rs:846`): a matter of load.
- Sends reordered across a wrap (`srtp.rs:1098`), addresses left behind
  (`media.rs:992`) and client frames that overtake the join (`session.ts:227`): see
  what the properties except, section 3.

Noted while reading, and not pursued as properties: shards never free the
tables of a room whose last member left; answers echo the publisher's extension
ids while forwarding assumes those of `leg_extmap`; answers accept H264 and AV1
while subscribers are offered VP8 and opus only.
