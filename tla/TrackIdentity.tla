--------------------------- MODULE TrackIdentity ---------------------------
(***************************************************************************)
(* How one published track gets its canonical mid "m{pid}.{index}", on     *)
(* both ends of the system.  The name is derived twice:                    *)
(*                                                                         *)
(*   - the router numbers the tracks in the order their announcements      *)
(*     reach it (media.rs on_control, wanted_tracks), and that is what the *)
(*     subscribers are offered;                                            *)
(*   - the shard numbers them by m-line of the publisher's offer (media.rs *)
(*     on_pub_offer), and that is what the forwarded packets carry.        *)
(*                                                                         *)
(* The client decides both orders: its transceivers (web/src/lib/webrtc.ts *)
(* createPublisherOffer, addScreenShare, removeScreenShare) and its        *)
(* announcements (localTrackAnnouncements, sent by session.ts).  Frames    *)
(* travel in order on one socket, and one participant is enough.           *)
(***************************************************************************)
EXTENDS Naturals, Sequences, Functions

CONSTANTS
  Captures,     (* the sets of devices a join may have captured            *)
  Plans         (* bound: what a behaviour does, as how many camera        *)
                (* toggles, screen shares and reconnects                   *)

VARIABLES
  stream,       (* tracks of the local capture (localStream)               *)
  camAnnounced, (* camAnnounced                                            *)
  mlines,       (* m-lines of the publisher connection, in order           *)
  sharing,      (* the screen is captured (store.screenStream)             *)
  settled,      (* the last offer has been answered                        *)
  phase,        (* "joining" or "joined"                                   *)
  wire,         (* frames on their way to the server                       *)
  published,    (* registry: the participant's published track ids         *)
  index,        (* router: the participant's published list                *)
  midTrack,     (* shard: m-line -> the track the offer puts there         *)
  toggles, shares, rejoins    (* what is left of the plan               *)

client == <<stream, camAnnounced, mlines, sharing, settled, phase>>
server == <<published, index, midTrack>>
bounds == <<toggles, shares, rejoins>>
vars == <<client, wire, server, bounds>>

-----------------------------------------------------------------------------
(* The client's two orders *)

\* createPublisherOffer: a transceiver each for audio and video, captured or
\* not, so that media can be attached later without renegotiation.
PublisherLines == <<"mic", "cam">>

\* addScreenShare: a third transceiver.  The browser recycles the m-line of a
\* stopped one once the answer has confirmed that it is rejected (JSEP).
WithScreen(lines) ==
  IF settled /\ "stopped" \in Range(lines)
  THEN [lines EXCEPT ![CHOOSE i \in DOMAIN lines : lines[i] = "stopped"] = "screen"]
  ELSE Append(lines, "screen")

\* removeScreenShare: the transceiver stops, its m-line stays, rejected.
WithoutScreen(lines) == [i \in DOMAIN lines |-> IF lines[i] = "screen" THEN "stopped" ELSE lines[i]]

Push(list, cond, id) == IF cond THEN Append(list, id) ELSE list

\* Fault: the camera is announced before the microphone.
AnnouncementsCamFirst(s, announced, lines) ==
  LET cam == Push(<<>>, "cam" \in s \/ announced, "cam")
      mic == Push(cam, "mic" \in s, "mic")
  IN  Push(mic, "screen" \in Range(lines), "screen")

\* localTrackAnnouncements: the microphone when there is one, the camera when
\* it is or ever was on, the screen while its transceiver is there.
Announcements(s, announced, lines) ==
  LET mic == Push(<<>>, "mic" \in s, "mic")
      cam == Push(mic, "cam" \in s \/ announced, "cam")
  IN  Push(cam, "screen" \in Range(lines), "screen")

Offer(lines) == [t |-> "offer", lines |-> lines]
Tracks(pub, unpub) == [t |-> "tracks", pub |-> pub, unpub |-> unpub]

-----------------------------------------------------------------------------
(* The client (session.ts) *)

IdentityInit ==
  /\ stream \in Captures
  /\ camAnnounced = ("cam" \in stream)
  /\ mlines = PublisherLines
  /\ sharing = FALSE
  /\ settled = FALSE
  /\ phase = "joining"
  /\ wire = <<[t |-> "join", lines |-> PublisherLines]>>
  /\ published = {}
  /\ index = <<>>
  /\ midTrack = <<>>
  /\ \E plan \in Plans : /\ toggles = plan.toggles
                         /\ shares = plan.shares
                         /\ rejoins = plan.rejoins

\* handleJoinResponse: everything local is announced in one batch.
Announce ==
  LET all == Announcements(stream, camAnnounced, mlines)
  IN  /\ phase = "joining"
      /\ \A i \in DOMAIN wire : wire[i].t # "join"
      /\ phase' = "joined"
      /\ wire' = IF all = <<>> THEN wire ELSE Append(wire, Tracks(all, {}))
      /\ UNCHANGED <<stream, camAnnounced, mlines, sharing, settled, server, bounds>>

\* applyTrackEnabled: the camera is detached, or captured and attached to the
\* transceiver it has; then its announcement is sent again, if it has one.
ToggleCamera ==
  LET on  == "cam" \notin stream
      now == IF on THEN stream \cup {"cam"} ELSE stream \ {"cam"}
  IN  /\ phase = "joined"
      /\ toggles > 0
      /\ toggles' = toggles - 1
      /\ stream' = now
      /\ camAnnounced' = (camAnnounced \/ on)
      /\ wire' = IF camAnnounced' THEN Append(wire, Tracks(<<"cam">>, {})) ELSE wire
      /\ UNCHANGED <<mlines, sharing, settled, phase, server, shares, rejoins>>

StartScreenShare ==
  /\ phase = "joined"
  /\ ~sharing
  /\ shares > 0
  /\ shares' = shares - 1
  /\ sharing' = TRUE
  /\ mlines' = WithScreen(mlines)
  /\ settled' = FALSE
  /\ wire' = wire \o <<Offer(mlines'), Tracks(<<"screen">>, {})>>
  /\ UNCHANGED <<stream, camAnnounced, phase, server, toggles, rejoins>>

StopScreenShare ==
  /\ phase = "joined"
  /\ sharing
  /\ sharing' = FALSE
  /\ mlines' = WithoutScreen(mlines)
  /\ settled' = FALSE
  /\ wire' = wire \o <<Offer(mlines'), Tracks(<<>>, {"screen"})>>
  /\ UNCHANGED <<stream, camAnnounced, phase, server, bounds>>

\* The answer to the last offer is applied.
AnswerApplied ==
  /\ ~settled
  /\ \A i \in DOMAIN wire : wire[i].t = "tracks"
  /\ settled' = TRUE
  /\ UNCHANGED <<stream, camAnnounced, mlines, sharing, phase, wire, server, bounds>>

\* reconnectOnce: the socket is lost with what was on it; a fresh connection
\* offers the capture as it is now, the screen last, and joins anew.
Rejoin ==
  /\ phase = "joined"
  /\ rejoins > 0
  /\ rejoins' = rejoins - 1
  /\ camAnnounced' = ("cam" \in stream)
  /\ mlines' = IF sharing THEN Append(PublisherLines, "screen") ELSE PublisherLines
  /\ settled' = FALSE
  /\ phase' = "joining"
  /\ wire' = <<[t |-> "join", lines |-> mlines']>>
  /\ UNCHANGED <<stream, sharing, server, toggles, shares>>

-----------------------------------------------------------------------------
(* The server: registry, router and shard on one frame *)

\* on_pub_offer: rejected m-lines publish nothing but keep their index.
MidTracks(lines) == lines

\* on_control: what the registry has just published is appended to the list
\* that gives the order, unless it is there from before.
WithTrack(list, id) == IF id \in published \cup Range(list) THEN list ELSE Append(list, id)

Numbered(list, pub) ==
  LET after[i \in 0 .. Len(pub)] == IF i = 0 THEN list ELSE WithTrack(after[i - 1], pub[i])
  IN  after[Len(pub)]

ServerTakes ==
  /\ wire # <<>>
  /\ wire' = Tail(wire)
  /\ LET m == Head(wire)
     IN  \/ /\ m.t = "join"            \* a new participant under a new id
            /\ published' = {}
            /\ index' = <<>>
            /\ midTrack' = MidTracks(m.lines)
         \/ /\ m.t = "offer"
            /\ midTrack' = MidTracks(m.lines)
            /\ UNCHANGED <<published, index>>
         \/ /\ m.t = "tracks"
            /\ published' = (published \cup Range(m.pub)) \ m.unpub
            /\ index' = Numbered(index, m.pub)
            /\ UNCHANGED midTrack
  /\ UNCHANGED <<client, bounds>>

IdentityNext ==
  \/ Announce \/ ToggleCamera \/ StartScreenShare \/ StopScreenShare
  \/ AnswerApplied \/ Rejoin
  \/ ServerTakes

IdentitySpec == IdentityInit /\ [][IdentityNext]_vars

-----------------------------------------------------------------------------
\* media.rs: "m-line order == published-track order — the client's
\* TracksPublished follows its transceiver order".  Once nothing is in
\* flight, the name under which the packets of a published track are
\* forwarded is the name under which subscribers were offered that track.
CanonicalMidsAgree ==
  wire = <<>> /\ phase = "joined" =>
    \A i \in DOMAIN midTrack :
      midTrack[i] \in published => i \in DOMAIN index /\ index[i] = midTrack[i]
=============================================================================
