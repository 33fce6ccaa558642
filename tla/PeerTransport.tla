--------------------------- MODULE PeerTransport ---------------------------
(***************************************************************************)
(* The protocol stack of one leg (wroom-edge/src/transport.rs, dtls.rs):   *)
(* ICE agent, DTLS server, SRTP keys.  A transport is a record; feeding it *)
(* a datagram or a timer maps it to what it becomes and the events its     *)
(* shard acts on.                                                          *)
(*                                                                         *)
(* The DTLS engine itself is a library: what it may put out for an input   *)
(* is Engine and EngineTimer, taken from how dtls.rs drives it.            *)
(***************************************************************************)
EXTENDS IceAgent

NoKeys == 0
NoCert == "unknown"

Event(e) == [e |-> e, to |-> NoAddr]
SendTo(addr) == [e |-> "Send", to |-> addr]
NominatedAt(addr) == [e |-> "Nominated", to |-> addr]

\* Whether the transport changed, and what it reports.
Step(t, events) == [t |-> t, events |-> events]

-----------------------------------------------------------------------------
(* DTLS endpoint *)

NewDtls == [state |-> "idle", failed |-> FALSE, reported |-> FALSE, connected |-> FALSE,
            cert |-> NoCert]

Fatal == [fatal |-> TRUE]
Outcome(state, outs) == [fatal |-> FALSE, state |-> state, outs |-> outs]

\* What the engine does with a record of the browser: a repeated flight is
\* answered again, the last flight completes the handshake, an alert is fatal,
\* anything else is discarded.
Engine(dtls, record) ==
  CASE record = "hello" /\ dtls.state \in {"idle", "hello"} -> Outcome("hello", <<"Packet">>)
    [] record = "finish" /\ dtls.state = "hello" ->
         Outcome("done", <<"PeerCert", "KeyingMaterial", "Connected", "Packet">>)
    [] record = "finish" /\ dtls.state = "done" -> Outcome("done", <<"Packet">>)
    [] record = "close" /\ dtls.state = "done" -> Outcome("closed", <<"CloseNotify">>)
    [] record = "alert" -> Fatal
    [] OTHER -> Outcome(dtls.state, <<>>)

\* A flight is sent again until the handshake takes too long.
EngineTimer(dtls, late) ==
  IF dtls.state # "hello" THEN Outcome(dtls.state, <<>>)
  ELSE IF late THEN Fatal ELSE Outcome("hello", <<"Packet">>)

\* handle_packet and handle_timeout: an error is latched, and a failed endpoint
\* takes no more input.
Fed(dtls, outcome) ==
  IF dtls.failed THEN dtls
  ELSE IF outcome.fatal THEN [dtls EXCEPT !.failed = TRUE, !.reported = FALSE]
  ELSE [dtls EXCEPT !.state = outcome.state, !.reported = FALSE]

OutsOf(dtls, outcome) == IF dtls.failed \/ outcome.fatal THEN <<>> ELSE outcome.outs

-----------------------------------------------------------------------------
(* Transport *)

\* PeerTransport::new: fresh credentials, one ufrag and password for each gen.
NewTransport(gen, remote, cert) ==
  [gen |-> gen, ice |-> NewAgent(gen, gen, remote), dtls |-> NewDtls, keys |-> NoKeys,
   nominated |-> NoAddr, expected |-> cert, connected |-> FALSE, armed |-> FALSE]

\* Fault: every ufrag that is learned ends the nomination.
SetRemoteUfragForgets(t, ufrag) ==
  [t EXCEPT !.ice = SetRemote(@, ufrag), !.nominated = NoAddr]

\* set_remote_ufrag: another ufrag ends the nomination, the first does not.
SetRemoteUfrag(t, ufrag) ==
  [t EXCEPT !.ice = SetRemote(@, ufrag),
            !.nominated = IF t.ice.remote \notin {NoUfrag, ufrag} THEN NoAddr ELSE @]

SetExpected(t, cert) == [t EXCEPT !.expected = cert]

\* The certificate is the one the description named, if one has come yet.
Trusted(t, cert) == t.expected \in {NoCert, cert}

\* What an output of the endpoint is to the shard.  Handshake packets go to the
\* nominated address, or nowhere.
EventsOf(t, out, cert) ==
  CASE out = "Packet" -> IF t.nominated = NoAddr THEN <<>> ELSE <<SendTo(t.nominated)>>
    [] out = "Connected" -> <<Event(IF Trusted(t, cert) THEN "Connected" ELSE "Failed")>>
    [] out = "CloseNotify" -> <<Event("Closed")>>
    [] OTHER -> <<>>

\* drain_dtls over poll_output: the outputs are latched and acted on up to the
\* timer that ends every cycle.  Keying material is always of the right length,
\* so that installing it never fails.
Drain(t, outs, cert) ==
  LET got(out) == \E i \in DOMAIN outs : outs[i] = out
      done     == got("Connected")
  IN  IF t.dtls.reported THEN Step(t, <<>>)
      ELSE Step([t EXCEPT !.dtls.cert = IF got("PeerCert") THEN cert ELSE @,
                          !.keys = IF got("KeyingMaterial") THEN t.gen ELSE @,
                          !.dtls.connected = @ \/ done,
                          !.connected = @ \/ (done /\ Trusted(t, cert)),
                          !.armed = TRUE, !.dtls.reported = TRUE],
                FlattenSeq([i \in DOMAIN outs |-> EventsOf(t, outs[i], cert)]))

\* handle_datagram: STUN.
OnStun(t, m, from, now) ==
  LET r     == HandleStun(t.ice, m, from, now)
      reply == IF r.replied THEN <<SendTo(from)>> ELSE <<>>
  IN  IF r.nominated = NoAddr THEN Step([t EXCEPT !.ice = r.agent], reply)
      ELSE Step([t EXCEPT !.ice = r.agent, !.nominated = r.nominated],
                Append(reply, NominatedAt(r.nominated)))

\* handle_datagram: a DTLS record from a browser with this certificate.
OnDtls(t, record, cert) ==
  LET outcome == Engine(t.dtls, record)
      fed     == [t EXCEPT !.dtls = Fed(@, outcome)]
  IN  IF fed.dtls.failed THEN Step(fed, <<>>) ELSE Drain(fed, OutsOf(t.dtls, outcome), cert)

\* protect_rtp, protect_rtcp: where to, when there are keys and an address.
CanSend(t) == t.nominated # NoAddr /\ t.keys # NoKeys

\* handle_timeout.
OnTimer(t, now, due, late) ==
  LET fires   == t.armed /\ due
      outcome == EngineTimer(t.dtls, late)
      aged    == [t EXCEPT !.ice = Expire(@, now)]
  IN  IF fires THEN Drain([aged EXCEPT !.armed = FALSE, !.dtls = Fed(@, outcome)],
                          OutsOf(t.dtls, outcome), NoCert)
      ELSE Drain(aged, <<>>, NoCert)
=============================================================================
