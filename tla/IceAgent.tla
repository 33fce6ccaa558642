------------------------------ MODULE IceAgent ------------------------------
(***************************************************************************)
(* The ICE-lite agent of one leg (wroom-edge/src/ice.rs IceLiteAgent): it  *)
(* answers the browser's connectivity checks, remembers the addresses they *)
(* came from, and takes the one the browser nominates.  An agent is a      *)
(* record; an operation maps it to what it becomes, the reply it writes    *)
(* and the nomination it reports.                                          *)
(***************************************************************************)
EXTENDS Stun, FiniteSets

CONSTANTS
  MaxPairs,     (* MAX_PAIRS                                               *)
  PairTtl       (* PAIR_TTL                                                *)

NoAddr == [v6 |-> FALSE, at |-> "nowhere"]
NoUfrag == 0

\* IceLiteAgent::new.
NewAgent(ufrag, pwd, remote) ==
  [ufrag |-> ufrag, pwd |-> pwd, remote |-> remote, selected |-> NoAddr,
   pairs |-> [a \in {} |-> 0]]

\* set_remote_ufrag: a ufrag other than the one that is known restarts ICE.
SetRemote(agent, ufrag) ==
  IF agent.remote = ufrag THEN agent
  ELSE [agent EXCEPT !.remote = ufrag, !.selected = NoAddr, !.pairs = [a \in {} |-> 0]]

\* touch: a full table gives up the address that was silent longest.
Touch(agent, from, now) ==
  LET seen  == agent.pairs
      full  == from \notin DOMAIN seen /\ Cardinality(DOMAIN seen) >= MaxPairs
      stale == {a \in DOMAIN seen : \A b \in DOMAIN seen : seen[a] <= seen[b]}
      kept  == IF full THEN DOMAIN seen \ {CHOOSE a \in stale : TRUE} ELSE DOMAIN seen
  IN  [agent EXCEPT !.pairs = [a \in kept \cup {from} |-> IF a = from THEN now ELSE seen[a]]]

\* Fault: any browser's ufrag will do.
UsernameValidLocalOnly(agent, name) == name.local = agent.ufrag

\* username_valid.
UsernameValid(agent, name) ==
  /\ name.local = agent.ufrag
  /\ IF agent.remote = NoUfrag THEN name.remote # NoUfrag ELSE name.remote = agent.remote

-----------------------------------------------------------------------------
(* Replies *)

\* build_success.
Success(agent, m, from) ==
  Message("success", m.tid, <<MappedAttr(from, m.tid), Software>>, agent.pwd, MaxResponseLen)

ReasonLen(code) == CASE code = 400 -> 11 [] code = 401 -> 12 [] code = 420 -> 17 [] code = 487 -> 13

\* build_error: only the errors of an authenticated request are signed.
Failure(agent, m, code, unknown, signed) ==
  LET types == [i \in DOMAIN unknown |-> unknown[i].type]
      attrs == <<ErrorAttr(code, ReasonLen(code))>>
               \o (IF unknown = <<>> THEN <<>> ELSE <<UnknownAttr(types)>>) \o <<Software>>
  IN  Message("error", m.tid, attrs, IF signed THEN agent.pwd ELSE NoKey, MaxResponseLen)

-----------------------------------------------------------------------------
(* Requests and indications *)

\* replied: whether Reply is sent to where the message came from.
Result(agent, replied, nominated) == [agent |-> agent, replied |-> replied, nominated |-> nominated]

\* What a request is answered with, in the order of the checks; code 0 is a
\* valid connectivity check.
Refused(code, signed) == [code |-> code, signed |-> signed]

Verdict(agent, m) ==
  IF ~Has(m, "username") \/ ~Has(m, "integrity")        THEN Refused(400, FALSE)
  ELSE IF ~UsernameValid(agent, ValueOf(m, "username")) THEN Refused(401, FALSE)
  ELSE IF ~IntegrityHolds(m, agent.pwd)                 THEN Refused(401, FALSE)
  ELSE IF UnknownIn(m) # <<>>                           THEN Refused(420, TRUE)
  ELSE IF IceRole(m) = "controlled"                     THEN Refused(487, TRUE)
  ELSE IF IceRole(m) = "none"                           THEN Refused(400, TRUE)
  ELSE Refused(0, TRUE)

Reply(agent, m, from) ==
  LET v == Verdict(agent, m)
  IN  IF v.code = 0 THEN Success(agent, m, from)
      ELSE Failure(agent, m, v.code, IF v.code = 420 THEN UnknownIn(m) ELSE <<>>, v.signed)

\* on_binding_request: USE-CANDIDATE selects the address, reported once.
OnRequest(agent, m, from, now) ==
  LET chosen  == Has(m, "use-candidate") /\ agent.selected # from
      touched == Touch(agent, from, now)
  IN  IF Verdict(agent, m).code # 0 THEN Result(agent, TRUE, NoAddr)
      ELSE IF chosen THEN Result([touched EXCEPT !.selected = from], TRUE, from)
      ELSE Result(touched, TRUE, NoAddr)

\* Fault: an indication is as good as a check.
OnIndicationFromAnyone(agent, from, now) == Touch(agent, from, now)

\* on_binding_indication: carries no credentials, so it only refreshes.
OnIndication(agent, from, now) ==
  IF from \in DOMAIN agent.pairs \/ agent.selected = from THEN Touch(agent, from, now) ELSE agent

\* handle_datagram, of a message as Parse read it.  Messages are Binding ones: the
\* others end where responses do.
HandleStun(agent, m, from, now) ==
  IF m.none \/ ~FingerprintValid(m) THEN Result(agent, FALSE, NoAddr)
  ELSE CASE m.class = "request"    -> OnRequest(agent, m, from, now)
         [] m.class = "indication" -> Result(OnIndication(agent, from, now), FALSE, NoAddr)
         [] OTHER                  -> Result(agent, FALSE, NoAddr)

\* handle_timeout: silent pairs go, the selected one stays.
Expire(agent, now) ==
  LET kept == {a \in DOMAIN agent.pairs : a = agent.selected \/ now - agent.pairs[a] <= PairTtl}
  IN  [agent EXCEPT !.pairs = [a \in kept |-> agent.pairs[a]]]
=============================================================================
