------------------------------ MODULE LegSetup ------------------------------
(***************************************************************************)
(* Transport legs from the first offer to the last close (wroomd/src/      *)
(* media.rs Shard: on_pub_offer, offer_subscriber, on_sub_answer,          *)
(* on_datagram, apply_events, on_tick, drop_transport): one UDP socket,    *)
(* three routing tables, and the transports the tables lead to.            *)
(*                                                                         *)
(* Browsers are honest.  Their datagrams may be lost, delayed, repeated    *)
(* and overtaken: a browser may send now whatever it could send at any     *)
(* time before.                                                            *)
(***************************************************************************)
EXTENDS PeerTransport, Functions

CONSTANTS
  PubLegs, SubLegs,     (* transport keys, one participant behind each     *)
  Addrs,                (* addresses datagrams come from                   *)
  PathChoices,          (* leg -> addresses its browser is seen at         *)
  MaxGen,               (* bound: transports ever created                  *)
  MaxUfrag              (* bound: ICE sessions of one browser              *)

Legs == PubLegs \cup SubLegs
Nowhere == "nowhere"

\* NoAddr and Nowhere stand for None.
ASSUME LegSetupAssumption ==
  /\ PubLegs \cap SubLegs = {} /\ IsFiniteSet(Legs) /\ Nowhere \notin Legs
  /\ NoAddr \notin Addrs
  /\ PathChoices \subseteq [Legs -> SUBSET Addrs]
  /\ MaxGen \in Nat /\ MaxUfrag \in Nat \ {0}

VARIABLES
  transports,   (* key -> PeerTransport                                    *)
  byUfrag,      (* local ufrag -> key                                      *)
  byAddr,       (* remote address -> key                                   *)
  nextGen,
  members,      (* keys whose participant is in the room                   *)
  mail,         (* key -> ufrag of the description on its way, or NoUfrag  *)
  browser,      (* key -> [ufrag, creds, flight, paths]                    *)
  \* History, read by the properties only.
  vouched,      (* key -> <<ufrag, address>> its browser checked it with   *)
  outlived      (* addresses a leg was nominated at and moved away from    *)

tables  == <<transports, byUfrag, byAddr>>
history == <<vouched, outlived>>
vars == <<tables, nextGen, members, mail, browser, history>>

NewBrowser(paths) == [ufrag |-> 1, creds |-> {}, flight |-> NoKeys, paths |-> paths]

Init ==
  /\ transports = [k \in {} |-> NewTransport(0, NoUfrag, NoCert)]
  /\ byUfrag = [g \in {} |-> Nowhere]
  /\ byAddr = [a \in {} |-> Nowhere]
  /\ nextGen = 1
  /\ \E paths \in PathChoices :
       /\ browser = [k \in Legs |-> NewBrowser(paths[k])]
       /\ members = {k \in Legs : paths[k] # {}}
  /\ mail = [k \in Legs |-> IF k \in PubLegs \cap members THEN 1 ELSE NoUfrag]
  /\ vouched = [k \in Legs |-> {}]
  /\ outlived = {}

Up(k) == k \in DOMAIN transports
With(f, x, y) == [z \in DOMAIN f \cup {x} |-> IF z = x THEN y ELSE f[z]]
Without(f, x) == Restrict(f, DOMAIN f \ {x})

-----------------------------------------------------------------------------
(* Tables *)

\* Fault: the address goes on leading to the key.
DropKeepsAddress(k) ==
  /\ transports' = Without(transports, k)
  /\ byUfrag' = Without(byUfrag, transports[k].gen)
  /\ UNCHANGED byAddr

\* drop_transport, of a leg that is up.
Drop(k) ==
  /\ transports' = Without(transports, k)
  /\ byUfrag' = Without(byUfrag, transports[k].gen)
  /\ byAddr' = Without(byAddr, transports[k].nominated)

\* A fresh transport, and the browser's learning its credentials.
Create(k, ufrag, cert) ==
  /\ nextGen <= MaxGen
  /\ transports' = With(transports, k, NewTransport(nextGen, ufrag, cert))
  /\ byUfrag' = With(byUfrag, nextGen, k)
  /\ nextGen' = nextGen + 1
  /\ vouched' = [vouched EXCEPT ![k] = {}]
  /\ UNCHANGED <<byAddr, outlived>>

\* The address t was nominated at, given up for that of u.
Outlived(t, u) ==
  outlived' = IF t.nominated \in {NoAddr, u.nominated} THEN outlived
              ELSE outlived \cup {t.nominated}

-----------------------------------------------------------------------------
(* Descriptions *)

\* on_pub_offer: a leg that is up is used again.
OnPubOffer(k) ==
  /\ k \in PubLegs /\ mail[k] # NoUfrag
  /\ mail' = [mail EXCEPT ![k] = NoUfrag]
  /\ IF Up(k)
     THEN LET t == SetExpected(SetRemoteUfrag(transports[k], mail[k]), k)
          IN  /\ transports' = [transports EXCEPT ![k] = t]
              /\ browser' = [browser EXCEPT ![k].creds = @ \cup {<<t.gen, mail[k]>>}]
              /\ Outlived(transports[k], t)
              /\ UNCHANGED <<byUfrag, byAddr, nextGen, vouched>>
     ELSE /\ Create(k, mail[k], k)
          /\ browser' = [browser EXCEPT ![k].creds = @ \cup {<<nextGen, mail[k]>>}]
  /\ UNCHANGED members

\* offer_subscriber, and the browser's answer: to new credentials with a new
\* ufrag, when it has one left.
OfferSubscriber(k) ==
  /\ k \in SubLegs \cap members /\ mail[k] = NoUfrag
  /\ IF Up(k)
     THEN /\ transports[k].ice.remote = NoUfrag
          /\ mail' = [mail EXCEPT ![k] = browser[k].ufrag]
          /\ UNCHANGED <<tables, nextGen, browser, history>>
     ELSE LET ufrag == IF browser[k].creds = {} THEN 1 ELSE browser[k].ufrag + 1
          IN  /\ ufrag <= MaxUfrag
              /\ Create(k, NoUfrag, NoCert)
              /\ mail' = [mail EXCEPT ![k] = ufrag]
              /\ browser' = [browser EXCEPT ![k].ufrag = ufrag,
                                            ![k].creds = @ \cup {<<nextGen, ufrag>>}]
  /\ UNCHANGED members

\* on_sub_answer.
OnSubAnswer(k) ==
  /\ k \in SubLegs /\ mail[k] # NoUfrag
  /\ mail' = [mail EXCEPT ![k] = NoUfrag]
  /\ IF Up(k)
     THEN LET t == SetExpected(SetRemoteUfrag(transports[k], mail[k]), k)
          IN  transports' = [transports EXCEPT ![k] = t] /\ Outlived(transports[k], t)
     ELSE UNCHANGED <<transports, outlived>>
  /\ UNCHANGED <<byUfrag, byAddr, nextGen, members, browser, vouched>>

\* The browser offers again once its last offer is answered, as it is or with
\* an ICE restart.
Reoffer(k, restart) ==
  /\ k \in PubLegs \cap members /\ mail[k] = NoUfrag
  /\ restart => browser[k].ufrag < MaxUfrag
  /\ browser' = [browser EXCEPT ![k].ufrag = IF restart THEN @ + 1 ELSE @]
  /\ mail' = [mail EXCEPT ![k] = browser'[k].ufrag]
  /\ UNCHANGED <<tables, nextGen, members, history>>

\* on_control MemberGone, with the end of the browser.
MemberGone(k) ==
  /\ k \in members
  /\ members' = members \ {k}
  /\ mail' = [mail EXCEPT ![k] = NoUfrag]
  /\ browser' = [browser EXCEPT ![k] = NewBrowser({})]
  /\ vouched' = [vouched EXCEPT ![k] = {}]
  /\ IF Up(k) THEN Drop(k) ELSE UNCHANGED tables
  /\ UNCHANGED <<nextGen, outlived>>

-----------------------------------------------------------------------------
(* Datagrams *)

\* on_datagram: by address, before it is nominated by USERNAME.
RouteOf(from, ufrag) ==
  IF from \in DOMAIN byAddr THEN byAddr[from]
  ELSE IF ufrag \in DOMAIN byUfrag THEN byUfrag[ufrag] ELSE Nowhere

\* apply_events: nominations enter the table, an end drops the leg.
Apply(k, step) ==
  LET ends == \E i \in DOMAIN step.events : step.events[i].e \in {"Failed", "Closed"}
      at   == step.t.nominated
      new  == \E i \in DOMAIN step.events : step.events[i] = NominatedAt(at)
  IN  IF ends THEN Drop(k)
      ELSE /\ transports' = [transports EXCEPT ![k] = step.t]
           /\ byAddr' = IF new THEN With(byAddr, at, k) ELSE byAddr
           /\ UNCHANGED byUfrag

Request(gen, ufrag, nominating) ==
  LET name == Attr("username", 17, [local |-> gen, remote |-> ufrag])
  IN  Message("request", 1,
              <<name, Attr("controlling", 8, Nil)>>
                \o (IF nominating THEN <<Attr("use-candidate", 0, Nil)>> ELSE <<>>), gen, 1200)
Requests ==
  [gen \in 1 .. MaxGen |-> [ufrag \in 1 .. MaxUfrag |-> [nominating \in BOOLEAN |->
    Parse(Request(gen, ufrag, nominating))]]]
Indication == Parse(Message("indication", 1, <<>>, NoKey, 1200))

\* A connectivity check of browser b, with credentials it had once.
Check(b, from, cred, nominating) ==
  \E k \in {RouteOf(from, cred[1])} \cap DOMAIN transports :
  \E step \in {OnStun(transports[k], Requests[cred[1]][cred[2]][nominating], from, 0)} :
    /\ Apply(k, step)
    /\ vouched' = IF cred[1] = transports[k].gen /\ k = b
                  THEN [vouched EXCEPT ![k] = @ \cup {<<cred[2], from>>}] ELSE vouched
    /\ Outlived(transports[k], step.t)
    /\ UNCHANGED <<nextGen, members, mail, browser>>

\* A keepalive, from an address its browser was ever seen at.
Keepalive(from) ==
  \E k \in {RouteOf(from, NoUfrag)} \cap DOMAIN transports :
    /\ Apply(k, OnStun(transports[k], Indication, from, 0))
    /\ UNCHANGED <<nextGen, members, mail, browser, history>>

\* Flights of k's endpoint that are not lost reach the browser they were for.
Flight(k, step, lost) ==
  IF ~lost /\ \E i \in DOMAIN step.events : step.events[i].e = "Send" /\ step.events[i].to \in browser[k].paths
  THEN browser' = [browser EXCEPT ![k].flight = step.t.gen]
  ELSE UNCHANGED browser

\* A DTLS record of browser b: what is not of this handshake is discarded.
Record(b, from, record, lost) ==
  /\ browser[b].creds # {}
  /\ record # "hello" => browser[b].flight # NoKeys
  /\ \E k \in {RouteOf(from, NoUfrag)} \cap DOMAIN transports :
       LET mine == k = b /\ (record = "hello" \/ browser[b].flight = transports[k].gen)
       IN  \E step \in {OnDtls(transports[k], IF mine THEN record ELSE "stray", b)} :
             Apply(k, step) /\ Flight(k, step, lost)
  /\ UNCHANGED <<nextGen, members, mail, history>>

-----------------------------------------------------------------------------
(* Timers *)

\* on_tick: the timers of every leg; the handshakes of late are given up.  Every
\* pair was used at 0, and is silent for that long.
Tick(due, late, silent, lost) ==
  LET step == [k \in DOMAIN transports |-> OnTimer(transports[k], silent, due, k \in late)]
      sent == {k \in DOMAIN step : \E i \in DOMAIN step[k].events : step[k].events[i].e = "Send"}
  IN  /\ late \subseteq {k \in DOMAIN transports : due /\ transports[k].dtls.state = "hello"}
      /\ transports' = [k \in DOMAIN transports |-> step[k].t]
      /\ browser' = [k \in Legs |-> IF ~lost /\ k \in sent
                                    THEN [browser[k] EXCEPT !.flight = transports[k].gen]
                                    ELSE browser[k]]
      /\ UNCHANGED <<byUfrag, byAddr, nextGen, members, mail, history>>

-----------------------------------------------------------------------------
\* What a browser is bound to repeat until it has its effect: checks with its
\* last credentials, and the flights of the handshake.
FreshCheck(k) ==
  /\ Up(k) /\ transports[k].nominated = NoAddr
  /\ \E from \in browser[k].paths, cred \in browser[k].creds :
       cred[2] = browser[k].ufrag /\ Check(k, from, cred, TRUE)

Handshake(k) ==
  /\ Up(k) /\ transports[k].nominated # NoAddr
  /\ ~transports[k].connected /\ ~transports[k].dtls.failed
  /\ \E from \in browser[k].paths, record \in {"hello", "finish"} : Record(k, from, record, FALSE)

Next ==
  \/ \E k \in Legs : \/ OnPubOffer(k) \/ OfferSubscriber(k) \/ OnSubAnswer(k)
                     \/ MemberGone(k)
                     \/ \E restart \in BOOLEAN : Reoffer(k, restart)
  \/ \E k \in Legs : \E from \in browser[k].paths, cred \in browser[k].creds, nominating \in BOOLEAN :
       Check(k, from, cred, nominating)
  \/ \E from \in Addrs : Keepalive(from)
  \/ \E k \in Legs : \E from \in browser[k].paths, lost \in BOOLEAN,
                        record \in {"hello", "finish", "close"} :
       Record(k, from, record, lost)
  \/ \E due, lost \in BOOLEAN, late \in SUBSET Legs, silent \in {0, PairTtl + 1} :
       Tick(due, late, silent, lost)

\* Descriptions are handled, a browser repeats checks and flights until they
\* are answered, and a network that loses some does not lose all of them.
Fairness ==
  \A k \in Legs :
    /\ WF_vars(OnPubOffer(k) \/ OnSubAnswer(k))
    /\ SF_vars(FreshCheck(k))
    /\ SF_vars(Handshake(k))

Spec == Init /\ [][Next]_vars /\ Fairness

-----------------------------------------------------------------------------
(* Properties *)

\* The routing tables hold what is up and no more: every ufrag of a leg that is
\* up leads to it and no other ufrag leads anywhere, a nominated address leads
\* to the leg that sends to it, and an address that leads to a leg is the one
\* it sends to.  Excepted are addresses a leg moved away from or lost with an
\* ICE restart: their entries stay, and outlive the leg.  on_datagram asks
\* by_addr first, so a wrong entry swallows another browser's checks for good.
RoutesAreExact ==
  /\ \A k \in DOMAIN transports :
       LET t == transports[k]
       IN  /\ t.gen \in DOMAIN byUfrag /\ byUfrag[t.gen] = k
           /\ t.nominated # NoAddr => t.nominated \in DOMAIN byAddr /\ byAddr[t.nominated] = k
  /\ Cardinality(DOMAIN byUfrag) = Cardinality(DOMAIN transports)
  /\ \A a \in DOMAIN byAddr \ outlived : Up(byAddr[a]) /\ transports[byAddr[a]].nominated = a

\* Media goes only where this ICE session's checks came from: the nominated
\* address is one the browser checked with the ufrag its last description
\* gave, however late the checks of an earlier session arrive.
NominationIsCurrent ==
  \A k \in DOMAIN transports :
    LET t == transports[k]
    IN  t.nominated # NoAddr /\ t.ice.remote # NoUfrag =>
          <<t.ice.remote, t.nominated>> \in vouched[k]

\* Consent: every address the agent holds a pair for sent it a signed check,
\* and keepalives alone, which nobody signs, never make a pair.
PairsAreVouched ==
  \A k \in DOMAIN transports : \A a \in DOMAIN transports[k].ice.pairs :
    \E u \in 1 .. MaxUfrag : <<u, a>> \in vouched[k]

Sends(k) == transports[k].connected /\ CanSend(transports[k])

\* All of a browser's addresses lead to another's leg.
Blocked(k) == browser[k].paths \subseteq {a \in DOMAIN byAddr : byAddr[a] # k}

\* A leg that is up comes to carry media, over re-offers, ICE restarts and
\* lost flights, unless it ends, its handshake failed or every address of its
\* browser leads elsewhere.
SetupCompletes ==
  \A k \in Legs : Up(k) ~> (Up(k) => Sends(k) \/ transports[k].dtls.failed \/ Blocked(k))
=============================================================================
