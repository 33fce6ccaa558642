--------------------------- MODULE LegSetupProofs ---------------------------
(***************************************************************************)
(* The legs of a shard, for every number of legs, addresses, paths, ICE    *)
(* restarts and transports: its routing tables hold what is up and no      *)
(* more, media is sent only to an address the browser checked in the       *)
(* current ICE session, and no pair is made without a check.               *)
(*                                                                         *)
(* The inductive invariant is LegsInv.  It ties the tables to the legs     *)
(* (TablesOK), every leg to the checks it accepted (Sane), and the         *)
(* credentials of the browsers to the generations they are for (Owned),    *)
(* for a check counts as its browser's only if no other browser was ever   *)
(* given the ufrag it names.                                               *)
(***************************************************************************)
EXTENDS LegSetup, FiniteSetTheorems, TLAPS

Ufrags == 1 .. MaxUfrag
AgentType ==
  [ufrag: Nat, pwd: Nat, remote: 0 .. MaxUfrag, selected: Addrs \cup {NoAddr},
   pairs: UNION {[S -> Nat] : S \in SUBSET Addrs}]
DtlsType ==
  [state: {"idle", "hello", "done", "closed"}, failed: BOOLEAN, reported: BOOLEAN,
   connected: BOOLEAN, cert: Legs \cup {NoCert}]
TransportType ==
  [gen: 1 .. MaxGen, ice: AgentType, dtls: DtlsType, keys: Nat, nominated: Addrs \cup {NoAddr},
   expected: Legs \cup {NoCert}, connected: BOOLEAN, armed: BOOLEAN]
BrowserType ==
  [ufrag: Ufrags, creds: SUBSET ((1 .. MaxGen) \X Ufrags), flight: Nat, paths: SUBSET Addrs]

LegsTypeOK ==
  /\ nextGen \in 1 .. MaxGen + 1
  /\ mail \in [Legs -> 0 .. MaxUfrag]
  /\ browser \in [Legs -> BrowserType]
  /\ vouched \in [Legs -> SUBSET (Ufrags \X Addrs)]

\* The three tables, of transports tr with addresses out excepted.
TablesOK(tr, gens, addrs, out) ==
  /\ tr = [k \in DOMAIN tr |-> tr[k]] /\ DOMAIN tr \subseteq Legs
  /\ \A k \in DOMAIN tr : tr[k] \in TransportType
  /\ gens = [g \in DOMAIN gens |-> gens[g]]
  /\ \A k \in DOMAIN tr : tr[k].gen \in DOMAIN gens /\ gens[tr[k].gen] = k
  /\ \A g \in DOMAIN gens : gens[g] \in DOMAIN tr /\ tr[gens[g]].gen = g
  /\ addrs = [a \in DOMAIN addrs |-> addrs[a]] /\ DOMAIN addrs \subseteq Addrs
  /\ \A k \in DOMAIN tr :
       tr[k].nominated # NoAddr => tr[k].nominated \in DOMAIN addrs /\ addrs[tr[k].nominated] = k
  /\ \A a \in DOMAIN addrs \ out : addrs[a] \in DOMAIN tr /\ tr[addrs[a]].nominated = a

\* Address a sent a check of this leg, v being the checks it accepted.
Vouches(v, a) == \E u \in Ufrags : <<u, a>> \in v

\* Until a subscriber's first answer has come, everything its browser sends of
\* this generation is of one ICE session, and so is the answer.
Awaiting(t, v, b, m) ==
  /\ \A c \in b.creds : c[1] = t.gen => c[2] = b.ufrag
  /\ m \in {NoUfrag, b.ufrag}
  /\ t.nominated # NoAddr => <<b.ufrag, t.nominated>> \in v

\* Leg k: its transport, the checks it accepted, its browser and its mail.
Sane(k, t, v, b, m) ==
  /\ t.ice.ufrag = t.gen
  /\ t.nominated # NoAddr /\ t.ice.remote # NoUfrag => <<t.ice.remote, t.nominated>> \in v
  /\ \A a \in DOMAIN t.ice.pairs : Vouches(v, a)
  /\ t.ice.selected # NoAddr => Vouches(v, t.ice.selected)
  /\ t.ice.remote = NoUfrag => k \in SubLegs /\ Awaiting(t, v, b, m)

\* Credentials are of transports that were created, and of a transport that is
\* up only its own browser has any.
Owned(tr, next, b) ==
  /\ \A k \in DOMAIN tr : tr[k].gen < next
  /\ \A k \in Legs : \A c \in b[k].creds :
       c[1] < next /\ \A j \in DOMAIN tr : tr[j].gen = c[1] => j = k

LegsInv ==
  /\ LegsTypeOK
  /\ TablesOK(transports, byUfrag, byAddr, outlived)
  /\ Owned(transports, nextGen, browser)
  /\ \A k \in DOMAIN transports : Sane(k, transports[k], vouched[k], browser[k], mail[k])

-----------------------------------------------------------------------------
(* The routing tables *)

\* A step that changes transports, but neither a generation nor a nomination.
LEMMA TablesSame ==
  ASSUME NEW tr, NEW gens, NEW addrs, NEW out, TablesOK(tr, gens, addrs, out),
         NEW after, after = [k \in DOMAIN tr |-> after[k]],
         \A k \in DOMAIN tr : /\ after[k] \in TransportType
                              /\ after[k].gen = tr[k].gen /\ after[k].nominated = tr[k].nominated
  PROVE  TablesOK(after, gens, addrs, out)
<1>1. DOMAIN after = DOMAIN tr
  OBVIOUS
<1> QED
  BY <1>1 DEF TablesOK

\* A nomination of an address that leads to the leg or nowhere.
LEMMA TablesNominated ==
  ASSUME NEW tr, NEW gens, NEW addrs, NEW out, TablesOK(tr, gens, addrs, out),
         NEW k \in DOMAIN tr, NEW at \in Addrs, at \in DOMAIN addrs => addrs[at] = k,
         NEW t \in TransportType, t.gen = tr[k].gen, t.nominated = at,
         NEW left, left = IF tr[k].nominated \in {NoAddr, at} THEN out
                          ELSE out \cup {tr[k].nominated},
         NEW after, after = [tr EXCEPT ![k] = t],
         NEW routes, routes = With(addrs, at, k)
  PROVE  TablesOK(after, gens, routes, left)
<1>1. DOMAIN after = DOMAIN tr /\ after = [j \in DOMAIN after |-> after[j]]
  BY DEF TablesOK
<1>2. \A j \in DOMAIN tr : after[j] = IF j = k THEN t ELSE tr[j]
  BY DEF TablesOK
<1>3. /\ DOMAIN routes = DOMAIN addrs \cup {at} /\ routes = [a \in DOMAIN routes |-> routes[a]]
      /\ \A a \in DOMAIN routes : routes[a] = IF a = at THEN k ELSE addrs[a]
  BY DEF With
<1>4. NoAddr # at
  BY LegSetupAssumption
<1>5. ASSUME NEW j \in DOMAIN tr, after[j].nominated # NoAddr
      PROVE  after[j].nominated \in DOMAIN routes /\ routes[after[j].nominated] = j
  BY <1>2, <1>3, <1>5 DEF TablesOK
<1>6. ASSUME NEW a \in DOMAIN routes \ left
      PROVE  routes[a] \in DOMAIN after /\ after[routes[a]].nominated = a
  <2>1. CASE a = at
    BY <2>1, <1>1, <1>2, <1>3
  <2>2. CASE a # at
    <3>1. a \in DOMAIN addrs \ out /\ routes[a] = addrs[a]
      BY <2>2, <1>3
    <3>2. addrs[a] \in DOMAIN tr /\ tr[addrs[a]].nominated = a /\ a \in Addrs
      BY <3>1 DEF TablesOK
    <3>3. addrs[a] # k
      BY <3>2, <2>2, LegSetupAssumption
    <3> QED
      BY <3>1, <3>2, <3>3, <1>1, <1>2
  <2> QED
    BY <2>1, <2>2
<1>7. /\ DOMAIN routes \subseteq Addrs /\ DOMAIN after \subseteq Legs
      /\ \A j \in DOMAIN after : after[j] \in TransportType /\ after[j].gen = tr[j].gen
  BY <1>1, <1>2, <1>3 DEF TablesOK
<1> QED
  BY <1>1, <1>3, <1>5, <1>6, <1>7 DEF TablesOK

\* An ICE restart ends the nomination: the entry of its address stays.
LEMMA TablesForgotten ==
  ASSUME NEW tr, NEW gens, NEW addrs, NEW out, TablesOK(tr, gens, addrs, out),
         NEW k \in DOMAIN tr,
         NEW t \in TransportType, t.gen = tr[k].gen, t.nominated = NoAddr,
         NEW left, left = IF tr[k].nominated \in {NoAddr, t.nominated} THEN out
                          ELSE out \cup {tr[k].nominated},
         NEW after, after = [tr EXCEPT ![k] = t]
  PROVE  TablesOK(after, gens, addrs, left)
<1>1. DOMAIN after = DOMAIN tr /\ after = [j \in DOMAIN after |-> after[j]]
  BY DEF TablesOK
<1>2. \A j \in DOMAIN tr : after[j] = IF j = k THEN t ELSE tr[j]
  BY DEF TablesOK
<1>3. ASSUME NEW a \in DOMAIN addrs \ left
      PROVE  addrs[a] \in DOMAIN after /\ after[addrs[a]].nominated = a
  <2>1. addrs[a] \in DOMAIN tr /\ tr[addrs[a]].nominated = a /\ a \in Addrs
    BY DEF TablesOK
  <2>2. addrs[a] # k
    BY <2>1, LegSetupAssumption
  <2> QED
    BY <2>1, <2>2, <1>1, <1>2
<1>4. \A j \in DOMAIN after : after[j] \in TransportType /\ after[j].gen = tr[j].gen
  BY <1>1, <1>2 DEF TablesOK
<1>5. ASSUME NEW j \in DOMAIN after, after[j].nominated # NoAddr
      PROVE  after[j].nominated \in DOMAIN addrs /\ addrs[after[j].nominated] = j
  BY <1>1, <1>2, <1>5 DEF TablesOK
<1> QED
  BY <1>1, <1>3, <1>4, <1>5 DEF TablesOK

\* A leg goes.
LEMMA TablesDropped ==
  ASSUME NEW tr, NEW gens, NEW addrs, NEW out, TablesOK(tr, gens, addrs, out),
         NEW k \in DOMAIN tr, NEW left, out \subseteq left
  PROVE  TablesOK(Without(tr, k), Without(gens, tr[k].gen), Without(addrs, tr[k].nominated), left)
<1> DEFINE after == Without(tr, k)
           ufrags == Without(gens, tr[k].gen)
           routes == Without(addrs, tr[k].nominated)
<1>1. /\ DOMAIN after = DOMAIN tr \ {k} /\ after = [j \in DOMAIN after |-> after[j]]
      /\ \A j \in DOMAIN after : after[j] = tr[j]
  BY DEF Without, Restrict
<1>2. /\ DOMAIN ufrags = DOMAIN gens \ {tr[k].gen} /\ ufrags = [g \in DOMAIN ufrags |-> ufrags[g]]
      /\ \A g \in DOMAIN ufrags : ufrags[g] = gens[g]
  BY DEF Without, Restrict
<1>3. /\ DOMAIN routes = DOMAIN addrs \ {tr[k].nominated} /\ routes = [a \in DOMAIN routes |-> routes[a]]
      /\ \A a \in DOMAIN routes : routes[a] = addrs[a]
  BY DEF Without, Restrict
<1> HIDE DEF after, ufrags, routes
<1>4. \A j \in DOMAIN after : /\ after[j] \in TransportType
                              /\ after[j].gen \in DOMAIN ufrags /\ ufrags[after[j].gen] = j
  BY <1>1, <1>2 DEF TablesOK
<1>5. \A g \in DOMAIN ufrags : ufrags[g] \in DOMAIN after /\ after[ufrags[g]].gen = g
  BY <1>1, <1>2 DEF TablesOK
<1>6. ASSUME NEW j \in DOMAIN after, after[j].nominated # NoAddr
      PROVE  after[j].nominated \in DOMAIN routes /\ routes[after[j].nominated] = j
  BY <1>1, <1>3, <1>6 DEF TablesOK
<1>7. ASSUME NEW a \in DOMAIN routes \ left
      PROVE  routes[a] \in DOMAIN after /\ after[routes[a]].nominated = a
  BY <1>1, <1>3 DEF TablesOK
<1>8. TablesOK(after, ufrags, routes, left)
  <2>1. DOMAIN after \subseteq Legs /\ DOMAIN routes \subseteq Addrs
    BY <1>1, <1>3 DEF TablesOK
  <2> QED
    BY <2>1, <1>1, <1>2, <1>3, <1>4, <1>5, <1>6, <1>7 DEF TablesOK
<1> QED
  BY <1>8 DEF after, ufrags, routes

\* A leg is created.
LEMMA TablesCreated ==
  ASSUME NEW tr, NEW gens, NEW addrs, NEW out, TablesOK(tr, gens, addrs, out),
         NEW k \in Legs, k \notin DOMAIN tr, NEW gen, \A j \in DOMAIN tr : tr[j].gen < gen,
         gen \in 1 .. MaxGen, NEW t \in TransportType, t.gen = gen, t.nominated = NoAddr
  PROVE  TablesOK(With(tr, k, t), With(gens, gen, k), addrs, out)
<1> DEFINE after == With(tr, k, t)
           ufrags == With(gens, gen, k)
<1>1. /\ DOMAIN after = DOMAIN tr \cup {k} /\ after = [j \in DOMAIN after |-> after[j]]
      /\ \A j \in DOMAIN after : after[j] = IF j = k THEN t ELSE tr[j]
  BY DEF With
<1>2. /\ DOMAIN ufrags = DOMAIN gens \cup {gen} /\ ufrags = [g \in DOMAIN ufrags |-> ufrags[g]]
      /\ \A g \in DOMAIN ufrags : ufrags[g] = IF g = gen THEN k ELSE gens[g]
  BY DEF With
<1> HIDE DEF after, ufrags
<1>3. gen \notin DOMAIN gens /\ gen \in Int
  BY LegSetupAssumption DEF TablesOK
<1>4. \A j \in DOMAIN after : /\ after[j] \in TransportType
                              /\ after[j].gen \in DOMAIN ufrags /\ ufrags[after[j].gen] = j
  BY <1>1, <1>2, <1>3 DEF TablesOK
<1>5. \A g \in DOMAIN ufrags : ufrags[g] \in DOMAIN after /\ after[ufrags[g]].gen = g
  BY <1>1, <1>2, <1>3 DEF TablesOK
<1>6. ASSUME NEW j \in DOMAIN after, after[j].nominated # NoAddr
      PROVE  after[j].nominated \in DOMAIN addrs /\ addrs[after[j].nominated] = j
  BY <1>1, <1>6 DEF TablesOK
<1>7. ASSUME NEW a \in DOMAIN addrs \ out
      PROVE  addrs[a] \in DOMAIN after /\ after[addrs[a]].nominated = a
  BY <1>1 DEF TablesOK
<1>8. TablesOK(after, ufrags, addrs, out)
  <2>1. DOMAIN after \subseteq Legs /\ DOMAIN addrs \subseteq Addrs
    BY <1>1 DEF TablesOK
  <2> QED
    BY <2>1, <1>1, <1>2, <1>4, <1>5, <1>6, <1>7 DEF TablesOK
<1> QED
  BY <1>8 DEF after, ufrags

\* The tables lead to what is up and to nothing else.
LEMMA ExactRoutes ==
  ASSUME TablesOK(transports, byUfrag, byAddr, outlived)
  PROVE  RoutesAreExact
<1> DEFINE f == [k \in DOMAIN transports |-> transports[k].gen]
<1>1. f \in Bijection(DOMAIN transports, DOMAIN byUfrag)
  <2>1. f \in [DOMAIN transports -> DOMAIN byUfrag]
    BY DEF TablesOK
  <2>2. \A j, k \in DOMAIN transports : f[j] = f[k] => j = k
    BY DEF TablesOK
  <2>3. \A g \in DOMAIN byUfrag : \E k \in DOMAIN transports : f[k] = g
    BY DEF TablesOK
  <2> HIDE DEF f
  <2> QED
    BY <2>1, <2>2, <2>3 DEF Bijection, Injection, Surjection, IsInjective
<1>2. IsFiniteSet(DOMAIN transports)
  BY LegSetupAssumption, FS_Subset DEF TablesOK
<1>3. Cardinality(DOMAIN byUfrag) = Cardinality(DOMAIN transports)
  BY <1>1, <1>2, FS_Bijection DEF ExistsBijection
<1> QED
  BY <1>3 DEF TablesOK, RoutesAreExact, Up

-----------------------------------------------------------------------------
(* The ICE agent *)

\* What an agent is after it is touched from an address.
LEMMA TouchIs ==
  ASSUME NEW agent \in AgentType, NEW from \in Addrs
  PROVE  LET touched == Touch(agent, from, 0)
         IN  /\ touched \in AgentType
             /\ touched.ufrag = agent.ufrag /\ touched.remote = agent.remote
             /\ touched.selected = agent.selected
             /\ DOMAIN touched.pairs \subseteq DOMAIN agent.pairs \cup {from}
<1> DEFINE seen  == agent.pairs
           full  == from \notin DOMAIN seen /\ Cardinality(DOMAIN seen) >= MaxPairs
           stale == {a \in DOMAIN seen : \A b \in DOMAIN seen : seen[a] <= seen[b]}
           kept  == IF full THEN DOMAIN seen \ {CHOOSE a \in stale : TRUE} ELSE DOMAIN seen
           pairs == [a \in kept \cup {from} |-> IF a = from THEN 0 ELSE seen[a]]
<1>1. PICK S \in SUBSET Addrs : seen \in [S -> Nat]
  BY DEF AgentType
<1>2. kept \subseteq DOMAIN seen /\ DOMAIN seen = S
  BY <1>1
<1>3. Touch(agent, from, 0) = [agent EXCEPT !.pairs = pairs]
  BY DEF Touch
<1> HIDE DEF kept
<1>4. pairs \in [kept \cup {from} -> Nat]
  BY <1>1, <1>2
<1>5. pairs \in UNION {[T -> Nat] : T \in SUBSET Addrs} /\ DOMAIN pairs = kept \cup {from}
  BY <1>4, <1>2
<1> HIDE DEF pairs
<1> QED
  BY <1>2, <1>3, <1>5 DEF AgentType

LEMMA ExpireIs ==
  ASSUME NEW agent \in AgentType, NEW now
  PROVE  LET aged == Expire(agent, now)
         IN  /\ aged \in AgentType
             /\ aged.ufrag = agent.ufrag /\ aged.remote = agent.remote
             /\ aged.selected = agent.selected
             /\ DOMAIN aged.pairs \subseteq DOMAIN agent.pairs
<1> DEFINE kept == {a \in DOMAIN agent.pairs : a = agent.selected \/ now - agent.pairs[a] <= PairTtl}
           pairs == [a \in kept |-> agent.pairs[a]]
<1>1. PICK S \in SUBSET Addrs : agent.pairs \in [S -> Nat]
  BY DEF AgentType
<1>2. kept \subseteq DOMAIN agent.pairs /\ DOMAIN agent.pairs = S
  BY <1>1
<1>3. Expire(agent, now) = [agent EXCEPT !.pairs = pairs]
  BY DEF Expire
<1> HIDE DEF kept
<1>4. pairs \in [kept -> Nat]
  BY <1>1, <1>2
<1>5. pairs \in UNION {[T -> Nat] : T \in SUBSET Addrs} /\ DOMAIN pairs = kept
  BY <1>4, <1>2
<1> HIDE DEF pairs
<1> QED
  BY <1>2, <1>3, <1>5 DEF AgentType

LEMMA SetRemoteIs ==
  ASSUME NEW agent \in AgentType, NEW ufrag \in 0 .. MaxUfrag
  PROVE  LET set == SetRemote(agent, ufrag)
         IN  /\ set \in AgentType
             /\ set.ufrag = agent.ufrag /\ set.remote = ufrag
             /\ \/ set = agent
                \/ set.selected = NoAddr /\ DOMAIN set.pairs = {}
<1> DEFINE none == [a \in {} |-> 0]
<1>1. none \in UNION {[T -> Nat] : T \in SUBSET Addrs} /\ DOMAIN none = {}
  BY {} \in SUBSET Addrs
<1>2. SetRemote(agent, ufrag) =
        IF agent.remote = ufrag THEN agent
        ELSE [agent EXCEPT !.remote = ufrag, !.selected = NoAddr, !.pairs = none]
  BY DEF SetRemote
<1> HIDE DEF none
<1> QED
  BY <1>1, <1>2 DEF AgentType

-----------------------------------------------------------------------------
(* Checks *)

Short(attr) == attr.len \in 0 .. 20
Nameless(attr) == attr.type # "username"

\* Attributes of a check fit its buffer.
LEMMA SmallSizes ==
  ASSUME NEW attrs, Len(attrs) \in 0 .. 5, \A i \in 1 .. Len(attrs) : Short(attrs[i])
  PROVE  SizeOf(attrs) \in 0 .. 140
<1> DEFINE upto[i \in 0 .. Len(attrs)] == IF i = 0 THEN 0 ELSE upto[i - 1] + 4 + Pad4(attrs[i].len)
<1>1. upto = [i \in 0 .. Len(attrs) |-> IF i = 0 THEN 0 ELSE upto[i - 1] + 4 + Pad4(attrs[i].len)]
  OBVIOUS
<1>2. SizeOf(attrs) = upto[Len(attrs)]
  BY DEF SizeOf
<1> HIDE DEF upto
<1>3. upto[0] = 0
  BY <1>1
<1>4. ASSUME NEW i \in 1 .. Len(attrs) PROVE Pad4(attrs[i].len) \in 0 .. 24
  <2>1. \A len \in 0 .. 20 : Pad4(len) \in 0 .. 24
    BY DEF Pad4
  <2> QED
    BY <2>1 DEF Short
<1>5. ASSUME 1 <= Len(attrs) PROVE upto[1] \in 0 .. 28
  <2>1. 1 \in 1 .. Len(attrs) /\ 1 \in 0 .. Len(attrs) /\ 1 - 1 = 0
    BY <1>5
  <2>2. upto[1] = upto[0] + 4 + Pad4(attrs[1].len)
    BY <1>1, <2>1
  <2>3. upto[0] \in 0 .. 0
    BY <1>3, <1>5
  <2>4. Pad4(attrs[1].len) \in 0 .. 24
    BY ONLY <2>1, <1>4
  <2> QED
    BY ONLY <2>2, <2>3, <2>4
<1>6. ASSUME 2 <= Len(attrs) PROVE upto[2] \in 0 .. 56
  <2>1. 2 \in 1 .. Len(attrs) /\ 2 \in 0 .. Len(attrs) /\ 2 - 1 = 1
    BY <1>6
  <2>2. upto[2] = upto[1] + 4 + Pad4(attrs[2].len)
    BY <1>1, <2>1
  <2>3. upto[1] \in 0 .. 28
    BY <1>5, <1>6
  <2>4. Pad4(attrs[2].len) \in 0 .. 24
    BY ONLY <2>1, <1>4
  <2> QED
    BY ONLY <2>2, <2>3, <2>4
<1>7. ASSUME 3 <= Len(attrs) PROVE upto[3] \in 0 .. 84
  <2>1. 3 \in 1 .. Len(attrs) /\ 3 \in 0 .. Len(attrs) /\ 3 - 1 = 2
    BY <1>7
  <2>2. upto[3] = upto[2] + 4 + Pad4(attrs[3].len)
    BY <1>1, <2>1
  <2>3. upto[2] \in 0 .. 56
    BY <1>6, <1>7
  <2>4. Pad4(attrs[3].len) \in 0 .. 24
    BY ONLY <2>1, <1>4
  <2> QED
    BY ONLY <2>2, <2>3, <2>4
<1>8. ASSUME 4 <= Len(attrs) PROVE upto[4] \in 0 .. 112
  <2>1. 4 \in 1 .. Len(attrs) /\ 4 \in 0 .. Len(attrs) /\ 4 - 1 = 3
    BY <1>8
  <2>2. upto[4] = upto[3] + 4 + Pad4(attrs[4].len)
    BY <1>1, <2>1
  <2>3. upto[3] \in 0 .. 84
    BY <1>7, <1>8
  <2>4. Pad4(attrs[4].len) \in 0 .. 24
    BY ONLY <2>1, <1>4
  <2> QED
    BY ONLY <2>2, <2>3, <2>4
<1>9. ASSUME 5 <= Len(attrs) PROVE upto[5] \in 0 .. 140
  <2>1. 5 \in 1 .. Len(attrs) /\ 5 \in 0 .. Len(attrs) /\ 5 - 1 = 4
    BY <1>9
  <2>2. upto[5] = upto[4] + 4 + Pad4(attrs[5].len)
    BY <1>1, <2>1
  <2>3. upto[4] \in 0 .. 112
    BY <1>8, <1>9
  <2>4. Pad4(attrs[5].len) \in 0 .. 24
    BY ONLY <2>1, <1>4
  <2> QED
    BY ONLY <2>2, <2>3, <2>4
<1>10. upto[Len(attrs)] \in 0 .. 140
  <2>1. CASE Len(attrs) = 0
    BY <1>3, <2>1
  <2>2. CASE Len(attrs) = 1
    BY <1>5, <2>2
  <2>3. CASE Len(attrs) = 2
    BY <1>6, <2>3
  <2>4. CASE Len(attrs) = 3
    BY <1>7, <2>4
  <2>5. CASE Len(attrs) = 4
    BY <1>8, <2>5
  <2>6. CASE Len(attrs) = 5
    BY <1>9, <2>6
  <2> QED
    BY <2>1, <2>2, <2>3, <2>4, <2>5, <2>6
<1> QED
  BY <1>2, <1>10

\* A check names the ufrags of both ends, whatever of it the parser kept.
LEMMA RequestIs ==
  ASSUME NEW gen \in 1 .. MaxGen, NEW ufrag \in Ufrags, NEW nominating \in BOOLEAN
  PROVE  LET m == Requests[gen][ufrag][nominating]
         IN  m = Nil \/ /\ m.none = FALSE /\ m.class = "request"
                        /\ Has(m, "username") =>
                             ValueOf(m, "username") = [local |-> gen, remote |-> ufrag]
<1> DEFINE name == Attr("username", 17, [local |-> gen, remote |-> ufrag])
           base == <<name, Attr("controlling", 8, Nil)>>
                     \o (IF nominating THEN <<Attr("use-candidate", 0, Nil)>> ELSE <<>>)
           sealed == Signed("request", 1, base, gen)
           all == Marked("request", 1, sealed)
           d == Request(gen, ufrag, nominating)
           m == Requests[gen][ufrag][nominating]
<1>1. m = Parse(d)
  BY DEF Requests, Ufrags
<1>2. /\ Len(base) \in {2, 3} /\ base[1] = name
      /\ \A i \in 1 .. Len(base) : /\ Short(base[i])
                                   /\ i # 1 => Nameless(base[i])
  BY DEF Attr, Short, Nameless
<1>3. /\ \E x : sealed = Append(base, [type |-> "integrity", len |-> 20, value |-> x])
      /\ \E x : all = Append(sealed, [type |-> "fingerprint", len |-> 4, value |-> x])
  BY DEF Signed, Marked, Attr
<1>4. d = IF HeaderLen + SizeOf(all) > 1200 THEN Nil
          ELSE [none |-> FALSE, first |-> "stun", cookie |-> TRUE, class |-> "request", tid |-> 1,
                declared |-> SizeOf(all), bytes |-> HeaderLen + SizeOf(all), attrs |-> all]
  <2>1. d = Message("request", 1, base, gen, 1200)
    BY DEF Request
  <2>2. gen # NoKey
    BY LegSetupAssumption DEF NoKey
  <2> HIDE DEF base, d
  <2> QED
    BY <2>1, <2>2 DEF Message
<1>5. base \in Seq({base[1], base[2], base[3]})
  <2>1. CASE nominating
    BY <2>1
  <2>2. CASE ~nominating
    BY <2>2
  <2> QED
    BY <2>1, <2>2
<1> HIDE DEF base, sealed, all
<1>6. /\ Len(all) \in {4, 5} /\ all[1] = name
      /\ \A i \in 1 .. Len(all) : /\ Short(all[i])
                                  /\ i # 1 => Nameless(all[i])
  <2>1. PICK x : sealed = Append(base, [type |-> "integrity", len |-> 20, value |-> x])
    BY <1>3
  <2>2. PICK y : all = Append(sealed, [type |-> "fingerprint", len |-> 4, value |-> y])
    BY <1>3
  <2>3. /\ Len(sealed) = Len(base) + 1
        /\ \A i \in 1 .. Len(base) : sealed[i] = base[i]
        /\ sealed[Len(base) + 1] = [type |-> "integrity", len |-> 20, value |-> x]
    BY <2>1, <1>5
  <2>4. sealed \in Seq(UNION {{sealed[i]} : i \in 1 .. Len(sealed)})
    BY <2>1, <2>3, <1>5
  <2>5. /\ Len(all) = Len(sealed) + 1
        /\ \A i \in 1 .. Len(sealed) : all[i] = sealed[i]
        /\ all[Len(sealed) + 1] = [type |-> "fingerprint", len |-> 4, value |-> y]
    BY <2>2, <2>4
  <2>6. Len(base) \in Nat /\ Len(sealed) \in Nat /\ Len(all) = Len(base) + 2
    BY <1>2, <2>3, <2>5
  <2>7. all[1] = name
    BY <1>2, <2>3, <2>5, <2>6
  <2>8. ASSUME NEW i \in 1 .. Len(all)
        PROVE  Short(all[i]) /\ (i # 1 => Nameless(all[i]))
    <3>1. CASE i \in 1 .. Len(base)
      BY <3>1, <1>2, <2>3, <2>5, <2>6
    <3>2. CASE i = Len(base) + 1
      <4>1. i \in 1 .. Len(sealed)
        BY <3>2, <2>3, <2>6
      <4>2. all[i] = [type |-> "integrity", len |-> 20, value |-> x]
        BY <3>2, <4>1, <2>3, <2>5
      <4> QED
        BY <4>2 DEF Short, Nameless
    <3>3. CASE i = Len(base) + 2
      BY <3>3, <2>3, <2>5, <2>6 DEF Short, Nameless
    <3> QED
      BY <2>6, <3>1, <3>2, <3>3
  <2>9. Len(all) \in {4, 5}
    <3>1. \A n, total \in Nat : n \in {2, 3} /\ total = n + 2 => total \in {4, 5}
      BY ONLY TRUE
    <3>2. Len(base) \in {2, 3}
      BY ONLY <1>2
    <3>3. Len(base) \in Nat /\ Len(all) \in Nat /\ Len(all) = Len(base) + 2
      BY <2>6
    <3> QED
      BY ONLY <3>1, <3>2, <3>3, Zenon
  <2> QED
    BY ONLY <2>7, <2>8, <2>9
<1>7. d = [none |-> FALSE, first |-> "stun", cookie |-> TRUE, class |-> "request", tid |-> 1,
           declared |-> SizeOf(all), bytes |-> HeaderLen + SizeOf(all), attrs |-> all]
  <2>1. SizeOf(all) \in 0 .. 140
    <3>1. Len(all) \in 0 .. 5 /\ \A i \in 1 .. Len(all) : Short(all[i])
      BY <1>6
    <3> QED
      BY ONLY <3>1, SmallSizes
  <2> QED
    BY <1>4, <2>1 DEF HeaderLen
<1> HIDE DEF d, m
<1>8. m = Nil \/ \E k \in 0 .. Len(all) :
        m = [none |-> FALSE, class |-> "request", tid |-> 1, declared |-> SizeOf(all),
             attrs |-> SubSeq(all, 1, k)]
  BY <1>1, <1>7 DEF Parse
<1>9. ASSUME NEW k \in 0 .. Len(all),
             m = [none |-> FALSE, class |-> "request", tid |-> 1, declared |-> SizeOf(all),
                  attrs |-> SubSeq(all, 1, k)],
             Has(m, "username")
      PROVE  ValueOf(m, "username") = [local |-> gen, remote |-> ufrag]
  <2>1. /\ Len(m.attrs) = k /\ DOMAIN m.attrs = 1 .. k
        /\ \A i \in 1 .. k : m.attrs[i] = all[i]
    BY <1>6, <1>9
  <2>2. \A i \in DOMAIN m.attrs : m.attrs[i].type = "username" => i = 1
    BY <2>1, <1>6 DEF Nameless
  <2>3. {i \in DOMAIN m.attrs : m.attrs[i].type = "username"} = {1}
    BY <2>2, <1>9 DEF Has
  <2>4. IndexOf(m, "username") = 1 /\ 1 \in DOMAIN m.attrs
    BY <2>3 DEF IndexOf
  <2>5. ValueOf(m, "username") = name.value
    BY <2>1, <2>4, <1>6, <1>9 DEF ValueOf
  <2> QED
    BY <2>5 DEF Attr
<1>10. m = Nil \/ /\ m.none = FALSE /\ m.class = "request"
                  /\ Has(m, "username") =>
                       ValueOf(m, "username") = [local |-> gen, remote |-> ufrag]
  BY <1>8, <1>9
<1> QED
  BY <1>10 DEF m

\* A keepalive carries nothing but its class.
LEMMA IndicationIs == Indication = Nil \/ (Indication.none = FALSE /\ Indication.class = "indication")
<1> DEFINE all == Marked("indication", 1, <<>>)
           d == Message("indication", 1, <<>>, NoKey, 1200)
<1>1. PICK x : all = <<[type |-> "fingerprint", len |-> 4, value |-> x]>>
  <2> DEFINE sum == Checksum([class |-> "indication", tid |-> 1], SizeOf(<<>>) + 8, <<>>)
  <2>1. \A e : Append(<<>>, e) = <<e>>
    OBVIOUS
  <2>2. all = Append(<<>>, [type |-> "fingerprint", len |-> 4, value |-> sum])
    BY DEF Marked, Attr
  <2> HIDE DEF all, sum
  <2> QED
    BY <2>1, <2>2
<1>2. d = IF HeaderLen + SizeOf(all) > 1200 THEN Nil
          ELSE [none |-> FALSE, first |-> "stun", cookie |-> TRUE, class |-> "indication", tid |-> 1,
                declared |-> SizeOf(all), bytes |-> HeaderLen + SizeOf(all), attrs |-> all]
  BY DEF Message
<1> HIDE DEF all, d
<1>3. SizeOf(all) \in 0 .. 140
  <2>1. Len(all) \in 0 .. 5 /\ \A i \in 1 .. Len(all) : Short(all[i])
    BY <1>1 DEF Short
  <2> QED
    BY ONLY <2>1, SmallSizes
<1>4. d = [none |-> FALSE, first |-> "stun", cookie |-> TRUE, class |-> "indication", tid |-> 1,
           declared |-> SizeOf(all), bytes |-> HeaderLen + SizeOf(all), attrs |-> all]
  BY <1>2, <1>3 DEF HeaderLen
<1>5. Indication = Parse(d)
  BY DEF Indication, d
<1> QED
  BY <1>4, <1>5 DEF Parse

\* How apply_events reads what a transport reports.
Ends(step) == \E i \in DOMAIN step.events : step.events[i].e \in {"Failed", "Closed"}
Nominates(step) == \E i \in DOMAIN step.events : step.events[i] = NominatedAt(step.t.nominated)

\* u is t, but for its handshake and for pairs that are gone or were its
\* selected address.
Alike(t, u) ==
  /\ u \in TransportType
  /\ u.gen = t.gen /\ u.nominated = t.nominated
  /\ u.ice.ufrag = t.ice.ufrag /\ u.ice.remote = t.ice.remote /\ u.ice.selected = t.ice.selected
  /\ \A a \in DOMAIN u.ice.pairs :
       a \in DOMAIN t.ice.pairs \/ (a = t.ice.selected /\ a # NoAddr)

\* u is t after an accepted check, which nominates or does not.
Checked(t, u, from, nominates) ==
  /\ u \in TransportType
  /\ u.gen = t.gen /\ u.ice.ufrag = t.ice.ufrag /\ u.ice.remote = t.ice.remote
  /\ DOMAIN u.ice.pairs \subseteq DOMAIN t.ice.pairs \cup {from}
  /\ u.ice.selected \in {t.ice.selected, from}
  /\ u.nominated = IF nominates THEN from ELSE t.nominated

LEMMA CheckIs ==
  ASSUME NEW t \in TransportType, NEW from \in Addrs,
         NEW gen \in 1 .. MaxGen, NEW ufrag \in Ufrags, NEW nominating \in BOOLEAN,
         NEW step, step = OnStun(t, Requests[gen][ufrag][nominating], from, 0)
  PROVE  /\ ~Ends(step)
         /\ \/ ~Nominates(step) /\ Alike(t, step.t)
            \/ /\ t.ice.ufrag = gen /\ t.ice.remote \in {NoUfrag, ufrag}
               /\ Checked(t, step.t, from, Nominates(step))
<1> DEFINE m == Requests[gen][ufrag][nominating]
           agent == t.ice
           touched == Touch(agent, from, 0)
           r == HandleStun(agent, m, from, 0)
<1> HIDE DEF m
<1>1. agent \in AgentType /\ t.nominated \in Addrs \cup {NoAddr} /\ NoAddr # from
  BY LegSetupAssumption DEF TransportType
<1>2. m = Nil \/ /\ m.none = FALSE /\ m.class = "request"
                 /\ Has(m, "username") =>
                      ValueOf(m, "username") = [local |-> gen, remote |-> ufrag]
  BY RequestIs DEF m
<1>3. /\ touched \in AgentType
      /\ touched.ufrag = agent.ufrag /\ touched.remote = agent.remote
      /\ touched.selected = agent.selected
      /\ DOMAIN touched.pairs \subseteq DOMAIN agent.pairs \cup {from}
  BY <1>1, TouchIs
<1> HIDE DEF touched
<1>4. ASSUME m # Nil, Verdict(agent, m).code = 0
      PROVE  agent.ufrag = gen /\ agent.remote \in {NoUfrag, ufrag}
  <2>1. Has(m, "username") /\ UsernameValid(agent, ValueOf(m, "username"))
    BY <1>4 DEF Verdict, Refused
  <2> QED
    BY <2>1, <1>2, <1>4 DEF UsernameValid
<1>5. \/ \E replied \in BOOLEAN : r = Result(agent, replied, NoAddr)
      \/ /\ agent.ufrag = gen /\ agent.remote \in {NoUfrag, ufrag}
         /\ \/ r = Result([touched EXCEPT !.selected = from], TRUE, from)
            \/ r = Result(touched, TRUE, NoAddr)
  <2>1. CASE m = Nil \/ ~FingerprintValid(m)
    <3>1. m = Nil => m.none = TRUE
      BY DEF Nil
    <3>2. m # Nil => m.class = "request"
      BY <1>2
    <3>3. r = Result(agent, FALSE, NoAddr)
      BY <2>1, <3>1, <3>2 DEF HandleStun
    <3> QED
      BY <3>3
  <2>2. CASE m # Nil /\ FingerprintValid(m)
    <3>1. r = OnRequest(agent, m, from, 0)
      BY <2>2, <1>2 DEF HandleStun
    <3> QED
      BY <3>1, <2>2, <1>4 DEF OnRequest, touched
  <2> QED
    BY <2>1, <2>2
<1>6. CASE \E replied \in BOOLEAN : r = Result(agent, replied, NoAddr)
  <2>1. r.agent = agent /\ r.nominated = NoAddr
    BY <1>6 DEF Result
  <2> HIDE DEF r
  <2>2. /\ step.t = [t EXCEPT !.ice = agent]
        /\ step.events = IF r.replied THEN <<SendTo(from)>> ELSE <<>>
    BY <2>1 DEF OnStun, m, r, Step
  <2>3. step.t = t
    BY <2>2 DEF TransportType
  <2>4. ~Ends(step) /\ ~Nominates(step)
    BY <2>2 DEF Ends, Nominates, SendTo, NominatedAt
  <2> QED
    BY <2>3, <2>4 DEF Alike
<1>7. CASE /\ agent.ufrag = gen /\ agent.remote \in {NoUfrag, ufrag}
           /\ r = Result(touched, TRUE, NoAddr)
  <2>1. r.agent = touched /\ r.nominated = NoAddr /\ r.replied = TRUE
    BY <1>7 DEF Result
  <2> HIDE DEF r
  <2>2. step.t = [t EXCEPT !.ice = touched] /\ step.events = <<SendTo(from)>>
    BY <2>1 DEF OnStun, m, r, Step
  <2>3. ~Ends(step) /\ ~Nominates(step)
    BY <2>2 DEF Ends, Nominates, SendTo, NominatedAt
  <2>4. step.t \in TransportType /\ step.t.gen = t.gen /\ step.t.ice = touched /\ step.t.nominated = t.nominated
    BY <2>2, <1>3 DEF TransportType
  <2> QED
    BY <2>3, <2>4, <1>3, <1>7 DEF Checked
<1>8. CASE /\ agent.ufrag = gen /\ agent.remote \in {NoUfrag, ufrag}
           /\ r = Result([touched EXCEPT !.selected = from], TRUE, from)
  <2> DEFINE chosen == [touched EXCEPT !.selected = from]
  <2>1. r.agent = chosen /\ r.nominated = from /\ r.replied = TRUE
    BY <1>8 DEF Result
  <2>2. /\ chosen \in AgentType /\ chosen.selected = from /\ chosen.pairs = touched.pairs
        /\ chosen.ufrag = touched.ufrag /\ chosen.remote = touched.remote
    BY <1>3 DEF AgentType
  <2> HIDE DEF r, chosen
  <2>3. /\ step.t = [t EXCEPT !.ice = chosen, !.nominated = from]
        /\ DOMAIN step.events = 1 .. 2
        /\ step.events[1] = SendTo(from) /\ step.events[2] = NominatedAt(from)
    <3>1. /\ step.t = [t EXCEPT !.ice = r.agent, !.nominated = r.nominated]
          /\ step.events = Append(<<SendTo(from)>>, NominatedAt(r.nominated))
      BY <2>1, <1>1 DEF OnStun, m, r, Step
    <3> QED
      BY <3>1, <2>1
  <2>4. step.t \in TransportType /\ step.t.gen = t.gen /\ step.t.ice = chosen /\ step.t.nominated = from
    BY <2>2, <2>3 DEF TransportType
  <2>5. ~Ends(step) /\ Nominates(step)
    BY <2>3, <2>4 DEF Ends, Nominates, SendTo, NominatedAt
  <2> QED
    BY <2>2, <2>4, <2>5, <1>3, <1>8 DEF Checked
<1> QED
  BY <1>5, <1>6, <1>7, <1>8

LEMMA KeepaliveIs ==
  ASSUME NEW t \in TransportType, NEW from \in Addrs,
         NEW step, step = OnStun(t, Indication, from, 0)
  PROVE  ~Ends(step) /\ ~Nominates(step) /\ Alike(t, step.t)
<1> DEFINE agent == t.ice
           touched == Touch(agent, from, 0)
           r == HandleStun(agent, Indication, from, 0)
<1>1. agent \in AgentType /\ NoAddr # from
  BY LegSetupAssumption DEF TransportType
<1>2. /\ touched \in AgentType
      /\ touched.ufrag = agent.ufrag /\ touched.remote = agent.remote
      /\ touched.selected = agent.selected
      /\ DOMAIN touched.pairs \subseteq DOMAIN agent.pairs \cup {from}
  BY <1>1, TouchIs
<1> HIDE DEF touched
<1>3. PICK after \in {agent, touched} :
        /\ r = Result(after, FALSE, NoAddr)
        /\ after = touched => from \in DOMAIN agent.pairs \/ agent.selected = from \/ touched = agent
  <2>1. Nil.none = TRUE
    BY DEF Nil
  <2>2. \/ r = Result(agent, FALSE, NoAddr)
        \/ r = Result(OnIndication(agent, from, 0), FALSE, NoAddr)
    BY <2>1, IndicationIs DEF HandleStun
  <2> QED
    BY <2>2 DEF OnIndication, touched
<1>4. r.agent = after /\ r.nominated = NoAddr /\ r.replied = FALSE
  BY <1>3 DEF Result
<1> HIDE DEF r
<1>5. step.t = [t EXCEPT !.ice = after] /\ step.events = <<>>
  BY <1>4 DEF OnStun, r, Step
<1>6. ~Ends(step) /\ ~Nominates(step)
  BY <1>5 DEF Ends, Nominates
<1>7. /\ step.t \in TransportType /\ step.t.gen = t.gen /\ step.t.nominated = t.nominated
      /\ step.t.ice = after
  BY <1>5, <1>1, <1>2 DEF TransportType
<1> QED
  BY <1>1, <1>2, <1>3, <1>6, <1>7 DEF Alike

-----------------------------------------------------------------------------
(* The handshake *)

Joined(x, y) == x \o y

LEMMA FlattenIs ==
  ASSUME NEW seqs
  PROVE  \E flatten :
           /\ flatten = [i \in 1 .. Len(seqs) |-> IF i = 1 THEN seqs[i] ELSE Joined(flatten[i - 1], seqs[i])]
           /\ FlattenSeq(seqs) = IF Len(seqs) = 0 THEN seqs ELSE flatten[Len(seqs)]
<1> DEFINE flatten[i \in 1 .. Len(seqs)] == IF i = 1 THEN seqs[i] ELSE Joined(flatten[i - 1], seqs[i])
<1>1. flatten = [i \in 1 .. Len(seqs) |-> IF i = 1 THEN seqs[i] ELSE Joined(flatten[i - 1], seqs[i])]
  OBVIOUS
<1>2. FlattenSeq(seqs) = IF Len(seqs) = 0 THEN seqs ELSE flatten[Len(seqs)]
  BY DEF FlattenSeq, Joined
<1> HIDE DEF flatten
<1> QED
  BY <1>1, <1>2

LEMMA FlattenIn ==
  ASSUME NEW S, NEW seqs, Len(seqs) \in 0 .. 4, seqs = <<>> \/ Len(seqs) > 0,
         \A i \in 1 .. Len(seqs) : seqs[i] \in Seq(S)
  PROVE  FlattenSeq(seqs) \in Seq(S)
<1>1. PICK flatten :
        /\ flatten = [i \in 1 .. Len(seqs) |-> IF i = 1 THEN seqs[i] ELSE Joined(flatten[i - 1], seqs[i])]
        /\ FlattenSeq(seqs) = IF Len(seqs) = 0 THEN seqs ELSE flatten[Len(seqs)]
  BY ONLY FlattenIs
<1>3. ASSUME 1 <= Len(seqs) PROVE flatten[1] \in Seq(S)
  BY <1>1, <1>3
<1>4. ASSUME NEW i \in 2 .. Len(seqs), NEW j, j = i - 1, flatten[j] \in Seq(S)
      PROVE  flatten[i] \in Seq(S)
  <2>1. flatten[i] = flatten[j] \o seqs[i]
    <3>1. i \in 1 .. Len(seqs) /\ i # 1
      BY <1>4
    <3> QED
      BY ONLY <1>1, <1>4, <3>1 DEF Joined
  <2>2. seqs[i] \in Seq(S)
    BY <1>4
  <2> QED
    BY <2>1, <2>2, <1>4
<1>5. ASSUME 2 <= Len(seqs) PROVE flatten[2] \in Seq(S)
  <2>1. 2 \in 2 .. Len(seqs) /\ 1 = 2 - 1 /\ flatten[1] \in Seq(S)
    BY <1>3, <1>5
  <2> QED
    BY ONLY <2>1, <1>4
<1>6. ASSUME 3 <= Len(seqs) PROVE flatten[3] \in Seq(S)
  <2>1. 3 \in 2 .. Len(seqs) /\ 2 = 3 - 1 /\ flatten[2] \in Seq(S)
    BY <1>5, <1>6
  <2> QED
    BY ONLY <2>1, <1>4
<1>7. ASSUME 4 <= Len(seqs) PROVE flatten[4] \in Seq(S)
  <2>1. 4 \in 2 .. Len(seqs) /\ 3 = 4 - 1 /\ flatten[3] \in Seq(S)
    BY <1>6, <1>7
  <2> QED
    BY ONLY <2>1, <1>4
<1>8. CASE Len(seqs) = 0
  BY <1>1, <1>8
<1>9. ASSUME Len(seqs) > 0 PROVE flatten[Len(seqs)] \in Seq(S)
  <2>1. CASE Len(seqs) = 1
    BY <2>1, <1>3
  <2>2. CASE Len(seqs) = 2
    BY <2>2, <1>5
  <2>3. CASE Len(seqs) = 3
    BY <2>3, <1>6
  <2>4. CASE Len(seqs) = 4
    BY <2>4, <1>7
  <2> QED
    BY <1>9, <2>1, <2>2, <2>3, <2>4
<1> QED
  BY <1>1, <1>8, <1>9

Outs == {<<>>, <<"Packet">>, <<"CloseNotify">>,
         <<"PeerCert", "KeyingMaterial", "Connected", "Packet">>}
Outcomes == {Fatal} \cup {Outcome(state, outs) : state \in {"idle", "hello", "done", "closed"}, outs \in Outs}

LEMMA FedIs ==
  ASSUME NEW dtls \in DtlsType, NEW outcome \in Outcomes
  PROVE  Fed(dtls, outcome) \in DtlsType /\ OutsOf(dtls, outcome) \in Outs
<1>1. CASE outcome = Fatal
  BY <1>1 DEF Fatal, Fed, OutsOf, DtlsType, Outs
<1>2. ASSUME NEW state \in {"idle", "hello", "done", "closed"}, NEW outs \in Outs,
             outcome = Outcome(state, outs)
      PROVE  Fed(dtls, outcome) \in DtlsType /\ OutsOf(dtls, outcome) \in Outs
  <2>1. outcome.fatal = FALSE /\ outcome.state = state /\ outcome.outs = outs
    BY <1>2 DEF Outcome
  <2>2. Fed(dtls, outcome) \in DtlsType
    BY <2>1 DEF Fed, DtlsType
  <2>3. <<>> \in Outs
    BY DEF Outs
  <2> QED
    BY <2>1, <2>2, <2>3 DEF OutsOf
<1> QED
  BY <1>1, <1>2 DEF Outcomes

LEMMA EngineIs ==
  ASSUME NEW dtls \in DtlsType, NEW record, NEW late
  PROVE  Engine(dtls, record) \in Outcomes /\ EngineTimer(dtls, late) \in Outcomes
<1>1. dtls.state \in {"idle", "hello", "done", "closed"}
  BY DEF DtlsType
<1>2. Fatal \in Outcomes
  BY DEF Outcomes
<1>3. ASSUME NEW state \in {"idle", "hello", "done", "closed"}, NEW outs \in Outs
      PROVE  Outcome(state, outs) \in Outcomes
  BY <1>3 DEF Outcomes
<1>4. /\ <<>> \in Outs /\ <<"Packet">> \in Outs /\ <<"CloseNotify">> \in Outs
      /\ <<"PeerCert", "KeyingMaterial", "Connected", "Packet">> \in Outs
  BY DEF Outs
<1>5. Engine(dtls, record) \in Outcomes
  BY <1>1, <1>2, <1>3, <1>4 DEF Engine
<1> QED
  BY <1>1, <1>2, <1>3, <1>4, <1>5 DEF EngineTimer

LEMMA DrainIs ==
  ASSUME NEW t \in TransportType, NEW outs \in Outs, NEW cert \in Legs \cup {NoCert},
         NEW step, step = Drain(t, outs, cert)
  PROVE  /\ ~Nominates(step) /\ step.t \in TransportType
         /\ step.t.gen = t.gen /\ step.t.ice = t.ice /\ step.t.nominated = t.nominated
<1> DEFINE S == {SendTo(t.nominated), Event("Connected"), Event("Failed"), Event("Closed")}
           got(out) == \E i \in DOMAIN outs : outs[i] = out
           each == [i \in DOMAIN outs |-> EventsOf(t, outs[i], cert)]
           after == [t EXCEPT !.dtls.cert = IF got("PeerCert") THEN cert ELSE @,
                              !.keys = IF got("KeyingMaterial") THEN t.gen ELSE @,
                              !.dtls.connected = @ \/ got("Connected"),
                              !.connected = @ \/ (got("Connected") /\ Trusted(t, cert)),
                              !.armed = TRUE, !.dtls.reported = TRUE]
<1>1. FlattenSeq(each) \in Seq(S)
  <2>1. Len(outs) \in 0 .. 4 /\ DOMAIN outs = 1 .. Len(outs)
    BY DEF Outs
  <2>2. Len(each) = Len(outs) /\ (each = <<>> \/ Len(each) > 0)
    BY <2>1
  <2>3. ASSUME NEW i \in 1 .. Len(outs) PROVE each[i] \in Seq(S)
    <3>1. each[i] = EventsOf(t, outs[i], cert)
      BY <2>1
    <3>2. /\ <<>> \in Seq(S) /\ \A e \in S : <<e>> \in Seq(S)
      OBVIOUS
    <3>3. /\ SendTo(t.nominated) \in S /\ Event("Connected") \in S
          /\ Event("Failed") \in S /\ Event("Closed") \in S
      OBVIOUS
    <3> HIDE DEF S
    <3> QED
      BY <3>1, <3>2, <3>3 DEF EventsOf
  <2> HIDE DEF S, each
  <2> QED
    BY <2>1, <2>2, <2>3, FlattenIn
<1>2. \A e \in S : e # NominatedAt(t.nominated)
  BY DEF SendTo, Event, NominatedAt
<1>3. /\ after \in TransportType
      /\ after.gen = t.gen /\ after.ice = t.ice /\ after.nominated = t.nominated
  <2>1. PICK done \in BOOLEAN : done = (t.dtls.connected \/ got("Connected"))
    OBVIOUS
  <2>2. PICK connected \in BOOLEAN : connected = (t.connected \/ (got("Connected") /\ Trusted(t, cert)))
    OBVIOUS
  <2> DEFINE shown == IF got("PeerCert") THEN cert ELSE t.dtls.cert
             keys == IF got("KeyingMaterial") THEN t.gen ELSE t.keys
             dtls == [t.dtls EXCEPT !.cert = shown, !.connected = done, !.reported = TRUE]
  <2>3. after = [t EXCEPT !.dtls = dtls, !.keys = keys, !.connected = connected, !.armed = TRUE]
    <3> HIDE DEF got, S, each
    <3>1. after = [t EXCEPT !.dtls.cert = shown, !.keys = keys, !.dtls.connected = done,
                            !.connected = connected, !.armed = TRUE, !.dtls.reported = TRUE]
      BY <2>1, <2>2
    <3> HIDE DEF after, shown, keys
    <3> QED
      BY <3>1 DEF TransportType, DtlsType
  <2>4. dtls \in DtlsType
    <3> HIDE DEF got
    <3>1. shown \in Legs \cup {NoCert}
      BY DEF TransportType, DtlsType
    <3> HIDE DEF shown
    <3> QED
      BY <3>1 DEF TransportType, DtlsType
  <2>5. keys \in Nat
    <3> HIDE DEF got
    <3> QED
      BY LegSetupAssumption DEF TransportType
  <2> HIDE DEF dtls, keys, after, got, S, each
  <2> QED
    BY <2>3, <2>4, <2>5 DEF TransportType
<1> HIDE DEF S, after, each
<1>4. CASE t.dtls.reported
  <2>1. step.t = t /\ step.events = <<>>
    BY <1>4 DEF Drain, Step
  <2> QED
    BY <2>1 DEF Nominates
<1>5. CASE ~t.dtls.reported
  <2>1. step.t = after /\ step.events = FlattenSeq(each)
    BY <1>5 DEF Drain, Step, after, each
  <2> QED
    BY <2>1, <1>1, <1>2, <1>3 DEF Nominates
<1> QED
  BY <1>4, <1>5

LEMMA RecordIs ==
  ASSUME NEW t \in TransportType, NEW record, NEW cert \in Legs,
         NEW step, step = OnDtls(t, record, cert)
  PROVE  ~Nominates(step) /\ Alike(t, step.t)
<1> DEFINE outcome == Engine(t.dtls, record)
           fed == [t EXCEPT !.dtls = Fed(@, outcome)]
           outs == OutsOf(t.dtls, outcome)
<1>1. t.dtls \in DtlsType
  BY DEF TransportType
<1>2. outcome \in Outcomes
  BY <1>1, EngineIs
<1> HIDE DEF outcome
<1>3. Fed(t.dtls, outcome) \in DtlsType /\ outs \in Outs
  BY <1>1, <1>2, FedIs
<1>4. /\ fed \in TransportType /\ fed.gen = t.gen /\ fed.ice = t.ice
      /\ fed.nominated = t.nominated
  BY <1>3 DEF TransportType
<1> HIDE DEF fed, outs
<1>5. step = IF fed.dtls.failed THEN Step(fed, <<>>) ELSE Drain(fed, outs, cert)
  BY DEF OnDtls, outcome, fed, outs
<1>6. /\ ~Nominates(step) /\ step.t \in TransportType
      /\ step.t.gen = t.gen /\ step.t.ice = t.ice /\ step.t.nominated = t.nominated
  <2>1. CASE fed.dtls.failed
    BY <2>1, <1>4, <1>5 DEF Step, Nominates
  <2>2. CASE ~fed.dtls.failed
    BY <2>2, <1>3, <1>4, <1>5, DrainIs
  <2> QED
    BY <2>1, <2>2
<1> QED
  BY <1>6 DEF Alike

LEMMA TimerIs ==
  ASSUME NEW t \in TransportType, NEW now, NEW due, NEW late
  PROVE  Alike(t, OnTimer(t, now, due, late).t)
<1> DEFINE outcome == EngineTimer(t.dtls, late)
           aged == [t EXCEPT !.ice = Expire(@, now)]
           fed == [aged EXCEPT !.armed = FALSE, !.dtls = Fed(@, outcome)]
           outs == OutsOf(t.dtls, outcome)
           ice == Expire(t.ice, now)
<1>1. t.dtls \in DtlsType /\ t.ice \in AgentType
  BY DEF TransportType
<1>2. /\ ice \in AgentType /\ ice.ufrag = t.ice.ufrag /\ ice.remote = t.ice.remote
      /\ ice.selected = t.ice.selected /\ DOMAIN ice.pairs \subseteq DOMAIN t.ice.pairs
  BY <1>1, ExpireIs
<1>3. outcome \in Outcomes
  BY <1>1, EngineIs
<1> HIDE DEF outcome
<1>4. Fed(t.dtls, outcome) \in DtlsType /\ outs \in Outs
  BY <1>1, <1>3, FedIs
<1>5. aged = [t EXCEPT !.ice = ice]
  OBVIOUS
<1> HIDE DEF ice
<1>6. /\ aged \in TransportType /\ aged.gen = t.gen /\ aged.ice = ice
      /\ aged.nominated = t.nominated /\ aged.dtls = t.dtls
  BY <1>2, <1>5 DEF TransportType
<1> HIDE DEF aged
<1>7. /\ fed \in TransportType /\ fed.gen = t.gen /\ fed.ice = ice
      /\ fed.nominated = t.nominated
  BY <1>4, <1>6 DEF TransportType
<1> HIDE DEF fed, outs
<1>8. \/ OnTimer(t, now, due, late) = Drain(fed, outs, NoCert)
      \/ OnTimer(t, now, due, late) = Drain(aged, <<>>, NoCert)
  BY DEF OnTimer, outcome, aged, fed, outs
<1>9. ASSUME NEW step, step = Drain(fed, outs, NoCert) \/ step = Drain(aged, <<>>, NoCert)
      PROVE  /\ step.t \in TransportType
             /\ step.t.gen = t.gen /\ step.t.ice = ice /\ step.t.nominated = t.nominated
  <2>1. <<>> \in Outs /\ NoCert \in Legs \cup {NoCert}
    BY DEF Outs
  <2>2. CASE step = Drain(fed, outs, NoCert)
    BY <2>1, <2>2, <1>4, <1>7, DrainIs
  <2>3. CASE step = Drain(aged, <<>>, NoCert)
    BY <2>1, <2>3, <1>6, DrainIs
  <2> QED
    BY <1>9, <2>2, <2>3
<1>10. /\ OnTimer(t, now, due, late).t \in TransportType
       /\ OnTimer(t, now, due, late).t.gen = t.gen /\ OnTimer(t, now, due, late).t.ice = ice
       /\ OnTimer(t, now, due, late).t.nominated = t.nominated
  BY <1>8, <1>9
<1> QED
  BY <1>2, <1>10 DEF Alike

-----------------------------------------------------------------------------
(* One leg *)

LEMMA AlikeItself ==
  ASSUME NEW t \in TransportType PROVE Alike(t, t)
BY DEF Alike

LEMMA SaneKeeps ==
  ASSUME NEW k, NEW t, NEW v, NEW b, NEW m, Sane(k, t, v, b, m),
         NEW u, Alike(t, u), NEW w, v \subseteq w,
         NEW c, c.creds = b.creds, c.ufrag = b.ufrag
  PROVE  Sane(k, u, w, c, m)
BY DEF Sane, Alike, Vouches, Awaiting

\* An accepted check, of the ICE session the leg is in or waits for.
LEMMA SaneChecked ==
  ASSUME NEW k, NEW t \in TransportType, NEW v, NEW b, NEW m, Sane(k, t, v, b, m),
         NEW u, NEW from \in Addrs, NEW nominates, Checked(t, u, from, nominates),
         NEW ufrag \in Ufrags, t.ice.remote \in {NoUfrag, ufrag},
         t.ice.remote = NoUfrag => ufrag = b.ufrag,
         NEW w, v \subseteq w, <<ufrag, from>> \in w
  PROVE  Sane(k, u, w, b, m)
<1>1. Vouches(w, from) /\ (\A a : Vouches(v, a) => Vouches(w, a))
  BY DEF Vouches
<1>2. u.ice.ufrag = u.gen
  BY DEF Sane, Checked
<1>3. ASSUME u.nominated # NoAddr, u.ice.remote # NoUfrag
      PROVE  <<u.ice.remote, u.nominated>> \in w
  BY <1>3 DEF Sane, Checked
<1>4. ASSUME NEW a \in DOMAIN u.ice.pairs PROVE Vouches(w, a)
  BY <1>1 DEF Sane, Checked
<1>5. u.ice.selected # NoAddr => Vouches(w, u.ice.selected)
  BY <1>1 DEF Sane, Checked
<1>6. ASSUME u.ice.remote = NoUfrag PROVE k \in SubLegs /\ Awaiting(u, w, b, m)
  <2>1. k \in SubLegs /\ Awaiting(t, v, b, m) /\ ufrag = b.ufrag
    BY <1>6 DEF Sane, Checked
  <2>2. u.nominated # NoAddr => <<b.ufrag, u.nominated>> \in w
    BY <2>1 DEF Awaiting, Checked
  <2> QED
    BY <2>1, <2>2 DEF Awaiting, Checked
<1> QED
  BY <1>2, <1>3, <1>4, <1>5, <1>6 DEF Sane

\* A description arrives.
LEMMA DescribedIs ==
  ASSUME NEW t \in TransportType, NEW ufrag \in Ufrags, NEW cert \in Legs,
         NEW u, u = SetExpected(SetRemoteUfrag(t, ufrag), cert)
  PROVE  /\ u \in TransportType /\ u.gen = t.gen
         /\ u.ice.ufrag = t.ice.ufrag /\ u.ice.remote = ufrag
         /\ u.ice = t.ice \/ (u.ice.selected = NoAddr /\ DOMAIN u.ice.pairs = {})
         /\ u.nominated = IF t.ice.remote \notin {NoUfrag, ufrag} THEN NoAddr ELSE t.nominated
<1> DEFINE ice == SetRemote(t.ice, ufrag)
           at == IF t.ice.remote \notin {NoUfrag, ufrag} THEN NoAddr ELSE t.nominated
<1>1. /\ ice \in AgentType /\ ice.ufrag = t.ice.ufrag /\ ice.remote = ufrag
      /\ ice = t.ice \/ (ice.selected = NoAddr /\ DOMAIN ice.pairs = {})
  BY SetRemoteIs, LegSetupAssumption DEF TransportType, Ufrags
<1>2. at \in Addrs \cup {NoAddr}
  BY DEF TransportType
<1>3. u = [[t EXCEPT !.ice = ice, !.nominated = at] EXCEPT !.expected = cert]
  BY DEF SetExpected, SetRemoteUfrag
<1> HIDE DEF ice, at
<1>4. u \in TransportType /\ u.gen = t.gen /\ u.ice = ice /\ u.nominated = at
  BY <1>1, <1>2, <1>3 DEF TransportType
<1> QED
  BY <1>1, <1>4 DEF at

LEMMA SaneDescribed ==
  ASSUME NEW k \in Legs, NEW t \in TransportType, NEW v, NEW b, NEW m \in Ufrags,
         Sane(k, t, v, b, m),
         NEW u, u = SetExpected(SetRemoteUfrag(t, m), k), NEW c, NEW n
  PROVE  Sane(k, u, v, c, n)
<1>1. /\ u.gen = t.gen /\ u.ice.ufrag = t.ice.ufrag /\ u.ice.remote = m
      /\ u.ice = t.ice \/ (u.ice.selected = NoAddr /\ DOMAIN u.ice.pairs = {})
      /\ u.nominated = IF t.ice.remote \notin {NoUfrag, m} THEN NoAddr ELSE t.nominated
  BY DescribedIs
<1>2. m # NoUfrag
  BY LegSetupAssumption DEF Ufrags, NoUfrag
<1>3. ASSUME u.nominated # NoAddr PROVE <<m, u.nominated>> \in v
  BY <1>1, <1>2, <1>3 DEF Sane, Awaiting
<1> QED
  BY <1>1, <1>2, <1>3 DEF Sane

\* A leg begins.
LEMMA NewTransportIs ==
  ASSUME NEW gen \in 1 .. MaxGen, NEW ufrag \in 0 .. MaxUfrag, NEW cert \in Legs \cup {NoCert},
         NEW t, t = NewTransport(gen, ufrag, cert)
  PROVE  /\ t \in TransportType /\ t.gen = gen /\ t.nominated = NoAddr
         /\ t.ice.ufrag = gen /\ t.ice.remote = ufrag /\ t.ice.selected = NoAddr
         /\ DOMAIN t.ice.pairs = {}
<1> DEFINE none == [a \in {} |-> 0]
           ice == NewAgent(gen, gen, ufrag)
<1>1. none \in UNION {[T -> Nat] : T \in SUBSET Addrs} /\ DOMAIN none = {}
  BY {} \in SUBSET Addrs
<1>2. ice = [ufrag |-> gen, pwd |-> gen, remote |-> ufrag, selected |-> NoAddr, pairs |-> none]
  BY DEF NewAgent
<1> HIDE DEF none
<1>3. /\ ice \in AgentType /\ ice.ufrag = gen /\ ice.remote = ufrag /\ ice.selected = NoAddr
      /\ ice.pairs = none
  <2>1. gen \in Nat /\ NoAddr \in Addrs \cup {NoAddr}
    OBVIOUS
  <2> HIDE DEF ice
  <2>2. ice \in AgentType
    BY <2>1, <1>1, <1>2 DEF AgentType
  <2> QED
    BY <2>2, <1>2
<1>4. NewDtls \in DtlsType
  BY DEF NewDtls, DtlsType
<1>5. t = [gen |-> gen, ice |-> ice, dtls |-> NewDtls, keys |-> NoKeys, nominated |-> NoAddr,
           expected |-> cert, connected |-> FALSE, armed |-> FALSE]
  BY DEF NewTransport
<1> HIDE DEF ice
<1> QED
  BY <1>1, <1>3, <1>4, <1>5 DEF TransportType, NoKeys

-----------------------------------------------------------------------------
(* The credentials *)

\* Fewer legs, fewer credentials.
LEMMA OwnedLess ==
  ASSUME NEW tr, NEW next, NEW b, Owned(tr, next, b),
         NEW after, DOMAIN after \subseteq DOMAIN tr, \A j \in DOMAIN after : after[j].gen = tr[j].gen,
         NEW c, \A k \in Legs : c[k].creds \subseteq b[k].creds
  PROVE  Owned(after, next, c)
BY DEF Owned

\* A browser learns credentials of its own leg, that is up.
LEMMA OwnedMore ==
  ASSUME NEW tr, NEW next, NEW b, Owned(tr, next, b), NEW k \in Legs, k \in DOMAIN tr,
         \A i, j \in DOMAIN tr : tr[i].gen = tr[j].gen => i = j,
         NEW after, DOMAIN after = DOMAIN tr, \A j \in DOMAIN after : after[j].gen = tr[j].gen,
         NEW c, \A d \in c[k].creds \ b[k].creds : d[1] = tr[k].gen,
         \A j \in Legs \ {k} : c[j].creds = b[j].creds
  PROVE  Owned(after, next, c)
<1>1. ASSUME NEW j \in Legs, NEW d \in c[j].creds
      PROVE  d[1] < next /\ \A i \in DOMAIN after : after[i].gen = d[1] => i = j
  <2>1. CASE d \in b[j].creds
    BY <2>1 DEF Owned
  <2>2. CASE d \notin b[j].creds
    <3>1. j = k /\ d[1] = tr[k].gen
      BY <2>2, <1>1
    <3> QED
      BY <3>1 DEF Owned
  <2> QED
    BY <2>1, <2>2
<1>2. \A j \in DOMAIN after : after[j].gen < next
  BY DEF Owned
<1> QED
  BY <1>1, <1>2 DEF Owned

\* A browser learns credentials of its new leg.
LEMMA OwnedNew ==
  ASSUME NEW tr, NEW next \in Int, NEW b, Owned(tr, next, b), NEW k \in Legs, k \notin DOMAIN tr,
         \A j \in DOMAIN tr : tr[j].gen \in Int,
         \A j \in Legs : \A d \in b[j].creds : d[1] \in Int,
         NEW after, DOMAIN after = DOMAIN tr \cup {k},
         after[k].gen = next, \A j \in DOMAIN tr : after[j].gen = tr[j].gen,
         NEW c, \A d \in c[k].creds \ b[k].creds : d[1] = next,
         \A j \in Legs \ {k} : c[j].creds = b[j].creds
  PROVE  Owned(after, next + 1, c)
<1>1. ASSUME NEW j \in Legs, NEW d \in c[j].creds
      PROVE  d[1] < next + 1 /\ \A i \in DOMAIN after : after[i].gen = d[1] => i = j
  <2>1. CASE d \in b[j].creds
    <3>1. d[1] < next /\ d[1] \in Int
      BY <2>1 DEF Owned
    <3>2. ASSUME NEW i \in DOMAIN after, after[i].gen = d[1] PROVE i = j
      <4>1. i # k
        BY <3>1, <3>2
      <4> QED
        BY <4>1, <3>2, <2>1 DEF Owned
    <3> QED
      BY <3>1, <3>2
  <2>2. CASE d \notin b[j].creds
    <3>1. j = k /\ d[1] = next
      BY <2>2, <1>1
    <3>2. ASSUME NEW i \in DOMAIN after, after[i].gen = next PROVE i = k
      BY <3>2 DEF Owned
    <3> QED
      BY <3>1, <3>2
  <2> QED
    BY <2>1, <2>2
<1>2. ASSUME NEW j \in DOMAIN after PROVE after[j].gen < next + 1
  <2>1. CASE j = k
    BY <2>1
  <2>2. CASE j # k
    BY <2>2 DEF Owned
  <2> QED
    BY <2>1, <2>2
<1> QED
  BY <1>1, <1>2 DEF Owned

-----------------------------------------------------------------------------
(* Steps *)

\* A leg goes, and its browser may go with it.
LEMMA DropKeeps ==
  ASSUME LegsInv, LegsTypeOK', NEW k \in DOMAIN transports, Drop(k), UNCHANGED <<nextGen, outlived>>,
         \A j \in Legs : /\ browser'[j].creds \subseteq browser[j].creds
                         /\ j # k => /\ browser'[j].creds = browser[j].creds
                                     /\ browser'[j].ufrag = browser[j].ufrag
                                     /\ vouched[j] \subseteq vouched'[j] /\ mail'[j] = mail[j]
  PROVE  LegsInv'
<1>1. TablesOK(transports', byUfrag', byAddr', outlived')
  BY TablesDropped DEF LegsInv, Drop
<1>2. /\ DOMAIN transports' = DOMAIN transports \ {k}
      /\ \A j \in DOMAIN transports' : transports'[j] = transports[j]
  BY DEF Drop, Without, Restrict
<1>3. Owned(transports', nextGen', browser')
  BY <1>2, OwnedLess DEF LegsInv
<1>4. ASSUME NEW j \in DOMAIN transports'
      PROVE  Sane(j, transports'[j], vouched'[j], browser'[j], mail'[j])
  <2>1. /\ j \in DOMAIN transports /\ j \in Legs /\ j # k /\ transports[j] \in TransportType
        /\ transports'[j] = transports[j]
    BY <1>2 DEF LegsInv, TablesOK
  <2>2. Sane(j, transports[j], vouched[j], browser[j], mail[j]) /\ Alike(transports[j], transports[j])
    BY <2>1, AlikeItself DEF LegsInv
  <2>3. /\ browser'[j].creds = browser[j].creds /\ browser'[j].ufrag = browser[j].ufrag
        /\ vouched[j] \subseteq vouched'[j] /\ mail'[j] = mail[j]
    BY <2>1
  <2>4. Sane(j, transports[j], vouched'[j], browser'[j], mail[j])
    BY ONLY <2>2, <2>3, SaneKeeps
  <2> QED
    BY <2>1, <2>3, <2>4
<1> QED
  BY <1>1, <1>3, <1>4 DEF LegsInv

\* What a keepalive or a record makes of a leg.
LEMMA ApplyKeeps ==
  ASSUME LegsInv, LegsTypeOK', NEW k \in DOMAIN transports, NEW step, Apply(k, step),
         ~Nominates(step), Alike(transports[k], step.t), UNCHANGED <<nextGen, mail, outlived>>,
         \A j \in Legs : /\ browser'[j].creds = browser[j].creds
                         /\ browser'[j].ufrag = browser[j].ufrag
                         /\ vouched[j] \subseteq vouched'[j]
  PROVE  LegsInv'
<1>2. CASE Ends(step)
  <2>1. Drop(k)
    BY <1>2 DEF Apply, Ends
  <2> QED
    BY <2>1, DropKeeps
<1>3. CASE ~Ends(step)
  <2>1. transports' = [transports EXCEPT ![k] = step.t] /\ byAddr' = byAddr /\ byUfrag' = byUfrag
    BY <1>3 DEF Apply, Ends, Nominates
  <2>2. /\ DOMAIN transports' = DOMAIN transports
        /\ transports' = [j \in DOMAIN transports |-> transports'[j]]
        /\ \A j \in DOMAIN transports :
             j \in Legs /\ Alike(transports[j], transports'[j])
    BY <2>1, AlikeItself DEF LegsInv, TablesOK
  <2>3. \A j \in DOMAIN transports : /\ transports'[j] \in TransportType
                                     /\ transports'[j].gen = transports[j].gen
                                     /\ transports'[j].nominated = transports[j].nominated
    BY <2>2 DEF Alike
  <2>4. TablesOK(transports', byUfrag', byAddr', outlived')
    BY <2>1, <2>2, <2>3, TablesSame DEF LegsInv
  <2>5. Owned(transports', nextGen', browser')
    <3>1. Owned(transports, nextGen, browser) /\ nextGen' = nextGen
      BY DEF LegsInv
    <3>2. /\ DOMAIN transports' \subseteq DOMAIN transports
          /\ \A j \in DOMAIN transports' : transports'[j].gen = transports[j].gen
          /\ \A j \in Legs : browser'[j].creds \subseteq browser[j].creds
      BY <2>2, <2>3
    <3>3. Owned(transports', nextGen, browser')
      BY ONLY <3>1, <3>2, OwnedLess
    <3> QED
      BY <3>1, <3>3
  <2>6. ASSUME NEW j \in DOMAIN transports'
        PROVE  Sane(j, transports'[j], vouched'[j], browser'[j], mail'[j])
    <3>1. Sane(j, transports[j], vouched[j], browser[j], mail[j]) /\ Alike(transports[j], transports'[j])
      BY <2>2 DEF LegsInv
    <3>2. /\ browser'[j].creds = browser[j].creds /\ browser'[j].ufrag = browser[j].ufrag
          /\ vouched[j] \subseteq vouched'[j] /\ mail'[j] = mail[j]
      BY <2>2
    <3>3. Sane(j, transports'[j], vouched'[j], browser'[j], mail[j])
      BY ONLY <3>1, <3>2, SaneKeeps
    <3> QED
      BY <3>2, <3>3
  <2> QED
    BY <2>4, <2>5, <2>6 DEF LegsInv
<1> QED
  BY <1>2, <1>3

LEMMA CheckStep ==
  ASSUME LegsInv, NEW b \in Legs, NEW from \in browser[b].paths, NEW cred \in browser[b].creds,
         NEW nominating \in BOOLEAN, Check(b, from, cred, nominating)
  PROVE  LegsInv'
<1>1. /\ from \in Addrs /\ cred[1] \in 1 .. MaxGen /\ cred[2] \in Ufrags
      /\ cred = <<cred[1], cred[2]>>
  BY DEF LegsInv, LegsTypeOK, BrowserType
<1>2. PICK k \in {RouteOf(from, cred[1])} \cap DOMAIN transports :
        \E step \in {OnStun(transports[k], Requests[cred[1]][cred[2]][nominating], from, 0)} :
          /\ Apply(k, step)
          /\ vouched' = IF cred[1] = transports[k].gen /\ k = b
                        THEN [vouched EXCEPT ![k] = @ \cup {<<cred[2], from>>}] ELSE vouched
          /\ Outlived(transports[k], step.t)
          /\ UNCHANGED <<nextGen, members, mail, browser>>
  BY DEF Check
<1>3. PICK step :
        /\ step = OnStun(transports[k], Requests[cred[1]][cred[2]][nominating], from, 0)
        /\ Apply(k, step)
        /\ vouched' = IF cred[1] = transports[k].gen /\ k = b
                      THEN [vouched EXCEPT ![k] = @ \cup {<<cred[2], from>>}] ELSE vouched
        /\ Outlived(transports[k], step.t)
        /\ UNCHANGED <<nextGen, members, mail, browser>>
  BY <1>2
<1>4. /\ k \in DOMAIN transports /\ k = RouteOf(from, cred[1]) /\ k \in Legs
      /\ transports[k] \in TransportType
  BY DEF LegsInv, TablesOK
<1>5. /\ LegsTypeOK'
      /\ \A j \in Legs : vouched[j] \subseteq vouched'[j]
  <2>1. vouched' \in [Legs -> SUBSET (Ufrags \X Addrs)] /\ \A j \in Legs : vouched[j] \subseteq vouched'[j]
    BY <1>1, <1>3, <1>4 DEF LegsInv, LegsTypeOK
  <2> QED
    BY <2>1, <1>3 DEF LegsInv, LegsTypeOK
<1>6. /\ ~Ends(step)
      /\ \/ ~Nominates(step) /\ Alike(transports[k], step.t)
         \/ /\ transports[k].ice.ufrag = cred[1] /\ transports[k].ice.remote \in {NoUfrag, cred[2]}
            /\ Checked(transports[k], step.t, from, Nominates(step))
  <2>1. PICK t \in TransportType : t = transports[k]
    BY <1>4
  <2>2. step = OnStun(t, Requests[cred[1]][cred[2]][nominating], from, 0)
    BY <1>3, <2>1
  <2>3. /\ ~Ends(step)
        /\ \/ ~Nominates(step) /\ Alike(t, step.t)
           \/ /\ t.ice.ufrag = cred[1] /\ t.ice.remote \in {NoUfrag, cred[2]}
              /\ Checked(t, step.t, from, Nominates(step))
    BY <1>1, <2>2, CheckIs
  <2> QED
    BY <2>1, <2>3
<1>7. CASE ~Nominates(step) /\ Alike(transports[k], step.t)
  <2>1. outlived' = outlived
    BY <1>3, <1>7 DEF Outlived, Alike
  <2> QED
    BY <1>3, <1>4, <1>5, <1>7, <2>1, ApplyKeeps
<1>8. CASE /\ transports[k].ice.ufrag = cred[1] /\ transports[k].ice.remote \in {NoUfrag, cred[2]}
           /\ Checked(transports[k], step.t, from, Nominates(step))
  <2>1. Sane(k, transports[k], vouched[k], browser[k], mail[k])
    BY <1>4 DEF LegsInv
  <2>2. cred[1] = transports[k].gen /\ k = b
    BY <1>4, <1>8, <2>1 DEF Sane, LegsInv, Owned
  <2>3. vouched' = [vouched EXCEPT ![k] = @ \cup {<<cred[2], from>>}]
    BY <1>3, <2>2
  <2>4. /\ transports' = [transports EXCEPT ![k] = step.t] /\ byUfrag' = byUfrag
        /\ byAddr' = IF Nominates(step) THEN With(byAddr, step.t.nominated, k) ELSE byAddr
    BY <1>3, <1>6 DEF Apply, Ends, Nominates
  <2>5. /\ DOMAIN transports' = DOMAIN transports
        /\ transports' = [j \in DOMAIN transports |-> transports'[j]]
        /\ transports'[k] = step.t
        /\ \A j \in DOMAIN transports : j # k => transports'[j] = transports[j]
    BY <1>4, <2>4 DEF LegsInv, TablesOK
  <2>6. /\ step.t \in TransportType /\ step.t.gen = transports[k].gen
        /\ step.t.nominated = IF Nominates(step) THEN from ELSE transports[k].nominated
    BY <1>8 DEF Checked
  <2>7. TablesOK(transports', byUfrag', byAddr', outlived')
    <3>1. CASE Nominates(step)
      <4>1. from \in DOMAIN byAddr => byAddr[from] = k
        BY <1>4 DEF RouteOf
      <4>2. /\ outlived' = IF transports[k].nominated \in {NoAddr, from} THEN outlived
                           ELSE outlived \cup {transports[k].nominated}
            /\ byAddr' = With(byAddr, from, k)
        BY <1>3, <2>4, <2>6, <3>1 DEF Outlived
      <4>3. TablesOK(transports, byUfrag, byAddr, outlived) /\ step.t.nominated = from
        BY <2>6, <3>1 DEF LegsInv
      <4>4. TablesOK(transports', byUfrag, byAddr', outlived')
        <5>1. /\ transports' = [transports EXCEPT ![k] = step.t]
              /\ step.t \in TransportType /\ step.t.gen = transports[k].gen
              /\ from \in Addrs /\ k \in DOMAIN transports
          BY <1>1, <1>4, <2>4, <2>6
        <5> QED
          BY ONLY <4>1, <4>2, <4>3, <5>1, TablesNominated
      <4> QED
        BY <2>4, <4>4
    <3>2. CASE ~Nominates(step)
      <4>1. outlived' = outlived /\ byAddr' = byAddr
        BY <1>3, <2>4, <2>6, <3>2 DEF Outlived
      <4>2. \A j \in DOMAIN transports : /\ transports'[j] \in TransportType
                                         /\ transports'[j].gen = transports[j].gen
                                         /\ transports'[j].nominated = transports[j].nominated
        BY <2>5, <2>6, <3>2 DEF LegsInv, TablesOK
      <4>3. TablesOK(transports, byUfrag, byAddr, outlived)
        BY DEF LegsInv
      <4>4. TablesOK(transports', byUfrag, byAddr, outlived)
        BY ONLY <2>5, <4>2, <4>3, TablesSame
      <4> QED
        BY <2>4, <4>1, <4>4
    <3> QED
      BY <3>1, <3>2
  <2>8. Owned(transports', nextGen', browser')
    <3>1. Owned(transports, nextGen, browser) /\ nextGen' = nextGen /\ browser' = browser
      BY <1>3 DEF LegsInv
    <3>2. /\ DOMAIN transports' \subseteq DOMAIN transports
          /\ \A j \in DOMAIN transports' : transports'[j].gen = transports[j].gen
          /\ \A j \in Legs : browser[j].creds \subseteq browser[j].creds
      BY <2>5, <2>6
    <3>3. Owned(transports', nextGen, browser)
      BY ONLY <3>1, <3>2, OwnedLess
    <3> QED
      BY <3>1, <3>3
  <2>9. ASSUME NEW j \in DOMAIN transports'
        PROVE  Sane(j, transports'[j], vouched'[j], browser'[j], mail'[j])
    <3>1. CASE j # k
      <4>1. /\ transports'[j] = transports[j] /\ vouched'[j] = vouched[j]
            /\ j \in DOMAIN transports
        BY <2>3, <2>5, <3>1 DEF LegsInv, TablesOK, LegsTypeOK
      <4> QED
        BY <1>3, <4>1 DEF LegsInv
    <3>2. CASE j = k
      <4>1. /\ vouched[k] \subseteq vouched'[k] /\ <<cred[2], from>> \in vouched'[k]
        BY <1>4, <2>3 DEF LegsInv, LegsTypeOK
      <4>2. transports[k].ice.remote = NoUfrag => cred[2] = browser[k].ufrag
        BY <2>1, <2>2 DEF Sane, Awaiting
      <4>3. Checked(transports[k], step.t, from, Nominates(step)) /\ transports[k].ice.remote \in {NoUfrag, cred[2]}
        BY <1>8
      <4> DEFINE nominates == Nominates(step)
      <4> HIDE DEF nominates
      <4>4. Checked(transports[k], step.t, from, nominates) 
        BY <4>3 DEF nominates
      <4>5. Sane(k, step.t, vouched'[k], browser[k], mail[k])
        BY ONLY <1>1, <1>4, <2>1, <4>1, <4>2, <4>3, <4>4, SaneChecked
      <4> QED
        BY <1>3, <2>5, <3>2, <4>5
    <3> QED
      BY <3>1, <3>2
  <2> QED
    BY <1>5, <2>7, <2>8, <2>9 DEF LegsInv
<1> QED
  BY <1>6, <1>7, <1>8

LEMMA KeepaliveStep ==
  ASSUME LegsInv, NEW from \in Addrs, Keepalive(from)
  PROVE  LegsInv'
<1>1. PICK k \in {RouteOf(from, NoUfrag)} \cap DOMAIN transports :
        /\ Apply(k, OnStun(transports[k], Indication, from, 0))
        /\ UNCHANGED <<nextGen, members, mail, browser, history>>
  BY DEF Keepalive
<1>2. k \in DOMAIN transports /\ transports[k] \in TransportType
  BY DEF LegsInv, TablesOK
<1>3. PICK t \in TransportType : t = transports[k]
  BY <1>2
<1>4. PICK step : step = OnStun(t, Indication, from, 0)
  OBVIOUS
<1>5. ~Nominates(step) /\ Alike(transports[k], step.t)
  BY <1>3, <1>4, KeepaliveIs
<1>6. Apply(k, step) /\ UNCHANGED <<nextGen, mail, browser, vouched, outlived>>
  BY <1>1, <1>3, <1>4 DEF history
<1>7. /\ LegsTypeOK'
      /\ \A j \in Legs : /\ browser'[j].creds = browser[j].creds
                         /\ browser'[j].ufrag = browser[j].ufrag
                         /\ vouched[j] \subseteq vouched'[j]
  BY <1>6 DEF LegsInv, LegsTypeOK
<1> QED
  BY <1>2, <1>5, <1>6, <1>7, ApplyKeeps

\* A browser is reached by a flight.
LEMMA FlightIs ==
  ASSUME NEW b \in BrowserType, NEW gen \in Nat, NEW c, c = [b EXCEPT !.flight = gen]
  PROVE  c \in BrowserType /\ c.creds = b.creds /\ c.ufrag = b.ufrag
BY DEF BrowserType

LEMMA RecordStep ==
  ASSUME LegsInv, NEW b \in Legs, NEW from, NEW lost, NEW record, Record(b, from, record, lost)
  PROVE  LegsInv'
<1>1. PICK k \in {RouteOf(from, NoUfrag)} \cap DOMAIN transports :
        \E step \in {OnDtls(transports[k],
                            IF k = b /\ (record = "hello" \/ browser[b].flight = transports[k].gen)
                            THEN record ELSE "stray", b)} :
          Apply(k, step) /\ Flight(k, step, lost)
  BY DEF Record
<1>2. /\ k \in DOMAIN transports /\ k \in Legs /\ transports[k] \in TransportType
  BY DEF LegsInv, TablesOK
<1>3. PICK r, step : step = OnDtls(transports[k], r, b) /\ Apply(k, step) /\ Flight(k, step, lost)
  BY <1>1
<1>4. ~Nominates(step) /\ Alike(transports[k], step.t)
  BY <1>2, <1>3, RecordIs
<1>5. UNCHANGED <<nextGen, mail, vouched, outlived>>
  BY DEF Record, history
<1>6. /\ browser' \in [Legs -> BrowserType]
      /\ \A j \in Legs : /\ browser'[j].creds = browser[j].creds
                         /\ browser'[j].ufrag = browser[j].ufrag
  <2>1. browser \in [Legs -> BrowserType]
    BY DEF LegsInv, LegsTypeOK
  <2>2. CASE UNCHANGED browser
    BY <2>1, <2>2
  <2>3. CASE browser' = [browser EXCEPT ![k].flight = step.t.gen]
    <3>1. step.t.gen \in Nat
      BY <1>4, LegSetupAssumption DEF Alike, TransportType
    <3>2. /\ [browser[k] EXCEPT !.flight = step.t.gen] \in BrowserType
          /\ [browser[k] EXCEPT !.flight = step.t.gen].creds = browser[k].creds
          /\ [browser[k] EXCEPT !.flight = step.t.gen].ufrag = browser[k].ufrag
      BY <1>2, <2>1, <3>1, FlightIs
    <3> QED
      BY <1>2, <2>1, <2>3, <3>2
  <2> QED
    BY <1>3, <2>2, <2>3 DEF Flight
<1>7. LegsTypeOK' /\ \A j \in Legs : vouched[j] \subseteq vouched'[j]
  BY <1>5, <1>6 DEF LegsInv, LegsTypeOK
<1> QED
  BY <1>2, <1>3, <1>4, <1>5, <1>6, <1>7, ApplyKeeps

LEMMA TickStep ==
  ASSUME LegsInv, NEW due, NEW late, NEW silent, NEW lost, Tick(due, late, silent, lost)
  PROVE  LegsInv'
<1> DEFINE step == [k \in DOMAIN transports |-> OnTimer(transports[k], silent, due, k \in late)]
           sent == {k \in DOMAIN step : \E i \in DOMAIN step[k].events : step[k].events[i].e = "Send"}
<1>1. /\ transports' = [k \in DOMAIN transports |-> step[k].t]
      /\ browser' = [k \in Legs |-> IF ~lost /\ k \in sent
                                    THEN [browser[k] EXCEPT !.flight = transports[k].gen]
                                    ELSE browser[k]]
      /\ UNCHANGED <<byUfrag, byAddr, nextGen, members, mail, history>>
  BY DEF Tick
<1>2. ASSUME NEW k \in DOMAIN transports
      PROVE  /\ k \in Legs /\ transports[k] \in TransportType
             /\ Alike(transports[k], transports'[k])
  <2>1. k \in Legs /\ transports[k] \in TransportType
    BY DEF LegsInv, TablesOK
  <2>2. transports'[k] = OnTimer(transports[k], silent, due, k \in late).t
    BY <1>1
  <2>3. PICK t \in TransportType : t = transports[k]
    BY <2>1
  <2>4. PICK is : is = (k \in late)
    OBVIOUS
  <2>5. Alike(t, OnTimer(t, silent, due, is).t)
    BY TimerIs
  <2> QED
    BY <2>1, <2>2, <2>3, <2>4, <2>5
<1>3. /\ DOMAIN transports' = DOMAIN transports
      /\ transports' = [k \in DOMAIN transports |-> transports'[k]]
  BY <1>1
<1>4. \A k \in DOMAIN transports : /\ transports'[k] \in TransportType
                                   /\ transports'[k].gen = transports[k].gen
                                   /\ transports'[k].nominated = transports[k].nominated
  BY <1>2 DEF Alike
<1>5. DOMAIN step = DOMAIN transports
  OBVIOUS
<1> HIDE DEF step
<1>6. /\ browser' \in [Legs -> BrowserType]
      /\ \A j \in Legs : browser'[j].creds = browser[j].creds /\ browser'[j].ufrag = browser[j].ufrag
  <2>1. browser \in [Legs -> BrowserType]
    BY DEF LegsInv, LegsTypeOK
  <2>2. ASSUME NEW k \in Legs
        PROVE  /\ browser'[k] \in BrowserType
               /\ browser'[k].creds = browser[k].creds /\ browser'[k].ufrag = browser[k].ufrag
    <3>1. CASE browser'[k] = browser[k]
      BY <2>1, <3>1
    <3>2. CASE k \in sent /\ browser'[k] = [browser[k] EXCEPT !.flight = transports[k].gen]
      <4>1. transports[k].gen \in Nat
        BY <1>2, <1>5, <3>2, LegSetupAssumption DEF TransportType
      <4>2. browser[k] \in BrowserType
        BY <2>1
      <4> QED
        BY <3>2, <4>1, <4>2, FlightIs
    <3> QED
      BY <1>1, <3>1, <3>2
  <2>3. browser' = [k \in Legs |-> browser'[k]]
    BY <1>1
  <2> QED
    BY <2>2, <2>3
<1>7. LegsTypeOK'
  BY <1>1, <1>6 DEF LegsInv, LegsTypeOK, history
<1>8. TablesOK(transports', byUfrag', byAddr', outlived')
  <2>1. TablesOK(transports, byUfrag, byAddr, outlived)
    BY DEF LegsInv
  <2>2. TablesOK(transports', byUfrag, byAddr, outlived)
    BY ONLY <1>3, <1>4, <2>1, TablesSame
  <2> QED
    BY <1>1, <2>2 DEF history
<1>9. Owned(transports', nextGen', browser')
  <2>1. Owned(transports, nextGen, browser) /\ nextGen' = nextGen
    BY <1>1 DEF LegsInv
  <2>2. /\ DOMAIN transports' \subseteq DOMAIN transports
        /\ \A j \in DOMAIN transports' : transports'[j].gen = transports[j].gen
        /\ \A j \in Legs : browser'[j].creds \subseteq browser[j].creds
    BY <1>3, <1>4, <1>6
  <2>3. Owned(transports', nextGen, browser')
    BY ONLY <2>1, <2>2, OwnedLess
  <2> QED
    BY <2>1, <2>3
<1>10. ASSUME NEW j \in DOMAIN transports'
       PROVE  Sane(j, transports'[j], vouched'[j], browser'[j], mail'[j])
  <2>1. /\ Sane(j, transports[j], vouched[j], browser[j], mail[j])
        /\ Alike(transports[j], transports'[j]) /\ j \in Legs
    BY <1>2, <1>3 DEF LegsInv
  <2>2. /\ browser'[j].creds = browser[j].creds /\ browser'[j].ufrag = browser[j].ufrag
        /\ vouched[j] \subseteq vouched[j]
    BY <1>6, <2>1
  <2>3. Sane(j, transports'[j], vouched[j], browser'[j], mail[j])
    BY ONLY <2>1, <2>2, SaneKeeps
  <2> QED
    BY <1>1, <2>3 DEF history
<1> QED
  BY <1>7, <1>8, <1>9, <1>10 DEF LegsInv

\* No leg changes: only browsers and what is on its way to them or from them.
LEMMA StillLegs ==
  ASSUME LegsInv, LegsTypeOK', UNCHANGED <<tables, nextGen, outlived>>,
         \A j \in Legs : browser'[j].creds \subseteq browser[j].creds,
         \A j \in DOMAIN transports :
           Sane(j, transports[j], vouched[j], browser[j], mail[j]) =>
             Sane(j, transports[j], vouched'[j], browser'[j], mail'[j])
  PROVE  LegsInv'
<1>1. /\ transports' = transports /\ byUfrag' = byUfrag /\ byAddr' = byAddr
      /\ nextGen' = nextGen /\ outlived' = outlived
  BY DEF tables
<1>2. Owned(transports', nextGen', browser')
  <2>1. Owned(transports, nextGen, browser)
    BY DEF LegsInv
  <2>2. Owned(transports, nextGen, browser')
    BY <2>1 DEF Owned
  <2> QED
    BY <1>1, <2>2
<1>3. TablesOK(transports', byUfrag', byAddr', outlived')
  BY <1>1 DEF LegsInv
<1>4. \A j \in DOMAIN transports' : Sane(j, transports'[j], vouched'[j], browser'[j], mail'[j])
  BY <1>1 DEF LegsInv
<1> QED
  BY <1>2, <1>3, <1>4 DEF LegsInv

\* A description reaches a leg that is up, whose browser may have learned the
\* credentials it answers.
LEMMA DescribedKeeps ==
  ASSUME LegsInv, LegsTypeOK', NEW k \in DOMAIN transports, NEW m \in Ufrags, m = mail[k],
         NEW t, t = SetExpected(SetRemoteUfrag(transports[k], m), k),
         transports' = [transports EXCEPT ![k] = t], Outlived(transports[k], t),
         UNCHANGED <<byUfrag, byAddr, nextGen, vouched>>,
         \A d \in browser'[k].creds \ browser[k].creds : d[1] = transports[k].gen,
         \A j \in Legs \ {k} : browser'[j] = browser[j] /\ mail'[j] = mail[j]
  PROVE  LegsInv'
<1>1. /\ k \in Legs /\ transports[k] \in TransportType
      /\ TablesOK(transports, byUfrag, byAddr, outlived) /\ Owned(transports, nextGen, browser)
  BY DEF LegsInv, TablesOK
<1>2. PICK old \in TransportType : old = transports[k]
  BY <1>1
<1>3. /\ t \in TransportType /\ t.gen = transports[k].gen
      /\ t.nominated \in {NoAddr, transports[k].nominated}
  <2>1. t = SetExpected(SetRemoteUfrag(old, m), k)
    BY <1>2
  <2>2. t \in TransportType /\ t.gen = old.gen /\ t.nominated \in {NoAddr, old.nominated}
    BY <1>1, <2>1, DescribedIs
  <2> QED
    BY <1>2, <2>2
<1>4. /\ DOMAIN transports' = DOMAIN transports
      /\ transports' = [j \in DOMAIN transports |-> transports'[j]]
      /\ \A j \in DOMAIN transports : transports'[j] = IF j = k THEN t ELSE transports[j]
  BY <1>1 DEF TablesOK
<1>5. TablesOK(transports', byUfrag', byAddr', outlived')
  <2>1. CASE t.nominated = transports[k].nominated
    <3>1. outlived' = outlived
      BY <2>1 DEF Outlived
    <3>2. \A j \in DOMAIN transports : /\ transports'[j] \in TransportType
                                       /\ transports'[j].gen = transports[j].gen
                                       /\ transports'[j].nominated = transports[j].nominated
      BY <1>1, <1>3, <1>4, <2>1 DEF TablesOK
    <3>3. TablesOK(transports', byUfrag, byAddr, outlived)
      BY ONLY <1>1, <1>4, <3>2, TablesSame
    <3> QED
      BY <3>1, <3>3
  <2>2. CASE t.nominated = NoAddr
    <3>1. outlived' = IF transports[k].nominated \in {NoAddr, t.nominated} THEN outlived
                      ELSE outlived \cup {transports[k].nominated}
      BY DEF Outlived
    <3>2. transports' = [transports EXCEPT ![k] = t] /\ k \in DOMAIN transports
      OBVIOUS
    <3>3. TablesOK(transports', byUfrag, byAddr, outlived')
      BY ONLY <1>1, <1>3, <2>2, <3>1, <3>2, TablesForgotten
    <3> QED
      BY <3>3
  <2> QED
    BY <1>3, <2>1, <2>2
<1>6. Owned(transports', nextGen', browser')
  <2>1. \A i, j \in DOMAIN transports : transports[i].gen = transports[j].gen => i = j
    BY <1>1 DEF TablesOK
  <2>2. \A j \in DOMAIN transports' : transports'[j].gen = transports[j].gen
    BY <1>3, <1>4
  <2>3. /\ k \in DOMAIN transports /\ \A j \in Legs \ {k} : browser'[j].creds = browser[j].creds
        /\ \A d \in browser'[k].creds \ browser[k].creds : d[1] = transports[k].gen
    OBVIOUS
  <2>4. Owned(transports', nextGen, browser')
    BY ONLY <1>1, <1>4, <2>1, <2>2, <2>3, OwnedMore
  <2> QED
    BY <2>4
<1>7. ASSUME NEW j \in DOMAIN transports'
      PROVE  Sane(j, transports'[j], vouched'[j], browser'[j], mail'[j])
  <2>1. j \in DOMAIN transports /\ j \in Legs /\ Sane(j, transports[j], vouched[j], browser[j], mail[j])
    BY <1>4 DEF LegsInv, TablesOK
  <2>2. CASE j # k
    BY <2>1, <2>2, <1>4
  <2>3. CASE j = k
    <3>1. Sane(k, old, vouched[k], browser[k], m) /\ t = SetExpected(SetRemoteUfrag(old, m), k)
      BY <1>2, <2>1, <2>3
    <3>2. m \in Ufrags
      OBVIOUS
    <3>3. Sane(k, t, vouched[k], browser'[k], mail'[k])
      BY ONLY <1>1, <1>2, <3>1, <3>2, SaneDescribed
    <3> QED
      BY <1>4, <2>1, <2>3, <3>3
  <2> QED
    BY <2>2, <2>3
<1> QED
  BY <1>5, <1>6, <1>7 DEF LegsInv

\* A leg begins, and its browser learns the credentials.
LEMMA CreateKeeps ==
  ASSUME LegsInv, LegsTypeOK', NEW k \in Legs, k \notin DOMAIN transports,
         NEW remote \in 0 .. MaxUfrag, NEW cert \in Legs \cup {NoCert}, Create(k, remote, cert),
         NEW ufrag, browser'[k].creds = browser[k].creds \cup {<<nextGen, ufrag>>},
         \A j \in Legs \ {k} : browser'[j] = browser[j] /\ mail'[j] = mail[j],
         remote = NoUfrag => k \in SubLegs /\ browser'[k].ufrag = ufrag /\ mail'[k] = ufrag
  PROVE  LegsInv'
<1> DEFINE t == NewTransport(nextGen, remote, cert)
<1>1. /\ nextGen \in 1 .. MaxGen /\ nextGen' = nextGen + 1
      /\ transports' = With(transports, k, t) /\ byUfrag' = With(byUfrag, nextGen, k)
      /\ byAddr' = byAddr /\ outlived' = outlived
      /\ \A j \in Legs \ {k} : vouched'[j] = vouched[j]
  BY LegSetupAssumption DEF Create, LegsInv, LegsTypeOK
<1>2. /\ t \in TransportType /\ t.gen = nextGen /\ t.nominated = NoAddr
      /\ t.ice.ufrag = nextGen /\ t.ice.remote = remote /\ t.ice.selected = NoAddr
      /\ DOMAIN t.ice.pairs = {}
  BY <1>1, NewTransportIs
<1> HIDE DEF t
<1>3. TablesOK(transports, byUfrag, byAddr, outlived) /\ Owned(transports, nextGen, browser)
  BY DEF LegsInv
<1>4. /\ DOMAIN transports' = DOMAIN transports \cup {k}
      /\ \A j \in DOMAIN transports : j # k /\ transports'[j] = transports[j]
      /\ transports'[k] = t
  BY <1>1 DEF With
<1>5. TablesOK(transports', byUfrag', byAddr', outlived')
  <2>1. \A j \in DOMAIN transports : transports[j].gen < nextGen
    BY <1>3 DEF Owned
  <2>2. k \in Legs /\ k \notin DOMAIN transports
    OBVIOUS
  <2>3. TablesOK(With(transports, k, t), With(byUfrag, nextGen, k), byAddr, outlived)
    BY ONLY <1>1, <1>2, <1>3, <2>1, <2>2, TablesCreated
  <2> QED
    BY <1>1, <2>3
<1>6. Owned(transports', nextGen', browser')
  <2>1. nextGen \in Int /\ \A j \in DOMAIN transports : transports[j].gen \in Int
    BY <1>1, <1>3, LegSetupAssumption DEF TablesOK, TransportType
  <2>2. \A j \in Legs : \A d \in browser[j].creds : d[1] \in Int
    BY LegSetupAssumption DEF LegsInv, LegsTypeOK, BrowserType
  <2>3. /\ k \in Legs /\ k \notin DOMAIN transports
        /\ DOMAIN transports' = DOMAIN transports \cup {k} /\ transports'[k].gen = nextGen
        /\ \A j \in DOMAIN transports : transports'[j].gen = transports[j].gen
        /\ \A d \in browser'[k].creds \ browser[k].creds : d[1] = nextGen
        /\ \A j \in Legs \ {k} : browser'[j].creds = browser[j].creds
    BY <1>2, <1>4
  <2>4. Owned(transports', nextGen + 1, browser')
    BY ONLY <1>3, <2>1, <2>2, <2>3, OwnedNew
  <2> QED
    BY <1>1, <2>4
<1>7. ASSUME NEW j \in DOMAIN transports'
      PROVE  Sane(j, transports'[j], vouched'[j], browser'[j], mail'[j])
  <2>1. CASE j # k
    <3>1. j \in DOMAIN transports /\ j \in Legs /\ transports'[j] = transports[j]
      BY <1>3, <1>4, <2>1 DEF TablesOK
    <3> QED
      BY <1>1, <2>1, <3>1 DEF LegsInv
  <2>2. CASE j = k
    <3>1. ASSUME remote = NoUfrag PROVE Awaiting(t, vouched'[k], browser'[k], mail'[k])
      <4>1. ASSUME NEW c \in browser'[k].creds, c[1] = nextGen PROVE c[2] = ufrag
        <5>1. c \in browser[k].creds => c[1] < nextGen /\ c[1] \in Int /\ nextGen \in Int
          BY <1>1, <1>3, LegSetupAssumption DEF Owned, LegsInv, LegsTypeOK, BrowserType
        <5> QED
          BY <5>1, <4>1
      <4> QED
        BY <1>2, <3>1, <4>1 DEF Awaiting
    <3> QED
      BY <1>2, <1>4, <2>2, <3>1 DEF Sane
  <2> QED
    BY <2>1, <2>2
<1> QED
  BY <1>5, <1>6, <1>7 DEF LegsInv


LEMMA OnPubOfferStep ==
  ASSUME LegsInv, NEW k \in Legs, OnPubOffer(k)
  PROVE  LegsInv'
<1> DEFINE t == SetExpected(SetRemoteUfrag(transports[k], mail[k]), k)
           named == mail[k]
           gen == IF Up(k) THEN transports[k].gen ELSE nextGen
<1>1. /\ named \in Ufrags /\ named # NoUfrag /\ browser \in [Legs -> BrowserType]
      /\ mail' = [mail EXCEPT ![k] = NoUfrag]
      /\ gen \in 1 .. MaxGen
  <2>1. named \in Ufrags /\ named # NoUfrag
    BY LegSetupAssumption DEF OnPubOffer, LegsInv, LegsTypeOK, Ufrags, NoUfrag
  <2>2. CASE Up(k)
    BY <2>1, <2>2 DEF OnPubOffer, LegsInv, LegsTypeOK, TablesOK, Up, TransportType
  <2>3. CASE ~Up(k)
    <3>1. nextGen <= MaxGen
      BY <2>3 DEF OnPubOffer, Create
    <3>2. nextGen \in 1 .. MaxGen
      BY <3>1, LegSetupAssumption DEF LegsInv, LegsTypeOK
    <3> QED
      BY <2>1, <2>3, <3>2 DEF OnPubOffer, LegsInv, LegsTypeOK
  <2> QED
    BY <2>2, <2>3
<1>2. /\ browser' = [browser EXCEPT ![k].creds = @ \cup {<<gen, named>>}]
      /\ nextGen' \in 1 .. MaxGen + 1
      /\ vouched' \in [Legs -> SUBSET (Ufrags \X Addrs)]
  <2>2. CASE Up(k)
    <3>1. /\ browser' = [browser EXCEPT ![k].creds = @ \cup {<<t.gen, named>>}]
          /\ nextGen' = nextGen /\ vouched' = vouched
      BY <2>2 DEF OnPubOffer
    <3>2. t.gen = gen
      <4>1. PICK old \in TransportType : old = transports[k]
        BY <2>2 DEF LegsInv, TablesOK, Up
      <4>2. SetExpected(SetRemoteUfrag(old, named), k).gen = old.gen
        BY <1>1, DescribedIs
      <4> QED
        BY <2>2, <4>1, <4>2
    <3> HIDE DEF t, gen
    <3> QED
      BY <3>1, <3>2 DEF LegsInv, LegsTypeOK
  <2>3. CASE ~Up(k)
    <3>1. /\ browser' = [browser EXCEPT ![k].creds = @ \cup {<<gen, named>>}]
          /\ nextGen <= MaxGen /\ nextGen' = nextGen + 1 /\ vouched' = [vouched EXCEPT ![k] = {}]
      BY <2>3 DEF OnPubOffer, Create
    <3> HIDE DEF t, gen
    <3> QED
      BY <3>1, LegSetupAssumption DEF LegsInv, LegsTypeOK
  <2> QED
    BY <2>2, <2>3
<1> HIDE DEF gen
<1>3. /\ browser' \in [Legs -> BrowserType]
      /\ browser'[k].creds = browser[k].creds \cup {<<gen, named>>}
      /\ \A j \in Legs \ {k} : browser'[j] = browser[j] /\ mail'[j] = mail[j]
  <2>1. PICK b \in BrowserType : b = browser[k]
    BY <1>1
  <2>0. PICK cred \in (1 .. MaxGen) \X Ufrags : cred = <<gen, named>>
    BY <1>1
  <2>2. PICK c : c = [b EXCEPT !.creds = @ \cup {cred}]
    OBVIOUS

  <2>4. c \in BrowserType /\ c.creds = browser[k].creds \cup {<<gen, named>>}
    <3>1. c \in BrowserType /\ c.creds = b.creds \cup {cred}
      <4>1. b.creds \cup {cred} \in SUBSET ((1 .. MaxGen) \X Ufrags)
        BY DEF BrowserType
      <4> QED
        BY <2>2, <4>1 DEF BrowserType
    <3> QED
      BY <2>0, <2>1, <3>1
  <2>5. browser' = [browser EXCEPT ![k] = c]
    BY <1>2, <2>0, <2>1, <2>2
  <2> QED
    BY <1>1, <2>4, <2>5 DEF LegsInv, LegsTypeOK
<1>4. LegsTypeOK'
  BY <1>1, <1>2, <1>3, LegSetupAssumption DEF LegsInv, LegsTypeOK, NoUfrag
<1>5. CASE Up(k)
  <2>1. /\ transports' = [transports EXCEPT ![k] = t] /\ Outlived(transports[k], t)
        /\ UNCHANGED <<byUfrag, byAddr, nextGen, vouched>>
        /\ gen = transports[k].gen
    BY <1>5 DEF OnPubOffer, gen
  <2>2. /\ t = SetExpected(SetRemoteUfrag(transports[k], named), k) /\ k \in DOMAIN transports
        /\ named = mail[k] /\ LegsInv
        /\ \A d \in browser'[k].creds \ browser[k].creds : d[1] = transports[k].gen
    BY <1>3, <1>5, <2>1 DEF Up
  <2> HIDE DEF t, named
  <2> QED
    BY ONLY <1>1, <1>3, <1>4, <2>1, <2>2, DescribedKeeps
<1>6. CASE ~Up(k)
  <2>1. Create(k, named, k) /\ gen = nextGen /\ k \notin DOMAIN transports
    BY <1>6 DEF OnPubOffer, gen, Up
  <2>2. named \in 0 .. MaxUfrag
    BY LegSetupAssumption DEF LegsInv, LegsTypeOK
  <2> QED
    BY <1>1, <1>3, <1>4, <2>1, <2>2, CreateKeeps
<1> QED
  BY <1>5, <1>6

LEMMA OfferSubscriberStep ==
  ASSUME LegsInv, NEW k \in Legs, OfferSubscriber(k)
  PROVE  LegsInv'
<1>1. /\ k \in SubLegs /\ members' = members /\ browser \in [Legs -> BrowserType]
      /\ browser[k].ufrag \in Ufrags /\ browser[k] \in BrowserType
  BY DEF OfferSubscriber, LegsInv, LegsTypeOK, BrowserType
<1>2. CASE Up(k)
  <2>1. /\ transports[k].ice.remote = NoUfrag
        /\ mail' = [mail EXCEPT ![k] = browser[k].ufrag]
        /\ UNCHANGED <<tables, nextGen, browser, history>>
    BY <1>2 DEF OfferSubscriber
  <2>2. mail' \in [Legs -> 0 .. MaxUfrag]
    <3>1. browser[k].ufrag \in 0 .. MaxUfrag
      BY <1>1, LegSetupAssumption DEF Ufrags
    <3> QED
      BY <2>1, <3>1 DEF LegsInv, LegsTypeOK
  <2>3. LegsTypeOK'
    BY <2>1, <2>2 DEF LegsInv, LegsTypeOK, history
  <2>4. ASSUME NEW j \in DOMAIN transports, Sane(j, transports[j], vouched[j], browser[j], mail[j])
        PROVE  Sane(j, transports[j], vouched'[j], browser'[j], mail'[j])
    <3>1. j \in Legs
      BY DEF LegsInv, TablesOK
    <3>2. mail'[j] \in {mail[j], browser[j].ufrag}
      BY <2>1, <3>1 DEF LegsInv, LegsTypeOK
    <3>3. browser' = browser /\ vouched' = vouched
      BY <2>1 DEF history
    <3> QED
      BY <2>4, <3>2, <3>3 DEF Sane, Awaiting
  <2>5. /\ UNCHANGED <<tables, nextGen, outlived>>
        /\ \A j \in Legs : browser'[j].creds \subseteq browser[j].creds
    BY <2>1 DEF history
  <2> QED
    BY <2>3, <2>4, <2>5, StillLegs
<1>3. CASE ~Up(k)
  <2> DEFINE ufrag == IF browser[k].creds = {} THEN 1 ELSE browser[k].ufrag + 1
  <2>1. /\ ufrag <= MaxUfrag /\ Create(k, NoUfrag, NoCert) /\ mail' = [mail EXCEPT ![k] = ufrag]
        /\ browser' = [browser EXCEPT ![k].ufrag = ufrag, ![k].creds = @ \cup {<<nextGen, ufrag>>}]
    BY <1>3 DEF OfferSubscriber
  <2>2. ufrag \in Ufrags /\ ufrag \in 0 .. MaxUfrag
    BY <1>1, <2>1, LegSetupAssumption DEF Ufrags
  <2> HIDE DEF ufrag
  <2>3. nextGen \in 1 .. MaxGen /\ nextGen' \in 1 .. MaxGen + 1
    BY <2>1, LegSetupAssumption DEF LegsInv, LegsTypeOK, Create
  <2>4. /\ browser' \in [Legs -> BrowserType]
        /\ browser'[k].ufrag = ufrag
        /\ browser'[k].creds = browser[k].creds \cup {<<nextGen, ufrag>>}
        /\ \A j \in Legs \ {k} : browser'[j] = browser[j] /\ mail'[j] = mail[j]
    <3>0. PICK b \in BrowserType : b = browser[k]
      BY <1>1
    <3>1. PICK cred \in (1 .. MaxGen) \X Ufrags : cred = <<nextGen, ufrag>>
      BY <2>2, <2>3
    <3>2. PICK c : c = [b EXCEPT !.ufrag = ufrag, !.creds = @ \cup {cred}]
      OBVIOUS
    <3>3. /\ c \in BrowserType /\ c.ufrag = ufrag
          /\ c.creds = browser[k].creds \cup {<<nextGen, ufrag>>}
      <4>1. c \in BrowserType /\ c.ufrag = ufrag /\ c.creds = b.creds \cup {cred}
        <5>1. b.creds \cup {cred} \in SUBSET ((1 .. MaxGen) \X Ufrags)
          BY DEF BrowserType
        <5> QED
          BY <2>2, <3>2, <5>1 DEF BrowserType
      <4> QED
        BY <3>0, <3>1, <4>1
    <3>4. browser' = [browser EXCEPT ![k] = c]
      BY <2>1, <3>0, <3>1, <3>2
    <3> QED
      <4>1. /\ browser' \in [Legs -> BrowserType] /\ browser'[k] = c
            /\ \A j \in Legs \ {k} : browser'[j] = browser[j]
        BY <1>1, <3>3, <3>4
      <4>2. \A j \in Legs \ {k} : mail'[j] = mail[j]
        BY <2>1 DEF LegsInv, LegsTypeOK
      <4> QED
        BY <3>3, <4>1, <4>2
  <2>5. LegsTypeOK'
    <3>1. mail' \in [Legs -> 0 .. MaxUfrag] /\ vouched' \in [Legs -> SUBSET (Ufrags \X Addrs)]
      BY <2>1, <2>2 DEF LegsInv, LegsTypeOK, Create
    <3> QED
      BY <2>3, <2>4, <3>1 DEF LegsTypeOK
  <2>6. /\ k \notin DOMAIN transports /\ mail'[k] = ufrag
        /\ NoUfrag \in 0 .. MaxUfrag /\ NoCert \in Legs \cup {NoCert}
    BY <1>3, <2>1, LegSetupAssumption DEF LegsInv, LegsTypeOK, Up, NoUfrag
  <2> QED
    BY <1>1, <2>1, <2>4, <2>5, <2>6, CreateKeeps
<1> QED
  BY <1>2, <1>3

LEMMA OnSubAnswerStep ==
  ASSUME LegsInv, NEW k \in Legs, OnSubAnswer(k)
  PROVE  LegsInv'
<1> DEFINE named == mail[k]
           t == SetExpected(SetRemoteUfrag(transports[k], named), k)
<1>1. /\ named \in Ufrags /\ mail' = [mail EXCEPT ![k] = NoUfrag]
      /\ UNCHANGED <<byUfrag, byAddr, nextGen, members, browser, vouched>>
  BY LegSetupAssumption DEF OnSubAnswer, LegsInv, LegsTypeOK, Ufrags, NoUfrag
<1>2. LegsTypeOK' /\ \A j \in Legs \ {k} : browser'[j] = browser[j] /\ mail'[j] = mail[j]
  BY <1>1, LegSetupAssumption DEF LegsInv, LegsTypeOK, NoUfrag
<1>3. CASE Up(k)
  <2>1. /\ transports' = [transports EXCEPT ![k] = t] /\ Outlived(transports[k], t)
        /\ k \in DOMAIN transports /\ browser'[k].creds = browser[k].creds
    BY <1>1, <1>3 DEF OnSubAnswer, Up
  <2> HIDE DEF t
  <2>2. t = SetExpected(SetRemoteUfrag(transports[k], named), k)
    BY DEF t
  <2> QED
    BY <1>1, <1>2, <2>1, <2>2, DescribedKeeps
<1>4. CASE ~Up(k)
  <2>1. UNCHANGED <<tables, nextGen, outlived>>
    BY <1>1, <1>4 DEF OnSubAnswer, tables
  <2>2. ASSUME NEW j \in DOMAIN transports
        PROVE  /\ j \in Legs /\ vouched'[j] = vouched[j]
               /\ browser'[j] = browser[j] /\ mail'[j] = mail[j]
    BY <1>1, <1>2, <1>4 DEF LegsInv, TablesOK, Up
  <2>3. \A j \in Legs : browser'[j].creds \subseteq browser[j].creds
    BY <1>1
  <2> QED
    BY <1>2, <2>1, <2>2, <2>3, StillLegs
<1> QED
  BY <1>3, <1>4

LEMMA ReofferStep ==
  ASSUME LegsInv, NEW k \in Legs, NEW restart \in BOOLEAN, Reoffer(k, restart)
  PROVE  LegsInv'
<1> DEFINE ufrag == IF restart THEN browser[k].ufrag + 1 ELSE browser[k].ufrag
<1>1. /\ k \in PubLegs /\ (restart => browser[k].ufrag < MaxUfrag)
      /\ browser' = [browser EXCEPT ![k].ufrag = ufrag]
      /\ mail' = [mail EXCEPT ![k] = browser'[k].ufrag]
      /\ UNCHANGED <<tables, nextGen, members, history>>
  BY DEF Reoffer
<1>2. browser \in [Legs -> BrowserType] /\ browser[k] \in BrowserType
  BY DEF LegsInv, LegsTypeOK
<1>3. ufrag \in Ufrags /\ ufrag \in 0 .. MaxUfrag
  BY <1>1, <1>2, LegSetupAssumption DEF BrowserType, Ufrags
<1> HIDE DEF ufrag
<1>4. /\ browser' \in [Legs -> BrowserType] /\ browser'[k].ufrag = ufrag
      /\ \A j \in Legs : browser'[j].creds = browser[j].creds
      /\ \A j \in Legs \ {k} : browser'[j] = browser[j]
  <2>1. PICK c : c = [browser[k] EXCEPT !.ufrag = ufrag]
    OBVIOUS
  <2>2. c \in BrowserType /\ c.ufrag = ufrag /\ c.creds = browser[k].creds
    BY <1>2, <1>3, <2>1 DEF BrowserType
  <2>3. browser' = [browser EXCEPT ![k] = c]
    BY <1>1, <2>1
  <2> QED
    BY <1>2, <2>2, <2>3
<1>5. LegsTypeOK' /\ \A j \in Legs \ {k} : mail'[j] = mail[j]
  BY <1>1, <1>3, <1>4 DEF LegsInv, LegsTypeOK, history
<1>6. vouched' = vouched /\ UNCHANGED <<tables, nextGen, outlived>>
  BY <1>1 DEF history
<1>7. ASSUME NEW j \in DOMAIN transports, Sane(j, transports[j], vouched[j], browser[j], mail[j])
      PROVE  Sane(j, transports[j], vouched'[j], browser'[j], mail'[j])
  <2>1. CASE j = k
    <3>1. k \notin SubLegs
      BY <1>1, LegSetupAssumption
    <3> QED
      BY <1>6, <1>7, <2>1, <3>1 DEF Sane
  <2>2. CASE j # k
    <3>1. j \in Legs
      BY DEF LegsInv, TablesOK
    <3> QED
      BY <1>4, <1>5, <1>6, <1>7, <2>2, <3>1
  <2> QED
    BY <2>1, <2>2
<1>8. \A j \in Legs : browser'[j].creds \subseteq browser[j].creds
  BY <1>4
<1> QED
  BY <1>5, <1>6, <1>7, <1>8, StillLegs

\* A browser at the end or before the start.
LEMMA NewBrowserIs ==
  ASSUME NEW paths \in SUBSET Addrs
  PROVE  /\ NewBrowser(paths) \in BrowserType /\ NewBrowser(paths).creds = {}
         /\ NewBrowser(paths).ufrag = 1
<1>1. 1 \in Ufrags /\ NoKeys \in Nat
  BY LegSetupAssumption DEF Ufrags, NoKeys
<1> QED
  BY <1>1 DEF NewBrowser, BrowserType

LEMMA MemberGoneStep ==
  ASSUME LegsInv, NEW k \in Legs, MemberGone(k)
  PROVE  LegsInv'
<1>1. /\ mail' = [mail EXCEPT ![k] = NoUfrag] /\ browser' = [browser EXCEPT ![k] = NewBrowser({})]
      /\ vouched' = [vouched EXCEPT ![k] = {}] /\ UNCHANGED <<nextGen, outlived>>
  BY DEF MemberGone
<1>2. LegsTypeOK'
  BY <1>1, NewBrowserIs, LegSetupAssumption DEF LegsInv, LegsTypeOK, NoUfrag
<1>3. /\ \A j \in Legs : browser'[j].creds \subseteq browser[j].creds
      /\ \A j \in Legs \ {k} : /\ browser'[j] = browser[j] /\ mail'[j] = mail[j]
                               /\ vouched'[j] = vouched[j]
  BY <1>1, NewBrowserIs DEF LegsInv, LegsTypeOK
<1>4. CASE Up(k)
  <2>1. Drop(k) /\ k \in DOMAIN transports
    BY <1>4 DEF MemberGone, Up
  <2> QED
    BY <1>1, <1>2, <1>3, <2>1, DropKeeps
<1>5. CASE ~Up(k)
  <2>1. UNCHANGED <<tables, nextGen, outlived>>
    BY <1>1, <1>5 DEF MemberGone
  <2>2. \A j \in DOMAIN transports : j \in Legs \ {k}
    BY <1>5 DEF LegsInv, TablesOK, Up
  <2> QED
    BY <1>2, <1>3, <2>1, <2>2, StillLegs
<1> QED
  BY <1>4, <1>5

LEMMA LegsInit == Init => LegsInv
<1> SUFFICES ASSUME Init PROVE LegsInv
  OBVIOUS
<1>1. PICK paths \in PathChoices : browser = [k \in Legs |-> NewBrowser(paths[k])]
  BY DEF Init
<1>2. \A k \in Legs : /\ NewBrowser(paths[k]) \in BrowserType /\ NewBrowser(paths[k]).creds = {}
  BY <1>1, NewBrowserIs, LegSetupAssumption
<1>3. LegsTypeOK
  <2>1. browser \in [Legs -> BrowserType]
    BY <1>1, <1>2
  <2>2. mail \in [Legs -> 0 .. MaxUfrag] /\ vouched \in [Legs -> SUBSET (Ufrags \X Addrs)]
    BY LegSetupAssumption DEF Init, NoUfrag
  <2>3. nextGen \in 1 .. MaxGen + 1
    BY LegSetupAssumption DEF Init
  <2> QED
    BY <2>1, <2>2, <2>3 DEF LegsTypeOK
<1>4. /\ DOMAIN transports = {} /\ transports = [k \in DOMAIN transports |-> transports[k]]
      /\ DOMAIN byUfrag = {} /\ byUfrag = [g \in DOMAIN byUfrag |-> byUfrag[g]]
      /\ DOMAIN byAddr = {} /\ byAddr = [a \in DOMAIN byAddr |-> byAddr[a]]
  BY DEF Init
<1>5. TablesOK(transports, byUfrag, byAddr, outlived)
  BY <1>4 DEF TablesOK
<1>6. Owned(transports, nextGen, browser)
  BY <1>1, <1>2, <1>4 DEF Owned
<1> QED
  BY <1>3, <1>4, <1>5, <1>6 DEF LegsInv

LEMMA LegsNext == LegsInv /\ [Next]_vars => LegsInv'
<1> SUFFICES ASSUME LegsInv, [Next]_vars PROVE LegsInv'
  OBVIOUS
<1>1. ASSUME NEW k \in Legs, OnPubOffer(k) PROVE LegsInv'
  BY <1>1, OnPubOfferStep
<1>2. ASSUME NEW k \in Legs, OfferSubscriber(k) PROVE LegsInv'
  BY <1>2, OfferSubscriberStep
<1>3. ASSUME NEW k \in Legs, OnSubAnswer(k) PROVE LegsInv'
  BY <1>3, OnSubAnswerStep
<1>4. ASSUME NEW k \in Legs, MemberGone(k) PROVE LegsInv'
  BY <1>4, MemberGoneStep
<1>5. ASSUME NEW k \in Legs, NEW restart \in BOOLEAN, Reoffer(k, restart) PROVE LegsInv'
  BY <1>5, ReofferStep
<1>6. ASSUME NEW k \in Legs, NEW from \in browser[k].paths, NEW cred \in browser[k].creds,
             NEW nominating \in BOOLEAN, Check(k, from, cred, nominating)
      PROVE  LegsInv'
  BY <1>6, CheckStep
<1>7. ASSUME NEW from \in Addrs, Keepalive(from) PROVE LegsInv'
  BY <1>7, KeepaliveStep
<1>8. ASSUME NEW k \in Legs, NEW from, NEW lost, NEW record, Record(k, from, record, lost)
      PROVE  LegsInv'
  BY <1>8, RecordStep
<1>9. ASSUME NEW due, NEW late, NEW silent, NEW lost, Tick(due, late, silent, lost) PROVE LegsInv'
  BY <1>9, TickStep
<1>10. CASE UNCHANGED vars
  BY <1>10 DEF vars, tables, history, LegsInv, LegsTypeOK
<1> QED
  BY <1>1, <1>2, <1>3, <1>4, <1>5, <1>6, <1>7, <1>8, <1>9, <1>10 DEF Next

-----------------------------------------------------------------------------
(* Theorems *)

\* The legs, the tables and the browsers always fit together.
THEOREM LegsInvariant == Spec => []LegsInv
<1> QED
  BY LegsInit, LegsNext, PTL DEF Spec

\* Every ufrag and every nominated address of a leg that is up leads to it, and
\* no other entry of the tables leads anywhere but those a leg moved away from
\* (insert and drop_transport, apply_events): on_datagram hands no browser's
\* checks to another's leg.
THEOREM RoutesAreExactAlways == Spec => []RoutesAreExact
<1>1. LegsInv => RoutesAreExact
  BY ExactRoutes DEF LegsInv
<1> QED
  BY <1>1, LegsInvariant, PTL

\* The nominated address is one the browser checked with the ufrag of its last
\* description, whatever checks of an earlier ICE session arrive late
\* (set_remote_ufrag, username_valid).
THEOREM NominationIsCurrentAlways == Spec => []NominationIsCurrent
<1>1. LegsInv => NominationIsCurrent
  BY DEF LegsInv, Sane, NominationIsCurrent
<1> QED
  BY <1>1, LegsInvariant, PTL

\* The agent holds no pair for an address that sent it no signed check: a
\* keepalive, which nobody signs, never makes one (on_binding_request,
\* on_binding_indication).
THEOREM PairsAreVouchedAlways == Spec => []PairsAreVouched
<1>1. LegsInv => PairsAreVouched
  BY DEF LegsInv, Sane, Vouches, Ufrags, PairsAreVouched
<1> QED
  BY <1>1, LegsInvariant, PTL
=============================================================================
