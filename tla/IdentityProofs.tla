--------------------------- MODULE IdentityProofs ---------------------------
(***************************************************************************)
(* Proofs about the two numberings of a participant's tracks, for every    *)
(* plan: any number of camera toggles, screen shares and reconnects.       *)
(*                                                                         *)
(* The numberings are not equal in general (an m-line that is never        *)
(* announced shifts the router's numbers).  The theorem says when they     *)
(* are: there is a microphone, a screen is shared only while the camera    *)
(* has been announced, and a share starts only once the m-line of the one  *)
(* before is known to be free.                                             *)
(*                                                                         *)
(* That is not inductive over the two numberings alone.  What is on its    *)
(* way matters: a frame that announces the camera finds the microphone     *)
(* numbered, by the server or by a frame in front of it, and one that      *)
(* announces the screen finds the camera.                                  *)
(***************************************************************************)
EXTENDS TrackIdentity, TLAPS

-----------------------------------------------------------------------------
(* When the two numberings agree *)

\* The capture has a microphone.
MicCaptured == "mic" \in stream

\* The screen is shared only while the camera is, or has been, announced.
CameraBeforeScreen == "screen" \in Range(mlines) => camAnnounced

\* A share starts once the answer has freed the m-line of the one before.
SharesAreSettled == [][~sharing /\ sharing' => settled \/ "stopped" \notin Range(mlines)]_vars

-----------------------------------------------------------------------------
(* The inductive invariant *)

Devices == <<"mic", "cam">>
Shared  == <<"mic", "cam", "screen">>
Stopped == <<"mic", "cam", "stopped">>
Lines == {Devices, Shared, Stopped}

\* The orders in which tracks are numbered, and what one frame announces.
Orders == {<<>>, <<"mic">>, Devices, Shared}
Batches == Orders \cup {<<"cam">>, <<"screen">>}

Frames == [t : {"join", "offer"}, lines : Lines]
            \cup [t : {"tracks"}, pub : Batches, unpub : {{}, {"screen"}}]

IdentityTypeOK ==
  /\ camAnnounced \in BOOLEAN
  /\ mlines \in Lines
  /\ sharing \in BOOLEAN
  /\ settled \in BOOLEAN
  /\ phase \in {"joining", "joined"}
  /\ wire \in Seq(Frames)
  /\ index \in Orders
  /\ midTrack \in Lines \cup {<<>>}

\* What the client believes of its own side.
ClientIsSane ==
  /\ sharing <=> mlines = Shared
  /\ "cam" \in stream => camAnnounced

\* Only what is numbered is published.
PublishedIsNumbered == published \subseteq Range(index)

Says(f, id) == f.t = "tracks" /\ id \in Range(f.pub)

\* A track is numbered, or one of the first n frames of w announces it.
Ready(list, w, id, n) ==
  \/ id \in Range(list)
  \/ \E k \in 1 .. n : Says(w[k], id)

\* Every frame finds numbered what has to come before the tracks it announces.
InOrder(list, w) ==
  \A k \in 1 .. Len(w) : /\ Says(w[k], "cam") => Ready(list, w, "mic", k)
                         /\ Says(w[k], "screen") => Ready(list, w, "cam", k)

\* The join is the only frame of a connection until it is taken; from the
\* response on, whatever the client may announce next finds its predecessor.
PhasesFit ==
  /\ phase = "joining" => \/ Len(wire) = 1 /\ wire[1].t = "join"
                          \/ wire = <<>> /\ index = <<>>
  /\ phase = "joined" => /\ \A k \in 1 .. Len(wire) : wire[k].t # "join"
                         /\ Ready(index, wire, "mic", Len(wire))
                         /\ camAnnounced => Ready(index, wire, "cam", Len(wire))

IdentityInv ==
  /\ IdentityTypeOK
  /\ ClientIsSane
  /\ PublishedIsNumbered
  /\ InOrder(index, wire)
  /\ PhasesFit

-----------------------------------------------------------------------------
(* Ranges of the few sequences there are *)

\* The tracks in each order, batch and offer.
LEMMA RangesOfBatches ==
  /\ Range(<<>>) = {}
  /\ Range(<<"mic">>) = {"mic"}
  /\ Range(<<"cam">>) = {"cam"}
  /\ Range(<<"screen">>) = {"screen"}
  /\ Range(Devices) = {"mic", "cam"}
  /\ Range(Shared) = {"mic", "cam", "screen"}
  /\ Range(Stopped) = {"mic", "cam", "stopped"}
<1>1. Range(<<>>) = {}
  BY DEF Range
<1>2. \A x : Range(<<x>>) = {x}
  BY DEF Range
<1>3. \A x, y : Range(<<x, y>>) = {x, y}
  BY DEF Range
<1>4. \A x, y, z : Range(<<x, y, z>>) = {x, y, z}
  BY DEF Range
<1> QED
  BY <1>1, <1>2, <1>3, <1>4 DEF Devices, Shared, Stopped

\* No batch is longer than three tracks.
LEMMA BatchesAreShort ==
  /\ Len(<<>>) = 0
  /\ \A x : Len(<<x>>) = 1 /\ <<x>>[1] = x
  /\ Len(Devices) = 2 /\ Devices[1] = "mic" /\ Devices[2] = "cam"
  /\ Len(Shared) = 3 /\ Shared[1] = "mic" /\ Shared[2] = "cam" /\ Shared[3] = "screen"
BY DEF Devices, Shared

\* How the orders grow.
LEMMA OrdersGrow ==
  /\ Append(<<>>, "mic") = <<"mic">>
  /\ Append(<<"mic">>, "cam") = Devices
  /\ Append(Devices, "screen") = Shared
<1>1. ASSUME NEW S, NEW s \in Seq(S), NEW t \in Seq(S), Len(s) = Len(t),
             \A i \in 1 .. Len(s) : s[i] = t[i]
      PROVE  s = t
  BY <1>1
<1> DEFINE Ids == {"mic", "cam", "screen"}
<1>2. Append(<<>>, "mic") = <<"mic">>
  OBVIOUS
<1>3. Append(<<"mic">>, "cam") = Devices
  <2>1. /\ Append(<<"mic">>, "cam") \in Seq(Ids) /\ Len(Append(<<"mic">>, "cam")) = 2
        /\ Append(<<"mic">>, "cam")[1] = "mic" /\ Append(<<"mic">>, "cam")[2] = "cam"
    OBVIOUS
  <2>2. Devices \in Seq(Ids)
    BY DEF Devices
  <2> QED
    BY <1>1, <2>1, <2>2, BatchesAreShort
<1>4. Append(Devices, "screen") = Shared
  <2>1. Devices \in Seq(Ids) /\ Shared \in Seq(Ids)
    BY DEF Devices, Shared
  <2>3. ASSUME NEW s \in Seq(Ids), NEW x \in Ids, Len(s) = 2
        PROVE  /\ Append(s, x) \in Seq(Ids) /\ Len(Append(s, x)) = 3
               /\ Append(s, x)[1] = s[1] /\ Append(s, x)[2] = s[2] /\ Append(s, x)[3] = x
    <3>1. /\ Append(s, x) \in Seq(Ids) /\ Len(Append(s, x)) = Len(s) + 1
          /\ \A i \in 1 .. Len(s) : Append(s, x)[i] = s[i]
          /\ Append(s, x)[Len(s) + 1] = x
      OBVIOUS
    <3> QED
      BY <2>3, <3>1
  <2>2. /\ Append(Devices, "screen") \in Seq(Ids) /\ Len(Append(Devices, "screen")) = 3
        /\ Append(Devices, "screen")[1] = "mic" /\ Append(Devices, "screen")[2] = "cam"
        /\ Append(Devices, "screen")[3] = "screen"
    BY <2>1, <2>3, BatchesAreShort
  <2> QED
    BY <1>1, <2>1, <2>2, BatchesAreShort
<1> QED
  BY <1>2, <1>3, <1>4

-----------------------------------------------------------------------------
(* The server's numbering, without recursion *)

\* What the recursive numbering is for the lengths a batch has.
LEMMA NumberedIs ==
  ASSUME NEW list, NEW pub, Len(pub) \in 0 .. 3
  PROVE  /\ Len(pub) = 0 => Numbered(list, pub) = list
         /\ Len(pub) = 1 => Numbered(list, pub) = WithTrack(list, pub[1])
         /\ Len(pub) = 2 => Numbered(list, pub) = WithTrack(WithTrack(list, pub[1]), pub[2])
         /\ Len(pub) = 3 => Numbered(list, pub) =
               WithTrack(WithTrack(WithTrack(list, pub[1]), pub[2]), pub[3])
<1> DEFINE one   == WithTrack(list, pub[1])
           two   == WithTrack(one, pub[2])
           three == WithTrack(two, pub[3])
           steps == [i \in 0 .. Len(pub) |-> IF i = 0 THEN list ELSE IF i = 1 THEN one
                                             ELSE IF i = 2 THEN two ELSE three]
           Is(f) == f = [i \in 0 .. Len(pub) |-> IF i = 0 THEN list
                                                 ELSE WithTrack(f[i - 1], pub[i])]
           after == CHOOSE f : Is(f)
<1>1. Len(pub) \in 0 .. 3
  OBVIOUS
<1>2. Is(steps)
  <2> SUFFICES ASSUME NEW i \in 0 .. Len(pub)
               PROVE  steps[i] = IF i = 0 THEN list ELSE WithTrack(steps[i - 1], pub[i])
    OBVIOUS
  <2>1. i \in {0, 1, 2, 3}
    <3> DEFINE n == Len(pub)
    <3>1. n \in 0 .. 3 /\ i \in 0 .. n
      BY <1>1
    <3> HIDE DEF n
    <3> QED
      BY <3>1
  <2> HIDE DEF one, two, three
  <2>2. CASE i = 0
    BY <2>2
  <2>3. CASE i = 1
    <3>1. steps[1] = one /\ steps[0] = list
      BY <2>3, <1>1
    <3> QED
      BY <3>1, <2>3 DEF one
  <2>4. CASE i = 2
    <3>1. steps[2] = two /\ steps[1] = one
      BY <2>4, <1>1
    <3> QED
      BY <3>1, <2>4 DEF two
  <2>5. CASE i = 3
    <3>1. steps[3] = three /\ steps[2] = two
      BY <2>5, <1>1
    <3> QED
      BY <3>1, <2>5 DEF three
  <2> QED
    BY <2>1, <2>2, <2>3, <2>4, <2>5
<1>3. Is(after)
  <2> HIDE DEF Is
  <2> QED
    BY <1>2
<1>4. Numbered(list, pub) = after[Len(pub)]
  BY DEF Numbered
<1> HIDE DEF after
<1>5. after[0] = list
  BY <1>1, <1>3
<1>6. \A i \in 1 .. Len(pub) : after[i] = WithTrack(after[i - 1], pub[i])
  BY <1>1, <1>3
<1> HIDE DEF Is
<1>7. Len(pub) >= 1 => after[1] = one
  BY <1>1, <1>5, <1>6
<1>8. Len(pub) >= 2 => after[2] = two
  <2> HIDE DEF one
  <2> QED
    BY <1>1, <1>6, <1>7
<1>9. Len(pub) >= 3 => after[3] = three
  <2> HIDE DEF two
  <2> QED
    BY <1>1, <1>6, <1>8
<1> HIDE DEF one, two, three
<1>10. /\ Len(pub) = 0 => Numbered(list, pub) = list
       /\ Len(pub) = 1 => Numbered(list, pub) = one
       /\ Len(pub) = 2 => Numbered(list, pub) = two
       /\ Len(pub) = 3 => Numbered(list, pub) = three
  <2> DEFINE n == Len(pub)
             e == Numbered(list, pub)
  <2>1. /\ n \in 0 .. 3 /\ e = after[n] /\ after[0] = list
        /\ n >= 1 => after[1] = one
        /\ n >= 2 => after[2] = two
        /\ n >= 3 => after[3] = three
    BY <1>1, <1>4, <1>5, <1>7, <1>8, <1>9
  <2> HIDE DEF n, e
  <2>2. (n = 0 => e = list) /\ (n = 1 => e = one) /\ (n = 2 => e = two) /\ (n = 3 => e = three)
    BY <2>1
  <2> QED
    BY <2>2 DEF n, e
<1> QED
  BY <1>10 DEF one, two, three

\* One track that finds its predecessor keeps the order.
LEMMA OneMoreTrack ==
  ASSUME NEW list \in Orders, NEW id \in {"mic", "cam", "screen"}, published \subseteq Range(list),
         id = "cam" => "mic" \in Range(list), id = "screen" => "cam" \in Range(list)
  PROVE  /\ WithTrack(list, id) \in Orders
         /\ Range(WithTrack(list, id)) = Range(list) \cup {id}
<1>1. CASE id \in Range(list)
  BY <1>1 DEF WithTrack
<1>2. CASE id \notin Range(list)
  <2>1. WithTrack(list, id) = Append(list, id)
    BY <1>2 DEF WithTrack
  <2>2. \/ list = <<>> /\ id = "mic"
        \/ list = <<"mic">> /\ id = "cam"
        \/ list = Devices /\ id = "screen"
    BY <1>2, RangesOfBatches DEF Orders
  <2>3. CASE list = <<>> /\ id = "mic"
    BY <2>1, <2>3, OrdersGrow, RangesOfBatches DEF Orders
  <2>4. CASE list = <<"mic">> /\ id = "cam"
    BY <2>1, <2>4, OrdersGrow, RangesOfBatches DEF Orders
  <2>5. CASE list = Devices /\ id = "screen"
    BY <2>1, <2>5, OrdersGrow, RangesOfBatches DEF Orders
  <2> QED
    BY <2>2, <2>3, <2>4, <2>5
<1> QED
  BY <1>1, <1>2

\* A batch that finds its predecessors keeps the order, and all of it is
\* numbered then.
LEMMA NumberedKeepsOrder ==
  ASSUME NEW list \in Orders, NEW pub \in Batches, published \subseteq Range(list),
         "cam" \in Range(pub) => "mic" \in Range(list) \cup Range(pub),
         "screen" \in Range(pub) => "cam" \in Range(list) \cup Range(pub)
  PROVE  /\ Numbered(list, pub) \in Orders
         /\ Range(Numbered(list, pub)) = Range(list) \cup Range(pub)
<1> DEFINE one   == WithTrack(list, pub[1])
           two   == WithTrack(one, pub[2])
           three == WithTrack(two, pub[3])
<1>2. CASE pub = <<>>
  <2>1. Len(pub) = 0
    BY <1>2, BatchesAreShort
  <2>2. Numbered(list, pub) = list
    BY <2>1, NumberedIs
  <2> QED
    BY <1>2, <2>2, RangesOfBatches
<1>3. ASSUME NEW id \in {"mic", "cam", "screen"}, pub = <<id>>
      PROVE  /\ Numbered(list, pub) \in Orders
             /\ Range(Numbered(list, pub)) = Range(list) \cup Range(pub)
  <2>1. Len(pub) = 1 /\ pub[1] = id
    BY <1>3, BatchesAreShort
  <2>2. Numbered(list, pub) = WithTrack(list, id)
    BY <2>1, NumberedIs
  <2>3. Range(pub) = {id}
    BY <1>3, RangesOfBatches
  <2> QED
    BY <2>2, <2>3, OneMoreTrack
<1>4. ASSUME pub \in {Devices, Shared}
      PROVE  /\ one \in Orders /\ Range(one) = Range(list) \cup {"mic"}
             /\ two \in Orders /\ Range(two) = Range(list) \cup {"mic", "cam"}
  <2>1. pub[1] = "mic" /\ pub[2] = "cam"
    BY <1>4, BatchesAreShort
  <2>2. one \in Orders /\ Range(one) = Range(list) \cup {"mic"}
    BY <2>1, OneMoreTrack
  <2> HIDE DEF one
  <2>3. two \in Orders /\ Range(two) = Range(one) \cup {"cam"}
    BY <2>1, <2>2, OneMoreTrack
  <2> QED
    BY <2>2, <2>3
<1>5. CASE pub = Devices
  <2>1. Len(pub) = 2
    BY <1>5, BatchesAreShort
  <2>2. Numbered(list, pub) = two
    BY <2>1, NumberedIs
  <2> HIDE DEF two
  <2> QED
    BY <1>4, <1>5, <2>2, RangesOfBatches
<1>6. CASE pub = Shared
  <2>1. Len(pub) = 3 /\ pub[3] = "screen"
    BY <1>6, BatchesAreShort
  <2>2. Numbered(list, pub) = three
    BY <2>1, NumberedIs
  <2>3. two \in Orders /\ Range(two) = Range(list) \cup {"mic", "cam"}
    BY <1>4, <1>6
  <2> HIDE DEF two
  <2>4. three \in Orders /\ Range(three) = Range(two) \cup {"screen"}
    BY <2>1, <2>3, OneMoreTrack
  <2> HIDE DEF three
  <2> QED
    BY <1>6, <2>2, <2>3, <2>4, RangesOfBatches
<1> QED
  BY <1>2, <1>3, <1>5, <1>6 DEF Batches, Orders
-----------------------------------------------------------------------------
(* Frames on their way *)

\* What a frame carries, by its type.
LEMMA FramesCarry ==
  /\ \A f \in Frames : /\ f.t \in {"join", "offer", "tracks"}
                       /\ f.t = "tracks" => f.pub \in Batches /\ f.unpub \in {{}, {"screen"}}
                       /\ f.t # "tracks" => f.lines \in Lines
  /\ \A lines \in Lines : /\ Offer(lines) \in Frames /\ Offer(lines).t = "offer"
                         /\ [t |-> "join", lines |-> lines] \in Frames
  /\ \A pub \in Batches, unpub \in {{}, {"screen"}} :
        Tracks(pub, unpub) \in Frames /\ Tracks(pub, unpub).t = "tracks" /\ Tracks(pub, unpub).pub = pub
BY DEF Frames, Offer, Tracks

\* Appending a frame that finds its predecessors.
LEMMA AppendKeepsOrder ==
  ASSUME NEW list, NEW w \in Seq(Frames), NEW f \in Frames, InOrder(list, w),
         Says(f, "cam") => Says(f, "mic") \/ Ready(list, w, "mic", Len(w)),
         Says(f, "screen") => Says(f, "cam") \/ Ready(list, w, "cam", Len(w))
  PROVE  LET v == Append(w, f)
         IN  /\ v \in Seq(Frames)
             /\ Len(v) = Len(w) + 1
             /\ v[Len(v)] = f
             /\ \A k \in 1 .. Len(w) : v[k] = w[k]
             /\ InOrder(list, v)
             /\ \A id : Ready(list, w, id, Len(w)) \/ Says(f, id) => Ready(list, v, id, Len(v))
<1> DEFINE v == Append(w, f)
           n == Len(w)
<1>1. /\ v \in Seq(Frames) /\ Len(v) = n + 1 /\ n \in Nat /\ v[n + 1] = f
      /\ \A k \in 1 .. n : v[k] = w[k]
  OBVIOUS
<1> HIDE DEF v
<1>2. \A id : \A k \in 1 .. n : Ready(list, v, id, k) <=> Ready(list, w, id, k)
  <2> HIDE DEF n
  <2> QED
    BY <1>1 DEF Ready
<1>3. \A id : Ready(list, w, id, n) \/ Says(f, id) => Ready(list, v, id, n + 1)
  <2> SUFFICES ASSUME NEW id, Ready(list, w, id, n) \/ Says(f, id)
               PROVE  Ready(list, v, id, n + 1)
    OBVIOUS
  <2> HIDE DEF n
  <2>1. CASE Says(f, id)
    <3>1. n + 1 \in 1 .. n + 1 /\ Says(v[n + 1], id)
      BY <1>1, <2>1
    <3> QED
      BY <3>1 DEF Ready
  <2>2. CASE Ready(list, w, id, n)
    <3>1. CASE id \in Range(list)
      BY <3>1 DEF Ready
    <3>2. CASE \E k \in 1 .. n : Says(w[k], id)
      <4>1. PICK k \in 1 .. n : Says(w[k], id)
        BY <3>2
      <4>2. k \in 1 .. n + 1 /\ Says(v[k], id)
        BY <1>1, <4>1
      <4> QED
        BY <4>2 DEF Ready
    <3> QED
      BY <2>2, <3>1, <3>2 DEF Ready
  <2> QED
    BY <2>1, <2>2
<1>4. InOrder(list, v)
  <2> SUFFICES ASSUME NEW k \in 1 .. n + 1
               PROVE  /\ Says(v[k], "cam") => Ready(list, v, "mic", k)
                      /\ Says(v[k], "screen") => Ready(list, v, "cam", k)
    BY <1>1 DEF InOrder
  <2>1. CASE k \in 1 .. n
    <3>1. /\ Says(w[k], "cam") => Ready(list, w, "mic", k)
          /\ Says(w[k], "screen") => Ready(list, w, "cam", k)
      BY <2>1 DEF InOrder
    <3> QED
      BY <1>1, <1>2, <2>1, <3>1
  <2>2. CASE k = n + 1
    BY <1>1, <1>3, <2>2
  <2>3. k \in 1 .. n \/ k = n + 1
    BY <1>1
  <2> QED
    BY <2>1, <2>2, <2>3
<1> QED
  BY <1>1, <1>3, <1>4 DEF v

\* Taking the first frame, when what it announces is numbered afterwards.
LEMMA TakeKeepsOrder ==
  ASSUME NEW list, NEW after, NEW w \in Seq(Frames), w # <<>>, InOrder(list, w),
         Range(list) \subseteq Range(after),
         \A id : Says(Head(w), id) => id \in Range(after)
  PROVE  /\ Tail(w) \in Seq(Frames)
         /\ Len(Tail(w)) \in Nat /\ Len(w) = Len(Tail(w)) + 1
         /\ \A k \in 1 .. Len(Tail(w)) : Tail(w)[k] = w[k + 1]
         /\ InOrder(after, Tail(w))
         /\ \A id : Ready(list, w, id, Len(w)) => Ready(after, Tail(w), id, Len(Tail(w)))
<1> DEFINE v == Tail(w)
           n == Len(v)
<1>1. /\ v \in Seq(Frames) /\ n \in Nat /\ Len(w) = n + 1 /\ Head(w) = w[1]
      /\ \A k \in 1 .. n : v[k] = w[k + 1]
  OBVIOUS
<1> HIDE DEF v, n
<1>2. ASSUME NEW id, NEW k \in 0 .. n, Ready(list, w, id, k + 1)
      PROVE  Ready(after, v, id, k)
  <2>1. CASE id \in Range(after)
    BY <2>1 DEF Ready
  <2>2. CASE id \notin Range(after)
    <3>1. PICK i \in 1 .. k + 1 : Says(w[i], id)
      BY <1>2, <2>2 DEF Ready
    <3>2. i # 1
      BY <1>1, <2>2, <3>1
    <3>3. i - 1 \in 1 .. k /\ i - 1 \in 1 .. n /\ (i - 1) + 1 = i
      BY <1>1, <3>2
    <3>4. Says(v[i - 1], id)
      BY <1>1, <3>1, <3>3
    <3> QED
      BY <3>3, <3>4 DEF Ready
  <2> QED
    BY <2>1, <2>2
<1>3. InOrder(after, v)
  <2> SUFFICES ASSUME NEW k \in 1 .. n
               PROVE  /\ Says(v[k], "cam") => Ready(after, v, "mic", k)
                      /\ Says(v[k], "screen") => Ready(after, v, "cam", k)
    BY DEF InOrder, n
  <2>1. k + 1 \in 1 .. Len(w) /\ k \in 0 .. n /\ v[k] = w[k + 1]
    BY <1>1
  <2>2. /\ Says(w[k + 1], "cam") => Ready(list, w, "mic", k + 1)
        /\ Says(w[k + 1], "screen") => Ready(list, w, "cam", k + 1)
    BY <2>1 DEF InOrder
  <2> QED
    BY <1>2, <2>1, <2>2
<1>4. \A id : Ready(list, w, id, Len(w)) => Ready(after, v, id, n)
  <2>1. n \in 0 .. n
    BY <1>1
  <2> QED
    BY <1>1, <1>2, <2>1
<1> QED
  BY <1>1, <1>3, <1>4 DEF v, n
-----------------------------------------------------------------------------
(* The steps *)

\* The batch of a join starts with the microphone, and has the camera when it
\* is announced.
LEMMA AnnouncementsAre ==
  ASSUME NEW s, NEW announced, NEW lines, "mic" \in s, "screen" \in Range(lines) => announced
  PROVE  /\ Announcements(s, announced, lines) \in {<<"mic">>, Devices, Shared}
         /\ announced => Announcements(s, announced, lines) \in {Devices, Shared}
<1> DEFINE cams == "cam" \in s \/ announced
           screens == "screen" \in Range(lines)
<1>1. Announcements(s, announced, lines) = Push(Push(Push(<<>>, "mic" \in s, "mic"), cams, "cam"), screens, "screen")
  BY Zenon DEF Announcements
<1>2. Push(<<>>, "mic" \in s, "mic") = <<"mic">>
  BY OrdersGrow DEF Push
<1>3. Push(<<"mic">>, cams, "cam") = IF cams THEN Devices ELSE <<"mic">>
  BY OrdersGrow DEF Push
<1>4. CASE ~cams
  <2>1. ~announced /\ ~screens
    BY <1>4
  <2>2. Announcements(s, announced, lines) = <<"mic">>
    BY <1>1, <1>2, <1>3, <1>4, <2>1 DEF Push
  <2> QED
    BY <2>1, <2>2
<1>5. CASE cams
  <2>1. Announcements(s, announced, lines) = Push(Devices, screens, "screen")
    BY <1>1, <1>2, <1>3, <1>5
  <2>2. Push(Devices, screens, "screen") \in {Devices, Shared}
    BY OrdersGrow DEF Push
  <2> QED
    BY <2>1, <2>2
<1> QED
  BY <1>4, <1>5

\* The join carries the two transceivers every connection has.
LEMMA IdentityInitInv == IdentityInit => IdentityInv
<1> SUFFICES ASSUME IdentityInit PROVE IdentityInv
  OBVIOUS
<1> DEFINE join == [t |-> "join", lines |-> PublisherLines]
<1>1. /\ PublisherLines = Devices /\ mlines = Devices /\ Devices # Shared
      /\ join \in Frames /\ join.t = "join" /\ wire = <<join>>
  <2>1. PublisherLines = Devices /\ Devices \in Lines
    BY DEF PublisherLines, Devices, Lines
  <2>2. Devices # Shared
    BY RangesOfBatches
  <2> QED
    BY <2>1, <2>2, FramesCarry DEF IdentityInit
<1> HIDE DEF join
<1>2. wire \in Seq(Frames) /\ Len(wire) = 1 /\ wire[1] = join
  BY <1>1
<1>3. IdentityTypeOK
  <2>1. camAnnounced \in BOOLEAN
    <3>1. camAnnounced = ("cam" \in stream)
      BY DEF IdentityInit
    <3>2. CASE "cam" \in stream
      BY <3>1, <3>2
    <3>3. CASE "cam" \notin stream
      BY <3>1, <3>3
    <3> QED
      BY <3>2, <3>3
  <2>2. sharing = FALSE /\ settled = FALSE /\ phase = "joining" /\ index = <<>> /\ midTrack = <<>>
    BY DEF IdentityInit
  <2>3. <<>> \in Orders /\ Devices \in Lines
    BY DEF Orders, Lines
  <2> QED
    BY <1>1, <1>2, <2>1, <2>2, <2>3 DEF IdentityTypeOK
<1>4. ClientIsSane
  BY <1>1 DEF IdentityInit, ClientIsSane
<1>5. PublishedIsNumbered
  BY DEF IdentityInit, PublishedIsNumbered
<1>6. InOrder(index, wire)
  BY <1>1, <1>2 DEF InOrder, Says
<1>7. PhasesFit
  BY <1>1, <1>2 DEF IdentityInit, PhasesFit
<1> QED
  BY <1>3, <1>4, <1>5, <1>6, <1>7 DEF IdentityInv

\* Frames of a joined connection: one more that finds its predecessors, and
\* is no join, keeps everything said about the wire.
LEMMA JoinedSends ==
  ASSUME NEW list, NEW w \in Seq(Frames), NEW f \in Frames, f.t # "join", InOrder(list, w),
         \A k \in 1 .. Len(w) : w[k].t # "join",
         Says(f, "cam") => Says(f, "mic") \/ Ready(list, w, "mic", Len(w)),
         Says(f, "screen") => Says(f, "cam") \/ Ready(list, w, "cam", Len(w))
  PROVE  LET v == Append(w, f)
         IN  /\ v \in Seq(Frames)
             /\ InOrder(list, v)
             /\ \A k \in 1 .. Len(v) : v[k].t # "join"
             /\ \A id : Ready(list, w, id, Len(w)) \/ Says(f, id) => Ready(list, v, id, Len(v))
<1> DEFINE v == Append(w, f)
<1>1. /\ v \in Seq(Frames) /\ Len(v) = Len(w) + 1 /\ v[Len(v)] = f /\ InOrder(list, v)
      /\ \A k \in 1 .. Len(w) : v[k] = w[k]
      /\ \A id : Ready(list, w, id, Len(w)) \/ Says(f, id) => Ready(list, v, id, Len(v))
  BY AppendKeepsOrder
<1>2. Len(w) \in Nat
  OBVIOUS
<1> HIDE DEF v
<1>3. \A k \in 1 .. Len(v) : v[k].t # "join"
  <2> SUFFICES ASSUME NEW k \in 1 .. Len(v) PROVE v[k].t # "join"
    OBVIOUS
  <2>1. k \in 1 .. Len(w) \/ k = Len(v)
    BY <1>1, <1>2
  <2> QED
    BY <1>1, <2>1
<1> QED
  BY <1>1, <1>3 DEF v

\* The socket is empty when the response arrives: the batch comes first.
LEMMA AnnounceInv ==
  ASSUME IdentityInv, Announce, MicCaptured, CameraBeforeScreen
  PROVE  IdentityInv'
<1> DEFINE all == Announcements(stream, camAnnounced, mlines)
           f   == Tracks(all, {})
<1>1. wire = <<>> /\ index = <<>>
  <2>1. phase = "joining" /\ \A i \in DOMAIN wire : wire[i].t # "join"
    BY DEF Announce
  <2>2. Len(wire) = 1 => 1 \in DOMAIN wire
    BY DEF IdentityInv, IdentityTypeOK
  <2> QED
    BY <2>1, <2>2 DEF IdentityInv, PhasesFit
<1>2. /\ all \in {<<"mic">>, Devices, Shared}
      /\ camAnnounced => all \in {Devices, Shared}
  BY AnnouncementsAre DEF MicCaptured, CameraBeforeScreen
<1>3. all # <<>>
  BY <1>2, RangesOfBatches
<1>4. /\ phase' = "joined" /\ wire' = Append(wire, f)
      /\ UNCHANGED <<stream, camAnnounced, mlines, sharing, settled, published, index, midTrack>>
  BY <1>3 DEF Announce, server
<1> HIDE DEF all
<1>5. /\ f \in Frames /\ f.t = "tracks" /\ f.pub = all
  BY <1>2, FramesCarry DEF Batches, Orders
<1>6. /\ Says(f, "mic")
      /\ Says(f, "screen") => Says(f, "cam")
      /\ camAnnounced => Says(f, "cam")
  BY <1>2, <1>5, RangesOfBatches DEF Says
<1> HIDE DEF f
<1>7. wire \in Seq(Frames) /\ Len(wire) = 0 /\ InOrder(index, wire)
  BY <1>1 DEF IdentityInv
<1>8. /\ wire' \in Seq(Frames) /\ InOrder(index, wire')
      /\ \A k \in 1 .. Len(wire') : wire'[k].t # "join"
      /\ \A id : Says(f, id) => Ready(index, wire', id, Len(wire'))
  <2>1. \A k \in 1 .. Len(wire) : wire[k].t # "join"
    BY <1>7
  <2> QED
    BY <1>4, <1>5, <1>6, <1>7, <2>1, JoinedSends
<1>9. IdentityTypeOK'
  BY <1>4, <1>8 DEF IdentityInv, IdentityTypeOK
<1>10. ClientIsSane' /\ PublishedIsNumbered'
  BY <1>4 DEF IdentityInv, ClientIsSane, PublishedIsNumbered
<1>11. PhasesFit'
  BY <1>4, <1>6, <1>8 DEF PhasesFit
<1> QED
  BY <1>4, <1>8, <1>9, <1>10, <1>11 DEF IdentityInv

\* A camera that is sent again has been announced, or follows the batch.
LEMMA ToggleCameraInv ==
  ASSUME IdentityInv, ToggleCamera
  PROVE  IdentityInv'
<1> DEFINE f == Tracks(<<"cam">>, {})
<1>1. /\ phase = "joined" /\ phase' = "joined"
      /\ UNCHANGED <<mlines, sharing, settled, published, index, midTrack>>
  BY DEF ToggleCamera, server
<1>2. camAnnounced' = TRUE
  BY DEF ToggleCamera, IdentityInv, ClientIsSane, IdentityTypeOK
<1>3. wire' = Append(wire, f)
  BY <1>2 DEF ToggleCamera
<1>4. /\ f \in Frames /\ f.t = "tracks" /\ f.pub = <<"cam">>
  BY FramesCarry DEF Batches
<1>5. /\ Says(f, "cam") /\ ~Says(f, "screen")
  BY <1>4, RangesOfBatches DEF Says
<1> HIDE DEF f
<1>6. /\ wire \in Seq(Frames) /\ InOrder(index, wire)
      /\ \A k \in 1 .. Len(wire) : wire[k].t # "join"
      /\ Ready(index, wire, "mic", Len(wire))
  BY <1>1 DEF IdentityInv, IdentityTypeOK, PhasesFit
<1>7. /\ wire' \in Seq(Frames) /\ InOrder(index, wire')
      /\ \A k \in 1 .. Len(wire') : wire'[k].t # "join"
      /\ \A id : Ready(index, wire, id, Len(wire)) \/ Says(f, id) => Ready(index, wire', id, Len(wire'))
  BY <1>3, <1>4, <1>5, <1>6, JoinedSends
<1>8. IdentityTypeOK'
  BY <1>1, <1>2, <1>7 DEF IdentityInv, IdentityTypeOK
<1>9. ClientIsSane' /\ PublishedIsNumbered'
  BY <1>1, <1>2 DEF IdentityInv, ClientIsSane, PublishedIsNumbered
<1>10. PhasesFit'
  BY <1>1, <1>5, <1>6, <1>7 DEF PhasesFit
<1> QED
  BY <1>1, <1>7, <1>8, <1>9, <1>10 DEF IdentityInv
\* The offer and the announcement of a screen share travel together.
LEMMA OfferAndTracksSent ==
  ASSUME NEW list, NEW w \in Seq(Frames), NEW o \in Frames, NEW f \in Frames,
         o.t = "offer", f.t = "tracks", InOrder(list, w), \A k \in 1 .. Len(w) : w[k].t # "join",
         ~Says(f, "cam"), Says(f, "screen") => Ready(list, w, "cam", Len(w))
  PROVE  LET v == w \o <<o, f>>
         IN  /\ v \in Seq(Frames)
             /\ InOrder(list, v)
             /\ \A k \in 1 .. Len(v) : v[k].t # "join"
             /\ \A id : Ready(list, w, id, Len(w)) => Ready(list, v, id, Len(v))
<1> DEFINE u == Append(w, o)
           v == w \o <<o, f>>
<1>1. \A id : ~Says(o, id)
  BY DEF Says
<1>2. v = Append(u, f)
  <2>1. \A S : \A q \in Seq(S) : \A x \in S, y \in S : q \o <<x, y>> = Append(Append(q, x), y)
    OBVIOUS
  <2> QED
    BY <2>1
<1>3. /\ u \in Seq(Frames) /\ InOrder(list, u)
      /\ \A k \in 1 .. Len(u) : u[k].t # "join"
      /\ \A id : Ready(list, w, id, Len(w)) => Ready(list, u, id, Len(u))
  BY <1>1, JoinedSends
<1> HIDE DEF u
<1>4. Says(f, "screen") => Ready(list, u, "cam", Len(u))
  BY <1>3
<1>5. /\ Append(u, f) \in Seq(Frames)
      /\ InOrder(list, Append(u, f))
      /\ \A k \in 1 .. Len(Append(u, f)) : Append(u, f)[k].t # "join"
      /\ \A id : Ready(list, u, id, Len(u)) \/ Says(f, id) => Ready(list, Append(u, f), id, Len(Append(u, f)))
  <2>1. f.t # "join"
    OBVIOUS
  <2> QED
    BY <1>3, <1>4, <2>1, JoinedSends
<1> QED
  BY <1>2, <1>3, <1>5

\* The third m-line is new or recycled; the camera has been announced.
LEMMA StartScreenShareInv ==
  ASSUME IdentityInv, StartScreenShare, CameraBeforeScreen',
         settled \/ "stopped" \notin Range(mlines)
  PROVE  IdentityInv'
<1>1. /\ phase = "joined" /\ phase' = "joined" /\ ~sharing /\ sharing' = TRUE
      /\ settled' = FALSE /\ mlines' = WithScreen(mlines)
      /\ wire' = wire \o <<Offer(mlines'), Tracks(<<"screen">>, {})>>
      /\ UNCHANGED <<stream, camAnnounced, published, index, midTrack>>
  BY DEF StartScreenShare, server
<1>2. mlines' = Shared
  <2>1. mlines \in {Devices, Stopped}
    BY <1>1 DEF IdentityInv, IdentityTypeOK, ClientIsSane, Lines
  <2>2. CASE mlines = Devices
    <3>1. "stopped" \notin Range(mlines)
      BY <2>2, RangesOfBatches
    <3> QED
      BY <1>1, <2>2, <3>1, OrdersGrow DEF WithScreen
  <2>3. CASE mlines = Stopped
    <3>1. "stopped" \in Range(mlines) /\ settled
      BY <2>3, RangesOfBatches
    <3>2. DOMAIN Stopped = 1 .. 3 /\ Stopped[1] = "mic" /\ Stopped[2] = "cam" /\ Stopped[3] = "stopped"
      BY DEF Stopped
    <3>3. (CHOOSE i \in DOMAIN Stopped : Stopped[i] = "stopped") = 3
      <4>1. \A i \in DOMAIN Stopped : Stopped[i] = "stopped" => i = 3
        BY <3>2
      <4>2. 3 \in DOMAIN Stopped /\ Stopped[3] = "stopped"
        BY <3>2
      <4> QED
        BY <4>1, <4>2
    <3>4. mlines' = [Stopped EXCEPT ![3] = "screen"]
      BY <1>1, <2>3, <3>1, <3>3 DEF WithScreen
    <3>5. [Stopped EXCEPT ![3] = "screen"] = Shared
      BY DEF Stopped, Shared
    <3> QED
      BY <3>4, <3>5
  <2> QED
    BY <2>1, <2>2, <2>3
<1>3. camAnnounced
  <2>1. "screen" \in Range(mlines')
    BY <1>2, RangesOfBatches
  <2> QED
    BY <1>1, <2>1 DEF CameraBeforeScreen
<1>4. /\ wire \in Seq(Frames) /\ InOrder(index, wire)
      /\ \A k \in 1 .. Len(wire) : wire[k].t # "join"
      /\ Ready(index, wire, "mic", Len(wire)) /\ Ready(index, wire, "cam", Len(wire))
  BY <1>1, <1>3 DEF IdentityInv, IdentityTypeOK, PhasesFit
<1>5. mlines' \in Lines
  BY <1>2 DEF Lines
<1>6. /\ wire' \in Seq(Frames) /\ InOrder(index, wire')
      /\ \A k \in 1 .. Len(wire') : wire'[k].t # "join"
      /\ \A id : Ready(index, wire, id, Len(wire)) => Ready(index, wire', id, Len(wire'))
  <2> DEFINE o == Offer(mlines')
             f == Tracks(<<"screen">>, {})
             next == wire'
  <2>1. o \in Frames /\ o.t = "offer"
    BY <1>5, FramesCarry
  <2>2. f \in Frames /\ f.t = "tracks" /\ f.pub = <<"screen">>
    BY FramesCarry DEF Batches, Orders
  <2>3. ~Says(f, "cam") /\ (Says(f, "screen") => Ready(index, wire, "cam", Len(wire)))
    BY <1>4, <2>2, RangesOfBatches DEF Says
  <2>4. next = wire \o <<o, f>>
    BY <1>1
  <2> HIDE DEF o, f, next
  <2>5. /\ next \in Seq(Frames) /\ InOrder(index, next)
        /\ \A k \in 1 .. Len(next) : next[k].t # "join"
        /\ \A id : Ready(index, wire, id, Len(wire)) => Ready(index, next, id, Len(next))
    BY <1>4, <2>1, <2>2, <2>3, <2>4, OfferAndTracksSent
  <2> QED
    BY <2>5 DEF next
<1>7. IdentityTypeOK'
  BY <1>1, <1>5, <1>6 DEF IdentityInv, IdentityTypeOK
<1>8. ClientIsSane' /\ PublishedIsNumbered'
  BY <1>1, <1>2 DEF IdentityInv, ClientIsSane, PublishedIsNumbered
<1>9. PhasesFit'
  BY <1>1, <1>4, <1>6 DEF PhasesFit
<1> QED
  BY <1>1, <1>6, <1>7, <1>8, <1>9 DEF IdentityInv

\* The m-line stays; nothing is announced.
LEMMA StopScreenShareInv ==
  ASSUME IdentityInv, StopScreenShare
  PROVE  IdentityInv'
<1>1. /\ phase = "joined" /\ phase' = "joined" /\ sharing /\ sharing' = FALSE
      /\ settled' = FALSE /\ mlines' = WithoutScreen(mlines)
      /\ wire' = wire \o <<Offer(mlines'), Tracks(<<>>, {"screen"})>>
      /\ UNCHANGED <<stream, camAnnounced, published, index, midTrack>>
  BY DEF StopScreenShare, server
<1>2. mlines' = Stopped
  <2>1. mlines = Shared
    BY <1>1 DEF IdentityInv, ClientIsSane
  <2>2. [i \in DOMAIN Shared |-> IF Shared[i] = "screen" THEN "stopped" ELSE Shared[i]] = Stopped
    BY DEF Shared, Stopped
  <2> QED
    BY <1>1, <2>1, <2>2 DEF WithoutScreen
<1>3. /\ wire \in Seq(Frames) /\ InOrder(index, wire)
      /\ \A k \in 1 .. Len(wire) : wire[k].t # "join"
      /\ Ready(index, wire, "mic", Len(wire))
      /\ camAnnounced => Ready(index, wire, "cam", Len(wire))
  BY <1>1 DEF IdentityInv, IdentityTypeOK, PhasesFit
<1>4. mlines' \in Lines /\ mlines' # Shared
  BY <1>2, RangesOfBatches DEF Lines
<1>6. /\ wire' \in Seq(Frames) /\ InOrder(index, wire')
      /\ \A k \in 1 .. Len(wire') : wire'[k].t # "join"
      /\ \A id : Ready(index, wire, id, Len(wire)) => Ready(index, wire', id, Len(wire'))
  <2> DEFINE o == Offer(mlines')
             f == Tracks(<<>>, {"screen"})
             next == wire'
  <2>1. o \in Frames /\ o.t = "offer"
    BY <1>4, FramesCarry
  <2>2. f \in Frames /\ f.t = "tracks" /\ f.pub = <<>>
    BY FramesCarry DEF Batches, Orders
  <2>3. ~Says(f, "cam") /\ (Says(f, "screen") => Ready(index, wire, "cam", Len(wire)))
    BY <2>2, RangesOfBatches DEF Says
  <2>4. next = wire \o <<o, f>>
    BY <1>1
  <2> HIDE DEF o, f, next
  <2>5. /\ next \in Seq(Frames) /\ InOrder(index, next)
        /\ \A k \in 1 .. Len(next) : next[k].t # "join"
        /\ \A id : Ready(index, wire, id, Len(wire)) => Ready(index, next, id, Len(next))
    BY <1>3, <2>1, <2>2, <2>3, <2>4, OfferAndTracksSent
  <2> QED
    BY <2>5 DEF next
<1>7. IdentityTypeOK'
  BY <1>1, <1>4, <1>6 DEF IdentityInv, IdentityTypeOK
<1>8. ClientIsSane' /\ PublishedIsNumbered'
  BY <1>1, <1>4 DEF IdentityInv, ClientIsSane, PublishedIsNumbered
<1>9. PhasesFit'
  BY <1>1, <1>3, <1>6 DEF PhasesFit
<1> QED
  BY <1>1, <1>6, <1>7, <1>8, <1>9 DEF IdentityInv

\* Only what the client knows changes.
LEMMA AnswerAppliedInv ==
  ASSUME IdentityInv, AnswerApplied
  PROVE  IdentityInv'
<1>1. /\ settled' = TRUE
      /\ UNCHANGED <<stream, camAnnounced, mlines, sharing, phase, wire, published, index, midTrack>>
  BY DEF AnswerApplied, server
<1>2. IdentityTypeOK'
  BY <1>1 DEF IdentityInv, IdentityTypeOK
<1>3. ClientIsSane' /\ PublishedIsNumbered' /\ PhasesFit'
  BY <1>1 DEF IdentityInv, ClientIsSane, PublishedIsNumbered, PhasesFit
<1> QED
  BY <1>1, <1>2, <1>3 DEF IdentityInv

\* The new connection begins with its join; what was on the wire is gone.
LEMMA RejoinInv ==
  ASSUME IdentityInv, Rejoin
  PROVE  IdentityInv'
<1> DEFINE join == [t |-> "join", lines |-> mlines']
<1>1. /\ phase' = "joining" /\ settled' = FALSE /\ wire' = <<join>>
      /\ camAnnounced' = ("cam" \in stream)
      /\ mlines' = IF sharing THEN Append(PublisherLines, "screen") ELSE PublisherLines
      /\ UNCHANGED <<stream, sharing, published, index, midTrack>>
  BY DEF Rejoin, server
<1>2. mlines' = IF sharing THEN Shared ELSE Devices
  <2>1. PublisherLines = Devices
    BY DEF PublisherLines, Devices
  <2> QED
    BY <1>1, <2>1, OrdersGrow
<1>3. mlines' \in Lines /\ Devices # Shared
  BY <1>2, RangesOfBatches DEF Lines
<1>4. join \in Frames /\ join.t = "join"
  BY <1>3, FramesCarry
<1> HIDE DEF join
<1>5. wire' \in Seq(Frames) /\ Len(wire') = 1 /\ wire'[1] = join
  BY <1>1, <1>4
<1>6. camAnnounced' \in BOOLEAN
  <2>1. CASE "cam" \in stream
    BY <1>1, <2>1
  <2>2. CASE "cam" \notin stream
    BY <1>1, <2>2
  <2> QED
    BY <2>1, <2>2
<1>7. IdentityTypeOK'
  BY <1>1, <1>3, <1>5, <1>6 DEF IdentityInv, IdentityTypeOK
<1>8. ClientIsSane'
  BY <1>1, <1>2, <1>3 DEF IdentityInv, IdentityTypeOK, ClientIsSane
<1>9. PublishedIsNumbered'
  BY <1>1 DEF IdentityInv, PublishedIsNumbered
<1>10. InOrder(index', wire')
  BY <1>4, <1>5 DEF InOrder, Says
<1>11. PhasesFit'
  BY <1>1, <1>4, <1>5 DEF PhasesFit
<1> QED
  BY <1>7, <1>8, <1>9, <1>10, <1>11 DEF IdentityInv
\* A frame announces tracks; what they need is numbered or in the frame.
LEMMA TakeTracks ==
  ASSUME IdentityInv, wire # <<>>, NEW pub, Head(wire).t = "tracks", pub = Head(wire).pub,
         index' = Numbered(index, pub)
  PROVE  /\ index' \in Orders
         /\ Range(index') = Range(index) \cup Range(pub)
<1>1. /\ wire \in Seq(Frames) /\ index \in Orders /\ published \subseteq Range(index)
      /\ InOrder(index, wire)
  BY DEF IdentityInv, IdentityTypeOK, PublishedIsNumbered
<1>2. wire[1] = Head(wire) /\ 1 \in 1 .. Len(wire) /\ Head(wire) \in Frames
  BY <1>1
<1>3. pub \in Batches
  BY <1>2, FramesCarry
<1>4. \A id : Says(wire[1], id) <=> id \in Range(pub)
  BY <1>2 DEF Says
<1>5. \A id : Ready(index, wire, id, 1) <=> id \in Range(index) \cup Range(pub)
  <2>1. 1 .. 1 = {1}
    OBVIOUS
  <2> QED
    BY <1>4, <2>1 DEF Ready
<1>6. /\ "cam" \in Range(pub) => "mic" \in Range(index) \cup Range(pub)
      /\ "screen" \in Range(pub) => "cam" \in Range(index) \cup Range(pub)
  <2>1. /\ Says(wire[1], "cam") => Ready(index, wire, "mic", 1)
        /\ Says(wire[1], "screen") => Ready(index, wire, "cam", 1)
    BY ONLY <1>1, <1>2 DEF InOrder
  <2> QED
    BY ONLY <1>4, <1>5, <2>1
<1> QED
  BY <1>1, <1>3, <1>6, NumberedKeepsOrder

\* The join starts the numbering over, an offer only names m-lines, and
\* announcements are numbered.
LEMMA ServerTakesInv ==
  ASSUME IdentityInv, ServerTakes
  PROVE  IdentityInv'
<1> DEFINE m == Head(wire)
<1>1. /\ wire # <<>> /\ wire' = Tail(wire) /\ wire \in Seq(Frames)
      /\ UNCHANGED <<stream, camAnnounced, mlines, sharing, settled, phase>>
  BY DEF ServerTakes, client, IdentityInv, IdentityTypeOK
<1>2. /\ m \in Frames /\ m = wire[1] /\ Len(wire) \in Nat /\ 1 \in 1 .. Len(wire)
      /\ Len(wire) = Len(Tail(wire)) + 1 /\ Len(Tail(wire)) \in Nat
  BY <1>1
<1>3. InOrder(index, wire)
  BY DEF IdentityInv
<1>4. ClientIsSane'
  BY <1>1 DEF IdentityInv, ClientIsSane
<1>5. CASE m.t = "join"
  <2>1. published' = {} /\ index' = <<>> /\ midTrack' = m.lines
    BY <1>5 DEF ServerTakes, MidTracks
  <2>2. phase = "joining" /\ Len(wire) = 1
    BY <1>1, <1>2, <1>5 DEF IdentityInv, IdentityTypeOK, PhasesFit
  <2>3. Len(wire') = 0 /\ wire' = <<>>
    BY <1>1, <1>2, <2>2
  <2>4. m.lines \in Lines
    BY <1>2, <1>5, FramesCarry
  <2>5. IdentityTypeOK'
    BY <1>1, <2>1, <2>3, <2>4 DEF IdentityInv, IdentityTypeOK, Orders
  <2>6. PublishedIsNumbered'
    BY <2>1 DEF PublishedIsNumbered
  <2>7. InOrder(index', wire')
    BY <2>3 DEF InOrder
  <2>8. PhasesFit'
    BY <1>1, <2>1, <2>2, <2>3 DEF PhasesFit
  <2> QED
    BY <1>4, <2>5, <2>6, <2>7, <2>8 DEF IdentityInv
<1>6. ASSUME m.t # "join", index' \in Orders, midTrack' \in Lines \cup {<<>>}, PublishedIsNumbered',
             Range(index) \subseteq Range(index'), \A id : Says(m, id) => id \in Range(index')
      PROVE  IdentityInv'
  <2>1. phase = "joined"
    <3>1. Len(wire) = 1 => wire[1].t # "join"
      BY <1>2, <1>6
    <3> QED
      BY <1>1, <3>1 DEF IdentityInv, IdentityTypeOK, PhasesFit
  <2>2. /\ wire' \in Seq(Frames) /\ Len(wire') \in Nat /\ Len(wire) = Len(wire') + 1
        /\ \A k \in 1 .. Len(wire') : wire'[k] = wire[k + 1]
        /\ InOrder(index', wire')
        /\ \A id : Ready(index, wire, id, Len(wire)) => Ready(index', wire', id, Len(wire'))
    <3> DEFINE after == index'
    <3>1. /\ Range(index) \subseteq Range(after) /\ \A id : Says(Head(wire), id) => id \in Range(after)
          /\ wire \in Seq(Frames) /\ wire # <<>>
      BY <1>1, <1>6
    <3> HIDE DEF after
    <3>2. /\ Tail(wire) \in Seq(Frames)
          /\ Len(Tail(wire)) \in Nat /\ Len(wire) = Len(Tail(wire)) + 1
          /\ \A k \in 1 .. Len(Tail(wire)) : Tail(wire)[k] = wire[k + 1]
          /\ InOrder(after, Tail(wire))
          /\ \A id : Ready(index, wire, id, Len(wire)) => Ready(after, Tail(wire), id, Len(Tail(wire)))
      BY ONLY <1>3, <3>1, TakeKeepsOrder
    <3> QED
      BY <1>1, <3>2 DEF after
  <2>3. IdentityTypeOK'
    BY <1>1, <1>6, <2>2 DEF IdentityInv, IdentityTypeOK
  <2>4. PhasesFit'
    <3>1. /\ \A k \in 1 .. Len(wire) : wire[k].t # "join"
          /\ Ready(index, wire, "mic", Len(wire))
          /\ camAnnounced => Ready(index, wire, "cam", Len(wire))
      BY <2>1 DEF IdentityInv, PhasesFit
    <3>2. \A k \in 1 .. Len(wire') : wire'[k].t # "join"
      <4> SUFFICES ASSUME NEW k \in 1 .. Len(wire') PROVE wire'[k].t # "join"
        OBVIOUS
      <4>1. k + 1 \in 1 .. Len(wire) /\ wire'[k] = wire[k + 1]
        BY <2>2
      <4> QED
        BY <3>1, <4>1
    <3> QED
      BY <1>1, <2>1, <2>2, <3>1, <3>2 DEF PhasesFit
  <2> QED
    BY <1>4, <1>6, <2>2, <2>3, <2>4 DEF IdentityInv
<1>7. CASE m.t = "offer"
  <2>1. midTrack' = m.lines /\ published' = published /\ index' = index
    BY <1>7 DEF ServerTakes, MidTracks
  <2>2. m.lines \in Lines /\ \A id : ~Says(m, id)
    BY <1>2, <1>7, FramesCarry DEF Says
  <2>3. index' \in Orders /\ PublishedIsNumbered'
    BY <2>1 DEF IdentityInv, IdentityTypeOK, PublishedIsNumbered
  <2> QED
    BY <1>6, <1>7, <2>1, <2>2, <2>3
<1>8. CASE m.t = "tracks"
  <2>1. /\ published' = (published \cup Range(m.pub)) \ m.unpub
        /\ index' = Numbered(index, m.pub) /\ midTrack' = midTrack
    BY <1>8 DEF ServerTakes
  <2>2. index' \in Orders /\ Range(index') = Range(index) \cup Range(m.pub)
    BY <1>1, <1>8, <2>1, TakeTracks
  <2>3. PublishedIsNumbered'
    BY <2>1, <2>2 DEF IdentityInv, PublishedIsNumbered
  <2>4. \A id : Says(m, id) => id \in Range(index')
    BY <2>2 DEF Says
  <2>5. midTrack' \in Lines \cup {<<>>}
    BY <2>1 DEF IdentityInv, IdentityTypeOK
  <2> QED
    BY <1>6, <1>8, <2>2, <2>3, <2>4, <2>5
<1> QED
  BY <1>2, <1>5, <1>7, <1>8, FramesCarry

-----------------------------------------------------------------------------
(* The theorem *)

\* No number and no m-line is at odds, at any time.
LEMMA OrdersAgree == IdentityInv => CanonicalMidsAgree
<1> SUFFICES ASSUME IdentityInv, NEW i \in DOMAIN midTrack, midTrack[i] \in published
             PROVE  i \in DOMAIN index /\ index[i] = midTrack[i]
  BY DEF CanonicalMidsAgree
<1>1. midTrack[i] \in Range(index)
  BY DEF IdentityInv, PublishedIsNumbered
<1>2. index \in Orders /\ midTrack \in Lines \cup {<<>>}
  BY DEF IdentityInv, IdentityTypeOK
<1>3. midTrack # <<>>
  OBVIOUS
<1>4. /\ DOMAIN midTrack = (IF midTrack = Devices THEN {1, 2} ELSE {1, 2, 3})
      /\ midTrack[1] = "mic" /\ midTrack[2] = "cam"
      /\ 3 \in DOMAIN midTrack => midTrack[3] \in {"screen", "stopped"}
  BY <1>2, <1>3 DEF Lines, Devices, Shared, Stopped
<1>5. /\ "mic" \in Range(index) => 1 \in DOMAIN index /\ index[1] = "mic"
      /\ "cam" \in Range(index) => 2 \in DOMAIN index /\ index[2] = "cam"
      /\ "screen" \in Range(index) => 3 \in DOMAIN index /\ index[3] = "screen"
      /\ "stopped" \notin Range(index)
  BY <1>2, RangesOfBatches DEF Orders, Devices, Shared
<1> QED
  BY <1>1, <1>4, <1>5

\* The name under which a track is forwarded is the name under which it was
\* offered, for every plan: as long as there is a microphone, the screen is
\* shared only while the camera is announced, and shares are settled.
THEOREM NumberingsAgree ==
  IdentitySpec /\ []MicCaptured /\ []CameraBeforeScreen /\ SharesAreSettled => []CanonicalMidsAgree
<1>1. IdentityInit => IdentityInv
  BY IdentityInitInv
<1>2. ASSUME IdentityInv, [IdentityNext]_vars, MicCaptured, CameraBeforeScreen, CameraBeforeScreen',
             [~sharing /\ sharing' => settled \/ "stopped" \notin Range(mlines)]_vars
      PROVE  IdentityInv'
  <2>1. CASE Announce
    BY <1>2, <2>1, AnnounceInv
  <2>2. CASE ToggleCamera
    BY <1>2, <2>2, ToggleCameraInv
  <2>3. CASE StartScreenShare
    <3>1. ~sharing /\ sharing'
      BY <2>3 DEF StartScreenShare
    <3>2. settled \/ "stopped" \notin Range(mlines)
      <4>1. vars' # vars
        <5>1. sharing' # sharing
          BY <3>1
        <5> QED
          BY <5>1 DEF vars, client
      <4> QED
        BY <1>2, <3>1, <4>1
    <3> QED
      BY <1>2, <2>3, <3>2, StartScreenShareInv
  <2>4. CASE StopScreenShare
    BY <1>2, <2>4, StopScreenShareInv
  <2>5. CASE AnswerApplied
    BY <1>2, <2>5, AnswerAppliedInv
  <2>6. CASE Rejoin
    BY <1>2, <2>6, RejoinInv
  <2>7. CASE ServerTakes
    BY <1>2, <2>7, ServerTakesInv
  <2>8. CASE UNCHANGED vars
    <3>1. UNCHANGED <<stream, camAnnounced, mlines, sharing, settled, phase, wire, published, index, midTrack>>
      BY <2>8 DEF vars, client, server
    <3>2. IdentityTypeOK' /\ ClientIsSane'
      BY <1>2, <3>1 DEF IdentityInv, IdentityTypeOK, ClientIsSane
    <3>3. PublishedIsNumbered' /\ InOrder(index', wire') /\ PhasesFit'
      BY <1>2, <3>1 DEF IdentityInv, PublishedIsNumbered, PhasesFit
    <3> QED
      BY <3>2, <3>3 DEF IdentityInv
  <2> QED
    BY <1>2, <2>1, <2>2, <2>3, <2>4, <2>5, <2>6, <2>7, <2>8 DEF IdentityNext
<1>3. IdentityInv => CanonicalMidsAgree
  BY OrdersAgree
<1> QED
  BY <1>1, <1>2, <1>3, PTL DEF IdentitySpec, SharesAreSettled
=============================================================================
