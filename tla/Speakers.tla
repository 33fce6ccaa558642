------------------------------ MODULE Speakers ------------------------------
(***************************************************************************)
(* Who is speaking: every shard reports the loudest of its own members,    *)
(* and the router merges the latest reports into one list per room, which  *)
(* goes to everybody in it (wroomd/src/media.rs report_speakers,           *)
(* Router::merge_speakers).  A list is a sequence of names, loudest first; *)
(* how loud somebody is, is a rank.                                        *)
(***************************************************************************)
EXTENDS ShardTables, FiniteSetsExt, SequencesExt

CONSTANTS
  Loudness,       (* participant -> rank of its voice; no two the same     *)
  TopN,           (* how many speakers a list names (3)                    *)
  ReportCap       (* capacity of the report ring                           *)

VARIABLES
  reports,        (* the report ring, oldest first                         *)
  parts,          (* speaker_parts: room id -> shard -> latest report      *)
  sent,           (* speaker_sent: room id -> the list last sent           *)
  told            (* participant -> the list it was sent last (history)    *)

\* Whoever speaks is as loud as nobody else.
ASSUME SpeakersAssumption ==
  /\ Loudness \in [Participants -> Int]
  /\ \A p, q \in Participants : Loudness[p] = Loudness[q] => p = q
  /\ TopN \in Nat /\ ReportCap \in Nat

speakerVars == <<reports, parts, sent, told>>

SpeakersInit ==
  /\ reports = <<>>
  /\ parts = Nothing
  /\ sent = Nothing
  /\ told = [p \in Participants |-> <<>>]

\* The loudest first, no more than TopN.
Loudest(names) ==
  [i \in 1 .. Min({TopN, Cardinality(names)}) |->
     CHOOSE p \in names : Cardinality({q \in names : Loudness[q] > Loudness[p]}) = i - 1]

\* Fault: a shard with nobody to report says nothing.
ReportSkipsSilent(s, sh, voices) ==
  LET heard == {id \in DOMAIN sh.rooms : DOMAIN sh.rooms[id].locals \cap voices # {}}
      news == SetToSeq({[room |-> id, shard |-> s,
                         top |-> Loudest(DOMAIN sh.rooms[id].locals \cap voices)] : id \in heard})
  IN  reports' = SubSeq(reports \o news, 1, Min({ReportCap, Len(reports \o news)}))

\* report_speakers on shard s, whose members in voices are audible: one
\* report for every room it ever had, empty ones included; what does not fit
\* the ring is lost.
Report(s, sh, voices) ==
  LET report(id) == [room |-> id, shard |-> s,
                     top |-> Loudest(DOMAIN sh.rooms[id].locals \cap voices)]
      all == reports \o [i \in 1 .. Cardinality(DOMAIN sh.rooms) |-> report(i - 1)]
  IN  reports' = SubSeq(all, 1, Min({ReportCap, Len(all)}))

\* What the ring has from shard s about a room.
ReportsOf(id, s) == {i \in DOMAIN reports : reports[i].room = id /\ reports[i].shard = s}

\* The reports in the ring over those that are there, the later one counts.
Latest ==
  LET by(id) == {s \in Shards : ReportsOf(id, s) # {}}
  IN  [id \in DOMAIN parts \cup {reports[i].room : i \in DOMAIN reports} |->
         [s \in DOMAIN At(parts, id, Nothing) \cup by(id) |->
            IF s \in by(id) THEN reports[Max(ReportsOf(id, s))].top ELSE parts[id][s]]]

LiveRooms == {roomId[r] : r \in RoomIds} \ {NoId}
MembersOf(id) == {p \in DOMAIN seats : roomId[seats[p].room] = id}

\* Fault: somebody who left is named until its shard reports again.
MergedWithDeparted(table, id) ==
  Loudest(UNION {Range(At(table, id, Nothing)[s]) : s \in DOMAIN At(table, id, Nothing)})

\* The loudest of a room, whatever shard they are on, if still members.
Merged(table, id) ==
  Loudest(MembersOf(id) \cap
            UNION {Range(At(table, id, Nothing)[s]) : s \in DOMAIN At(table, id, Nothing)})

\* merge_speakers.  A list goes out when it changed, and once a second
\* (elapsed) when it did not; a room never told anything is told nobody.
Merge(elapsed) ==
  LET table == Restrict(Latest, DOMAIN Latest \cap LiveRooms)
      known == Restrict(sent, DOMAIN sent \cap LiveRooms)
      due   == {id \in LiveRooms : IF id \in DOMAIN known
                                   THEN elapsed \/ known[id] # Merged(table, id)
                                   ELSE Merged(table, id) # <<>>}
      news  == SetToSeq({[t |-> "ActiveSpeakers", room |-> id, top |-> Merged(table, id)] :
                           id \in due})
  IN  /\ reports' = <<>>
      /\ parts' = table
      /\ sent' = [id \in DOMAIN known \cup due |->
                    IF id \in due THEN Merged(table, id) ELSE known[id]]
      /\ Broadcast(news)
      /\ UNCHANGED told

\* A shard passes the list on to its own members of the room.  A member whose
\* outbound queue is full misses it until the next heartbeat; here it has room.
PassOn(sh, m) ==
  told' = [p \in Participants |->
             IF m.room \in DOMAIN sh.rooms /\ p \in DOMAIN sh.rooms[m.room].locals
             THEN m.top ELSE told[p]]
=============================================================================
