------------------------------ MODULE DJMemory ------------------------------
(***************************************************************************)
(* What Station's DJ remembers, and what it decides from that.  When a     *)
(* song starts the DJEngine THINKs: it plans the break that will follow,   *)
(* from the time since the last legal ID, generic ID and talk, from the    *)
(* intros and outros used lately, and from the RotationManager's choice of *)
(* a next song.  When the song ends it DOes what it planned: it records    *)
(* the song in its own history and in the rotation's, queues the break,    *)
(* and notes what it used and when.  A stop writes all of that to a file,  *)
(* whole or not at all (DJStateStore), which the next start reads; a crash *)
(* loses what was noted since.                                             *)
(*                                                                         *)
(* StationPlayout has the threads and the faults of THINK, DO and the      *)
(* drain; here each of them is one step.  A time stamp is its age, in      *)
(* units of time and no older than what it is compared with: "never" is as *)
(* good as due.  The rotation's weights make a song less likely and never  *)
(* impossible, so that what they depend on is recorded and nothing more.   *)
(***************************************************************************)
EXTENDS Integers, Sequences

CONSTANTS
    Regular, Holiday,  (* the tracks; Holiday: those whose path says so       *)
    Own,               (* tracks with an intro and an outro of their own,     *)
                       (* which go by the track's name                        *)
    Intros, Outros,    (* the generic ones                                    *)
    Ids,               (* the kinds of IDs, "legal" and "generic", with files *)
    Boot,              (* the segment "" that stands for one before the first *)
    Announcement,      (* a startup announcement                              *)
    None,
    LegalIdInterval, GenericIdMin, MaxTalkSilence,
    MaxHistory,        (* of DJEngine.last_played_songs                       *)
    HistorySize,       (* HISTORY_SIZE, of RotationManager.history            *)
    SavedHistory,      (* how much of that to_dict() keeps                    *)
    CooldownLen

Tracks == Regular \cup Holiday
Kinds == {"legal", "generic", "talk"}
Limit == [k \in Kinds |-> CASE k = "legal" -> LegalIdInterval
                            [] k = "generic" -> GenericIdMin
                            [] k = "talk" -> MaxTalkSilence]

ASSUME MemoryAssumption ==
    /\ Tracks # {} /\ Regular \cap Holiday = {} /\ Own \subseteq Tracks
    /\ Ids \subseteq {"legal", "generic"}
    /\ None \notin Tracks \cup Intros \cup Outros
    /\ Limit \in [Kinds -> Nat \ {0}]
    /\ {MaxHistory, HistorySize, SavedHistory, CooldownLen} \subseteq Nat \ {0}
    /\ MaxHistory <= SavedHistory /\ SavedHistory <= HistorySize

VARIABLES
    phase,   (* "down"; "air": a segment is on air, "planned": and the break    *)
             (* after it is planned; "drained": off air, for a stop to save     *)
    air,     (* the song, or what stands for one, that is on air                *)
    plan,    (* current_intent                                                  *)
    season,  (* is_holiday_season()                                             *)
    mem,     (* what the DJ and its rotation remember                           *)
    disk,    (* what a start would read: the file, or nothing, which is Cold    *)
    aired,   (* history: the true age of the last ID of a kind, and talk        *)
    lost     (* history: the kinds whose last airing no memory has              *)

vars == <<phase, air, plan, season, mem, disk, aired, lost>>

Segments == Tracks \cup {Boot, Announcement}
NoPlan == [song |-> None, outro |-> None, id |-> "none", intro |-> None]
Cold == [age |-> Limit, intros |-> <<>>, outros |-> <<>>,
         lastPlayed |-> <<>>, history |-> <<>>]

Init ==
    /\ phase = "down" /\ air = None /\ plan = NoPlan
    /\ season \in BOOLEAN
    /\ mem = Cold /\ disk = Cold
    /\ aired = Limit /\ lost = {}

(* The last n entries of s, or all of it. *)
Recent(s, n) == IF Len(s) <= n THEN s ELSE SubSeq(s, Len(s) - n + 1, Len(s))
Recorded(s, x, n) == Recent(Append(s, x), n)
Entries(s) == {s[i] : i \in 1 .. Len(s)}

-----------------------------------------------------------------------------
(* The clock and the calendar *)

Older(age) == [k \in Kinds |-> IF age[k] < Limit[k] THEN age[k] + 1 ELSE age[k]]

(* Time passes for every stamp, that of a Station that is down too. *)
Tick ==
    /\ aired' = Older(aired)
    /\ mem' = [mem EXCEPT !.age = Older(@)]
    /\ disk' = [disk EXCEPT !.age = Older(@)]
    /\ <<aired, mem, disk>>' # <<aired, mem, disk>>
    /\ UNCHANGED <<phase, air, plan, season, lost>>

SeasonTurns ==
    /\ season' = ~season
    /\ UNCHANGED <<phase, air, plan, mem, disk, aired, lost>>

-----------------------------------------------------------------------------
(* Start *)

(* from_dict(): whatever was saved is taken over as it is. *)
FromDict(d) == d

(* The file is read, and a startup announcement goes on air, or else the    *)
(* first song is chosen as if a song without a name had been on air.        *)
Start ==
    /\ phase = "down"
    /\ phase' = "air" /\ air' \in {Boot, Announcement}
    /\ mem' = FromDict(disk)
    /\ UNCHANGED <<plan, season, disk, aired, lost>>

-----------------------------------------------------------------------------
(* THINK *)

Due(k) == mem.age[k] >= Limit[k]

NeedsLegalId == Due("legal")
ShouldTalk == ~NeedsLegalId /\ Due("talk")
NeedsGenericId == ~NeedsLegalId /\ ~ShouldTalk /\ Due("generic")

(* A plausible slip: the other pool is the fallback, whatever the season. *)
Rotated_AnySeason(candidates) == candidates

(* RotationManager.select_next_song(): in season any track may come, out of *)
(* it regular ones only; with none of these it raises a ValueError, and the *)
(* DJ takes any of its candidates.                                          *)
Rotated(candidates) ==
    LET regular == candidates \cap Regular
    IN  IF season \/ regular = {} THEN candidates ELSE regular

NextSongs ==
    Rotated(IF Tracks \ {air} = {} THEN Tracks ELSE Tracks \ {air})

(* Of some files those that were not used lately, or else any of them.      *)
Selected(files, used) ==
    LET fresh == files \ Entries(Recent(used, CooldownLen))
    IN  IF files = {} THEN {None} ELSE IF fresh = {} THEN files ELSE fresh

Outro == IF ShouldTalk
         THEN Selected(IF air \in Own THEN {air} ELSE Outros, mem.outros) ELSE {None}
Intro(song) == {None} \cup Selected(IF song \in Own THEN {song} ELSE Intros, mem.intros)

StationId ==
    IF NeedsLegalId /\ "legal" \in Ids THEN "legal"
    ELSE IF NeedsGenericId /\ "generic" \in Ids THEN "generic" ELSE "none"

Think ==
    /\ phase = "air"
    /\ phase' = "planned"
    /\ \E song \in NextSongs, outro \in Outro :
          \E intro \in Intro(song) :
             plan' = [song |-> song, outro |-> outro, id |-> StationId, intro |-> intro]
    /\ UNCHANGED <<air, season, mem, disk, aired, lost>>

-----------------------------------------------------------------------------
(* DO *)

(* What of the three kinds a break brings. *)
Brings(p) == ({p.id} \cap Kinds) \cup (IF p.outro = None THEN {} ELSE {"talk"})

Fresh(age, kinds) == [k \in Kinds |-> IF k \in kinds THEN 0 ELSE age[k]]

(* Plausible slips: any ID is taken for a legal one; no talk is noted. *)
Stamped_AnyId(age, p) ==
    Fresh(age, IF p.id = "none" THEN Brings(p) ELSE Brings(p) \cup {"legal"})
Stamped_NoTalk(age, p) == Fresh(age, Brings(p) \ {"talk"})

(* The stamps that a break renews. *)
Stamped(age, p) == Fresh(age, Brings(p))

Used(files, file) ==
    IF file = None THEN files ELSE Recorded(files, file, CooldownLen)

(* A plausible slip: a segment that is no song is kept from the rotation.   *)
Played_SongsOnly(m, s) ==
    [m EXCEPT !.lastPlayed = Recorded(@, s, MaxHistory),
              !.history = IF s \in Tracks THEN Recorded(@, s, HistorySize) ELSE @]

(* _record_song_played() and RotationManager.record_song_played(), for what *)
(* has been on air, be it a song or an announcement.                        *)
Played(m, s) ==
    [m EXCEPT !.lastPlayed = Recorded(@, s, MaxHistory),
              !.history = Recorded(@, s, HistorySize)]

(* The segment ends, and the break and the next song take the air. *)
Do ==
    /\ phase = "planned"
    /\ phase' = "air" /\ air' = plan.song /\ plan' = NoPlan
    /\ mem' = [Played(mem, air) EXCEPT
                 !.age = Stamped(@, plan),
                 !.intros = Used(@, plan.intro), !.outros = Used(@, plan.outro)]
    /\ aired' = Fresh(aired, Brings(plan))
    /\ lost' = lost \ Brings(plan)
    /\ UNCHANGED <<season, disk>>

-----------------------------------------------------------------------------
(* Stop, and what ends Station otherwise *)

(* The terminal DO takes the place of the break, and records nothing.       *)
Drain ==
    /\ phase \in {"air", "planned"}
    /\ phase' = "drained" /\ air' = None /\ plan' = NoPlan
    /\ UNCHANGED <<season, mem, disk, aired, lost>>

Off ==
    /\ phase' = "down" /\ air' = None /\ plan' = NoPlan /\ mem' = Cold
    /\ UNCHANGED <<season, aired>>

(* to_dict() *)
ToDict(m) == [m EXCEPT !.history = Recent(@, SavedHistory)]

(* The file is written aside and put in place in one step. *)
Save ==
    /\ phase = "drained"
    /\ disk' = ToDict(mem)
    /\ Off
    /\ UNCHANGED lost

Forget == lost' = lost \cup {k \in Kinds : mem.age[k] # disk.age[k]}

(* The file cannot be written, which is logged, or Station dies before. *)
SaveFails == phase = "drained" /\ Forget /\ Off /\ UNCHANGED disk
Crash == phase # "down" /\ Forget /\ Off /\ UNCHANGED disk

-----------------------------------------------------------------------------
Next ==
    \/ Tick \/ SeasonTurns
    \/ Start \/ Think \/ Do \/ Drain \/ Save \/ SaveFails \/ Crash

Spec == Init /\ [][Next]_vars

(* Songs start and end.  Nobody has to start Station, or to stop it.        *)
Fairness == WF_vars(Think) /\ WF_vars(Do)

FairSpec == Spec /\ Fairness
-----------------------------------------------------------------------------
SeqUpTo(S, n) == {s \in Seq(S) : Len(s) <= n}

Memories ==
    [age : [Kinds -> Nat],
     intros : SeqUpTo(Intros \cup Own, CooldownLen),
     outros : SeqUpTo(Outros \cup Own, CooldownLen),
     lastPlayed : SeqUpTo(Segments, MaxHistory), history : SeqUpTo(Segments, HistorySize)]

TypeOK ==
    /\ phase \in {"down", "air", "planned", "drained"}
    /\ air \in Segments \cup {None}
    /\ plan.song \in Tracks \cup {None}
    /\ plan.outro \in Outros \cup Own \cup {None}
    /\ plan.intro \in Intros \cup Own \cup {None}
    /\ plan.id \in {"legal", "generic", "none"}
    /\ season \in BOOLEAN
    /\ mem \in Memories /\ disk \in Memories
    /\ aired \in [Kinds -> Nat] /\ lost \subseteq Kinds

(* No ID and no talk comes too soon after the last of its kind, whatever    *)
(* stops and starts lie between: a break that is planned brings only what   *)
(* is due by the true time, but for what a crash has made the DJ forget.    *)
SpacingKept ==
    phase = "planned" => \A k \in Brings(plan) \ lost : aired[k] = Limit[k]

(* "Legal ID is required every hour": it comes once it is due, whatever     *)
(* else the DJ has to say, unless Station stops.                            *)
LegalIdReturns ==
    (phase # "down" /\ aired["legal"] = Limit["legal"])
        ~> (phase \in {"down", "drained"} \/ aired["legal"] = 0)

(* The DJ and the rotation remember the same songs, through stops, crashes  *)
(* and starts: the one's history is the end of the other's.                 *)
HistoriesAgree ==
    \A m \in {mem, disk} : m.lastPlayed = Recent(m.history, MaxHistory)

(* "Holiday tracks MUST NOT be selected outside holiday season", and no song *)
(* comes twice in a row: only where the rotation refuses, with no regular    *)
(* track but the song on air, may the DJ's fallback take a holiday track,    *)
(* and only where there is no other track at all the same song again.        *)
NextSongIsFit ==
    [][phase = "air" /\ phase' = "planned" =>
          /\ plan'.song = air => Tracks = {air}
          /\ plan'.song \in Holiday => season \/ Regular \subseteq {air}]_vars
=============================================================================
