------------------------------- MODULE GpsIngest -------------------------------
(***************************************************************************)
(* The GPS logs of a drive (gps_ingest).  First, reading one of them: a    *)
(* log is GPX, NMEA, CSV or KML, whatever its name says, or is inside a    *)
(* video file.  What a device writes at time t is a line: the car is then  *)
(* at place t, so a fix read from it is true when its epoch_ms is t.       *)
(* Then, making one track of all (merge): the fixes of all files are       *)
(* sorted by time, what repeats is collapsed, what no car could do is      *)
(* dropped.  A receiver may report its position, none, or one far off      *)
(* (stray).                                                                *)
(***************************************************************************)
EXTENDS Magnitude, Integers, Sequences, FiniteSets, SequencesExt

CONSTANTS
    DAY,                \* moments in a day
    Misread,            \* styles that are read as another time, and by how much
    LineTimes,          \* when a line may be written
    MaxLines,           \* bound: lines of a log
    LogFile,            \* the files of an upload, in their order: 1 .. the number of them
    DEDUPE_WINDOW_MS, TELEPORT_SPEED_MPS,
    HEAL_MS,            \* the 30 s after which any jump is believed
    LogTimes,           \* when a fix may be taken
    Accuracies,         \* accuracy_m; 0: not reported
    Stray,              \* a position no car reaches from the road in less than HEAL_MS
    MaxLogged           \* bound: fixes of an upload

ASSUME FormatsAssumption ==
    /\ DAY \in Nat \ {0} /\ MaxLines \in Nat /\ LineTimes \subseteq Nat
    /\ Misread \in [{"compact", "layout offset", "month first"} -> Nat \ {0}]

\* The car drives at the speed of one.
ASSUME IngestAssumption ==
    /\ IsFiniteSet(LogFile) /\ LogFile = 1 .. Cardinality(LogFile)
    /\ DEDUPE_WINDOW_MS \in Nat \ {0} /\ TELEPORT_SPEED_MPS \in Nat \ {0} /\ HEAL_MS \in Nat
    /\ LogTimes \subseteq Nat /\ Accuracies \subseteq Nat /\ MaxLogged \in Nat
    /\ Stray \in Int /\ \A t \in LogTimes : Abs(Stray - t) >= TELEPORT_SPEED_MPS * HEAL_MS

VARIABLE log            \* what the device has written

formatVars == <<log>>

Family == {"gpx", "nmea", "csv", "kml", "video"}

\* How a time is written.  A layout is a date and a time of day as some tool puts them;
\* Z and an offset may follow it.  unnamed: in a column of no known name (or in a video
\* that no exiftool is there to read).
Style == {"number", "iso", "layout", "layout Z", "unnamed"} \cup DOMAIN Misread

Kinds ==
    [gpx |-> {"trkpt", "wpt"}, nmea |-> {"RMC", "GGA"}, csv |-> {"row"}, kml |-> {"when and coord"},
     video |-> {"row", "RMC", "GGA"}]

\* A line may lack its place, its time or both; a void sentence has neither.
Line == [kind : UNION {Kinds[f] : f \in Family}, t : LineTimes,
         state : {"placed", "unplaced", "untimed", "void"}]

FormatsTypeOK == log \in [family : Family, style : Style, lines : Seq(Line)]

None == -1

FormatsInit == log \in [family : Family, style : Style, lines : {<<>>}]

WriteLine ==
    \E line \in Line :
       /\ Len(log.lines) < MaxLines /\ line.kind \in Kinds[log.family]
       /\ log.lines # <<>> => Last(log.lines).t <= line.t
       /\ log' = [log EXCEPT !.lines = Append(@, line)]

FormatsSpec == FormatsInit /\ [][WriteLine]_log

-----------------------------------------------------------------------------
(* Times *)

\* Fourteen digits are taken for milliseconds; an offset is cut off a layout; the day is
\* looked for before the month; a layout before a Z fits no format.
_flexible_time(t) ==
    CASE log.style \in DOMAIN Misread -> t + Misread[log.style]
      [] log.style = "layout Z" -> None
      [] OTHER -> t

_iso_to_epoch_ms(t) == IF log.style = "iso" THEN t ELSE _flexible_time(t)

_nmea_date(t) == t \div DAY
_nmea_time(t) == t % DAY
_combine(date, time_of_day) == date * DAY + time_of_day

-----------------------------------------------------------------------------
(* Parsers *)

\* The elements of s at the places in N.
Picked(s, N) == LET order == Ascending(N) IN [n \in DOMAIN order |-> s[order[n]]]

Observed(epoch_ms, line) == [epoch_ms |-> epoch_ms, at |-> line.t]

\* Points, routes' points and waypoints alike.
parse_gpx(lines) ==
    LET usable == Picked(lines, {n \in DOMAIN lines :
                     lines[n].state = "placed" /\ _iso_to_epoch_ms(lines[n].t) # None})
    IN [n \in DOMAIN usable |-> Observed(_iso_to_epoch_ms(usable[n].t), usable[n])]

SetsDate(line) == line.kind = "RMC" /\ line.state \in {"placed", "unplaced"}

\* An RMC tells the date, even when its place cannot be read; a GGA has the date of the
\* last RMC, and is skipped before the first.
Sentence(read, line) ==
    CASE SetsDate(line) ->
            LET date == _nmea_date(line.t) IN
            [current_date |-> date,
             fixes |-> IF line.state = "unplaced" THEN read.fixes
                       ELSE Append(read.fixes, Observed(_combine(date, _nmea_time(line.t)), line))]
      [] line.kind = "GGA" /\ line.state = "placed" /\ read.current_date # None ->
            [read EXCEPT !.fixes =
                Append(@, Observed(_combine(read.current_date, _nmea_time(line.t)), line))]
      [] OTHER -> read

parse_nmea(lines) == FoldLeft(Sentence, [current_date |-> None, fixes |-> <<>>], lines).fixes

parse_csv(lines) ==
    LET usable == Picked(lines, {n \in DOMAIN lines :
                     lines[n].state = "placed" /\ _flexible_time(lines[n].t) # None})
    IN IF log.style = "unnamed" THEN <<>>
       ELSE [n \in DOMAIN usable |-> Observed(_flexible_time(usable[n].t), usable[n])]

\* The times that can be read are paired with the places that can be read.
parse_kml(lines) ==
    LET whens == Picked(lines, {n \in DOMAIN lines :
                    lines[n].state \in {"placed", "unplaced"} /\ _iso_to_epoch_ms(lines[n].t) # None})
        coords == Picked(lines, {n \in DOMAIN lines : lines[n].state \in {"placed", "untimed"}})
    IN [n \in DOMAIN whens \cap DOMAIN coords |->
           Observed(_iso_to_epoch_ms(whens[n].t), coords[n])]

_extract_via_exiftool(lines) == parse_csv(Picked(lines, {n \in DOMAIN lines : lines[n].kind = "row"}))
_extract_via_ffmpeg(lines) == parse_nmea(Picked(lines, {n \in DOMAIN lines : lines[n].kind # "row"}))

extract_embedded(lines) ==
    IF _extract_via_exiftool(lines) # <<>> THEN _extract_via_exiftool(lines)
    ELSE _extract_via_ffmpeg(lines)

\* A parser raises, or finds nothing, in a log of another family.
Parsed(family) ==
    IF family # log.family THEN <<>>
    ELSE CASE family = "gpx" -> parse_gpx(log.lines)
           [] family = "nmea" -> parse_nmea(log.lines)
           [] family = "csv" -> parse_csv(log.lines)
           [] family = "kml" -> parse_kml(log.lines)

\* The family that the name says first, then the others, until one finds fixes.
parse_text(declared) ==
    LET parsers == <<"gpx", "nmea", "csv", "kml">>
        order == <<declared>> \o Picked(parsers, {n \in 1 .. 4 : parsers[n] # declared})
        found == {n \in DOMAIN order : Parsed(order[n]) # <<>>}
    IN IF found = {} THEN <<>> ELSE Parsed(order[Min(found)])

ReadLog(declared) ==
    IF log.family = "video" THEN extract_embedded(log.lines) ELSE parse_text(declared)

-----------------------------------------------------------------------------
(* One track of all logs. *)

VARIABLE logs           \* the fixes of each file

GpsFix == [epoch_ms : LogTimes, pos : {"none", "road", "stray"}, accuracy_m : Accuracies]

IngestTypeOK == logs \in [LogFile -> Seq(GpsFix)]

PlaceOf(fix) == IF fix.pos = "stray" THEN Stray ELSE fix.epoch_ms

_plausible(fix) == fix.pos # "none"

\* Ties keep the incumbent.
_better(p, q) ==
    /\ p.accuracy_m # 0
    /\ q.accuracy_m = 0 \/ p.accuracy_m < q.accuracy_m

SameInstant(fix, prev) == fix.epoch_ms - prev.epoch_ms < DEDUPE_WINDOW_MS

Teleports(fix, prev) ==
    LET dt == fix.epoch_ms - prev.epoch_ms IN
       dt < HEAL_MS /\ Abs(PlaceOf(fix) - PlaceOf(prev)) > TELEPORT_SPEED_MPS * dt

\* Stable, as Python's sort is.
AllFixes ==
    LET all == FlattenSeq([f \in LogFile |-> logs[f]])
        Place(i) == Cardinality({j \in DOMAIN all :
                        \/ all[j].epoch_ms < all[i].epoch_ms
                        \/ all[j].epoch_ms = all[i].epoch_ms /\ j <= i})
    IN [n \in DOMAIN all |-> all[CHOOSE i \in DOMAIN all : Place(i) = n]]

\* Mutant of Take: a repeat is appended.
TakeRepeats(merged, fix) ==
    IF ~_plausible(fix) \/ (merged # <<>> /\ Teleports(fix, Last(merged))) THEN merged
    ELSE Append(merged, fix)

Take(merged, fix) ==
    IF ~_plausible(fix) THEN merged
    ELSE IF merged = <<>> THEN <<fix>>
    ELSE IF SameInstant(fix, Last(merged))
         THEN IF _better(fix, Last(merged)) THEN Append(Front(merged), fix) ELSE merged
    ELSE IF Teleports(fix, Last(merged)) THEN merged
    ELSE Append(merged, fix)

merge == FoldLeft(Take, <<>>, AllFixes)

-----------------------------------------------------------------------------
\* A receiver writes its fixes in order; a file may begin before another ends.
WriteFix(file) ==
    \E fix \in GpsFix :
       /\ Len(FlattenSeq([f \in LogFile |-> logs[f]])) < MaxLogged
       /\ \A earlier \in ToSet(logs[file]) : earlier.epoch_ms <= fix.epoch_ms
       /\ fix.pos = "none" => fix.accuracy_m = 0
       /\ logs' = [logs EXCEPT ![file] = Append(@, fix)]

IngestInit == logs = [f \in LogFile |-> <<>>]
IngestNext == \E file \in LogFile : WriteFix(file)
IngestSpec == IngestInit /\ [][IngestNext]_logs

-----------------------------------------------------------------------------
(* Properties: of one log, *)


Dates(line) == line.kind = "RMC" /\ line.state \in {"placed", "unplaced"}

\* The sentence that the n-th line, a GGA, has its date from (0: none).
DatedBy(n) ==
    LET earlier == {i \in 1 .. n - 1 : Dates(log.lines[i])}
    IN IF earlier = {} THEN 0 ELSE CHOOSE i \in earlier : \A j \in earlier : j <= i

Tagged == \E n \in DOMAIN log.lines : log.lines[n].kind = "row" /\ log.lines[n].state = "placed"

\* The lines that say when and where the car was.
Tells(n) ==
    LET line == log.lines[n] IN
    /\ line.state = "placed"
    /\ line.kind = "GGA" => DatedBy(n) # 0
    /\ log.family = "video" => (line.kind = "row" <=> Tagged)

\* What the parsers get wrong: a style that is misread or not read, a saved place that has
\* a time, a KML element without its pair, and a GGA between midnight and the next RMC.
Trustworthy ==
    /\ log.style \in {"number", "iso", "layout"}
    /\ \A n \in DOMAIN log.lines :
          LET line == log.lines[n] IN
          /\ line.kind # "wpt"
          /\ line.kind = "when and coord" => line.state \in {"placed", "void"}
          /\ line.kind = "GGA" /\ DatedBy(n) # 0 =>
                _nmea_date(log.lines[DatedBy(n)].t) = _nmea_date(line.t)

\* A log that can be trusted is read as it was written, whatever it is named: every line
\* that tells a place and its time is a fix at that time, in that order, and no other is.
FixesAreAsTaken ==
    Trustworthy =>
       LET told == Ascending({n \in DOMAIN log.lines : Tells(n)}) IN
       \A declared \in Family \ {"video"} :
          ReadLog(declared) =
             [n \in DOMAIN told |-> Observed(log.lines[told[n]].t, log.lines[told[n]])]

\* gps_ingest.py:117-120: a GGA is "anchored to the most recent date seen in an RMC", for
\* guessing "would place the whole track on the wrong date".
NoFixOnAWrongDay ==
    log.family = "nmea" =>
       \A fix \in ToSet(ReadLog("nmea")) : _nmea_date(fix.epoch_ms) = _nmea_date(fix.at)

\* gps_ingest.py:562-563: a "best-effort timestamp parse for CSV/exiftool output: epoch
\* numbers, ISO strings, and the assorted dotted/slashed layouts different tools emit".
TimesAreRead ==
    log.style # "unnamed" => \A t \in LineTimes : _flexible_time(t) = t

-----------------------------------------------------------------------------
(* of the track, *)


Honest(fix) == fix.pos = "road"
Before(i, j) == AllFixes[i].epoch_ms <= AllFixes[j].epoch_ms /\ i < j

\* Every stray fix comes soon after an honest one and is not said to be more accurate
\* than one of the same instant.
StraysShow ==
    LET all == AllFixes IN
    \A j \in DOMAIN all : all[j].pos = "stray" =>
       /\ \E i \in 1 .. j - 1 :
             Honest(all[i]) /\ all[j].epoch_ms - all[i].epoch_ms <= HEAL_MS - DEDUPE_WINDOW_MS
       /\ \A i \in 1 .. j - 1 :
             Honest(all[i]) /\ SameInstant(all[j], all[i]) => ~_better(all[j], all[i])

\* The track runs forward, a window or more at a time, and while strays show it is the
\* drive: nothing stray is in it, and an honest fix is missing only beside one that is
\* there, or for a better one after it.
TrackIsTheDrive ==
    LET track == merge IN
    /\ \A n \in 1 .. Len(track) - 1 : ~SameInstant(track[n + 1], track[n])
    /\ StraysShow =>
         /\ \A n \in DOMAIN track : Honest(track[n])
         /\ \A i \in DOMAIN AllFixes : Honest(AllFixes[i]) =>
               \E n \in DOMAIN track :
                  \/ Abs(track[n].epoch_ms - AllFixes[i].epoch_ms) < DEDUPE_WINDOW_MS
                  \/ track[n].epoch_ms > AllFixes[i].epoch_ms /\ _better(track[n], AllFixes[i])

\* gps_ingest.py:402-403: a jump is "checked against the kept track (not the raw list) so
\* one wild outlier can't drag the rest of the drive out".
OneStrayIsHarmless ==
    LET strays == {i \in DOMAIN AllFixes : AllFixes[i].pos = "stray"} IN
       Cardinality(strays) = 1 =>
          \A i \in DOMAIN AllFixes : Honest(AllFixes[i]) =>
             \E n \in DOMAIN merge : Abs(merge[n].epoch_ms - AllFixes[i].epoch_ms) < HEAL_MS
                                     /\ Honest(merge[n])

\* and of both: the logs of a drive are read as they were written, and make the drive.
LogsAreTheDrive == FixesAreAsTaken /\ TrackIsTheDrive
=============================================================================
