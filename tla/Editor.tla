------------------------------- MODULE Editor -------------------------------
(***************************************************************************)
(* One call of apply_edits: editor.py, from the parameters of an edit to   *)
(* the ffmpeg commands, and to what their output plays.                    *)
(*                                                                         *)
(* Time is counted in instants; a range <<s, e>> holds the instants from s *)
(* up to, and without, e.  A speed is in sixteenths and a volume in        *)
(* percent.  ffmpeg does what its command says, or it fails; codecs and    *)
(* the syntax of filters are left out.                                     *)
(*                                                                         *)
(* A definition whose name ends in a word after an underscore, such as     *)
(* CutStart_Own, is a plausible bug in the definition after it: put in its *)
(* place, it makes a property below fail.  No specification uses it.       *)
(***************************************************************************)
EXTENDS Integers, SequencesExt

CONSTANTS Jobs,      \* the parameters apply_edits is called with
          Sentinel,  \* the end assumed where nobody asked for one, 1e9
          NULL       \* None

\* CutRange, FadeRange and EditParams, with the length of the source file.
CutRange  == [start : Nat, end : Nat, fade_in : Nat, fade_out : Nat]
FadeRange == [start : Nat, end : Nat, type : {"in", "out"}]
\* From a quarter to four; above two in eighths, so that a half of it is one of them.
Speeds == {r \in 4..64 : r > 32 => r % 2 = 0}
EditParams ==
    [length : Nat, trim_start : Nat, trim_end : Nat \cup {NULL}, volume : Nat,
     fades : SUBSET FadeRange, speed : Speeds, normalize : BOOLEAN,
     cuts : SUBSET CutRange]

ASSUME EditorAssumption ==
    /\ Jobs \subseteq EditParams
    /\ Sentinel \in Nat
    /\ NULL \notin Nat

VARIABLES job,        \* params
          pc,         \* where the call stands
          todo,       \* cuts the loop has not come to
          pos,        \* the loop has decided what is kept before this instant
          end,        \* source_dur
          segments,   \* ranges that are kept
          seg_fades,  \* the fades at the two ends of each of them
          pending,    \* pending_fade_in
          temp,       \* the temporary directory, 0, its segments, and then its list
          output      \* what the destination plays, NULL until it is written

vars == <<job, pc, todo, pos, end, segments, seg_fades, pending, temp, output>>

walk == <<todo, pos, segments, seg_fades, pending>>

-----------------------------------------------------------------------------
(* The parameters as apply_edits reads them *)

Cuts(p)  == {c \in p.cuts : c.end > c.start}
Fades(p) == {f \in p.fades : f.end > f.start}

\* `volume or 1.0`: a volume of zero counts as none asked for.
Volume(p) == IF p.volume = 0 THEN 100 ELSE p.volume

Lossless_Normalized(p) ==
    /\ Volume(p) = 100 /\ p.speed = 16
    /\ Fades(p) = {} /\ \A c \in Cuts(p) : c.fade_in = 0 /\ c.fade_out = 0

\* Can the packets be copied as they are?
Lossless(p) ==
    /\ Volume(p) = 100 /\ p.speed = 16 /\ ~p.normalize
    /\ Fades(p) = {}
    /\ \A c \in Cuts(p) : c.fade_in = 0 /\ c.fade_out = 0

-----------------------------------------------------------------------------
(* Filters *)

\* The chain of atempo filters: each takes a factor from a half to two.
Tempo[r \in 4..64] ==
    CASE r > 32 -> <<32>> \o Tempo[r \div 2]
      [] r < 8  -> <<8>> \o Tempo[r * 2]
      [] r = 16 -> <<>>
      [] OTHER  -> <<r>>

Least(a, b) == IF a <= b THEN a ELSE b
Most(a, b)  == IF a <= b THEN b ELSE a

Sum(S) == FoldSeq(+, 0, S)

BufferOffset_InSource(t, segs) == t - segs[1][1]

\* Where instant t of the source is in the buffer that joins segs.
BufferOffset(t, segs) ==
    Sum([i \in DOMAIN segs |-> Most(0, Least(t, segs[i][2]) - segs[i][1])])

\* The factor of each fade, 1 outside its ramp; a ramp that is gone is dropped.
FadeFactors(fades, segs) ==
    {f \in {[type |-> g.type, start |-> BufferOffset(g.start, segs),
             end |-> BufferOffset(g.end, segs)] : g \in fades} : f.end > f.start}

\* What is encoded plays these ranges, with its fades placed over the segments.
Filtered(segs, fades, ramps) ==
    [segs |-> segs, ramps |-> ramps, fades |-> FadeFactors(fades, segments),
     volume |-> Volume(job), tempo |-> Tempo[job.speed], normalize |-> job.normalize]

Copied(segs) ==
    [segs |-> segs, ramps |-> {}, fades |-> {}, volume |-> 100, tempo |-> <<>>,
     normalize |-> FALSE]

-----------------------------------------------------------------------------
(* From the cuts to the segments that are kept *)

Init ==
    /\ job \in Jobs
    /\ pc = "called" /\ end = 0 /\ temp = {} /\ output = NULL
    /\ todo = {} /\ pos = 0 /\ segments = <<>> /\ seg_fades = <<>> /\ pending = 0

\* No cut: one range, to the end of the file unless an end is asked for.
CallSimple ==
    /\ pc = "called" /\ Cuts(job) = {}
    /\ end' = IF job.trim_end = NULL THEN Sentinel ELSE job.trim_end
    /\ segments' = <<<<job.trim_start, end'>>>>
    /\ seg_fades' = <<[in |-> 0, out |-> 0]>>
    /\ pc' = "render"
    /\ UNCHANGED <<job, todo, pos, pending, temp, output>>

\* ffprobe is asked for the length where no end is given, and may not know it.
CallWithCuts ==
    /\ pc = "called" /\ Cuts(job) # {}
    /\ end' \in IF job.trim_end = NULL THEN {job.length, 0} ELSE {job.trim_end}
    /\ todo' = Cuts(job)
    /\ pos' = job.trim_start
    /\ pc' = "walk"
    /\ UNCHANGED <<job, segments, seg_fades, pending, temp, output>>

CutStart_Own(c) == c.start
CutStart(c) == Most(pos, c.start)

CutEnd(c) == Least(end, c.end)

\* Nothing of the cut is left between the cuts before it and the end.
Hidden(c) == CutEnd(c) <= CutStart(c)

\* The next cut in the order of their starts, the same loop in two functions.
NextCut(c) ==
    /\ pc = "walk" /\ c \in todo
    /\ \A d \in todo : c.start <= d.start
    /\ todo' = todo \ {c}
    /\ IF Hidden(c) THEN UNCHANGED <<pos, segments>>
       ELSE /\ segments' = IF CutStart(c) > pos
                           THEN Append(segments, <<pos, CutStart(c)>>) ELSE segments
            /\ pos' = CutEnd(c)
    /\ UNCHANGED <<job, pc, end, temp, output>>

CopyCut == Lossless(job) /\ \E c \in todo : NextCut(c) /\ UNCHANGED <<seg_fades, pending>>

FadeCut_KeepPending ==
    ~Lossless(job) /\ \E c \in todo :
        /\ NextCut(c)
        /\ IF Hidden(c) THEN UNCHANGED <<seg_fades, pending>>
           ELSE IF CutStart(c) > pos
           THEN /\ seg_fades' = Append(seg_fades, [in |-> pending, out |-> c.fade_out])
                /\ pending' = c.fade_in
           ELSE UNCHANGED <<seg_fades, pending>>

\* A cut fades out the segment before it, and in the one that comes after it.
FadeCut ==
    ~Lossless(job) /\ \E c \in todo :
        /\ NextCut(c)
        /\ IF Hidden(c) THEN UNCHANGED <<seg_fades, pending>>
           ELSE /\ seg_fades' = IF CutStart(c) > pos
                    THEN Append(seg_fades, [in |-> pending, out |-> c.fade_out])
                    ELSE seg_fades
                /\ pending' = c.fade_in

\* What is left after the last cut; "cuts remove the entire audio segment".
LastSegment ==
    /\ pc = "walk" /\ todo = {}
    /\ IF pos < end
       THEN /\ segments' = Append(segments, <<pos, end>>)
            /\ seg_fades' = Append(seg_fades, [in |-> pending, out |-> 0])
       ELSE UNCHANGED <<segments, seg_fades>>
    /\ pc' = IF segments' = <<>> THEN "failed" ELSE "render"
    /\ UNCHANGED <<job, todo, pos, end, pending, temp, output>>

-----------------------------------------------------------------------------
(* From the segments to the output *)

\* _run_ffmpeg, for the command that writes the destination.
Ffmpeg(result, done, failed) ==
    /\ \/ output' = result /\ pc' = done
       \/ output' = output /\ pc' = failed
    /\ UNCHANGED <<job, end, walk>>

StreamCopySimple ==
    /\ pc = "render" /\ Lossless(job) /\ Len(segments) = 1
    /\ Ffmpeg(Copied(segments), "done", "failed")
    /\ UNCHANGED temp

\* mkdtemp
MakeTemp ==
    /\ pc = "render" /\ Lossless(job) /\ Len(segments) > 1
    /\ temp' = {0} /\ pc' = "copy"
    /\ UNCHANGED <<job, end, walk, output>>

\* One segment into its file, in order.  A failure leaves the `finally` with no
\* concat_list, and the UnboundLocalError leaves the files where they are.
CopySegment ==
    /\ pc = "copy" /\ Cardinality(temp) <= Len(segments)
    /\ temp' = temp \cup {Cardinality(temp)}
    /\ pc' \in {"copy", "failed"}
    /\ UNCHANGED <<job, end, walk, output>>

\* concat.txt names the files in order, and ffmpeg joins them.
Concat ==
    /\ pc = "copy" /\ Cardinality(temp) = Len(segments) + 1
    /\ temp' = temp \cup {Cardinality(temp)}
    /\ Ffmpeg(Copied(segments), "clean_done", "clean_failed")

Cleanup_FilesOnly ==
    /\ pc \in {"clean_done", "clean_failed"}
    /\ temp' = temp \ (1..Len(segments))
    /\ pc' = IF pc = "clean_done" THEN "done" ELSE "failed"
    /\ UNCHANGED <<job, end, walk, output>>

\* finally: the segments, the list, and the directory once it is empty.
Cleanup ==
    /\ pc \in {"clean_done", "clean_failed"}
    /\ temp' = {}
    /\ pc' = IF pc = "clean_done" THEN "done" ELSE "failed"
    /\ UNCHANGED <<job, end, walk, output>>

\* The fades at the ends of the only segment become fades like the others.
MergedFades ==
    LET s == segments[1][1]
        e == segments[1][2]
        f == seg_fades[1]
    IN  Fades(job)
        \cup (IF f.in > 0 THEN {[start |-> s, end |-> s + f.in, type |-> "in"]} ELSE {})
        \cup (IF f.out > 0 THEN {[start |-> e - f.out, end |-> e, type |-> "out"]} ELSE {})

\* Is the one range given an end?  It is where a trim or what the cuts left has one.
Bounded == job.trim_end # NULL \/ Cuts(job) # {}

StopsAt_FromZero(s, e) == IF Bounded THEN s + (e * job.speed + 15) \div 16 ELSE e

\* `-to` is an option of the output, which counts its time after atempo: e - s of
\* it are what the speed makes of more of the source, or of less.
StopsAt(s, e) == IF Bounded THEN s + ((e - s) * job.speed + 15) \div 16 ELSE e

ApplySimple ==
    /\ pc = "render" /\ ~Lossless(job) /\ Len(segments) = 1
    /\ LET s == segments[1][1]
           e == segments[1][2]
       IN  Ffmpeg(Filtered(<<<<s, StopsAt(s, e)>>>>, MergedFades, {}), "done", "failed")
    /\ UNCHANGED temp

\* afade works on a segment before the segments are joined: in source time.
SegmentRamps(i) ==
    LET s == segments[i][1]
        e == segments[i][2]
        f == seg_fades[i]
        o == s + Most(0, e - s - f.out)
    IN  (IF f.in > 0 THEN {[start |-> s, end |-> s + f.in, type |-> "in"]} ELSE {})
        \cup (IF f.out > 0 THEN {[start |-> o, end |-> o + f.out, type |-> "out"]} ELSE {})

FilterComplex ==
    /\ pc = "render" /\ ~Lossless(job) /\ Len(segments) > 1
    /\ Ffmpeg(Filtered(segments, Fades(job), UNION {SegmentRamps(i) : i \in DOMAIN segments}),
              "done", "failed")
    /\ UNCHANGED temp

-----------------------------------------------------------------------------
(* The specification *)

Next ==
    \/ CallSimple \/ CallWithCuts
    \/ CopyCut \/ FadeCut \/ LastSegment
    \/ StreamCopySimple \/ MakeTemp \/ CopySegment \/ Concat \/ Cleanup
    \/ ApplySimple \/ FilterComplex

Spec == Init /\ [][Next]_vars

-----------------------------------------------------------------------------
(* Properties *)

\* The variables keep their types, and the loop never goes back before the trim.
TypeOK ==
    /\ job \in EditParams
    /\ pc \in {"called", "walk", "render", "copy", "clean_done", "clean_failed",
               "done", "failed"}
    /\ todo \subseteq Cuts(job)
    /\ pos \in Nat /\ end \in Nat /\ pending \in Nat
    /\ segments \in Seq(Nat \X Nat)
    /\ seg_fades \in Seq([in : Nat, out : Nat])
    /\ temp \subseteq Nat /\ IsFiniteSet(temp)
    /\ pc = "walk" => pos >= job.trim_start

InSegments(t) == \E i \in DOMAIN segments : segments[i][1] <= t /\ t < segments[i][2]

\* What the parameters ask to keep.
InCut(c, t) == c.start <= t /\ t < c.end
Kept(t) == job.trim_start <= t /\ t < end /\ \A c \in Cuts(job) : ~InCut(c, t)

Traced == pc \notin {"called", "walk"}

\* However the cuts overlap, touch, enclose one another or reach past the trim,
\* the segments hold the instants the parameters keep, and no other: what the
\* loops of _stream_copy_with_cuts and _apply_with_cuts are to compute.
KeptExactly == Traced => \A t \in 0..Sentinel : InSegments(t) <=> Kept(t)

\* The segments follow one another, none is empty, and two never touch.
SegmentsInOrder ==
    Cuts(job) # {} =>
        \A i \in DOMAIN segments :
            /\ segments[i][1] < segments[i][2]
            /\ i < Len(segments) => segments[i][2] < segments[i + 1][1]

\* The cuts of a request become the right segments.
SegmentsCorrect == TypeOK /\ KeptExactly /\ SegmentsInOrder

Plays(t) == \E i \in DOMAIN output.segs : output.segs[i][1] <= t /\ t < output.segs[i][2]

\* Nothing bounds the output but what it is made of.
Unbounded == Len(segments) > 1 \/ ~Bounded

\* On each of the four paths the output plays what the parameters keep, all of it
\* and nothing else; where `-to` bounds one range in the time of the output, a
\* higher speed still plays all of it, and a lower one nothing else.
PlaysWhatIsKept ==
    pc = "done" =>
        \A t \in 0..Sentinel :
            /\ Kept(t) /\ (Unbounded \/ job.speed >= 16) => Plays(t)
            /\ Plays(t) /\ (Unbounded \/ job.speed <= 16) => Kept(t)

\* The place of the kept instant t in the output, counted one by one.
Before(t) == Cardinality({u \in 0..(t - 1) : Kept(u)})

\* A fade the client drew over the source is heard over the same music: of every
\* kept instant that plays, its ramp holds the place exactly if the drawn zone
\* holds the instant, wherever cuts and trim have moved it.
FadesFollowTheMusic ==
    (pc = "done" /\ Fades(job) # {}) =>
        \A f \in Fades(job), t \in {u \in 0..job.length : Kept(u) /\ Plays(u)} :
            (f.start <= t /\ t < f.end) <=>
                \E g \in output.fades :
                    /\ g.type = f.type
                    /\ g.start = Before(f.start) /\ g.end = Before(f.end)
                    /\ g.start <= Before(t) /\ Before(t) < g.end

\* The ramp heard from, or up to, the edge of a segment.
RampFrom(i, d) ==
    IF Len(segments) = 1
    THEN \E g \in output.fades : g.type = "in" /\ g.start = 0
                                 /\ g.end = Least(d, segments[1][2] - segments[1][1])
    ELSE \E g \in output.ramps : g.type = "in" /\ g.start = segments[i][1]
                                 /\ g.end = segments[i][1] + d
RampTo(i, d) ==
    IF Len(segments) = 1
    THEN /\ output.segs[1][2] >= segments[1][2]
         /\ \E g \in output.fades : g.type = "out" /\ g.end = segments[1][2] - segments[1][1]
    ELSE \E g \in output.ramps : g.type = "out" /\ g.end = segments[i][2]
                                 /\ g.start = segments[i][2] - d

\* The fades of a cut are heard at the cut: the segment that begins where some
\* cuts end fades in as one of them asks, and the segment that ends where some
\* cut starts fades out as it asks, down to silence if there is room for it, but
\* that a lower speed does not play one range to its end.
FadesMeetTheirCut ==
    pc = "done" =>
        \A i \in DOMAIN segments :
            LET s     == segments[i][1]
                e     == segments[i][2]
                Ends  == {c \in Cuts(job) : c.end = s /\ c.start < s /\ s > job.trim_start}
                Begin == {c \in Cuts(job) : c.start = e /\ e < end}
            IN  /\ Ends # {} => \E c \in Ends : c.fade_in = 0 \/ RampFrom(i, c.fade_in)
                /\ Begin # {} => \E c \in Begin :
                       \/ c.fade_out \notin 1..(e - s)
                       \/ RampTo(i, c.fade_out)
                       \/ ~Unbounded /\ job.speed < 16
                /\ i \in DOMAIN seg_fades =>
                       /\ seg_fades[i].in > 0 => \E c \in Cuts(job) : c.end = s
                       /\ seg_fades[i].out > 0 => Begin # {}

\* Whichever path was chosen, the output has the volume, speed and fades asked
\* for: packets are copied only where that loses nothing.
NothingAskedIsLost ==
    (pc = "done" /\ job.volume # 0) =>
        /\ output.volume = job.volume /\ output.normalize = job.normalize
        /\ FoldSeq(LAMBDA f, r : (f * r) \div 16, 16, output.tempo) = job.speed
        /\ \A i \in DOMAIN output.tempo : output.tempo[i] \in 8..32

\* Nothing of the temporary directory is left, whether ffmpeg could join the
\* segments or not, unless a segment could not be copied: then the list was not
\* written yet, and without it the `finally` removes nothing.
TempIsRemoved ==
    (pc \in {"done", "failed"} /\ temp # {}) =>
        pc = "failed" /\ Len(segments) + 1 \notin temp

=============================================================================
