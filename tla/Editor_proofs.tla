--------------------------- MODULE Editor_proofs ---------------------------
(* Proofs about Editor, for every set of parameters: the loop over the cuts *)
(* keeps exactly the instants it is to keep, in segments that are in order; *)
(* the temporary files go; fades are heard over the music they were drawn   *)
(* over and at the cuts they belong to; volume and speed are as asked.      *)
EXTENDS Editor, TLAPS, FiniteSetTheorems, WellFoundedInduction

\* The segments hold t: InSegments, for the segments given.
In(segs, t) == \E i \in DOMAIN segs : segs[i][1] <= t /\ t < segs[i][2]

\* The loop has decided every instant before pos, none from pos on is in a
\* segment, and no cut it is done with holds one that is still to be decided.
Decided ==
    /\ \A t \in Nat : t < pos => (In(segments, t) <=> Kept(t))
    /\ \A t \in Nat : In(segments, t) => t < pos
    /\ \A c \in Cuts(job) \ todo, t \in Nat : pos <= t /\ t < end => ~InCut(c, t)

LEMMA Arithmetic ==
    ASSUME NEW a \in Nat, NEW b \in Nat
    PROVE  /\ Least(a, b) \in Nat /\ Most(a, b) \in Nat
           /\ Least(a, b) <= a /\ Least(a, b) <= b
           /\ Most(a, b) >= a /\ Most(a, b) >= b
           /\ Least(a, b) \in {a, b} /\ Most(a, b) \in {a, b}
  BY DEF Least, Most

\* What a segment more adds to the instants that are held.
LEMMA InAppend ==
    ASSUME NEW segs \in Seq(Nat \X Nat), NEW s \in Nat, NEW e \in Nat, NEW t \in Nat
    PROVE  In(Append(segs, <<s, e>>), t) <=> In(segs, t) \/ (s <= t /\ t < e)
<1> DEFINE more == Append(segs, <<s, e>>)
<1>1. Len(more) = Len(segs) + 1 /\ Len(segs) \in Nat /\ DOMAIN more = 1..(Len(segs) + 1)
        /\ DOMAIN segs = 1..Len(segs)
  OBVIOUS
<1>2. more[Len(segs) + 1] = <<s, e>> /\ \A i \in 1..Len(segs) : more[i] = segs[i]
  OBVIOUS
<1>3. ASSUME In(more, t) PROVE In(segs, t) \/ (s <= t /\ t < e)
  <2>1. PICK i \in 1..(Len(segs) + 1) : more[i][1] <= t /\ t < more[i][2]
    BY <1>1, <1>3 DEF In
  <2>2. CASE i = Len(segs) + 1
    BY <2>1, <2>2, <1>2
  <2>3. CASE i \in 1..Len(segs)
    BY <2>1, <2>3, <1>1, <1>2 DEF In
  <2> QED BY <2>1, <2>2, <2>3, <1>1
<1>4. ASSUME In(segs, t) PROVE In(more, t)
  <2>1. PICK i \in 1..Len(segs) : segs[i][1] <= t /\ t < segs[i][2]
    BY <1>1, <1>4 DEF In
  <2>2. i \in DOMAIN more /\ more[i][1] <= t /\ t < more[i][2]
    BY <2>1, <1>1, <1>2
  <2> QED BY <2>2 DEF In
<1>5. ASSUME s <= t, t < e PROVE In(more, t)
  <2>1. Len(segs) + 1 \in DOMAIN more
    BY <1>1
  <2>2. more[Len(segs) + 1][1] <= t /\ t < more[Len(segs) + 1][2]
    BY <1>2, <1>5
  <2> QED BY <2>1, <2>2 DEF In
<1> HIDE DEF more
<1> QED BY <1>3, <1>4, <1>5 DEF more

\* TypeOK, in two parts: what the loop reads and writes, and the files.
LoopTypes ==
    /\ job \in EditParams
    /\ pc \in {"called", "walk", "render", "copy", "clean_done", "clean_failed",
               "done", "failed"}
    /\ todo \subseteq Cuts(job)
    /\ pos \in Nat /\ end \in Nat /\ pending \in Nat
    /\ segments \in Seq(Nat \X Nat)
    /\ seg_fades \in Seq([in : Nat, out : Nat])
    /\ pc = "walk" => pos >= job.trim_start

TempTypes == temp \subseteq Nat /\ IsFiniteSet(temp)

LEMMA TwoParts == TypeOK <=> LoopTypes /\ TempTypes
  BY Zenon DEF TypeOK, LoopTypes, TempTypes

\* What is known of one cut.
LEMMA CutTypes ==
    ASSUME LoopTypes, NEW c \in Cuts(job)
    PROVE  c.start \in Nat /\ c.end \in Nat /\ c.fade_in \in Nat /\ c.fade_out \in Nat
           /\ c.start < c.end
  BY DEF LoopTypes, Cuts, EditParams, CutRange

LEMMA InitTypes == Init => LoopTypes /\ TempTypes
<1> SUFFICES ASSUME Init PROVE LoopTypes /\ TempTypes
  OBVIOUS
<1>1. LoopTypes
  BY EditorAssumption DEF Init, LoopTypes, Cuts
<1>2. temp = {}
  BY DEF Init
<1>3. TempTypes
  BY <1>2, FS_EmptySet, Zenon DEF TempTypes
<1> QED BY <1>1, <1>3

LEMMA TempStep == TempTypes /\ [Next]_vars => TempTypes'
<1> SUFFICES ASSUME TempTypes, [Next]_vars PROVE TempTypes'
  OBVIOUS
<1>1. CASE temp' = temp
  BY <1>1, Zenon DEF TempTypes
<1>2. CASE temp' = {}
  BY <1>2, FS_EmptySet, Zenon DEF TempTypes
<1>3. CASE temp' = {0}
  <2>1. temp' \subseteq Nat
    BY <1>3
  <2>2. IsFiniteSet({0})
    BY FS_Singleton, Zenon
  <2> QED BY <1>3, <2>1, <2>2, Zenon DEF TempTypes
<1>4. CASE temp' = temp \cup {Cardinality(temp)}
  <2>1. Cardinality(temp) \in Nat
    BY FS_CardinalityType, Zenon DEF TempTypes
  <2>2. IsFiniteSet(temp')
    BY <1>4, FS_AddElement, Zenon DEF TempTypes
  <2>3. temp \subseteq Nat
    BY Zenon DEF TempTypes
  <2>4. temp' \subseteq Nat
    BY <1>4, <2>1, <2>3
  <2> QED BY <2>2, <2>4, Zenon DEF TempTypes
<1>5. \/ temp' = temp \/ temp' = {} \/ temp' = {0}
      \/ temp' = temp \cup {Cardinality(temp)}
  <2> HIDE DEF vars
  <2>1. CASE Next
    BY <2>1, Zenon DEF Next, CallSimple, CallWithCuts, CopyCut, FadeCut, NextCut, LastSegment,
       StreamCopySimple, MakeTemp, CopySegment, Concat, Cleanup, ApplySimple, FilterComplex
  <2>2. CASE UNCHANGED vars
    BY <2>2 DEF vars
  <2> QED BY <2>1, <2>2
<1> QED BY <1>1, <1>2, <1>3, <1>4, <1>5

\* The steps that render change no variable of the loop.
Renders ==
    \/ StreamCopySimple \/ MakeTemp \/ CopySegment \/ Concat \/ Cleanup
    \/ ApplySimple \/ FilterComplex

LEMMA RenderStep ==
    ASSUME Renders
    PROVE  /\ UNCHANGED <<job, end, walk>>
           /\ Traced /\ Traced'
           /\ pc' \in {"copy", "clean_done", "clean_failed", "done", "failed"}
  BY DEF Renders, StreamCopySimple, MakeTemp, CopySegment, Concat, Cleanup,
     ApplySimple, FilterComplex, Ffmpeg, Traced

\* Where a cut begins and ends, once clipped.
LEMMA ClippedTypes ==
    ASSUME LoopTypes, NEW c \in Cuts(job)
    PROVE  /\ CutStart(c) \in Nat /\ CutEnd(c) \in Nat
           /\ CutStart(c) >= pos /\ CutStart(c) >= c.start /\ CutStart(c) \in {pos, c.start}
           /\ CutEnd(c) <= end /\ CutEnd(c) <= c.end /\ CutEnd(c) \in {end, c.end}
  BY CutTypes, Arithmetic DEF CutStart, CutEnd, LoopTypes

LEMMA LoopTypesStep == LoopTypes /\ [Next]_vars => LoopTypes'
<1> SUFFICES ASSUME LoopTypes, [Next]_vars PROVE LoopTypes'
  OBVIOUS
<1>1. CASE CallSimple
  <2>1. job.trim_start \in Nat /\ job.trim_end \in Nat \cup {NULL}
    BY DEF LoopTypes, EditParams
  <2>2. end' \in Nat
    BY <1>1, <2>1, EditorAssumption DEF CallSimple
  <2>3. segments' \in Seq(Nat \X Nat) /\ seg_fades' \in Seq([in : Nat, out : Nat])
    BY <1>1, <2>1, <2>2 DEF CallSimple
  <2> QED BY <1>1, <2>2, <2>3 DEF LoopTypes, CallSimple
<1>2. CASE CallWithCuts
  <2>1. job.trim_start \in Nat /\ job.trim_end \in Nat \cup {NULL} /\ job.length \in Nat
    BY DEF LoopTypes, EditParams
  <2>2. end' \in Nat
    BY <1>2, <2>1 DEF CallWithCuts
  <2> QED BY <1>2, <2>1, <2>2 DEF LoopTypes, CallWithCuts
<1>3. ASSUME NEW c \in todo, NextCut(c) PROVE
        /\ job' = job /\ pc' = pc /\ todo' \subseteq Cuts(job') /\ pos' \in Nat /\ end' = end
        /\ segments' \in Seq(Nat \X Nat) /\ pos' >= job'.trim_start
  <2>1. c \in Cuts(job)
    BY DEF LoopTypes
  <2>2. job.trim_start \in Nat /\ pos >= job.trim_start
    BY <1>3 DEF LoopTypes, EditParams, NextCut
  <2>3. CutStart(c) >= pos /\ CutStart(c) \in Nat /\ CutEnd(c) \in Nat
    BY <2>1, ClippedTypes
  <2>4. pos \in Nat /\ segments \in Seq(Nat \X Nat) /\ todo \subseteq Cuts(job)
    BY DEF LoopTypes
  <2>5. job' = job /\ pc' = pc /\ end' = end /\ todo' \subseteq Cuts(job)
    BY <1>3, <2>4 DEF NextCut
  <2>6. segments' \in Seq(Nat \X Nat)
    <3>1. Append(segments, <<pos, CutStart(c)>>) \in Seq(Nat \X Nat)
      BY <2>3, <2>4
    <3> QED BY <1>3, <2>4, <3>1 DEF NextCut
  <2>7. pos' \in Nat /\ pos' >= pos
    BY <1>3, <2>3, <2>4 DEF NextCut, Hidden
  <2> QED BY <2>2, <2>4, <2>5, <2>6, <2>7
<1>4. CASE CopyCut
  BY <1>3, <1>4 DEF CopyCut, LoopTypes
<1>5. CASE FadeCut
  <2>2. PICK d \in todo :
          /\ NextCut(d)
          /\ IF Hidden(d) THEN UNCHANGED <<seg_fades, pending>>
             ELSE /\ seg_fades' = IF CutStart(d) > pos
                      THEN Append(seg_fades, [in |-> pending, out |-> d.fade_out])
                      ELSE seg_fades
                  /\ pending' = d.fade_in
    BY <1>5 DEF FadeCut
  <2>3. d.fade_in \in Nat /\ d.fade_out \in Nat
    BY CutTypes DEF LoopTypes
  <2>4. seg_fades \in Seq([in : Nat, out : Nat]) /\ pending \in Nat
    BY DEF LoopTypes
  <2>5. Append(seg_fades, [in |-> pending, out |-> d.fade_out]) \in Seq([in : Nat, out : Nat])
    BY <2>3, <2>4
  <2>6. seg_fades' \in Seq([in : Nat, out : Nat]) /\ pending' \in Nat
    BY <2>2, <2>3, <2>4, <2>5
  <2>7. /\ job' = job /\ pc' = pc /\ todo' \subseteq Cuts(job') /\ pos' \in Nat /\ end' = end
        /\ segments' \in Seq(Nat \X Nat) /\ pos' >= job'.trim_start
    BY <1>3, <2>2
  <2> QED BY <2>6, <2>7 DEF LoopTypes
<1>6. CASE LastSegment
  <2>1. /\ pos \in Nat /\ end \in Nat /\ pending \in Nat
        /\ segments \in Seq(Nat \X Nat) /\ seg_fades \in Seq([in : Nat, out : Nat])
    BY DEF LoopTypes
  <2>2. Append(segments, <<pos, end>>) \in Seq(Nat \X Nat)
    BY <2>1
  <2>3. Append(seg_fades, [in |-> pending, out |-> 0]) \in Seq([in : Nat, out : Nat])
    BY <2>1
  <2>4. segments' \in Seq(Nat \X Nat) /\ seg_fades' \in Seq([in : Nat, out : Nat])
    BY <1>6, <2>1, <2>2, <2>3 DEF LastSegment
  <2>5. UNCHANGED <<job, todo, pos, end, pending>> /\ pc' \in {"failed", "render"}
    BY <1>6 DEF LastSegment
  <2> QED BY <2>4, <2>5 DEF LoopTypes
<1>7. CASE Renders
  BY <1>7, RenderStep DEF LoopTypes, walk
<1>8. CASE UNCHANGED vars
  BY <1>8 DEF LoopTypes, vars
<1> QED
  BY <1>1, <1>2, <1>4, <1>5, <1>6, <1>7, <1>8 DEF Next, Renders

\* The variables keep their types, and the loop never goes back before the trim.
THEOREM TypesHold == Spec => []TypeOK
<1>1. Init => TypeOK
  BY InitTypes, TwoParts
<1>2. TypeOK /\ [Next]_vars => TypeOK'
  <2>1. (LoopTypes' /\ TempTypes') => TypeOK'
    BY Zenon DEF TypeOK, LoopTypes, TempTypes
  <2> QED BY <2>1, TwoParts, LoopTypesStep, TempStep
<1> QED BY <1>1, <1>2, PTL DEF Spec

-----------------------------------------------------------------------------

\* The loop decides every instant as Kept does, before pos; what no cut it is
\* done with holds is still to be decided.
LEMMA CutStep ==
    ASSUME LoopTypes, Decided, NEW c \in todo, NextCut(c)
    PROVE  Decided'
<1> DEFINE cs == CutStart(c)
           ce == CutEnd(c)
<1>1. c \in Cuts(job) /\ todo \subseteq Cuts(job) /\ pos \in Nat /\ end \in Nat
        /\ segments \in Seq(Nat \X Nat) /\ job.trim_start \in Nat /\ pos >= job.trim_start
  BY DEF LoopTypes, NextCut, EditParams
<1>2. c.start \in Nat /\ c.end \in Nat /\ c.start < c.end
  BY <1>1, CutTypes
<1>3. /\ cs \in Nat /\ ce \in Nat /\ cs >= pos /\ cs >= c.start /\ cs \in {pos, c.start}
      /\ ce <= end /\ ce <= c.end /\ ce \in {end, c.end}
  BY <1>1, ClippedTypes
<1> HIDE DEF cs, ce
<1>4. UNCHANGED <<job, end, pc>> /\ todo' = todo \ {c}
  BY DEF NextCut
<1>5. \A t : Kept(t)' <=> Kept(t)
  BY <1>4 DEF Kept
<1>6. CASE ce <= cs
  <2>1. UNCHANGED <<pos, segments>>
    BY <1>6 DEF NextCut, Hidden, cs, ce
  <2>2. ASSUME NEW t \in Nat, pos <= t, t < end PROVE ~InCut(c, t)
    BY <1>1, <1>2, <1>3, <1>6, <2>2 DEF InCut
  <2>3. Cuts(job) \ todo' \subseteq (Cuts(job) \ todo) \cup {c}
    BY <1>4
  <2> QED BY <1>4, <1>5, <2>1, <2>2, <2>3 DEF Decided, In
<1>7. CASE ~(ce <= cs)
  <2>1. pos' = ce /\ segments' = IF cs > pos THEN Append(segments, <<pos, cs>>) ELSE segments
    BY <1>7 DEF NextCut, Hidden, cs, ce
  <2>2. cs < ce
    BY <1>3, <1>7
  <2>3. \A t \in Nat : In(segments', t) <=> In(segments, t) \/ (pos <= t /\ t < cs)
    <3>1. CASE cs > pos
      BY <2>1, <3>1, <1>1, <1>3, InAppend
    <3>2. CASE ~(cs > pos)
      BY <2>1, <3>2, <1>1, <1>3
    <3> QED BY <3>1, <3>2
  <2>4. ASSUME NEW t \in Nat, pos <= t, t < cs PROVE Kept(t)
    <3>1. cs = c.start
      BY <2>4, <1>1, <1>3
    <3>2. t < end /\ job.trim_start <= t
      BY <2>4, <1>1, <1>3, <2>2
    <3>3. \A d \in todo : ~InCut(d, t)
      <4>1. \A d \in todo : d.start \in Nat /\ c.start <= d.start
        BY <1>1, CutTypes DEF NextCut
      <4> QED BY <4>1, <3>1, <2>4, <1>2 DEF InCut
    <3>4. \A d \in Cuts(job) \ todo : ~InCut(d, t)
      BY <3>2, <2>4 DEF Decided
    <3> QED BY <3>2, <3>3, <3>4 DEF Kept
  <2>5. ASSUME NEW t \in Nat, cs <= t, t < ce PROVE ~Kept(t)
    <3>1. c.start <= t /\ t < c.end
      BY <2>5, <1>2, <1>3
    <3> QED BY <3>1, <1>1 DEF Kept, InCut
  <2>6. ASSUME NEW t \in Nat, t < ce PROVE In(segments', t) <=> Kept(t)
    <3>1. CASE t < pos
      BY <3>1, <2>3, <1>1 DEF Decided
    <3>2. CASE pos <= t /\ t < cs
      BY <3>2, <2>3, <2>4
    <3>3. CASE cs <= t
      <4>1. ~In(segments, t)
        BY <3>3, <1>1, <1>3 DEF Decided
      <4> QED BY <3>3, <4>1, <2>3, <2>5, <2>6, <1>3
    <3> QED BY <3>1, <3>2, <3>3, <1>1, <1>3
  <2>7. ASSUME NEW t \in Nat, In(segments', t) PROVE t < ce
    <3>1. t < pos \/ t < cs
      BY <2>7, <2>3 DEF Decided
    <3> QED BY <3>1, <2>2, <1>1, <1>3
  <2>8. ASSUME NEW d \in Cuts(job) \ todo', NEW t \in Nat, ce <= t, t < end PROVE ~InCut(d, t)
    <3>1. CASE d = c
      BY <3>1, <2>8, <1>2, <1>3 DEF InCut
    <3>2. CASE d # c
      <4>1. d \in Cuts(job) \ todo /\ pos <= t
        BY <3>2, <2>8, <2>2, <1>1, <1>3, <1>4
      <4> QED BY <4>1, <2>8 DEF Decided
    <3> QED BY <3>1, <3>2
  <2> QED BY <2>1, <2>6, <2>7, <2>8, <1>4, <1>5 DEF Decided
<1> QED BY <1>6, <1>7

\* The loop has kept exactly what it should, from the call to the output.
LoopInv ==
    /\ pc = "called" => segments = <<>>
    /\ pc = "walk" => Decided
    /\ Traced => \A t \in Nat : In(segments, t) <=> Kept(t)

LEMMA LoopInvStep == LoopTypes /\ LoopInv /\ [Next]_vars => LoopInv'
<1> SUFFICES ASSUME LoopTypes, LoopInv, [Next]_vars PROVE LoopInv'
  OBVIOUS
<1>0. /\ job.trim_start \in Nat /\ job.trim_end \in Nat \cup {NULL} /\ job.length \in Nat
      /\ pos \in Nat /\ end \in Nat /\ segments \in Seq(Nat \X Nat)
  BY DEF LoopTypes, EditParams
<1>1. CASE CallSimple
  <2>1. /\ segments' = <<<<job.trim_start, end'>>>> /\ job' = job /\ pc' = "render"
        /\ Cuts(job) = {}
    BY <1>1 DEF CallSimple
  <2>2. end' \in Nat
    BY <1>0, <1>1, EditorAssumption DEF CallSimple
  <2>3. \A t \in Nat : In(segments', t) <=> (job.trim_start <= t /\ t < end')
    BY <1>0, <2>1, <2>2 DEF In
  <2>4. \A t \in Nat : Kept(t)' <=> (job.trim_start <= t /\ t < end')
    BY <2>1 DEF Kept
  <2> QED BY <2>1, <2>3, <2>4 DEF LoopInv
<1>2. CASE CallWithCuts
  <2>1. /\ pc = "called" /\ pc' = "walk" /\ job' = job /\ segments' = segments
        /\ todo' = Cuts(job) /\ pos' = job.trim_start
    BY <1>2 DEF CallWithCuts
  <2>2. segments' = <<>>
    BY <2>1 DEF LoopInv
  <2>3. \A t \in Nat : ~In(segments', t)
    BY <2>2 DEF In
  <2>4. \A t \in Nat : t < pos' => ~Kept(t)'
    BY <2>1, <1>0 DEF Kept
  <2>5. Cuts(job') \ todo' = {}
    BY <2>1
  <2>6. Decided'
    BY <2>3, <2>4, <2>5, Zenon DEF Decided
  <2> QED BY <2>1, <2>6 DEF LoopInv, Traced
<1>3. ASSUME NEW c \in todo, NextCut(c) PROVE LoopInv'
  <2>1. pc = "walk" /\ pc' = "walk"
    BY <1>3 DEF NextCut
  <2>2. Decided'
    BY <1>3, <2>1, CutStep DEF LoopInv
  <2> QED BY <2>1, <2>2 DEF LoopInv, Traced
<1>4. CASE CopyCut \/ FadeCut
  <2>1. PICK c \in todo : NextCut(c)
    BY <1>4, Zenon DEF CopyCut, FadeCut
  <2> QED BY <1>3, <2>1
<1>5. CASE LastSegment
  <2>1. /\ pc = "walk" /\ todo = {} /\ UNCHANGED <<job, end>> /\ pc' \in {"failed", "render"}
        /\ segments' = IF pos < end THEN Append(segments, <<pos, end>>) ELSE segments
    BY <1>5 DEF LastSegment
  <2>2. Decided
    BY <2>1 DEF LoopInv
  <2>3. \A t \in Nat : Kept(t)' <=> Kept(t)
    BY <2>1 DEF Kept
  <2>4. ASSUME NEW t \in Nat PROVE In(segments', t) <=> In(segments, t) \/ (pos <= t /\ t < end)
    <3>1. CASE pos < end
      BY <2>1, <3>1, <1>0, InAppend
    <3>2. CASE ~(pos < end)
      BY <2>1, <3>2, <1>0
    <3> QED BY <3>1, <3>2
  <2>5. ASSUME NEW t \in Nat PROVE In(segments', t) <=> Kept(t)
    <3>1. CASE t < pos
      BY <3>1, <2>2, <2>4, <1>0 DEF Decided
    <3>2. CASE pos <= t /\ t < end
      <4>1. job.trim_start <= t
        BY <3>2, <2>1, <1>0 DEF LoopTypes
      <4>2. \A c \in Cuts(job) : ~InCut(c, t)
        BY <3>2, <2>1, <2>2 DEF Decided
      <4> QED BY <3>2, <4>1, <4>2, <2>4 DEF Kept
    <3>3. CASE pos <= t /\ end <= t
      <4>1. ~In(segments, t)
        BY <3>3, <2>2, <1>0 DEF Decided
      <4> QED BY <3>3, <4>1, <2>4, <1>0 DEF Kept
    <3> QED BY <3>1, <3>2, <3>3, <1>0
  <2> QED BY <2>1, <2>3, <2>5 DEF LoopInv
<1>6. CASE Renders
  <2>1. UNCHANGED <<job, end, segments>> /\ Traced /\ pc' \notin {"called", "walk"}
    BY <1>6, RenderStep DEF walk
  <2>2. \A t \in Nat : Kept(t)' <=> Kept(t)
    BY <2>1 DEF Kept
  <2> QED BY <2>1, <2>2 DEF LoopInv
<1>7. CASE UNCHANGED vars
  <2>1. UNCHANGED <<job, end, segments, pc, pos, todo>>
    BY <1>7 DEF vars
  <2>2. \A t \in Nat : Kept(t)' <=> Kept(t)
    BY <2>1 DEF Kept
  <2> QED BY <2>1, <2>2 DEF LoopInv, Decided, Traced
<1> QED BY <1>1, <1>2, <1>4, <1>5, <1>6, <1>7 DEF Next, Renders

\* Whatever the parameters, the segments hold the instants to keep, and no other.
THEOREM KeepsExactly == Spec => []KeptExactly
<1>1. Init => LoopTypes /\ LoopInv
  <2>1. Init => LoopInv
    BY DEF Init, LoopInv, Traced
  <2> QED BY <2>1, InitTypes
<1>2. LoopTypes /\ LoopInv /\ [Next]_vars => (LoopTypes /\ LoopInv)'
  BY LoopTypesStep, LoopInvStep
<1>3. LoopTypes /\ LoopInv => KeptExactly
  BY EditorAssumption DEF LoopInv, KeptExactly, InSegments, In
<1> QED BY <1>1, <1>2, <1>3, PTL DEF Spec

-----------------------------------------------------------------------------

\* Ranges in order that all end before p.
Ordered(segs, p) ==
    \A i \in 1..Len(segs) :
        /\ segs[i][1] < segs[i][2] /\ segs[i][2] < p
        /\ i < Len(segs) => segs[i][2] < segs[i + 1][1]

LEMMA OrderedAppend ==
    ASSUME NEW segs \in Seq(Nat \X Nat), NEW p \in Nat, NEW e \in Nat, NEW q \in Nat,
           Ordered(segs, p), p < e, e < q
    PROVE  Ordered(Append(segs, <<p, e>>), q)
<1> DEFINE more == Append(segs, <<p, e>>)
<1>1. Len(more) = Len(segs) + 1 /\ Len(segs) \in Nat
  OBVIOUS
<1>2. more[Len(segs) + 1] = <<p, e>> /\ \A i \in 1..Len(segs) : more[i] = segs[i]
  OBVIOUS
<1>3. \A i \in 1..Len(segs) : segs[i][1] \in Nat /\ segs[i][2] \in Nat
  OBVIOUS
<1> HIDE DEF more
<1>4. ASSUME NEW i \in 1..Len(more)
      PROVE  /\ more[i][1] < more[i][2] /\ more[i][2] < q
             /\ i < Len(more) => more[i][2] < more[i + 1][1]
  <2>1. CASE i = Len(segs) + 1
    BY <2>1, <1>1, <1>2
  <2>2. CASE i \in 1..Len(segs)
    <3>1. more[i] = segs[i] /\ segs[i][1] < segs[i][2] /\ segs[i][2] < p
      BY <2>2, <1>2 DEF Ordered
    <3>2. CASE i < Len(segs)
      <4>1. more[i + 1] = segs[i + 1] /\ segs[i][2] < segs[i + 1][1]
        <5>1. i + 1 \in 1..Len(segs)
          BY <2>2, <3>2, <1>1
        <5> QED BY <2>2, <3>2, <5>1, <1>2 DEF Ordered
      <4>2. more[i][2] < q /\ more[i][2] < more[i + 1][1]
        BY <3>1, <4>1, <1>3, <2>2
      <4> QED BY <3>1, <4>2
    <3>3. CASE i = Len(segs)
      <4>1. more[i + 1][1] = p
        BY <3>3, <1>2
      <4> QED BY <3>1, <4>1, <1>3, <2>2
    <3> QED BY <3>2, <3>3, <2>2, <1>1
  <2> QED BY <2>1, <2>2, <1>1
<1> QED BY <1>4 DEF Ordered, more

\* In the loop, the ranges end before pos; and in the end they are in order.
OrderInv ==
    /\ pc = "called" => segments = <<>>
    /\ pc = "walk" => Ordered(segments, pos)
    /\ Traced /\ Cuts(job) # {} => \E q \in Nat : Ordered(segments, q)

LEMMA OrderInvStep == LoopTypes /\ OrderInv /\ [Next]_vars => OrderInv'
<1> SUFFICES ASSUME LoopTypes, OrderInv, [Next]_vars PROVE OrderInv'
  OBVIOUS
<1>0. pos \in Nat /\ end \in Nat /\ segments \in Seq(Nat \X Nat) /\ todo \subseteq Cuts(job)
  BY DEF LoopTypes
<1>1. CASE CallSimple
  <2>1. Cuts(job') = {} /\ pc' = "render"
    BY <1>1 DEF CallSimple
  <2> QED BY <2>1 DEF OrderInv
<1>2. CASE CallWithCuts
  <2>1. segments' = <<>> /\ pc' = "walk"
    BY <1>2 DEF CallWithCuts, OrderInv
  <2>2. Ordered(<<>>, pos')
    BY DEF Ordered
  <2> QED BY <2>1, <2>2 DEF OrderInv, Traced
<1>3. ASSUME NEW c \in todo, NextCut(c) PROVE OrderInv'
  <2>1. pc = "walk" /\ pc' = "walk" /\ Ordered(segments, pos)
    BY <1>3 DEF NextCut, OrderInv
  <2>2. CutStart(c) \in Nat /\ CutEnd(c) \in Nat /\ CutStart(c) >= pos
    BY <1>0, ClippedTypes
  <2>3. Ordered(segments', pos')
    <3>1. CASE Hidden(c)
      BY <1>3, <2>1, <3>1 DEF NextCut
    <3>2. CASE ~Hidden(c) /\ CutStart(c) > pos
      <4>1. Ordered(Append(segments, <<pos, CutStart(c)>>), CutEnd(c))
        <5>1. pos < CutStart(c) /\ CutStart(c) < CutEnd(c)
          BY <3>2, <1>0, <2>2 DEF Hidden
        <5> QED BY <5>1, <1>0, <2>1, <2>2, OrderedAppend
      <4> QED BY <1>3, <3>2, <4>1 DEF NextCut
    <3>3. CASE ~Hidden(c) /\ ~(CutStart(c) > pos)
      <4>1. pos' = CutEnd(c) /\ segments' = segments /\ pos < CutEnd(c)
        BY <1>0, <1>3, <2>2, <3>3 DEF NextCut, Hidden
      <4>2. \A i \in 1..Len(segments) : segments[i][2] \in Nat
        BY <1>0
      <4> QED BY <4>1, <4>2, <2>1, <2>2, <1>0 DEF Ordered
    <3> QED BY <3>1, <3>2, <3>3
  <2> QED BY <2>1, <2>3 DEF OrderInv, Traced
<1>4. CASE CopyCut \/ FadeCut
  <2>1. PICK c \in todo : NextCut(c)
    BY <1>4, Zenon DEF CopyCut, FadeCut
  <2> QED BY <1>3, <2>1
<1>5. CASE LastSegment
  <2>1. /\ Ordered(segments, pos) /\ pc' \in {"failed", "render"}
        /\ segments' = IF pos < end THEN Append(segments, <<pos, end>>) ELSE segments
    BY <1>5 DEF LastSegment, OrderInv
  <2>2. \E q \in Nat : Ordered(segments', q)
    <3>1. CASE pos < end
      <4>1. Ordered(Append(segments, <<pos, end>>), end + 1)
        BY <1>0, <2>1, <3>1, OrderedAppend
      <4> QED BY <2>1, <3>1, <4>1, <1>0
    <3>2. CASE ~(pos < end)
      BY <2>1, <3>2, <1>0
    <3> QED BY <3>1, <3>2
  <2> QED BY <2>1, <2>2 DEF OrderInv
<1>6. CASE Renders
  <2>1. UNCHANGED <<job, segments>> /\ Traced /\ pc' \notin {"called", "walk"}
    BY <1>6, RenderStep DEF walk
  <2> QED BY <2>1 DEF OrderInv
<1>7. CASE UNCHANGED vars
  BY <1>7 DEF vars, OrderInv, Traced
<1> QED BY <1>1, <1>2, <1>4, <1>5, <1>6, <1>7 DEF Next, Renders

\* The segments of an edit follow one another and never touch.
THEOREM SegmentsStayInOrder == Spec => []SegmentsInOrder
<1>1. Init => LoopTypes /\ OrderInv
  <2>1. Init => OrderInv
    BY DEF Init, OrderInv, Traced
  <2> QED BY <2>1, InitTypes
<1>2. LoopTypes /\ OrderInv /\ [Next]_vars => (LoopTypes /\ OrderInv)'
  BY LoopTypesStep, OrderInvStep
<1>3. LoopTypes /\ OrderInv => SegmentsInOrder
  <2> SUFFICES ASSUME LoopTypes, OrderInv, Cuts(job) # {} PROVE SegmentsInOrder
    BY DEF SegmentsInOrder
  <2>1. \/ segments = <<>>
        \/ segments \in Seq(Nat \X Nat) /\ \E q \in Nat : Ordered(segments, q)
    BY DEF LoopTypes, OrderInv, Traced
  <2>2. CASE segments = <<>>
    BY <2>2 DEF SegmentsInOrder
  <2>3. CASE segments \in Seq(Nat \X Nat) /\ \E q \in Nat : Ordered(segments, q)
    <3>1. PICK q \in Nat : Ordered(segments, q)
      BY <2>3, Zenon
    <3>2. DOMAIN segments = 1..Len(segments)
      BY <2>3
    <3>3. \A i \in DOMAIN segments :
             /\ segments[i][1] < segments[i][2]
             /\ i < Len(segments) => segments[i][2] < segments[i + 1][1]
      BY <3>1, <3>2 DEF Ordered
    <3> QED  BY <3>3 DEF SegmentsInOrder
  <2> QED BY <2>1, <2>2, <2>3
<1> QED BY <1>1, <1>2, <1>3, PTL DEF Spec

\* Of any cuts, in any order and overlap, apply_edits makes ranges that hold what
\* is to be kept and nothing else, and that come one after the other with a gap
\* between any two.
THEOREM SegmentsAreCorrect == Spec => []SegmentsCorrect
<1>1. TypeOK /\ KeptExactly /\ SegmentsInOrder => SegmentsCorrect
  BY DEF SegmentsCorrect
<1> QED BY <1>1, TypesHold, KeepsExactly, SegmentsStayInOrder, PTL
-----------------------------------------------------------------------------
(* The temporary directory *)

\* The files in the directory: none before it is made, then the segments in
\* order, and after a failure among them no list.
TempInv ==
    /\ pc \in {"called", "walk", "render", "done"} => temp = {}
    /\ pc = "copy" => \E k \in 0..Len(segments) : temp = 0..k
    /\ pc = "failed" => Len(segments) + 1 \notin temp

LEMMA CopyStep ==
    ASSUME LoopTypes, TempInv, pc = "copy"
    PROVE  /\ CopySegment => TempInv'
           /\ Concat => TempInv'
<1>1. PICK k \in 0..Len(segments) : temp = 0..k
  BY DEF TempInv
<1>2. Len(segments) \in Nat /\ k \in Nat
  BY <1>1 DEF LoopTypes
<1>3. Cardinality(temp) = k + 1
  BY <1>1, <1>2, FS_Interval
<1>4. ASSUME CopySegment PROVE TempInv'
  <2>1. k + 1 <= Len(segments) /\ temp' = (0..k) \cup {k + 1} /\ segments' = segments
          /\ pc' \in {"copy", "failed"}
    BY <1>1, <1>3, <1>4 DEF CopySegment, walk
  <2>2. temp' = 0..(k + 1) /\ k + 1 \in 0..Len(segments)
    BY <1>2, <2>1
  <2>3. Len(segments) + 1 \notin temp'
    BY <1>2, <2>1
  <2> QED  BY <2>1, <2>2, <2>3 DEF TempInv
<1>5. ASSUME Concat PROVE TempInv'
  <2>1. pc' \in {"clean_done", "clean_failed"}
    BY <1>5 DEF Concat, Ffmpeg
  <2> QED  BY <2>1 DEF TempInv
<1> QED  BY <1>4, <1>5

LEMMA TempInvStep == LoopTypes /\ TempInv /\ [Next]_vars => TempInv'
<1> SUFFICES ASSUME LoopTypes, TempInv, [Next]_vars PROVE TempInv'
  OBVIOUS
<1>1. CASE CallSimple \/ CallWithCuts \/ LastSegment
  <2>1. temp' = temp /\ temp = {} /\ pc' \in {"walk", "render", "failed"}
    BY <1>1 DEF CallSimple, CallWithCuts, LastSegment, TempInv
  <2> QED  BY <2>1 DEF TempInv
<1>2. CASE CopyCut \/ FadeCut
  <2>1. temp' = temp /\ pc = "walk" /\ pc' = "walk"
    BY <1>2 DEF CopyCut, FadeCut, NextCut
  <2> QED  BY <2>1 DEF TempInv
<1>3. CASE StreamCopySimple \/ ApplySimple \/ FilterComplex
  <2>1. temp' = temp /\ temp = {} /\ pc' \in {"done", "failed"}
    BY <1>3 DEF StreamCopySimple, ApplySimple, FilterComplex, Ffmpeg, TempInv
  <2> QED  BY <2>1 DEF TempInv
<1>4. CASE MakeTemp
  <2>1. temp' = 0..0 /\ pc' = "copy" /\ 0 \in 0..Len(segments')
    BY <1>4 DEF MakeTemp, walk, LoopTypes
  <2> QED  BY <2>1 DEF TempInv
<1>5. CASE CopySegment \/ Concat
  BY <1>5, CopyStep DEF CopySegment, Concat
<1>6. CASE Cleanup
  <2>1. temp' = {} /\ pc' \in {"done", "failed"}
    BY <1>6 DEF Cleanup
  <2> QED  BY <2>1 DEF TempInv
<1>7. CASE UNCHANGED vars
  BY <1>7 DEF vars, TempInv
<1> QED  BY <1>1, <1>2, <1>3, <1>4, <1>5, <1>6, <1>7 DEF Next

\* However the call ends, files are left behind only where copying a segment
\* failed: a list that was written is removed, and all that goes with it.
THEOREM TempFilesGo == Spec => []TempIsRemoved
<1>1. Init => LoopTypes /\ TempInv
  BY InitTypes DEF Init, TempInv
<1>2. LoopTypes /\ TempInv /\ [Next]_vars => (LoopTypes /\ TempInv)'
  BY LoopTypesStep, TempInvStep
<1>3. TempInv => TempIsRemoved
  BY DEF TempInv, TempIsRemoved
<1> QED  BY <1>1, <1>2, <1>3, PTL DEF Spec

-----------------------------------------------------------------------------
(* The sum in BufferOffset, and what it counts *)

LEMMA Lowest ==
    ASSUME NEW S \in SUBSET Nat, S # {}
    PROVE  \E x \in S : \A y \in S : x <= y
<1> DEFINE R == OpToRel(<, Nat)
<1>1. IsWellFoundedOn(R, Nat)
  BY NatLessThanWellFounded
<1>2. \A x, y \in S : y < x => <<y, x>> \in R
  BY DEF OpToRel
<1> HIDE DEF R
<1>3. PICK x \in S : \A y \in S : ~ (<<y, x>> \in R)
  BY <1>1, WFMin
<1>4. \A y \in S : ~(y < x)
  BY <1>2, <1>3
<1> QED  BY <1>4

\* h folds f over the subsets of D, one element at a time.
Folding(h, f, D) ==
    h = [s \in SUBSET D |->
            IF s = {} THEN 0
            ELSE f[CHOOSE x \in s : TRUE] + h[s \ {CHOOSE x \in s : TRUE}]]

LEMMA SumIsFold ==
    ASSUME NEW f
    PROVE  Sum(f) = (CHOOSE h : Folding(h, f, DOMAIN f))[DOMAIN f]
  BY DEF Sum, FoldSeq, FoldFunction, FoldFunctionOnSet, MapThenFoldSet, Folding

\* Over a finite set there is one way to fold.
LEMMA OneFold ==
    ASSUME NEW D, IsFiniteSet(D), NEW f, NEW g, NEW h, Folding(g, f, D), Folding(h, f, D)
    PROVE  g[D] = h[D]
<1> DEFINE Wrong == {s \in SUBSET D : g[s] # h[s]}
           Sizes == {Cardinality(s) : s \in Wrong}
<1>1. \A s \in SUBSET D : IsFiniteSet(s) /\ Cardinality(s) \in Nat
  BY FS_Subset, FS_CardinalityType
<1> SUFFICES ASSUME Wrong # {} PROVE FALSE
  OBVIOUS
<1>2. PICK s \in Wrong : \A r \in Wrong : Cardinality(s) <= Cardinality(r)
  <2>1. Sizes \in SUBSET Nat /\ Sizes # {}
    BY <1>1
  <2>2. PICK n \in Sizes : \A m \in Sizes : n <= m
    BY <2>1, Lowest
  <2> QED  BY <2>2
<1> DEFINE x == CHOOSE y \in s : TRUE
<1>3. /\ g[s] = IF s = {} THEN 0 ELSE f[x] + g[s \ {x}]
      /\ h[s] = IF s = {} THEN 0 ELSE f[x] + h[s \ {x}]
  BY <1>2 DEF Folding
<1>4. s # {} /\ x \in s
  BY <1>2, <1>3
<1> HIDE DEF x
<1>5. s \ {x} \in Wrong
  BY <1>2, <1>3, <1>4
<1>6. Cardinality(s \ {x}) = Cardinality(s) - 1
  BY <1>1, <1>2, <1>4, FS_RemoveElement
<1> QED  BY <1>1, <1>2, <1>5, <1>6

\* What of t instants the segments of I hold.
Held(segs, I, t) == {u \in 0..(t - 1) : \E i \in I : segs[i][1] <= u /\ u < segs[i][2]}

\* How much of t instants a segment holds: what BufferOffset adds up.
Piece(segs, t) == [i \in DOMAIN segs |-> Most(0, Least(t, segs[i][2]) - segs[i][1])]

\* No two of the segments share an instant.
Apart(segs) == \A i, j \in DOMAIN segs : i < j => segs[i][2] <= segs[j][1]

LEMMA PieceSize ==
    ASSUME NEW s \in Nat, NEW e \in Nat, NEW t \in Nat
    PROVE  Cardinality({u \in 0..(t - 1) : s <= u /\ u < e}) = Most(0, Least(t, e) - s)
<1>1. PICK m \in Nat : m = Least(t, e)
  BY DEF Least
<1>2. {u \in 0..(t - 1) : s <= u /\ u < e} = s..(m - 1)
  BY <1>1 DEF Least
<1>3. Cardinality(s..(m - 1)) = IF s > m - 1 THEN 0 ELSE (m - 1) - s + 1
  <2>1. m - 1 \in Int /\ s \in Int
    OBVIOUS
  <2> QED  BY <2>1, FS_Interval
<1>4. Cardinality(s..(m - 1)) = Most(0, m - s)
  <2>1. CASE s > m - 1
    BY <1>3, <2>1 DEF Most
  <2>2. CASE ~(s > m - 1)
    BY <1>3, <2>2 DEF Most
  <2> QED  BY <2>1, <2>2
<1> QED  BY <1>1, <1>2, <1>4

\* One segment more holds the instants it has, and they are not held yet.
LEMMA HeldMore ==
    ASSUME NEW segs \in Seq(Nat \X Nat), Apart(segs), NEW t \in Nat,
           NEW I \in SUBSET DOMAIN segs, NEW x \in I
    PROVE  Cardinality(Held(segs, I, t)) = Piece(segs, t)[x] + Cardinality(Held(segs, I \ {x}, t))
<1> DEFINE A == {u \in 0..(t - 1) : segs[x][1] <= u /\ u < segs[x][2]}
           B == Held(segs, I \ {x}, t)
<1>1. DOMAIN segs = 1..Len(segs) /\ Len(segs) \in Nat
        /\ \A i \in DOMAIN segs : segs[i][1] \in Nat /\ segs[i][2] \in Nat
  OBVIOUS
<1>2. Held(segs, I, t) = A \cup B
  BY DEF Held
<1>3. A \cap B = {}
  <2> SUFFICES ASSUME NEW u \in 0..(t - 1), u \in A, u \in B PROVE FALSE
    OBVIOUS
  <2>1. segs[x][1] <= u /\ u < segs[x][2]
    OBVIOUS
  <2>2. PICK i \in I \ {x} : segs[i][1] <= u /\ u < segs[i][2]
    BY DEF Held
  <2>3. i \in 1..Len(segs) /\ x \in 1..Len(segs) /\ i # x
    BY <1>1
  <2>4. segs[i][2] <= segs[x][1] \/ segs[x][2] <= segs[i][1]
    <3>1. i < x \/ x < i
      BY <2>3
    <3> QED  BY <1>1, <2>3, <3>1 DEF Apart
  <2> QED  BY <1>1, <2>1, <2>2, <2>3, <2>4
<1>4. IsFiniteSet(A) /\ IsFiniteSet(B)
  <2>1. IsFiniteSet(0..(t - 1))
    BY FS_Interval
  <2>2. A \in SUBSET (0..(t - 1)) /\ B \in SUBSET (0..(t - 1))
    BY DEF Held
  <2> QED  BY <2>1, <2>2, FS_Subset
<1>5. Cardinality(A) = Piece(segs, t)[x]
  BY <1>1, PieceSize DEF Piece
<1>6. Cardinality(A \cup B) = Cardinality(A) + Cardinality(B) - Cardinality(A \cap B)
  BY <1>4, FS_Union
<1>7. Cardinality(A \cap B) = 0 /\ Cardinality(A) \in Nat /\ Cardinality(B) \in Nat
  BY <1>3, <1>4, FS_EmptySet, FS_CardinalityType
<1> HIDE DEF A, B
<1>8. Cardinality(A \cup B) = Cardinality(A) + Cardinality(B)
  BY <1>6, <1>7
<1> QED  BY <1>2, <1>5, <1>8 DEF B

\* BufferOffset counts the instants before t that the segments hold.
LEMMA OffsetCounts ==
    ASSUME NEW segs \in Seq(Nat \X Nat), Apart(segs), NEW t \in Nat
    PROVE  BufferOffset(t, segs) = Cardinality({u \in 0..(t - 1) : In(segs, u)})
<1> DEFINE D == DOMAIN segs
           f == Piece(segs, t)
           g == [s \in SUBSET D |-> Cardinality(Held(segs, s, t))]
           h == CHOOSE k : Folding(k, f, D)
<1>1. D = 1..Len(segs) /\ Len(segs) \in Nat /\ IsFiniteSet(D)
  BY FS_Interval
<1>2. DOMAIN f = D
  BY DEF Piece
<1>3. Cardinality(Held(segs, {}, t)) = 0
  BY FS_EmptySet DEF Held
<1>4. ASSUME NEW s \in SUBSET D, s # {}
      PROVE  g[s] = f[CHOOSE x \in s : TRUE] + g[s \ {CHOOSE x \in s : TRUE}]
  <2> DEFINE x == CHOOSE x \in s : TRUE
  <2>1. x \in s
    BY <1>4
  <2> HIDE DEF x
  <2>2. Cardinality(Held(segs, s, t)) = f[x] + Cardinality(Held(segs, s \ {x}, t))
    BY <1>4, <2>1, HeldMore
  <2>3. g[s] = f[x] + g[s \ {x}]
    BY <2>2
  <2> QED  BY <2>3 DEF x
<1>5. Folding(g, f, D)
  <2>1. g[{}] = 0
    BY <1>3
  <2>2. g = [s \in SUBSET D |->
               IF s = {} THEN 0
               ELSE f[CHOOSE x \in s : TRUE] + g[s \ {CHOOSE x \in s : TRUE}]]
    <3>1. \A s \in SUBSET D :
            g[s] = IF s = {} THEN 0
                   ELSE f[CHOOSE x \in s : TRUE] + g[s \ {CHOOSE x \in s : TRUE}]
      BY <1>4, <2>1
    <3>2. g = [s \in SUBSET D |-> g[s]]
      OBVIOUS
    <3> HIDE DEF g
    <3> QED  BY <3>1, <3>2
  <2> HIDE DEF g
  <2> QED  BY <2>2 DEF Folding
<1>6. Folding(h, f, D)
  BY <1>5
<1>7. Sum(f) = h[D]
  BY <1>2, SumIsFold
<1>8. h[D] = g[D]
  <2> HIDE DEF g, h, f, D
  <2> QED  BY <1>1, <1>5, <1>6, OneFold
<1>9. g[D] = Cardinality({u \in 0..(t - 1) : In(segs, u)})
  BY DEF Held, In
<1>10. BufferOffset(t, segs) = Sum(f)
  BY DEF BufferOffset, Piece
<1> HIDE DEF g, h, f, D
<1> QED  BY <1>7, <1>8, <1>9, <1>10

-----------------------------------------------------------------------------
(* What the output plays *)

\* What _apply_simple lets ffmpeg write.
OneRange == <<<<segments[1][1], StopsAt(segments[1][1], segments[1][2])>>>>

\* The output, by the path the parameters choose.
Due ==
    IF Lossless(job) THEN Copied(segments)
    ELSE IF Len(segments) = 1 THEN Filtered(OneRange, MergedFades, {})
    ELSE Filtered(segments, Fades(job), UNION {SegmentRamps(i) : i \in DOMAIN segments})

\* A call with no cut has one segment, and an output that is written is as it is due.
OutputInv ==
    /\ pc = "walk" => Cuts(job) # {}
    /\ Traced /\ Cuts(job) = {} => Len(segments) = 1
    /\ pc = "copy" => Lossless(job)
    /\ pc \in {"clean_done", "done"} => output = Due

LEMMA DueStays ==
    ASSUME UNCHANGED <<job, segments, seg_fades>>
    PROVE  Due' = Due
<1>1. job' = job /\ segments' = segments /\ seg_fades' = seg_fades
  OBVIOUS
<1>2. MergedFades' = MergedFades
  BY <1>1 DEF MergedFades
<1>3. \A i : SegmentRamps(i)' = SegmentRamps(i)
  BY <1>1 DEF SegmentRamps
<1>4. OneRange' = OneRange
  BY <1>1 DEF OneRange, StopsAt, Bounded
<1> QED  BY <1>1, <1>2, <1>3, <1>4 DEF Due, Filtered

LEMMA OutputInvStep == LoopTypes /\ OutputInv /\ [Next]_vars => OutputInv'
<1> SUFFICES ASSUME LoopTypes, OutputInv, [Next]_vars PROVE OutputInv'
  OBVIOUS
<1>1. CASE CallSimple
  <2>1. pc' = "render" /\ job' = job /\ Len(segments') = 1
    BY <1>1 DEF CallSimple
  <2> QED  BY <2>1 DEF OutputInv
<1>2. CASE CallWithCuts
  <2>1. pc' = "walk" /\ job' = job /\ Cuts(job) # {}
    BY <1>2 DEF CallWithCuts
  <2> QED  BY <2>1 DEF OutputInv, Traced
<1>3. CASE CopyCut \/ FadeCut \/ LastSegment
  <2>1. pc = "walk" /\ pc' \in {"walk", "render", "failed"} /\ job' = job
    BY <1>3 DEF CopyCut, FadeCut, NextCut, LastSegment
  <2> QED  BY <2>1 DEF OutputInv, Traced
<1>4. CASE Renders
  <2>1. UNCHANGED <<job, segments, seg_fades>> /\ Traced /\ pc' \notin {"called", "walk"}
    BY <1>4, RenderStep DEF walk
  <2>2. Due' = Due
    BY <2>1, DueStays
  <2>3. pc' = "copy" => Lossless(job)
    BY <1>4 DEF Renders, StreamCopySimple, MakeTemp, CopySegment, Concat, Cleanup,
                ApplySimple, FilterComplex, Ffmpeg, OutputInv
  <2>4. pc' \in {"clean_done", "done"} => output' = Due
    <3>1. CASE StreamCopySimple \/ ApplySimple \/ FilterComplex
      <4>1. \/ output' = Due
            \/ pc' = "failed"
        <5>1. CASE StreamCopySimple
          BY <5>1, Zenon DEF StreamCopySimple, Ffmpeg, Due
        <5>2. CASE ApplySimple
          <6> DEFINE o == Filtered(OneRange, MergedFades, {})
          <6>1. ~Lossless(job) /\ Len(segments) = 1 /\ (output' = o \/ pc' = "failed")
            BY <5>2, Zenon DEF ApplySimple, Ffmpeg, OneRange
          <6> HIDE DEF o
          <6>2. Due = o
            BY <6>1, Zenon DEF Due, o
          <6> QED  BY <6>1, <6>2, Zenon
        <5>3. CASE FilterComplex
          <6>1. Len(segments) # 1
            <7>1. Len(segments) > 1
              BY <5>3, Zenon DEF FilterComplex
            <7>2. Len(segments) \in Nat
              BY DEF LoopTypes
            <7> QED  BY <7>1, <7>2
          <6> DEFINE o == Filtered(segments, Fades(job),
                                   UNION {SegmentRamps(i) : i \in DOMAIN segments})
          <6>2. ~Lossless(job) /\ (output' = o \/ pc' = "failed")
            BY <5>3, Zenon DEF FilterComplex, Ffmpeg
          <6> HIDE DEF o
          <6>3. Due = o
            BY <6>1, <6>2, Zenon DEF Due, o
          <6> QED  BY <6>2, <6>3, Zenon
        <5> QED  BY <3>1, <5>1, <5>2, <5>3
      <4> QED  BY <4>1
    <3>2. CASE MakeTemp \/ CopySegment
      BY <3>2 DEF MakeTemp, CopySegment
    <3>3. CASE Concat
      BY <3>3 DEF Concat, Ffmpeg, Due, OutputInv
    <3>4. CASE Cleanup
      BY <3>4 DEF Cleanup, OutputInv
    <3> QED  BY <1>4, <3>1, <3>2, <3>3, <3>4 DEF Renders
  <2> QED  BY <2>1, <2>2, <2>3, <2>4 DEF OutputInv
<1>5. CASE UNCHANGED vars
  <2>1. UNCHANGED <<job, segments, seg_fades, pc, output>>
    BY <1>5 DEF vars
  <2> QED  BY <2>1, DueStays DEF OutputInv, Traced
<1> QED  BY <1>1, <1>2, <1>3, <1>4, <1>5 DEF Next, Renders

LEMMA OneDown ==
    ASSUME NEW n \in Nat, NEW i \in 1..n, NEW j \in 1..n, i < j
    PROVE  \E m \in 1..n : m + 1 = j /\ m < n /\ (m = i \/ i < m) /\ ~(j <= m)
<1>1. j - 1 \in 1..n /\ (j - 1) + 1 = j /\ j - 1 < n /\ ~(j <= j - 1)
  OBVIOUS
<1>2. j - 1 = i \/ i < j - 1
  OBVIOUS
<1> QED  BY <1>1, <1>2

\* Ranges in order are apart, neighbours or not.
LEMMA OrderedApart ==
    ASSUME NEW segs \in Seq(Nat \X Nat), NEW q \in Nat, Ordered(segs, q)
    PROVE  Apart(segs)
<1>1. /\ DOMAIN segs = 1..Len(segs) /\ Len(segs) \in Nat
      /\ \A j \in 1..Len(segs) : segs[j][1] \in Nat /\ segs[j][2] \in Nat
  OBVIOUS
<1> SUFFICES ASSUME NEW i \in 1..Len(segs), NEW k \in 1..Len(segs), i < k
             PROVE  segs[i][2] <= segs[k][1]
  BY <1>1 DEF Apart
<1> DEFINE F == {j \in 1..Len(segs) : i < j /\ ~(segs[i][2] <= segs[j][1])}
<1> SUFFICES ASSUME F # {} PROVE FALSE
  OBVIOUS
<1>2. PICK j \in F : \A x \in F : j <= x
  <2>1. F \in SUBSET Nat
    BY <1>1
  <2> HIDE DEF F
  <2> QED  BY <2>1, Lowest
<1>3. j \in 1..Len(segs) /\ i < j /\ ~(segs[i][2] <= segs[j][1])
  BY <1>2
<1>4. PICK m \in 1..Len(segs) : m + 1 = j /\ m < Len(segs) /\ (m = i \/ i < m) /\ ~(j <= m)
  BY <1>1, <1>3, OneDown
<1>5. segs[m][1] < segs[m][2] /\ segs[m][2] < segs[j][1]
  BY <1>4 DEF Ordered
<1>6. i < m => segs[i][2] <= segs[m][1]
  BY <1>2, <1>4
<1> HIDE DEF F
<1>7. /\ segs[i][2] \in Nat /\ segs[j][1] \in Nat
      /\ segs[m][1] \in Nat /\ segs[m][2] \in Nat
  BY <1>1, <1>3
<1>8. CASE m = i
  <2>1. segs[i][2] < segs[j][1]
    BY <1>5, <1>8
  <2> QED  BY <1>3, <1>7, <2>1
<1>9. CASE i < m
  <2>1. segs[i][2] <= segs[m][1]
    BY <1>6, <1>9
  <2>2. \A a, b, c, d \in Nat : a <= b /\ b < c /\ c < d => a <= d
    OBVIOUS
  <2> QED  BY <1>3, <1>5, <1>7, <2>1, <2>2
<1> QED  BY <1>4, <1>8, <1>9

\* All that is known once the segments are found.
Known == LoopTypes /\ LoopInv /\ OrderInv /\ OutputInv

LEMMA SegmentsApart ==
    ASSUME Known, Traced
    PROVE  Apart(segments)
<1>1. CASE Cuts(job) = {}
  <2>1. segments \in Seq(Nat \X Nat) /\ Len(segments) = 1
    BY <1>1 DEF Known, LoopTypes, OutputInv
  <2> QED  BY <2>1 DEF Apart
<1>2. CASE Cuts(job) # {}
  BY <1>2, OrderedApart DEF Known, LoopTypes, OrderInv
<1> QED  BY <1>1, <1>2

\* A kept instant's place in the output is where the filters put it.
LEMMA OffsetIsPlace ==
    ASSUME Known, Traced, NEW t \in Nat
    PROVE  BufferOffset(t, segments) = Before(t)
<1>1. \A u \in 0..(t - 1) : In(segments, u) <=> Kept(u)
  BY DEF Known, LoopInv
<1>2. {u \in 0..(t - 1) : In(segments, u)} = {u \in 0..(t - 1) : Kept(u)}
  BY <1>1
<1>3. segments \in Seq(Nat \X Nat)
  BY DEF Known, LoopTypes
<1> QED  BY <1>2, <1>3, SegmentsApart, OffsetCounts DEF Before

LEMMA PlacesGrow ==
    ASSUME NEW s \in Nat, NEW t \in Nat, s <= t
    PROVE  /\ Before(s) \in Nat /\ Before(t) \in Nat /\ Before(s) <= Before(t)
           /\ s < t /\ Kept(s) => Before(s) < Before(t)
<1> DEFINE S == {u \in 0..(s - 1) : Kept(u)}
           T == {u \in 0..(t - 1) : Kept(u)}
<1>1. S \in SUBSET T /\ T \in SUBSET (0..(t - 1)) /\ IsFiniteSet(0..(t - 1))
  BY FS_Interval
<1>2. IsFiniteSet(S) /\ IsFiniteSet(T)
  BY <1>1, FS_Subset
<1>3. s \notin S /\ (s < t /\ Kept(s) => s \in T)
  OBVIOUS
<1> HIDE DEF S, T
<1>4. Cardinality(S) \in Nat /\ Cardinality(T) \in Nat /\ Cardinality(S) <= Cardinality(T)
  BY <1>1, <1>2, FS_Subset, FS_CardinalityType
<1>5. s \in T => Cardinality(S) < Cardinality(T)
  <2> SUFFICES ASSUME s \in T PROVE Cardinality(S) < Cardinality(T)
    OBVIOUS
  <2>1. Cardinality(S \cup {s}) = Cardinality(S) + 1
    BY <1>2, <1>3, FS_AddElement
  <2>2. S \cup {s} \in SUBSET T
    BY <1>1
  <2>3. Cardinality(S \cup {s}) <= Cardinality(T)
    BY <1>2, <2>2, FS_Subset
  <2> QED  BY <1>4, <2>1, <2>3
<1> QED  BY <1>3, <1>4, <1>5 DEF Before, S, T

LEMMA ElementIn ==
    ASSUME NEW S, NEW q \in Seq(S), NEW i \in 1..Len(q)
    PROVE  q[i] \in S
  OBVIOUS

\* Less of one range is heard at a higher speed than its length bounds, and no
\* more of it at a lower one.
LEMMA SpeedBounds ==
    ASSUME NEW s \in Nat, NEW e \in Nat, NEW r \in 4..64, NEW t \in Nat
    PROVE  LET stop == s + ((e - s) * r + 15) \div 16
           IN  /\ r >= 16 /\ s <= t /\ t < e => t < stop
               /\ r <= 16 /\ s <= t /\ t < stop => t < e
<1> DEFINE d    == e - s
           q    == (d * r + 15) \div 16
<1>1. d \in Int /\ d * r \in Int /\ q \in Int /\ q * 16 <= d * r + 15 /\ d * r < q * 16 + 1
  <2>1. d \in Int /\ d * r \in Int
    OBVIOUS
  <2>2. \A x \in Int : /\ (x + 15) \div 16 \in Int
                      /\ ((x + 15) \div 16) * 16 <= x + 15
                      /\ x < ((x + 15) \div 16) * 16 + 1
    OBVIOUS
  <2> HIDE DEF d
  <2> QED  BY <2>1, <2>2
<1>2. ASSUME r >= 16, d > 0 PROVE d * 16 <= d * r
  <2>1. d \in Nat /\ r - 16 \in Nat
    BY <1>1, <1>2
  <2>2. \A a, b \in Nat : a * 16 <= a * (b + 16)
    OBVIOUS
  <2>3. (r - 16) + 16 = r
    OBVIOUS
  <2> HIDE DEF d
  <2> QED  BY <2>1, <2>2, <2>3
<1>3. ASSUME r <= 16, d >= 0 PROVE d * r <= d * 16
  <2>1. d \in Nat /\ r \in Nat /\ 16 - r \in Nat
    BY <1>1, <1>3
  <2>2. \A a, b, c \in Nat : b + c = 16 => a * b <= a * 16
    OBVIOUS
  <2>3. r + (16 - r) = 16
    OBVIOUS
  <2> HIDE DEF d
  <2> QED  BY <2>1, <2>2, <2>3
<1>4. ASSUME d < 0 PROVE d * r < 0
  <2>1. -d \in Nat /\ -d > 0 /\ r \in Nat /\ r > 0
    BY <1>1, <1>4
  <2>2. \A a, b \in Nat : a > 0 /\ b > 0 => (-a) * b < 0
    OBVIOUS
  <2>3. d = -(-d)
    BY <1>1
  <2> HIDE DEF d
  <2> QED  BY <2>1, <2>2, <2>3
<1> DEFINE p == d * r
<1> HIDE DEF p
<1>5. d = e - s /\ d \in Int
  OBVIOUS
<1>6. /\ r >= 16 /\ d > 0 => d <= q
      /\ r <= 16 /\ d >= 0 => q <= d
      /\ d < 0 => q <= 0
  <2>1. p \in Int /\ q \in Int /\ q * 16 <= p + 15 /\ p < q * 16 + 1
    BY <1>1 DEF p
  <2>2. /\ r >= 16 /\ d > 0 => d * 16 <= p
        /\ r <= 16 /\ d >= 0 => p <= d * 16
        /\ d < 0 => p < 0
    BY <1>2, <1>3, <1>4 DEF p
  <2> HIDE DEF d, q
  <2> QED  BY <2>1, <2>2, <1>5
<1> HIDE DEF q, d
<1>7. q \in Int
  BY <1>1
<1> QED  BY <1>5, <1>6, <1>7 DEF q, d

LEMMA PlaysAsDue ==
    ASSUME Known
    PROVE  PlaysWhatIsKept
<1> SUFFICES ASSUME pc = "done", NEW t \in 0..Sentinel
             PROVE  /\ Kept(t) /\ (Unbounded \/ job.speed >= 16) => Plays(t)
                    /\ Plays(t) /\ (Unbounded \/ job.speed <= 16) => Kept(t)
  BY DEF PlaysWhatIsKept
<1>1. /\ output = Due /\ t \in Nat /\ job.speed \in 4..64
      /\ segments \in Seq(Nat \X Nat) /\ (In(segments, t) <=> Kept(t))
  BY EditorAssumption DEF Known, OutputInv, LoopTypes, EditParams, Speeds, LoopInv, Traced
<1>2. CASE Lossless(job) \/ Len(segments) # 1
  <2>1. output.segs = segments
    <3>1. CASE Lossless(job)
      BY <1>1, <3>1, Zenon DEF Due, Copied
    <3>2. CASE ~Lossless(job)
      <4>1. output = Filtered(segments, Fades(job),
                              UNION {SegmentRamps(i) : i \in DOMAIN segments})
        BY <1>1, <1>2, <3>2, Zenon DEF Due
      <4> QED  BY <4>1, Zenon DEF Filtered
    <3> QED  BY <3>1, <3>2
  <2>2. Plays(t) <=> In(segments, t)
    BY <2>1, Zenon DEF Plays, In
  <2> QED  BY <1>1, <2>2
<1>3. CASE ~Lossless(job) /\ Len(segments) = 1
  <2> DEFINE s == segments[1][1]
             e == segments[1][2]
             stop == StopsAt(s, e)
  <2>1. s \in Nat /\ e \in Nat /\ DOMAIN segments = {1}
    <3>1. 1 \in 1..Len(segments)
      BY <1>3
    <3>2. segments[1] \in Nat \X Nat
      BY <1>1, <3>1, ElementIn
    <3>3. DOMAIN segments = {1}
      BY <1>1, <1>3
    <3> QED  BY <3>2, <3>3
  <2>2. Kept(t) <=> s <= t /\ t < e
    BY <1>1, <2>1 DEF In
  <2>3. output.segs = <<<<s, stop>>>>
    <3>1. output = Filtered(OneRange, MergedFades, {})
      BY <1>1, <1>3, Zenon DEF Due
    <3>2. output.segs = OneRange
      BY <3>1, Zenon DEF Filtered
    <3> QED  BY <3>2 DEF OneRange
  <2> HIDE DEF s, e, stop
  <2>4. Plays(t) <=> s <= t /\ t < stop
    <3>1. /\ DOMAIN output.segs = {1}
          /\ output.segs[1][1] = s /\ output.segs[1][2] = stop
      BY <2>3
    <3> QED  BY <3>1, Zenon DEF Plays
  <2>5. CASE ~Bounded
    <3>1. stop = e
      BY <2>5 DEF stop, StopsAt
    <3> QED  BY <2>2, <2>4, <3>1
  <2>6. CASE Bounded
    <3>1. stop = s + ((e - s) * job.speed + 15) \div 16
      BY <2>6 DEF stop, StopsAt
    <3>2. ~Unbounded
      BY <1>3, <2>6 DEF Unbounded
    <3>3. /\ job.speed >= 16 /\ s <= t /\ t < e => t < stop
          /\ job.speed <= 16 /\ s <= t /\ t < stop => t < e
      BY <1>1, <2>1, <3>1, SpeedBounds
    <3> QED  BY <2>2, <2>4, <3>2, <3>3
  <2> QED  BY <2>5, <2>6
<1> QED  BY <1>2, <1>3

\* A fade that was asked for is among those the output plays.
LEMMA FadesAreDue ==
    ASSUME Known, pc = "done", NEW f \in Fades(job),
           BufferOffset(f.start, segments) < BufferOffset(f.end, segments)
    PROVE  [type |-> f.type, start |-> BufferOffset(f.start, segments),
            end |-> BufferOffset(f.end, segments)] \in output.fades
<1>1. ~Lossless(job) /\ output = Due
  BY DEF Known, OutputInv, Lossless
<1>2. PICK plays, fs, ramps : Fades(job) \subseteq fs /\ output = Filtered(plays, fs, ramps)
  <2>1. CASE Len(segments) = 1
    <3>1. output = Filtered(OneRange, MergedFades, {})
      BY <1>1, <2>1, Zenon DEF Due
    <3>2. Fades(job) \subseteq MergedFades
      BY DEF MergedFades
    <3> QED  BY <3>1, <3>2, Zenon
  <2>2. CASE Len(segments) # 1
    <3>1. output = Filtered(segments, Fades(job),
                            UNION {SegmentRamps(i) : i \in DOMAIN segments})
      BY <1>1, <2>2, Zenon DEF Due
    <3> QED  BY <3>1, Zenon
  <2> QED  BY <2>1, <2>2
<1>3. output.fades = FadeFactors(fs, segments)
  BY <1>2 DEF Filtered
<1> QED  BY <1>2, <1>3 DEF FadeFactors

LEMMA FadesFollow ==
    ASSUME Known
    PROVE  FadesFollowTheMusic
<1> SUFFICES ASSUME pc = "done", NEW f \in Fades(job), NEW t \in 0..job.length, Kept(t), Plays(t)
             PROVE  (f.start <= t /\ t < f.end) <=>
                       \E g \in output.fades :
                           /\ g.type = f.type
                           /\ g.start = Before(f.start) /\ g.end = Before(f.end)
                           /\ g.start <= Before(t) /\ Before(t) < g.end
  BY DEF FadesFollowTheMusic
<1>1. f.start \in Nat /\ f.end \in Nat /\ t \in Nat /\ Traced
  BY DEF Known, LoopTypes, EditParams, FadeRange, Fades, Traced
<1>2. /\ BufferOffset(f.start, segments) = Before(f.start)
      /\ BufferOffset(f.end, segments) = Before(f.end)
  BY <1>1, OffsetIsPlace
<1>3. Before(f.start) \in Nat /\ Before(f.end) \in Nat /\ Before(t) \in Nat
  BY <1>1, PlacesGrow
<1>4. f.start <= t <=> Before(f.start) <= Before(t)
  BY <1>1, <1>3, PlacesGrow
<1>5. t < f.end <=> Before(t) < Before(f.end)
  BY <1>1, <1>3, PlacesGrow
<1>6. ASSUME f.start <= t, t < f.end
      PROVE  [type |-> f.type, start |-> Before(f.start), end |-> Before(f.end)] \in output.fades
  BY <1>2, <1>3, <1>4, <1>5, <1>6, FadesAreDue
<1> QED  BY <1>4, <1>5, <1>6

LEMMA KnownHolds == Spec => []Known
<1>1. Init => Known
  BY InitTypes DEF Init, Known, LoopInv, OrderInv, OutputInv, Traced
<1>2. Known /\ [Next]_vars => Known'
  BY LoopTypesStep, LoopInvStep, OrderInvStep, OutputInvStep DEF Known
<1> QED  BY <1>1, <1>2, PTL DEF Spec

\* However the cuts lie and whichever path is taken, the output plays what is to
\* be kept; a speed may lengthen or shorten the one range that is given an end.
THEOREM OutputIsAsKept == Spec => []PlaysWhatIsKept
  BY KnownHolds, PlaysAsDue, PTL

\* Wherever cuts and trim move the music, however many there are: a fade drawn
\* over the source is heard, of the kept instants the output plays, over those it
\* was drawn over and no others.
THEOREM FadesStayWithTheMusic == Spec => []FadesFollowTheMusic
  BY KnownHolds, FadesFollow, PTL

-----------------------------------------------------------------------------
(* Fades at the cuts *)

\* A range begins where the trim does and does not fade in, or it begins where a
\* cut ends and fades in as that asks; and so for where it ends.
Met(s, e, f) ==
    /\ \/ s = job.trim_start /\ f.in = 0
       \/ s > job.trim_start /\ \E c \in Cuts(job) : c.end = s /\ f.in = c.fade_in
    /\ \/ e = end /\ f.out = 0
       \/ e < end /\ \E c \in Cuts(job) : c.start = e /\ f.out = c.fade_out

AllMet(segs, fds) ==
    /\ Len(fds) = Len(segs)
    /\ \A i \in 1..Len(segs) : Met(segs[i][1], segs[i][2], fds[i])

\* The fade that is kept for the next range is that of a cut that ends at pos.
PendingInv ==
    \/ pos = job.trim_start /\ pending = 0
    \/ pos > job.trim_start /\ \E c \in Cuts(job) : CutEnd(c) = pos /\ pending = c.fade_in

FadeInv ==
    /\ pc = "called" => segments = <<>> /\ seg_fades = <<>> /\ pending = 0
    /\ pc = "walk" => IF Lossless(job) THEN seg_fades = <<>> /\ pending = 0
                      ELSE AllMet(segments, seg_fades) /\ PendingInv
    /\ Traced => IF Lossless(job)
                 THEN \A i \in DOMAIN seg_fades : seg_fades[i].in = 0 /\ seg_fades[i].out = 0
                 ELSE AllMet(segments, seg_fades)

LEMMA MetAppend ==
    ASSUME NEW segs \in Seq(Nat \X Nat), NEW fds \in Seq([in : Nat, out : Nat]),
           NEW s \in Nat, NEW e \in Nat, NEW f \in [in : Nat, out : Nat],
           AllMet(segs, fds), Met(s, e, f)
    PROVE  AllMet(Append(segs, <<s, e>>), Append(fds, f))
<1> DEFINE more == Append(segs, <<s, e>>)
           fmore == Append(fds, f)
<1>1. /\ Len(segs) \in Nat /\ Len(fds) = Len(segs)
      /\ Len(more) = Len(segs) + 1 /\ Len(fmore) = Len(segs) + 1
  BY DEF AllMet
<1>2. /\ more[Len(segs) + 1] = <<s, e>> /\ \A i \in 1..Len(segs) : more[i] = segs[i]
      /\ fmore[Len(segs) + 1] = f /\ \A i \in 1..Len(segs) : fmore[i] = fds[i]
  BY <1>1
<1> HIDE DEF more, fmore
<1>3. ASSUME NEW i \in 1..(Len(segs) + 1) PROVE Met(more[i][1], more[i][2], fmore[i])
  <2>1. CASE i = Len(segs) + 1
    <3>1. more[i][1] = s /\ more[i][2] = e /\ fmore[i] = f
      BY <1>2, <2>1
    <3> QED  BY <3>1
  <2>2. CASE i \in 1..Len(segs)
    <3>1. more[i] = segs[i] /\ fmore[i] = fds[i]
      BY <1>2, <2>2
    <3> QED  BY <2>2, <3>1 DEF AllMet
  <2> QED  BY <1>1, <2>1, <2>2
<1> QED  BY <1>1, <1>3 DEF AllMet, more, fmore

\* The range that begins at pos, wherever before the end it ends.
LEMMA MetHere ==
    ASSUME LoopTypes, PendingInv, NEW e, NEW o, pos < end,
           \/ e = end /\ o = 0
           \/ e < end /\ \E c \in Cuts(job) : c.start = e /\ o = c.fade_out
    PROVE  Met(pos, e, [in |-> pending, out |-> o])
<1>1. pos \in Nat /\ end \in Nat
  BY DEF LoopTypes
<1>2. ASSUME NEW c \in Cuts(job), CutEnd(c) = pos PROVE c.end = pos
  BY <1>1, <1>2, ClippedTypes
<1> QED  BY <1>2 DEF Met, PendingInv

LEMMA MetSame ==
    ASSUME UNCHANGED <<job, end>>, AllMet(segments', seg_fades')
    PROVE  AllMet(segments, seg_fades)'
<1>1. \A s, e, f : Met(s, e, f)' <=> Met(s, e, f)
  BY DEF Met
<1> QED  BY <1>1 DEF AllMet

LEMMA FadeCutMet ==
    ASSUME LoopTypes, AllMet(segments, seg_fades), PendingInv, NEW c \in todo, NextCut(c),
           IF Hidden(c) THEN UNCHANGED <<seg_fades, pending>>
           ELSE /\ seg_fades' = IF CutStart(c) > pos
                    THEN Append(seg_fades, [in |-> pending, out |-> c.fade_out])
                    ELSE seg_fades
                /\ pending' = c.fade_in
    PROVE  AllMet(segments, seg_fades)' /\ PendingInv'
<1>1. /\ c \in Cuts(job) /\ job' = job /\ end' = end
      /\ pos \in Nat /\ end \in Nat /\ pending \in Nat /\ pos >= job.trim_start
      /\ job.trim_start \in Nat /\ c.fade_out \in Nat
      /\ segments \in Seq(Nat \X Nat) /\ seg_fades \in Seq([in : Nat, out : Nat])
  BY CutTypes DEF LoopTypes, NextCut, EditParams
<1>2. /\ CutStart(c) \in Nat /\ CutEnd(c) \in Nat /\ CutStart(c) >= pos
      /\ CutStart(c) \in {pos, c.start} /\ CutEnd(c) <= end
  BY <1>1, ClippedTypes
<1>3. CASE Hidden(c)
  <2>1. UNCHANGED <<pos, segments, seg_fades, pending>>
    BY <1>3 DEF NextCut
  <2>2. AllMet(segments, seg_fades)'
    BY <1>1, <2>1, MetSame
  <2>3. PendingInv'
    BY <1>1, <2>1 DEF PendingInv, CutEnd
  <2> QED  BY <2>2, <2>3
<1>4. CASE ~Hidden(c)
  <2>1. pos' = CutEnd(c) /\ pending' = c.fade_in /\ CutStart(c) < CutEnd(c)
    BY <1>2, <1>4 DEF NextCut, Hidden
  <2>2. PendingInv'
    <3>1. CutEnd(c)' = CutEnd(c) /\ pos' > job'.trim_start
      BY <1>1, <1>2, <2>1 DEF CutEnd
    <3> QED  BY <1>1, <2>1, <3>1 DEF PendingInv
  <2>3. AllMet(segments', seg_fades')
    <3>1. CASE CutStart(c) > pos
      <4>1. /\ segments' = Append(segments, <<pos, CutStart(c)>>)
            /\ seg_fades' = Append(seg_fades, [in |-> pending, out |-> c.fade_out])
        BY <1>4, <3>1 DEF NextCut
      <4>2. CutStart(c) = c.start /\ CutStart(c) < end /\ pos < end
        BY <1>1, <1>2, <2>1, <3>1
      <4>3. Met(pos, CutStart(c), [in |-> pending, out |-> c.fade_out])
        BY <1>1, <4>2, MetHere
      <4> QED  BY <1>1, <1>2, <4>1, <4>3, MetAppend
    <3>2. CASE ~(CutStart(c) > pos)
      BY <1>4, <3>2 DEF NextCut
    <3> QED  BY <3>1, <3>2
  <2> QED  BY <1>1, <2>2, <2>3, MetSame
<1> QED  BY <1>3, <1>4

LEMMA FadeInvStep == LoopTypes /\ FadeInv /\ [Next]_vars => FadeInv'
<1> SUFFICES ASSUME LoopTypes, FadeInv, [Next]_vars PROVE FadeInv'
  OBVIOUS
<1>0. /\ pos \in Nat /\ end \in Nat /\ pending \in Nat
      /\ segments \in Seq(Nat \X Nat) /\ seg_fades \in Seq([in : Nat, out : Nat])
  BY DEF LoopTypes
<1>1. CASE CallSimple
  <2>1. /\ pc' = "render" /\ job' = job /\ segments' = <<<<job.trim_start, end'>>>>
        /\ seg_fades' = <<[in |-> 0, out |-> 0]>>
    BY <1>1 DEF CallSimple
  <2>2. AllMet(segments, seg_fades)'
    BY <2>1 DEF AllMet, Met
  <2> QED  BY <2>1, <2>2 DEF FadeInv
<1>2. CASE CallWithCuts
  <2>1. /\ pc' = "walk" /\ job' = job /\ segments' = <<>> /\ seg_fades' = <<>> /\ pending' = 0
        /\ pos' = job.trim_start
    BY <1>2 DEF CallWithCuts, FadeInv
  <2>2. AllMet(segments, seg_fades)'
    BY <2>1 DEF AllMet
  <2> QED  BY <2>1, <2>2 DEF FadeInv, PendingInv, Traced
<1>3. CASE CopyCut
  <2>1. /\ Lossless(job) /\ pc = "walk" /\ pc' = "walk" /\ job' = job
        /\ UNCHANGED <<seg_fades, pending>>
    BY <1>3 DEF CopyCut, NextCut
  <2> QED  BY <2>1 DEF FadeInv, Traced
<1>4. CASE FadeCut
  <2>1. PICK c \in todo :
          /\ NextCut(c)
          /\ IF Hidden(c) THEN UNCHANGED <<seg_fades, pending>>
             ELSE /\ seg_fades' = IF CutStart(c) > pos
                      THEN Append(seg_fades, [in |-> pending, out |-> c.fade_out])
                      ELSE seg_fades
                  /\ pending' = c.fade_in
    BY <1>4, Zenon DEF FadeCut
  <2>2. ~Lossless(job) /\ pc = "walk" /\ pc' = "walk" /\ job' = job
    BY <1>4, <2>1 DEF FadeCut, NextCut
  <2>3. AllMet(segments, seg_fades)' /\ PendingInv'
    BY <2>1, <2>2, FadeCutMet DEF FadeInv
  <2> QED  BY <2>2, <2>3 DEF FadeInv, Traced
<1>5. CASE LastSegment
  <2>1. /\ pc = "walk" /\ pc' \in {"failed", "render"} /\ UNCHANGED <<job, end>>
        /\ IF pos < end
           THEN /\ segments' = Append(segments, <<pos, end>>)
                /\ seg_fades' = Append(seg_fades, [in |-> pending, out |-> 0])
           ELSE UNCHANGED <<segments, seg_fades>>
    BY <1>5 DEF LastSegment
  <2>2. CASE Lossless(job)
    <3>1. seg_fades = <<>> /\ pending = 0
      BY <2>1, <2>2 DEF FadeInv
    <3>2. seg_fades' = <<>> \/ seg_fades' = <<[in |-> 0, out |-> 0]>>
      BY <2>1, <3>1
    <3>3. \A i \in DOMAIN seg_fades' : seg_fades'[i].in = 0 /\ seg_fades'[i].out = 0
      BY <3>2
    <3> QED  BY <2>1, <2>2, <3>3 DEF FadeInv
  <2>3. CASE ~Lossless(job)
    <3>1. AllMet(segments, seg_fades) /\ PendingInv
      BY <2>1, <2>3 DEF FadeInv
    <3>2. AllMet(segments', seg_fades')
      <4>1. CASE pos < end
        <5>1. Met(pos, end, [in |-> pending, out |-> 0])
          BY <3>1, <4>1, MetHere
        <5> QED  BY <1>0, <2>1, <3>1, <4>1, <5>1, MetAppend
      <4>2. CASE ~(pos < end)
        BY <2>1, <3>1, <4>2
      <4> QED  BY <4>1, <4>2
    <3>3. AllMet(segments, seg_fades)'
      BY <2>1, <3>2, MetSame
    <3> QED  BY <2>1, <2>3, <3>3 DEF FadeInv
  <2> QED  BY <2>2, <2>3
<1>6. CASE Renders \/ UNCHANGED vars
  <2>1. UNCHANGED <<job, end, segments, seg_fades, pending, pos>>
    BY <1>6, RenderStep DEF walk, vars
  <2>2. pc' = pc \/ (Traced /\ pc' \notin {"called", "walk"})
    BY <1>6, RenderStep DEF vars
  <2>3. AllMet(segments, seg_fades)' <=> AllMet(segments, seg_fades)
    BY <2>1 DEF AllMet, Met
  <2>4. PendingInv' <=> PendingInv
    BY <2>1 DEF PendingInv, CutEnd
  <2> QED  BY <2>1, <2>2, <2>3, <2>4 DEF FadeInv, Traced
<1> QED  BY <1>1, <1>2, <1>3, <1>4, <1>5, <1>6 DEF Next, Renders

\* What BufferOffset says of the only segment there is.
LEMMA OnlyOffset ==
    ASSUME Known, Traced, Len(segments) = 1, NEW t \in Nat
    PROVE  /\ segments[1][1] \in Nat /\ segments[1][2] \in Nat
           /\ BufferOffset(t, segments) = Most(0, Least(t, segments[1][2]) - segments[1][1])
<1>1. /\ segments \in Seq(Nat \X Nat) /\ DOMAIN segments = {1}
      /\ segments[1][1] \in Nat /\ segments[1][2] \in Nat
  <2>1. segments \in Seq(Nat \X Nat)
    BY DEF Known, LoopTypes
  <2>2. DOMAIN segments = {1}
    BY <2>1
  <2>3. 1 \in 1..Len(segments)
    OBVIOUS
  <2>4. segments[1] \in Nat \X Nat
    BY <2>1, <2>3, ElementIn
  <2> QED  BY <2>1, <2>2, <2>4
<1>2. {u \in 0..(t - 1) : In(segments, u)}
        = {u \in 0..(t - 1) : segments[1][1] <= u /\ u < segments[1][2]}
  BY <1>1 DEF In
<1> QED  BY <1>1, <1>2, SegmentsApart, OffsetCounts, PieceSize

\* A fade at the end of the only segment, as the output plays it.
LEMMA MergedIsDue ==
    ASSUME Known, pc = "done", ~Lossless(job), Len(segments) = 1, NEW g \in MergedFades,
           BufferOffset(g.start, segments) < BufferOffset(g.end, segments)
    PROVE  [type |-> g.type, start |-> BufferOffset(g.start, segments),
            end |-> BufferOffset(g.end, segments)] \in output.fades
<1>1. output = Filtered(OneRange, MergedFades, {})
  BY Zenon DEF Known, OutputInv, Due
<1>2. output.fades = FadeFactors(MergedFades, segments)
  BY <1>1 DEF Filtered
<1> QED  BY <1>2 DEF FadeFactors

LEMMA RampsAreDue ==
    ASSUME Known, pc = "done", ~Lossless(job), NEW i \in DOMAIN segments, Len(segments) # 1
    PROVE  SegmentRamps(i) \subseteq output.ramps
<1>1. output = Filtered(segments, Fades(job), UNION {SegmentRamps(j) : j \in DOMAIN segments})
  BY Zenon DEF Known, OutputInv, Due
<1>2. output.ramps = UNION {SegmentRamps(j) : j \in DOMAIN segments}
  BY <1>1 DEF Filtered
<1> QED  BY <1>2

\* The fades of a segment are heard at its ends.
LEMMA SegmentFades ==
    ASSUME Known, FadeInv, pc = "done", ~Lossless(job), NEW i \in DOMAIN segments,
           Cuts(job) # {}
    PROVE  LET s == segments[i][1]
               e == segments[i][2]
               f == seg_fades[i]
           IN  /\ f.in > 0 => RampFrom(i, f.in)
               /\ f.out \in 1..(e - s) /\ (Unbounded \/ job.speed >= 16) => RampTo(i, f.out)
<1> DEFINE s == segments[i][1]
           e == segments[i][2]
           f == seg_fades[i]
<1>1. /\ i \in 1..Len(segments) /\ Len(segments) \in Nat /\ Len(seg_fades) = Len(segments)
      /\ s \in Nat /\ e \in Nat /\ f.in \in Nat /\ f.out \in Nat /\ Traced
  <2>1. /\ segments \in Seq(Nat \X Nat) /\ seg_fades \in Seq([in : Nat, out : Nat])
        /\ Len(seg_fades) = Len(segments) /\ Traced
    BY DEF Known, LoopTypes, FadeInv, AllMet, Traced
  <2>2. i \in 1..Len(seg_fades) /\ i \in 1..Len(segments)
    BY <2>1
  <2>3. segments[i] \in Nat \X Nat
    BY <2>1, <2>2, ElementIn
  <2>4. seg_fades[i] \in [in : Nat, out : Nat]
    BY <2>1, <2>2, ElementIn
  <2> QED  BY <2>1, <2>2, <2>3, <2>4
<1>2. s < e
  BY <1>1 DEF Known, OrderInv, Ordered
<1> HIDE DEF s, e, f
<1>3. CASE Len(segments) = 1
  <2>0. i = 1 /\ segments[1][1] = s /\ segments[1][2] = e /\ seg_fades[1] = f
    BY <1>1, <1>3 DEF s, e, f
  <2>1. \A t \in Nat : BufferOffset(t, segments) = Most(0, Least(t, e) - s)
    BY <1>1, <1>3, <2>0, OnlyOffset
  <2>2. ASSUME f.in > 0 PROVE RampFrom(i, f.in)
    <3> DEFINE g == [start |-> s, end |-> s + f.in, type |-> "in"]
    <3>1. g \in MergedFades
      BY <2>0, <2>2 DEF MergedFades
    <3>2. /\ BufferOffset(s, segments) = 0
          /\ BufferOffset(s + f.in, segments) = Least(f.in, e - s)
          /\ Least(f.in, e - s) > 0
      BY <1>1, <1>2, <2>1, <2>2 DEF Most, Least
    <3>3. [type |-> "in", start |-> 0, end |-> Least(f.in, e - s)] \in output.fades
      BY <1>3, <3>1, <3>2, MergedIsDue
    <3> QED  BY <1>3, <2>0, <3>3 DEF RampFrom
  <2>3. ASSUME f.out \in 1..(e - s), Unbounded \/ job.speed >= 16 PROVE RampTo(i, f.out)
    <3> DEFINE g == [start |-> e - f.out, end |-> e, type |-> "out"]
    <3>1. g \in MergedFades
      BY <1>1, <2>0, <2>3 DEF MergedFades
    <3>2. /\ e - f.out \in Nat
          /\ BufferOffset(e - f.out, segments) = e - f.out - s
          /\ BufferOffset(e, segments) = e - s
          /\ e - f.out - s < e - s
      BY <1>1, <1>2, <2>1, <2>3 DEF Most, Least
    <3>3. [type |-> "out", start |-> e - f.out - s, end |-> e - s] \in output.fades
      BY <1>3, <3>1, <3>2, MergedIsDue
    <3>4. output.segs[1][2] >= e
      <4>1. output = Filtered(OneRange, MergedFades, {})
        BY <1>3, Zenon DEF Known, OutputInv, Due
      <4>2. output.segs[1][2] = StopsAt(s, e)
        BY <2>0, <4>1 DEF Filtered, OneRange
      <4>3. /\ Bounded /\ job.speed >= 16 /\ job.speed \in 4..64
        BY <1>3, <2>3 DEF Unbounded, Bounded, Known, LoopTypes, EditParams, Speeds
      <4>4. StopsAt(s, e) = s + ((e - s) * job.speed + 15) \div 16
        BY <4>3 DEF StopsAt
      <4>5. e - 1 \in Nat /\ s <= e - 1 /\ e - 1 < e
        BY <1>1, <1>2
      <4>6. e - 1 < StopsAt(s, e)
        BY <1>1, <4>3, <4>4, <4>5, SpeedBounds
      <4>7. StopsAt(s, e) \in Int
        <5>1. \A x, y, z \in Int : z + ((x - z) * y + 15) \div 16 \in Int
          OBVIOUS
        <5>2. job.speed \in Int
          BY <4>3
        <5> QED  BY <1>1, <4>4, <5>1, <5>2
      <4> QED  BY <1>1, <4>2, <4>6, <4>7
    <3> QED  BY <1>3, <2>0, <3>3, <3>4 DEF RampTo
  <2> QED  BY <2>2, <2>3 DEF s, e, f
<1>4. CASE Len(segments) # 1
  <2>0. SegmentRamps(i) \subseteq output.ramps
    BY <1>4, RampsAreDue
  <2>1. ASSUME f.in > 0 PROVE RampFrom(i, f.in)
    <3>1. [start |-> s, end |-> s + f.in, type |-> "in"] \in output.ramps
      BY <2>0, <2>1 DEF SegmentRamps, s, f
    <3> QED  BY <1>4, <3>1 DEF RampFrom, s
  <2>2. ASSUME f.out \in 1..(e - s) PROVE RampTo(i, f.out)
    <3> DEFINE o == s + Most(0, e - s - f.out)
    <3>1. o = e - f.out /\ o + f.out = e /\ f.out > 0
      BY <1>1, <1>2, <2>2 DEF Most
    <3> HIDE DEF o
    <3>2. [start |-> o, end |-> o + f.out, type |-> "out"] \in output.ramps
      BY <2>0, <3>1 DEF SegmentRamps, s, e, f, o
    <3> QED  BY <1>4, <3>1, <3>2 DEF RampTo, s, e
  <2> QED  BY <2>1, <2>2 DEF s, e, f
<1> QED  BY <1>3, <1>4

LEMMA FadesMeet ==
    ASSUME Known, FadeInv
    PROVE  FadesMeetTheirCut
<1> SUFFICES ASSUME pc = "done", NEW i \in DOMAIN segments
             PROVE  LET s     == segments[i][1]
                        e     == segments[i][2]
                        Ends  == {c \in Cuts(job) : c.end = s /\ c.start < s /\ s > job.trim_start}
                        Begin == {c \in Cuts(job) : c.start = e /\ e < end}
                    IN  /\ Ends # {} => \E c \in Ends : c.fade_in = 0 \/ RampFrom(i, c.fade_in)
                        /\ Begin # {} => \E c \in Begin :
                               \/ c.fade_out \notin 1..(e - s)
                               \/ RampTo(i, c.fade_out)
                               \/ ~Unbounded /\ job.speed < 16
                        /\ i \in DOMAIN seg_fades =>
                               /\ seg_fades[i].in > 0 => \E c \in Cuts(job) : c.end = s
                               /\ seg_fades[i].out > 0 => Begin # {}
  BY DEF FadesMeetTheirCut
<1> DEFINE s     == segments[i][1]
           e     == segments[i][2]
           Ends  == {c \in Cuts(job) : c.end = s /\ c.start < s /\ s > job.trim_start}
           Begin == {c \in Cuts(job) : c.start = e /\ e < end}
<1>1. Traced /\ \A c \in Cuts(job) : c.fade_in \in Nat /\ c.fade_out \in Nat /\ c.start < c.end
  BY CutTypes DEF Known, Traced
<1>2. CASE Lossless(job)
  <2>1. \A c \in Cuts(job) : c.fade_in = 0 /\ c.fade_out = 0
    BY <1>2 DEF Lossless
  <2>2. i \in DOMAIN seg_fades => seg_fades[i].in = 0 /\ seg_fades[i].out = 0
    BY <1>1, <1>2 DEF FadeInv
  <2>3. 0 \notin 1..(e - s)
    OBVIOUS
  <2> QED  BY <2>1, <2>2, <2>3
<1>3. CASE ~Lossless(job)
  <2>1. Met(s, e, seg_fades[i])
    <3>1. i \in 1..Len(segments)
      BY DEF Known, LoopTypes
    <3> QED  BY <1>1, <1>3, <3>1 DEF FadeInv, AllMet
  <2>2. /\ Cuts(job) # {} /\ seg_fades[i].in > 0 => RampFrom(i, seg_fades[i].in)
        /\ Cuts(job) # {} /\ seg_fades[i].out \in 1..(e - s) =>
              RampTo(i, seg_fades[i].out) \/ (~Unbounded /\ job.speed < 16)
    <3>1. Unbounded \/ job.speed >= 16 \/ (~Unbounded /\ job.speed < 16)
      <4>1. job.speed \in Int
        <5>1. job.speed \in Speeds
          BY DEF Known, LoopTypes, EditParams
        <5> QED  BY <5>1 DEF Speeds
      <4>2. job.speed >= 16 \/ job.speed < 16
        BY <4>1
      <4> QED  BY <4>2, Zenon
    <3> QED  BY <1>3, <3>1, SegmentFades
  <2>3. ASSUME Ends # {} PROVE \E c \in Ends : c.fade_in = 0 \/ RampFrom(i, c.fade_in)
    <3>1. s > job.trim_start
      BY <2>3
    <3>2. PICK c \in Cuts(job) : c.end = s /\ seg_fades[i].in = c.fade_in
      <4>1. s # job.trim_start
        BY <3>1 DEF Known, LoopTypes, EditParams
      <4> QED  BY <2>1, <4>1 DEF Met
    <3>3. c \in Ends
      BY <1>1, <3>1, <3>2
    <3>4. c.fade_in = 0 \/ RampFrom(i, c.fade_in)
      <4>1. c.fade_in \in Nat
        BY <1>1
      <4>2. c.fade_in = 0 \/ c.fade_in > 0
        BY <4>1
      <4> QED  BY <2>2, <3>2, <4>2
    <3> QED  BY <3>3, <3>4
  <2>4. ASSUME Begin # {} PROVE /\ seg_fades[i].out > 0 => Begin # {}
                                /\ \E c \in Begin :
                                       \/ c.fade_out \notin 1..(e - s)
                                       \/ RampTo(i, c.fade_out)
                                       \/ ~Unbounded /\ job.speed < 16
    <3>1. e < end
      BY <2>4
    <3>2. PICK c \in Cuts(job) : c.start = e /\ seg_fades[i].out = c.fade_out
      <4>1. e # end
        BY <3>1 DEF Known, LoopTypes
      <4> QED  BY <2>1, <4>1 DEF Met
    <3>3. c \in Begin
      BY <3>1, <3>2
    <3> QED  BY <2>2, <3>2, <3>3
  <2>5. seg_fades[i].in > 0 => \E c \in Cuts(job) : c.end = s
    BY <2>1 DEF Met
  <2>6. seg_fades[i].out > 0 => Begin # {}
    BY <2>1 DEF Met
  <2> QED  BY <2>3, <2>4, <2>5, <2>6
<1> QED  BY <1>2, <1>3

\* However the cuts lie, their fades are heard where the music was cut: a segment
\* fades in as a cut that ends where it begins asks, and out as one it ends at
\* unless a lower speed leaves the end of the only segment out.
THEOREM FadesAreAtTheirCut == Spec => []FadesMeetTheirCut
<1>1. Init => LoopTypes /\ FadeInv
  BY InitTypes DEF Init, FadeInv, Traced
<1>2. LoopTypes /\ FadeInv /\ [Next]_vars => (LoopTypes /\ FadeInv)'
  BY LoopTypesStep, FadeInvStep
<1> QED  BY <1>1, <1>2, KnownHolds, FadesMeet, PTL DEF Spec

-----------------------------------------------------------------------------
(* The speed *)

\* One filter, or none where it would change nothing; and one more before q.
One(r) == IF r = 16 THEN <<>> ELSE <<r>>
Then(a, q) == <<a>> \o q

\* What Tempo says of T.
TempoStep(T, r) ==
    CASE r > 32 -> <<32>> \o T[r \div 2]
      [] r < 8  -> <<8>> \o T[r * 2]
      [] r = 16 -> <<>>
      [] OTHER  -> <<r>>

LEMMA TempoCases ==
    ASSUME NEW T, NEW r \in 4..64
    PROVE  /\ r \in 33..64 => TempoStep(T, r) = Then(32, T[r \div 2]) /\ r \div 2 \in 16..32
           /\ r \in 4..7   => TempoStep(T, r) = Then(8, T[r * 2]) /\ r * 2 \in 8..14
           /\ r \in 8..32  => TempoStep(T, r) = One(r)
           /\ r \in (33..64) \cup (4..7) \cup (8..32)
<1>1. ASSUME r \in 33..64
      PROVE  TempoStep(T, r) = Then(32, T[r \div 2]) /\ r \div 2 \in 16..32
  <2>1. r > 32 /\ ~(r < 8) /\ r # 16 /\ r \div 2 \in 16..32
    BY <1>1
  <2> QED  BY <2>1, Zenon DEF TempoStep, Then
<1>2. ASSUME r \in 4..7 PROVE TempoStep(T, r) = Then(8, T[r * 2]) /\ r * 2 \in 8..14
  <2>1. ~(r > 32) /\ r < 8 /\ r # 16 /\ r * 2 \in 8..14
    BY <1>2
  <2> QED  BY <2>1, Zenon DEF TempoStep, Then
<1>3. ASSUME r \in 8..32 PROVE TempoStep(T, r) = One(r)
  <2>1. ~(r > 32) /\ ~(r < 8)
    BY <1>3
  <2> QED  BY <2>1, Zenon DEF TempoStep, One
<1>4. r \in (33..64) \cup (4..7) \cup (8..32)
  OBVIOUS
<1> QED  BY <1>1, <1>2, <1>3, <1>4, Zenon

\* The chain of filters is at most two long.
Chain(r) == IF r \in 33..64 THEN Then(32, One(r \div 2))
            ELSE IF r \in 4..7 THEN Then(8, One(r * 2))
            ELSE One(r)

LEMMA ChainOf ==
    /\ \A r \in 33..64 : Chain(r) = Then(32, One(r \div 2))
    /\ \A r \in 4..7 : Chain(r) = Then(8, One(r * 2))
    /\ \A r \in 8..32 : Chain(r) = One(r)
<1>1. \A r \in 8..32 : r \notin 33..64 /\ r \notin 4..7
  OBVIOUS
<1>2. \A r \in 4..7 : r \notin 33..64
  OBVIOUS
<1> QED  BY <1>1, <1>2, Zenon DEF Chain

LEMMA TempoIs ==
    ASSUME NEW r \in 4..64
    PROVE  Tempo[r] = Chain(r)
<1>0. /\ \A k \in 16..32 : k \in 8..32 /\ k \in 4..64
      /\ \A k \in 8..14 : k \in 8..32 /\ k \in 4..64
  OBVIOUS
<1>1. \E T : T = [k \in 4..64 |-> TempoStep(T, k)]
  <2> DEFINE T == [k \in 4..64 |-> Chain(k)]
  <2>0. \A k \in 4..64 : T[k] = Chain(k)
    OBVIOUS
  <2>1. T = [k \in 4..64 |-> T[k]]
    OBVIOUS
  <2> HIDE DEF T
  <2>2. ASSUME NEW k \in 4..64 PROVE T[k] = TempoStep(T, k)
    <3>1. CASE k \in 33..64
      <4>1. TempoStep(T, k) = Then(32, T[k \div 2]) /\ k \div 2 \in 16..32
        BY <3>1, TempoCases, Zenon
      <4>2. T[k \div 2] = One(k \div 2)
        BY <1>0, <2>0, <4>1, ChainOf, Zenon
      <4> QED  BY <2>0, <3>1, <4>1, <4>2, ChainOf, Zenon
    <3>2. CASE k \in 4..7
      <4>1. TempoStep(T, k) = Then(8, T[k * 2]) /\ k * 2 \in 8..14
        BY <3>2, TempoCases, Zenon
      <4>2. T[k * 2] = One(k * 2)
        BY <1>0, <2>0, <4>1, ChainOf, Zenon
      <4> QED  BY <2>0, <3>2, <4>1, <4>2, ChainOf, Zenon
    <3>3. CASE k \in 8..32
      BY <2>0, <3>3, ChainOf, TempoCases, Zenon
    <3> QED  BY <3>1, <3>2, <3>3, TempoCases, Zenon
  <2>3. T = [k \in 4..64 |-> TempoStep(T, k)]
    BY <2>1, <2>2, Zenon
  <2> QED  BY <2>3
<1>2. Tempo = [k \in 4..64 |-> TempoStep(Tempo, k)]
  BY <1>1, Zenon DEF Tempo, TempoStep
<1>3. \A k \in 4..64 : Tempo[k] = TempoStep(Tempo, k)
  BY <1>2, Zenon
<1>4. \A k \in 8..32 : k \in 4..64 => Tempo[k] = One(k)
  BY <1>3, TempoCases, Zenon
<1>5. CASE r \in 33..64
  <2>1. Tempo[r] = Then(32, Tempo[r \div 2]) /\ r \div 2 \in 16..32
    BY <1>3, <1>5, TempoCases, Zenon
  <2> QED  BY <1>0, <1>4, <1>5, <2>1, ChainOf, Zenon
<1>6. CASE r \in 4..7
  <2>1. Tempo[r] = Then(8, Tempo[r * 2]) /\ r * 2 \in 8..14
    BY <1>3, <1>6, TempoCases, Zenon
  <2> QED  BY <1>0, <1>4, <1>6, <2>1, ChainOf, Zenon
<1>7. CASE r \in 8..32
  BY <1>4, <1>7, ChainOf, Zenon
<1> QED  BY <1>5, <1>6, <1>7, TempoCases, Zenon

\* The speed a chain of filters comes to, as NothingAskedIsLost takes it.
Product(q) == FoldSeq(LAMBDA f, r : (f * r) \div 16, 16, q)

Multiplying(h, q, D) ==
    h = [s \in SUBSET D |->
            IF s = {} THEN 16
            ELSE (q[CHOOSE x \in s : TRUE] * h[s \ {CHOOSE x \in s : TRUE}]) \div 16]

LEMMA ProductIsFold ==
    ASSUME NEW q
    PROVE  Product(q) = (CHOOSE h : Multiplying(h, q, DOMAIN q))[DOMAIN q]
  BY DEF Product, FoldSeq, FoldFunction, FoldFunctionOnSet, MapThenFoldSet, Multiplying

\* h multiplies up q over the subsets of D.
MultipliesTo(h, q, D) ==
    /\ Product(q) = h[D]
    /\ h[{}] = 16
    /\ \A s \in SUBSET D : s # {} => \E x \in s : h[s] = (q[x] * h[s \ {x}]) \div 16

\* Two filters multiply, in whichever order.
LEMMA ProductOfTwo ==
    ASSUME NEW q, NEW D, D = DOMAIN q, NEW a, NEW b, D \subseteq {a, b}
    PROVE  \E h : MultipliesTo(h, q, D)
<1> DEFINE Pick(s) == CHOOSE x \in s : TRUE
           Rest(s) == IF s = {} THEN 16 ELSE (q[Pick(s)] * 16) \div 16
           g == [s \in SUBSET D |->
                    IF s = {} THEN 16 ELSE (q[Pick(s)] * Rest(s \ {Pick(s)})) \div 16]
<1>1. \A s \in SUBSET D : s # {} => g[s \ {Pick(s)}] = Rest(s \ {Pick(s)})
  <2> SUFFICES ASSUME NEW s \in SUBSET D, s # {}
               PROVE  g[s \ {Pick(s)}] = Rest(s \ {Pick(s)})
    OBVIOUS
  <2> DEFINE r == s \ {Pick(s)}
  <2>1. Pick(s) \in s
    OBVIOUS
  <2>2. r # {} => Pick(r) \in r
    OBVIOUS
  <2> HIDE DEF Pick
  <2>3. r # {} => r \ {Pick(r)} = {}
    BY <2>1, <2>2
  <2>4. r \in SUBSET D
    OBVIOUS
  <2> HIDE DEF r
  <2>5. g[r] = Rest(r)
    BY <2>3, <2>4
  <2> QED  BY <2>5 DEF r
<1>2. Multiplying(g, q, D)
  <2>1. \A s \in SUBSET D :
          g[s] = IF s = {} THEN 16 ELSE (q[Pick(s)] * g[s \ {Pick(s)}]) \div 16
    BY <1>1
  <2>2. g = [s \in SUBSET D |-> g[s]]
    OBVIOUS
  <2> HIDE DEF g
  <2> QED  BY <2>1, <2>2 DEF Multiplying
<1> DEFINE h == CHOOSE k : Multiplying(k, q, D)
<1>3. Multiplying(h, q, D)
  <2> HIDE DEF g
  <2> QED  BY <1>2
<1>4. Product(q) = h[D]
  BY ProductIsFold
<1> HIDE DEF h, g
<1>5. h[{}] = 16
  BY <1>3 DEF Multiplying
<1>6. ASSUME NEW s \in SUBSET D, s # {}
      PROVE  \E x \in s : h[s] = (q[x] * h[s \ {x}]) \div 16
  BY <1>3, <1>6 DEF Multiplying
<1> QED  BY <1>4, <1>5, <1>6 DEF MultipliesTo

LEMMA Products ==
    ASSUME NEW a \in Nat, NEW b \in Nat
    PROVE  /\ Product(<<>>) = 16
           /\ Product(<<a>>) = a
           /\ Product(<<a, b>>) \in {(a * b) \div 16, (b * a) \div 16}
<1>1. Product(<<>>) = 16
  <2>1. {} = DOMAIN <<>> /\ {} \subseteq {0, 0}
    OBVIOUS
  <2>2. PICK h : MultipliesTo(h, <<>>, {})
    BY <2>1, ProductOfTwo, Zenon
  <2> QED  BY <2>2 DEF MultipliesTo
<1>2. Product(<<a>>) = a
  <2> DEFINE q == <<a>>
  <2>1. DOMAIN q = {1} /\ q[1] = a
    OBVIOUS
  <2> HIDE DEF q
  <2>0. PICK h : MultipliesTo(h, q, {1})
    <3>1. {1} = DOMAIN q /\ {1} \subseteq {1, 1}
      BY <2>1
    <3> QED  BY <3>1, ProductOfTwo, Zenon
  <2>2. /\ Product(q) = h[{1}] /\ h[{}] = 16
        /\ \A s \in SUBSET {1} : s # {} =>
              \E x \in s : h[s] = (q[x] * h[s \ {x}]) \div 16
    BY <2>0 DEF MultipliesTo
  <2>3. h[{1}] = (a * h[{1} \ {1}]) \div 16
    BY <2>1, <2>2
  <2>4. {1} \ {1} = {}
    OBVIOUS
  <2>5. (a * 16) \div 16 = a
    OBVIOUS
  <2> QED  BY <2>2, <2>3, <2>4, <2>5 DEF q
<1>3. Product(<<a, b>>) \in {(a * b) \div 16, (b * a) \div 16}
  <2> DEFINE q == <<a, b>>
  <2>1. DOMAIN q = {1, 2} /\ q[1] = a /\ q[2] = b
    OBVIOUS
  <2> HIDE DEF q
  <2>0. PICK h : MultipliesTo(h, q, {1, 2})
    <3>1. {1, 2} = DOMAIN q /\ {1, 2} \subseteq {1, 2}
      BY <2>1
    <3> QED  BY <3>1, ProductOfTwo, Zenon
  <2>2. /\ Product(q) = h[{1, 2}] /\ h[{}] = 16
        /\ \A s \in SUBSET {1, 2} : s # {} =>
              \E x \in s : h[s] = (q[x] * h[s \ {x}]) \div 16
    BY <2>0 DEF MultipliesTo
  <2>3. {1} \ {1} = {} /\ {2} \ {2} = {} /\ {1, 2} \ {1} = {2} /\ {1, 2} \ {2} = {1}
    OBVIOUS
  <2>4. (a * 16) \div 16 = a /\ (b * 16) \div 16 = b
    OBVIOUS
  <2>5. h[{1}] = a
    <3>1. h[{1}] = (q[1] * h[{1} \ {1}]) \div 16
      BY <2>2
    <3> QED  BY <2>1, <2>2, <2>3, <2>4, <3>1
  <2>6. h[{2}] = b
    <3>1. h[{2}] = (q[2] * h[{2} \ {2}]) \div 16
      BY <2>2
    <3> QED  BY <2>1, <2>2, <2>3, <2>4, <3>1
  <2>7. PICK x \in {1, 2} : h[{1, 2}] = (q[x] * h[{1, 2} \ {x}]) \div 16
    BY <2>2
  <2>8. CASE x = 1
    BY <2>1, <2>2, <2>3, <2>6, <2>7, <2>8 DEF q
  <2>9. CASE x = 2
    BY <2>1, <2>2, <2>3, <2>5, <2>7, <2>9 DEF q
  <2> QED  BY <2>7, <2>8, <2>9
<1> QED  BY <1>1, <1>2, <1>3

\* A filter of factor a, and then what One gives for k.
LEMMA ThenOne ==
    ASSUME NEW a \in 8..32, NEW k \in 8..32
    PROVE  /\ k # 16 => /\ Product(Then(a, One(k))) \in {(a * k) \div 16, (k * a) \div 16}
                        /\ \A i \in DOMAIN Then(a, One(k)) : Then(a, One(k))[i] \in 8..32
           /\ k = 16 => /\ Product(Then(a, One(k))) = a
                        /\ \A i \in DOMAIN Then(a, One(k)) : Then(a, One(k))[i] \in 8..32
           /\ Product(One(k)) = k
           /\ \A i \in DOMAIN One(k) : One(k)[i] \in 8..32
<1>1. a \in Nat /\ k \in Nat
  OBVIOUS
<1>2. <<a>> \o <<k>> = <<a, k>> /\ <<a>> \o <<>> = <<a>>
  <2> DEFINE s == <<a>> \o <<k>>
  <2>1. s \in Seq(Nat) /\ Len(s) = 2 /\ s[1] = a /\ s[2] = k
    OBVIOUS
  <2> HIDE DEF s
  <2>2. s = <<a, k>>
    <3>1. s = <<s[1], s[2]>>
      BY <2>1
    <3> QED  BY <2>1, <3>1
  <2>3. <<a>> \o <<>> = <<a>>
    OBVIOUS
  <2> QED  BY <2>2, <2>3 DEF s
<1>3. \A i \in DOMAIN <<a, k>> : <<a, k>>[i] \in 8..32
  OBVIOUS
<1>4. /\ \A i \in DOMAIN <<a>> : <<a>>[i] \in 8..32
      /\ \A i \in DOMAIN <<k>> : <<k>>[i] \in 8..32
      /\ \A i \in DOMAIN <<>> : <<>>[i] \in 8..32
  OBVIOUS
<1>5. CASE k = 16
  <2>1. One(k) = <<>> /\ Then(a, One(k)) = <<a>>
    BY <1>2, <1>5, Zenon DEF One, Then
  <2>2. Product(<<>>) = 16 /\ Product(<<a>>) = a
    BY <1>1, Products, Zenon
  <2> QED  BY <1>4, <1>5, <2>1, <2>2, Zenon
<1>6. CASE k # 16
  <2>1. One(k) = <<k>> /\ Then(a, One(k)) = <<a, k>>
    BY <1>2, <1>6, Zenon DEF One, Then
  <2>2. Product(<<k>>) = k /\ Product(<<a, k>>) \in {(a * k) \div 16, (k * a) \div 16}
    BY <1>1, Products, Zenon
  <2> QED  BY <1>3, <1>4, <1>6, <2>1, <2>2, Zenon
<1> QED  BY <1>5, <1>6, Zenon

\* The filters make the speed that was asked for, and ffmpeg takes each of them.
LEMMA TempoIsSpeed ==
    ASSUME NEW r \in Speeds
    PROVE  /\ Product(Tempo[r]) = r
           /\ \A i \in DOMAIN Tempo[r] : Tempo[r][i] \in 8..32
<1>1. r \in 4..64 /\ (r > 32 => r % 2 = 0)
  BY DEF Speeds
<1>2. Tempo[r] = Chain(r)
  BY <1>1, TempoIs, Zenon
<1>3. CASE r \in 8..32
  <2>1. Tempo[r] = One(r)
    BY <1>2, <1>3, ChainOf, Zenon
  <2> QED  BY <1>3, <2>1, ThenOne, Zenon
<1>4. CASE r \in 33..64
  <2>1. PICK k \in 8..32 : r = 2 * k /\ k = r \div 2 /\ (k = 16 => r = 32)
    BY <1>1, <1>4
  <2>2. Tempo[r] = Then(32, One(k)) /\ 32 \in 8..32
    BY <1>2, <1>4, <2>1, ChainOf
  <2>3. k # 16 /\ (32 * k) \div 16 = r /\ (k * 32) \div 16 = r
    BY <1>4, <2>1
  <2>4. /\ Product(Then(32, One(k))) \in {(32 * k) \div 16, (k * 32) \div 16}
        /\ \A i \in DOMAIN Then(32, One(k)) : Then(32, One(k))[i] \in 8..32
    BY <2>2, <2>3, ThenOne, Zenon
  <2>5. Product(Tempo[r]) = r
    BY <2>2, <2>3, <2>4
  <2> QED  BY <2>2, <2>4, <2>5, Zenon
<1>5. CASE r \in 4..7
  <2>1. PICK k \in 8..14 : k = r * 2
    BY <1>5
  <2>2. k \in 8..32 /\ k # 16 /\ 8 \in 8..32 /\ (8 * k) \div 16 = r /\ (k * 8) \div 16 = r
    BY <1>5, <2>1
  <2>3. Tempo[r] = Then(8, One(k))
    BY <1>2, <1>5, <2>1, ChainOf, Zenon
  <2>4. /\ Product(Then(8, One(k))) \in {(8 * k) \div 16, (k * 8) \div 16}
        /\ \A i \in DOMAIN Then(8, One(k)) : Then(8, One(k))[i] \in 8..32
    BY <2>2, ThenOne, Zenon
  <2>5. Product(Tempo[r]) = r
    BY <2>2, <2>3, <2>4
  <2> QED  BY <2>3, <2>4, <2>5, Zenon
<1> QED  BY <1>1, <1>3, <1>4, <1>5

LEMMA NothingIsLost ==
    ASSUME Known
    PROVE  NothingAskedIsLost
<1> SUFFICES ASSUME pc = "done", job.volume # 0
             PROVE  /\ output.volume = job.volume /\ output.normalize = job.normalize
                    /\ Product(output.tempo) = job.speed
                    /\ \A i \in DOMAIN output.tempo : output.tempo[i] \in 8..32
  BY DEF NothingAskedIsLost, Product
<1>1. /\ output = Due /\ job.speed \in Speeds /\ job.normalize \in BOOLEAN
      /\ Volume(job) = job.volume
  BY DEF Known, OutputInv, LoopTypes, EditParams, Volume
<1>2. CASE Lossless(job)
  <2>1. output = Copied(segments)
    BY <1>1, <1>2, Zenon DEF Due
  <2>2. /\ job.volume = 100 /\ job.speed = 16 /\ ~job.normalize
    BY <1>1, <1>2 DEF Lossless
  <2>3. output.volume = 100 /\ output.tempo = <<>> /\ output.normalize = FALSE
    BY <2>1 DEF Copied
  <2>4. Product(<<>>) = 16
    BY Products
  <2>5. output.normalize = job.normalize
    BY <1>1, <2>2, <2>3, Zenon
  <2>6. DOMAIN << >> = {}
    OBVIOUS
  <2> QED  BY <2>2, <2>3, <2>4, <2>5, <2>6, Zenon
<1>3. CASE ~Lossless(job)
  <2>1. PICK plays, fs, ramps : output = Filtered(plays, fs, ramps)
    BY <1>1, <1>3, Zenon DEF Due
  <2>2. /\ output.volume = job.volume /\ output.tempo = Tempo[job.speed]
        /\ output.normalize = job.normalize
    BY <1>1, <2>1 DEF Filtered
  <2> QED  BY <1>1, <2>2, TempoIsSpeed
<1> QED  BY <1>2, <1>3

\* The lossless path is taken only where nothing is lost by it, and the chain of
\* filters makes every speed there is.
THEOREM AllAskedIsDone == Spec => []NothingAskedIsLost
  BY KnownHolds, NothingIsLost, PTL
=============================================================================
