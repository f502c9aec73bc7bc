------------------------------ MODULE MCEditor ------------------------------
(* Editor on small instances: three families of parameters, each with all  *)
(* of what one part of editor.py tells apart, in a file of five instants.  *)
EXTENDS Editor, TLC

CONSTANT Length    \* bound: the length of the file; a zone ends at most one after it

Plain == [length |-> Length, trim_start |-> 0, trim_end |-> NULL, volume |-> 100,
          fades |-> {}, speed |-> 16, normalize |-> FALSE, cuts |-> {}]

CutsOf(fades) ==
    {c \in [start : 0..Length, end : 1..(Length + 1), fade_in : fades, fade_out : fades] :
        c.start < c.end}

UpToTwo(S)   == {{}} \cup {{c, d} : c, d \in S}
UpToThree(S) == {{}} \cup {{c, d, e} : c, d, e \in S}

\* Every way to trim and cut.
TrimAndCut ==
    {[Plain EXCEPT !.cuts = cs, !.trim_start = t, !.trim_end = u] :
        cs \in UpToThree(CutsOf({0})), t \in 0..2, u \in {NULL, 3, Length, Length + 1}}

\* Two cuts that fade, at a lower speed, as recorded and at a higher one.
FadingCuts ==
    {[Plain EXCEPT !.cuts = cs, !.trim_start = t, !.speed = r] :
        cs \in UpToTwo(CutsOf({0, 2})), t \in {0, 2}, r \in {8, 16, 24}}

Zones ==
    {f \in [start : 0..(Length - 1), end : 1..(Length + 1), type : {"in", "out"}] :
        f.start <= f.end}

\* One fade over a file with two cuts; a trim with a fade, at three speeds; and
\* every volume and speed there is a case for, with and without an end.
Filters ==
    {[Plain EXCEPT !.cuts = cs, !.trim_start = t, !.fades = fs] :
        cs \in UpToTwo(CutsOf({0})), t \in {0, 1}, fs \in {{f} : f \in Zones}}
    \cup {[Plain EXCEPT !.trim_start = t, !.trim_end = u, !.speed = r, !.fades = fs] :
        t \in {0, 1}, u \in {NULL, 3}, r \in {8, 12, 24}, fs \in {{f} : f \in Zones}}
    \cup {[Plain EXCEPT !.volume = v, !.speed = r, !.normalize = n, !.trim_end = u,
                        !.cuts = cs] :
        v \in {0, 50, 100}, r \in {4, 6, 12, 16, 24, 40, 64}, n \in BOOLEAN,
        u \in {NULL, 3},
        cs \in {{}, {[start |-> 2, end |-> 2, fade_in |-> 1, fade_out |-> 1]},
                {[start |-> 1, end |-> 2, fade_in |-> 1, fade_out |-> 0]}}}

MCJobs == TrimAndCut \cup FadingCuts \cup Filters
=============================================================================
