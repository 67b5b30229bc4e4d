------------------------------- MODULE MCFAgg -------------------------------
(* Window expressions and aggregate plans for the runs over FAgg.          *)
EXTENDS FAgg

CONSTANTS R, S

W(start, range, slide) == [startAt |-> start, rangeBy |-> range, slideBy |-> slide]

\* overlapping, tumbling and hopping windows over one stream, joins of two
\* streams whose windows slide apart, and one whose first windows end two slides
\* apart
MCRangeExprs ==
  {[i \in {R} |-> W(1, 3, 1)], [i \in {R} |-> W(0, 2, 2)], [i \in {R} |-> W(0, 1, 2)],
   [i \in {R, S} |-> IF i = R THEN W(0, 2, 1) ELSE W(0, 2, 2)],
   [i \in {R, S} |-> IF i = R THEN W(0, 1, 2) ELSE W(0, 3, 2)],
   [i \in {R, S} |-> IF i = R THEN W(0, 1, 1) ELSE W(0, 3, 1)]}

MCSliceExprs == {[stream |-> R, startAt |-> 1, slices |-> <<1, 2>>]}

MCAggPlans == [grouped : BOOLEAN, having : {FALSE}, ts_attrnum : {1}]

=============================================================================
