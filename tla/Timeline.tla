------------------------------ MODULE Timeline ------------------------------
(***************************************************************************)
(* timeline of src/src/chart.rs: a point for every iteration of a short    *)
(* run; of a long one, an envelope of COLUMNS columns at most, each of the *)
(* lowest and the highest of a chunk of iterations. An x is a fraction     *)
(* <<numerator, denominator>> of the plot's width, from the left edge,     *)
(* labelled iteration 0, to the right edge, labelled n - 1.                *)
(***************************************************************************)
EXTENDS Integers

CONSTANTS
  POINTS,   \* 1500
  COLUMNS   \* 480

ASSUME TimelineAssumption ==
  POINTS \in Nat /\ COLUMNS \in Nat \ {0, 1}

VARIABLES
  n,       \* the iterations
  column,  \* the points or columns drawn
  reached, \* the first iteration that is not drawn
  x        \* of the last one drawn

timelineVars == <<n, column, reached, x>>

(* Between two timelines, there is nothing to draw.                        *)
TimelineInit == n = 0 /\ column = 0 /\ reached = 0 /\ x = <<0, 1>>

Point ==
  /\ n <= POINTS /\ reached < n
  /\ x' = <<reached, IF n < 2 THEN 1 ELSE n - 1>>
  /\ column' = column + 1 /\ reached' = reached + 1
  /\ UNCHANGED n

(* Mutant: rounded down.                                                   *)
PerColumnDown == n \div COLUMNS

(* n.div_ceil(columns)                                                     *)
per_column == (n + COLUMNS - 1) \div COLUMNS

(* values.chunks(per_column): the last one may be short.                   *)
ChunkEnd == IF reached + per_column < n THEN reached + per_column ELSE n

Column ==
  /\ n > POINTS /\ reached < n
  /\ x' = <<column, COLUMNS - 1>>
  /\ column' = column + 1 /\ reached' = ChunkEnd
  /\ UNCHANGED n

-----------------------------------------------------------------------------
(* No point or column is left or right of the plot: the chunks of a long   *)
(* run are never more than the columns, and no chunk is empty, whose       *)
(* lowest value would be a panic.                                          *)
InsidePlot ==
  /\ 0 <= x[1] /\ x[1] <= x[2]
  /\ n > POINTS => column <= COLUMNS /\ per_column > 0
==============================================================================
