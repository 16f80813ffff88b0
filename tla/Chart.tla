-------------------------------- MODULE Chart -------------------------------
(***************************************************************************)
(* render and panel of src/src/chart.rs: a title, a composition bar, and   *)
(* for every phase that has samples a panel of a Histogram above a         *)
(* Timeline, down a canvas whose height is fixed before any of them is     *)
(* drawn. A block is the most that a title, a bar or a plot takes up of    *)
(* the height, with all the labels it draws, in whole pixels: where a      *)
(* label moves with the samples, the block reaches as far as it can move.  *)
(* How wide things are, and how labels of one block stand to each other,   *)
(* is left out. What a panel shows are the samples of its own phase: here, *)
(* they are pushed when its turn comes.                                    *)
(***************************************************************************)
EXTENDS Histogram, Timeline

CONSTANT Panels  \* which phases may have samples, in order

HISTOGRAM_HEIGHT == 190
TIMELINE_HEIGHT  == 170
DESCENT          == 4  \* of any label, whose largest font-size is 20

Phases == {"sign_init", "sign", "verify", "total"}

ASSUME ChartAssumption ==
  Panels # {} /\ Panels \subseteq Seq(Phases) /\ << >> \notin Panels

VARIABLES
  pc,      \* "title", "bar", "panels", "samples", ..., "ended"
  panels,  \* the phases that have samples, in order
  height,  \* of the canvas
  y,       \* where the next thing is drawn
  drawn,   \* how many panels are
  blocks   \* what has been drawn

canvas == <<height, y, drawn, blocks>>
vars   == <<pc, panels, canvas, histogramVars, timelineVars>>

Block(what, top, bottom) == [what |-> what, top |-> top, bottom |-> bottom]

(* A label reaches up as far as its font-size, and a little below its y.   *)
LabelTop(baseline, size) == baseline - size
LabelBottom(baseline)       == baseline + DESCENT

composition_height == 96

(* Mutant: without the gap between the histogram and the timeline.         *)
TightPanel == HISTOGRAM_HEIGHT + TIMELINE_HEIGHT + 60

panel_height == HISTOGRAM_HEIGHT + TIMELINE_HEIGHT + 108

Init ==
  /\ pc = "title"
  /\ panels \in Panels
  /\ height = 0 /\ y = 0 /\ drawn = 0 /\ blocks = {}
  /\ HistogramInit /\ TimelineInit

Title ==
  /\ pc = "title" /\ pc' = "bar"
  /\ height' = 96 + composition_height + Len(panels) * panel_height + 24
  /\ y' = 92
  /\ blocks' = {Block(<<"chart", "title">>, LabelTop(42, 20), LabelBottom(64))}
  /\ UNCHANGED <<panels, drawn, histogramVars, timelineVars>>

HasTotal == \E i \in 1 .. Len(panels) : panels[i] = "total"

(* The bar is left out when the phases took no time; its place is not.     *)
Bar ==
  /\ pc = "bar" /\ pc' = "panels"
  /\ IF HasTotal
     THEN /\ y' = y + composition_height
          /\ \/ blocks' = blocks \cup
                   {Block(<<"chart", "bar">>,
                          LabelTop(y + 12, 13), LabelBottom(y + 24 + 26 + 18))}
             \/ UNCHANGED blocks
     ELSE UNCHANGED <<y, blocks>>
  /\ UNCHANGED <<panels, height, drawn, histogramVars, timelineVars>>

-----------------------------------------------------------------------------
(* panel                                                                   *)

phase == panels[drawn + 1]

Label ==
  /\ pc = "panels" /\ drawn < Len(panels) /\ pc' = "samples"
  /\ blocks' = blocks \cup
       {Block(<<phase, "label">>, LabelTop(y + 26, 14), LabelBottom(y + 26))}
  /\ UNCHANGED <<panels, height, y, drawn, histogramVars, timelineVars>>

PushSample ==
  /\ pc = "samples" /\ Push(phase)
  /\ UNCHANGED <<pc, panels, canvas, summary, counting, timelineVars>>

SummarizePhase ==
  /\ pc = "samples" /\ pc' = "histogram" /\ Summarize
  /\ UNCHANGED <<panels, canvas, timelineVars>>

CountSample ==
  /\ pc = "histogram" /\ Count
  /\ UNCHANGED <<pc, panels, canvas, timelineVars>>

(* The samples beyond the axis are annotated below it.                     *)
histogram(top) ==
  Block(<<phase, "histogram">>, top,
        LabelBottom(top + HISTOGRAM_HEIGHT + (IF beyond > 0 THEN 27 ELSE 14)))

HistogramDrawn ==
  /\ pc = "histogram" /\ Counted /\ pc' = "timeline"
  /\ blocks' = blocks \cup {histogram(y + 40)}
  /\ n' = summary.n
  /\ UNCHANGED <<panels, height, y, drawn, histogramVars, column, reached, x>>

DrawTimeline ==
  /\ pc = "timeline"
  /\ Point \/ Column
  /\ UNCHANGED <<pc, panels, canvas, histogramVars>>

(* The label of the p50 line stands above it, and the line is at the top   *)
(* of the plot where p50 is the maximum.                                   *)
timeline(top) ==
  Block(<<phase, "timeline">>,
        LabelTop(top - 4, 10), LabelBottom(top + TIMELINE_HEIGHT + 14))

PanelDrawn ==
  /\ pc = "timeline" /\ reached = n /\ pc' = "panels"
  /\ blocks' = blocks \cup {timeline(y + 40 + HISTOGRAM_HEIGHT + 48)}
  /\ y' = y + panel_height /\ drawn' = drawn + 1
  /\ values' = << >> /\ summary' = Unknown /\ next' = 1
  /\ buckets' = [k \in Bucket |-> 0] /\ beyond' = 0
  /\ n' = 0 /\ column' = 0 /\ reached' = 0 /\ x' = <<0, 1>>
  /\ UNCHANGED <<panels, height>>

Finish ==
  /\ pc = "panels" /\ drawn = Len(panels) /\ pc' = "ended"
  /\ UNCHANGED <<panels, canvas, histogramVars, timelineVars>>

(* No more samples come, and no benchmark leaves so many.                  *)
NoSuchRun ==
  /\ pc = "samples" /\ Len(values) \notin Lengths
  /\ Len(values) = MaxSamples \/ Measured(phase) = {}

Terminated == (pc = "ended" \/ NoSuchRun) /\ UNCHANGED vars

Panel ==
  \/ Label \/ PushSample \/ SummarizePhase \/ CountSample
  \/ HistogramDrawn \/ DrawTimeline \/ PanelDrawn

Next == Title \/ Bar \/ Panel \/ Finish \/ Terminated

Spec == Init /\ [][Next]_vars

-----------------------------------------------------------------------------
(* Whichever phases have samples, and whichever of them are beyond an      *)
(* axis, the title, the bar, and each label, histogram and timeline have a *)
(* part of the height for themselves, from the top of the canvas to its    *)
(* bottom: the constants of render, panel, histogram and timeline agree.   *)
BlocksApart ==
  /\ \A b \in blocks : 0 <= b.top /\ b.top <= b.bottom /\ b.bottom <= height
  /\ \A b, c \in blocks : b # c => b.bottom <= c.top \/ c.bottom <= b.top
=============================================================================
