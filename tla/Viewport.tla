------------------------------ MODULE Viewport ------------------------------
(***************************************************************************)
(* TerminalViewport (panesmith-core/src/pane.rs): which of the rows of     *)
(* history and screen, one under the other, a window shows.  It follows    *)
(* the tail, or stands scroll_offset rows above it.                        *)
(***************************************************************************)
EXTENDS Integers

Viewport == [scroll_offset : Nat, follow_tail : BOOLEAN]
FollowTail == [scroll_offset |-> 0, follow_tail |-> TRUE]
Scrolled(offset) == [scroll_offset |-> offset, follow_tail |-> FALSE]

\* saturating_sub, and min
Minus(a, b) == IF a <= b THEN 0 ELSE a - b
AtMost(a, b) == IF a <= b THEN a ELSE b

\* metrics_from_counts; rows are numbered from 1, so the window shows the
\* rows after start_row up to end_row.
Metrics(v, surface_rows, scrollback_rows, visible_rows) ==
    LET total  == scrollback_rows + surface_rows
        max    == Minus(total, visible_rows)
        offset == IF v.follow_tail THEN 0 ELSE AtMost(v.scroll_offset, max)
    IN  [total_rows |-> total, visible_rows |-> visible_rows,
         max_scroll_offset |-> max, effective_scroll_offset |-> offset,
         start_row |-> Minus(total - offset, visible_rows), end_row |-> total - offset]

ScrolledTo(offset) == IF offset = 0 THEN FollowTail ELSE Scrolled(offset)

\* Of the viewport itself only follow_tail is asked: the offset is that of the
\* viewport the metrics were computed for.
Clamp(v, m) == IF v.follow_tail THEN FollowTail ELSE ScrolledTo(m.effective_scroll_offset)

ScrollUp(m, rows)   == ScrolledTo(AtMost(m.effective_scroll_offset + rows, m.max_scroll_offset))
ScrollDown(m, rows) == ScrolledTo(Minus(m.effective_scroll_offset, rows))

\* The keys of an attached user: the wheel, PageUp, PageDown, Home and End.
AfterKey(key, wheel_rows, m) ==
    CASE key = "WheelUp"   -> ScrollUp(m, wheel_rows)
      [] key = "WheelDown" -> ScrollDown(m, wheel_rows)
      [] key = "PageUp"    -> ScrollUp(m, m.visible_rows)
      [] key = "PageDown"  -> ScrollDown(m, m.visible_rows)
      [] key = "Home"      -> Scrolled(m.max_scroll_offset)
      [] key = "End"       -> FollowTail
Keys == {"WheelUp", "WheelDown", "PageUp", "PageDown", "Home", "End"}

\* stabilize_attach_viewport_after_output; both metrics are those of v.
Stabilize(v, before, after) ==
    IF v.follow_tail \/ after.total_rows <= before.total_rows THEN Clamp(v, after)
    ELSE Clamp(Scrolled(before.effective_scroll_offset + after.total_rows - before.total_rows),
               after)
=============================================================================
