----------------------------- MODULE TraceCheck -----------------------------
(***************************************************************************)
(* The trace of a simulator node on its way through the trace pipeline     *)
(* (run_trace_pipeline.sh): merge_trace.py sorts its rows and writes a     *)
(* header, check_trace.py looks at the result.  The header repeats the     *)
(* configuration of the overlay (node.hpp:150), and every row has a root.  *)
(***************************************************************************)
EXTENDS SybilOverlay

\* merge_trace.py, for one node: rows by timestamp, then by index; the root of
\* the last row recorded goes into the header.
Merged(trace) ==
    LET time(i) == Timestamp[trace[i].event]
        order == {p \in (DOMAIN trace) \X (DOMAIN trace) :
                    \/ time(p[1]) < time(p[2])
                    \/ time(p[1]) = time(p[2]) /\ p[1] < p[2]}
        merged == Sorted(DOMAIN trace, order)
    IN  [k \in DOMAIN merged |-> trace[merged[k]]]

FinalRoot(trace) == IF trace = <<>> THEN <<>> ELSE Last(trace).root

\* Defective WindowGrows: the window may stay as it was.
WindowKept(r) == r.ancestorCheck \/ r.untilAfter >= r.untilBefore

\* The two rules on the quarantine of a row.
WindowGrows(r) == r.ancestorCheck \/ r.untilAfter >= r.untilBefore + QuarantineTicks

QuarantineWeighsNothing(r) == Timestamp[r.event] < r.untilAfter => r.weight = 0

RowOk(r) ==
    /\ Prev[r.event] # ZERO_HASH => r.parentPresent
    /\ WindowGrows(r)
    /\ r.weight <= Scale
    /\ QuarantineWeighsNothing(r)

\* check_trace.py reports OK.
CheckTrace(rows, finalRoot) ==
    /\ rows # <<>>
    /\ \A k \in DOMAIN rows : RowOk(rows[k])
    /\ finalRoot = Last(rows).root
=============================================================================
