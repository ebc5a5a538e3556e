--------------------------- MODULE MCBaselineCapture ---------------------------
(***************************************************************************)
(* Two regions.  The first is asked with two listers of the same kind, the *)
(* second with one of another kind; the others are skipped there.          *)
(***************************************************************************)
EXTENDS BaselineCapture

MCRegions == {"east", "west"}
MCListers == {"simple", "custom", "global"}
MCKinds == {"table", "role"}
MCKindOf == [simple |-> "table", custom |-> "table", global |-> "role"]
MCSkipped == [east |-> {"global"}, west |-> {"simple", "custom"}]
MCResources == {"t1", "t2", "r1"}
MCShows == [east |-> [simple |-> {"t1"}, custom |-> {"t2"}, global |-> {}],
            west |-> [simple |-> {}, custom |-> {}, global |-> {"r1"}]]

=============================================================================
