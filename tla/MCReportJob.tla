----------------------------- MODULE MCReportJob -----------------------------
(* ReportJob: two jobs, and inputs that end with 0 or, in two ways, with 1; *)
(* a comparison that ends with 2 is one that fails.                         *)
EXTENDS ReportJob

CONSTANTS same, slower, failing

MCResult(t) ==
    CASE t = same -> 0
      [] t \in {slower, failing} -> 1
=============================================================================
