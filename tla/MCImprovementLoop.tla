------------------------- MODULE MCImprovementLoop -------------------------
EXTENDS ImprovementLoop

(* A quality gap (1) with a successor that observes it anew (2) and a rival  *)
(* of that one (3); the successor of 2 (5) and, beyond the limit, its own    *)
(* (7); a runtime gap (4), and the release's own follow-up (6).              *)
MCAbout ==
    <<[kind |-> "QUALITY_GAP", statement |-> "coverage", parent |-> 0, generation |-> 0],
      [kind |-> "QUALITY_GAP", statement |-> "coverage", parent |-> 1, generation |-> 1],
      [kind |-> "RELIABILITY_GAP", statement |-> "retry", parent |-> 1, generation |-> 1],
      [kind |-> "RUNTIME_GAP", statement |-> "probe", parent |-> 0, generation |-> 0],
      [kind |-> "QUALITY_GAP", statement |-> "lint", parent |-> 2, generation |-> 2],
      [kind |-> "RELEASE_FOLLOWUP", statement |-> "verified", parent |-> 0, generation |-> 0],
      [kind |-> "PERFORMANCE_GAP", statement |-> "latency", parent |-> 5, generation |-> 3]>>
=============================================================================
