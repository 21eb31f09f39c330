--------------------------- MODULE MCMetricWindows ---------------------------
(* Model-checking instances of MetricWindows.                              *)
EXTENDS MetricWindows

CONSTANTS w1, w2

\* Workers are interchangeable.
WorkerSymmetry == {[w \in Workers |-> w], [w \in Workers |-> IF w = w1 THEN w2 ELSE w1]}
=============================================================================
