----------------------------- MODULE MCRunFlow -----------------------------
(* The latencies at the bounds of interpret_latency, for RunFlow.          *)
EXTENDS RunFlow

MCLatencies == {0, LATENCY_LOW_MAX_MS - 1, LATENCY_LOW_MAX_MS,
                LATENCY_MODERATE_MAX_MS, LATENCY_MODERATE_MAX_MS + 1}
=============================================================================
