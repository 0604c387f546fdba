---------------------------- MODULE MCTraceIngest ----------------------------
(* TraceIngest with two exports that bring the later and the earlier half   *)
(* of one trace, the first of them also a second trace.                     *)
EXTENDS TraceIngest

MCSpans   == {"late", "early", "other"}
MCTraceOf == [s \in MCSpans |-> IF s = "other" THEN "t2" ELSE "t1"]
MCStartOf == [s \in MCSpans |-> IF s = "early" THEN 1 ELSE 2]
MCExports == {"x1", "x2"}
MCCarries == [x \in MCExports |-> IF x = "x1" THEN {"late", "other"} ELSE {"early"}]
===============================================================================
