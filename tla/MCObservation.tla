------------------------------ MODULE MCObservation ------------------------------
(***************************************************************************)
(* Instance of Observation.                                                *)
(***************************************************************************)
EXTENDS Observation

\* Something of a replaced configuration is left: in the cache, in a derivation or
\* in a scan.
Reconfigured ==
    \/ clearing
    \/ \E entry \in {all, derived} \cup {deriving[t] : t \in Threads} :
          Valid(entry) /\ (~entry.current \/ "config" \in entry.late)
    \/ \E t \in Threads : Scanning(t) /\ "config" \in scan[t].late

\* Bounds.  A state in which the counters have counted twice for a named reason is
\* checked and not explored further: the collector does not depend on the exporter,
\* and what the counters show after that is left open by ExportedIOIsReal.  While a
\* replaced configuration is about, a user transfers one byte at most: filters and
\* bytes meet only in what is dropped from the cache.
CountersSound ==
    /\ accidents = {}
    /\ Reconfigured => \A u \in Users : bytes[u] <= 1
==================================================================================
