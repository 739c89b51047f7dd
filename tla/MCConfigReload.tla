-------------------------- MODULE MCConfigReload --------------------------
(***************************************************************************)
(* Constants for model checking ConfigReload: two users, four patterns of  *)
(* which one does not compile and one has a comment sign in it, and files  *)
(* that are fine, that the exporter refuses, that stop it and have a line  *)
(* with a blank before its "=", and that cannot be loaded.                 *)
(***************************************************************************)
EXTENDS ConfigReload, TLC

CONSTANTS u1, u2, p1, p2, cut, bad

MCMatches == p1 :> {u1} @@ p2 :> {u1, u2} @@ cut :> {u2}

\* The pattern cut is p1, a "#" and more.
MCReadAs == [S \in SUBSET Patterns |-> IF cut \in S THEN (S \ {cut}) \cup {p1} ELSE S]

On == <<"ENABLE_PROMETHEUS", Word("true")>>

Fine == <<On, <<"USER_EXCLUDE_LIST", List({p1})>>>>

Tight == <<On, <<"CPU_THRESHOLD", Number(60)>>,
           <<"USER_INCLUDE_LIST", List({p1, p2})>>>>

Moved == <<On, <<"PROMETHEUS_METRICS_BIND_PORT", Number(9000)>>,
           <<"USER_WHITELIST", List({p2})>>>>

Off == <<<<"ENABLE_PROMETHEUS", Word("maybe")>>,
         <<"USER_INCLUDE_LIST", List({p1})>>, <<"USER_INCLUDE_LIST ", List({p2})>>>>

Broken == <<On, <<"USER_EXCLUDE_LIST", List({bad})>>>>

MCTexts == {Tight, Moved, Off, Broken}

\* The release threshold of the environment is too high for the file Tight.
MCEnvirons == {"CPU_RELEASE_THRESHOLD" :> Number(70)}

\* Two plain files are enough for two reloads to race.
RaceTexts == {<<On>>, <<On, <<"USER_WHITELIST", List({p2})>>>>}

MCRequests == "USER_EXCLUDE_LIST" :> {{p1, p2}} @@ "USER_INCLUDE_LIST" :> {{cut}}
=============================================================================
