------------------------------ MODULE MCControlLoop ------------------------------
EXTENDS ControlLoop

\* A reload that changes every interval, and one that turns the refresh off.
Slow == [polling |-> 1, fallback |-> 2, refresh |-> 1]
Fast == [polling |-> 2, fallback |-> 1, refresh |-> 0]

MCConfigs == {Slow, Fast}

==================================================================================
