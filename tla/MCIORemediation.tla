---------------------------- MODULE MCIORemediation ----------------------------
EXTENDS IOHistory
================================================================================
