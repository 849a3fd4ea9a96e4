----------------------------- MODULE MCLogStream -----------------------------
\* The live console on small buffers; the capacities and bounds are in the
\* configurations.
EXTENDS LogStream
================================================================================
