------------------------------ MODULE MCRegistry ------------------------------
\* Registry with every graph of dependencies among a few extensions.
EXTENDS Registry

CONSTANTS a, b, c

MCNames == {a, b, c}
MCDepGraphs == [MCNames -> SUBSET MCNames]
=============================================================================
