--------------------------- MODULE MCInfluxWriter ---------------------------
EXTENDS InfluxWriter
=============================================================================
