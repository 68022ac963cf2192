--------------------------- MODULE MCControlLoop ---------------------------
EXTENDS ControlLoop

CONSTANTS parser, timer
MCProducers == {parser, timer}
=============================================================================
