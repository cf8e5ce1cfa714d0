-------------------------- MODULE MCCastCorrelation --------------------------
EXTENDS CastCorrelation
==============================================================================
