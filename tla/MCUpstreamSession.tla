------------------------- MODULE MCUpstreamSession -------------------------
EXTENDS UpstreamSessionProperties

=============================================================================
