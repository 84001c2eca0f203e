--------------------------- MODULE MCGatewayRunner ---------------------------
\* GatewayRunner is run as it is: its constants are numbers and Booleans.
EXTENDS GatewayRunner

=============================================================================
