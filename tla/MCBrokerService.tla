--------------------------- MODULE MCBrokerService ---------------------------
EXTENDS BrokerService
=============================================================================
