-------------------------- MODULE MCBrokerExchange --------------------------
EXTENDS BrokerExchange
=============================================================================
