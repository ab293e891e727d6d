------------------------ MODULE MCInstallTransaction ------------------------
EXTENDS InstallTransaction
=============================================================================
