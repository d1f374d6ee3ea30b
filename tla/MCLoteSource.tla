---------------------------- MODULE MCLoteSource ----------------------------
EXTENDS LoteSource

\* Both entitlements, and a request that does not touch the entitlements.
BothIssuers == {<<>>, <<"PID_Provider", "PUB_EAA_Provider">>}
PubEAAOnly  == {<<"PUB_EAA_Provider">>}
=============================================================================
