-------------------------- MODULE MCDriverStartup ---------------------------
EXTENDS DriverStartup

MCChunks == {<<1>>, <<0, 1, 1>>}
=============================================================================
