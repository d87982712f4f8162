----------------------------- MODULE MCSaveData -----------------------------
EXTENDS SaveData
=============================================================================
