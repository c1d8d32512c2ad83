----------------------------- MODULE MCSyncDemo -----------------------------
EXTENDS SyncDemo
=============================================================================
