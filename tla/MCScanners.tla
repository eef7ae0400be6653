----------------------------- MODULE MCScanners -----------------------------
EXTENDS Scanners
=============================================================================
