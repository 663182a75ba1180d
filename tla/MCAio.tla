------------------------------- MODULE MCAio -------------------------------
EXTENDS Aio
=============================================================================
