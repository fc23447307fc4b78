---------------------------- MODULE MCAsyncEvent ----------------------------
\* Two error codes: a second cancel may change the code of the first.
EXTENDS AsyncEvent

CONSTANTS aborted, eof

MCCodes == {aborted, eof}
=============================================================================
