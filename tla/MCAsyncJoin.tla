---------------------------- MODULE MCAsyncJoin ----------------------------
\* Two events (the websocket connection joins two), two error codes.
EXTENDS AsyncJoin

CONSTANTS writer_done, closer_done, aborted, eof

MCEvents == {writer_done, closer_done}
MCCodes  == {aborted, eof}
=============================================================================
