------------------------------- MODULE MCPoll -------------------------------
EXTENDS Poll
=============================================================================
