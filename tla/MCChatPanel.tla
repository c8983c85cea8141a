---------------------------- MODULE MCChatPanel ----------------------------
EXTENDS ChatPanel
============================================================================
