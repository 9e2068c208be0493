---------------------------- MODULE MCChatInput ----------------------------
EXTENDS ChatInput

=============================================================================
