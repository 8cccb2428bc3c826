---------------------------- MODULE MC_AnswerCache ----------------------------
EXTENDS AnswerCache
=============================================================================
