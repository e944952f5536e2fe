-------------------------- MODULE MCInlineCompletion --------------------------
(* InlineCompletion with two texts, two offsets and three questions.          *)
EXTENDS InlineCompletion
=============================================================================
