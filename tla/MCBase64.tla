------------------------------ MODULE MCBase64 ------------------------------
EXTENDS Base64, SequencesExt

\* Up to two groups and one byte; text, the first byte above 127, and the last.
MCMessage == SeqOf({1, 90, 128, 255}, 7)

=============================================================================
