-------------------------- MODULE TelegramClientMC --------------------------
(***************************************************************************)
(* The digest that the callers of the run of TelegramClient send.          *)
(***************************************************************************)
EXTENDS TelegramClient

ParagraphsMC == (1..3) \X (1..2)

\* Three blocks in two messages: the first holds two of them.
Paragraph(i, j, n) == [of |-> <<i, j>>, from |-> 1, to |-> n]
SentDigests ==
  {<< <<Paragraph(1, 1, 1), Paragraph(1, 2, 1)>>, <<Paragraph(2, 1, 1)>>, <<Paragraph(3, 1, 4)>> >>}
=============================================================================
