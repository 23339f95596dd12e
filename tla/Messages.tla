------------------------------ MODULE Messages ------------------------------
(***************************************************************************)
(* How a digest becomes messages.  A text is a sequence of pieces, its     *)
(* paragraphs, joined by empty lines; a piece is bytes "from".."to" of the *)
(* paragraph "of".  A digest is a sequence of texts, its blocks.           *)
(***************************************************************************)
EXTENDS Integers, Sequences, FiniteSets, SequencesExt

CONSTANTS
  Paragraphs, \* the paragraphs of digests, each known by a name
  MaxBytes,   \* maxMessageBytes
  Gap         \* bytes of the empty line between two paragraphs

ASSUME MessagesAssumption == MaxBytes \in Nat \ {0} /\ Gap \in Nat

Pieces == {p \in [of: Paragraphs, from: Nat, to: Nat] : p.from <= p.to}
Blocks == Seq(Pieces) \ {<<>>}

Size(piece) == (piece.to - piece.from) + 1

\* The bytes of a text, with an empty line after every paragraph and without the last one.
Padded(text) ==
  LET padded[i \in 0..Len(text)] ==
        IF i = 0 THEN 0 ELSE padded[i - 1] + Size(text[i]) + Gap
  IN  padded[Len(text)]

SizeOf(text) == IF text = <<>> THEN 0 ELSE Padded(text) - Gap

\* The parts made so far, and the builder.
Nothing == [parts |-> <<>>, open |-> <<>>]

Flush(b) ==
  IF b.open = <<>> THEN b
  ELSE [parts |-> Append(b.parts, b.open), open |-> <<>>]

\* A bug: the empty line is not counted.
HasRoomForBytes(b, size) == b.open = <<>> \/ SizeOf(b.open) + size <= MaxBytes

HasRoom(b, size) == b.open = <<>> \/ SizeOf(b.open) + Gap + size <= MaxBytes

MakeRoom(b, size) == IF HasRoom(b, size) THEN b ELSE Flush(b)

\* Pieces of MaxBytes, and a last one that is not empty.
Cuts(piece) ==
  [i \in 1..((Size(piece) - 1) \div MaxBytes) |->
     <<[piece EXCEPT !.from = @ + (i - 1) * MaxBytes,
                     !.to = piece.from + i * MaxBytes - 1]>>]

AddParagraph(b, piece) ==
  LET made == MakeRoom(b, Size(piece))
      cuts == Cuts(piece)
      rest == [piece EXCEPT !.from = @ + Len(cuts) * MaxBytes]
  IN  IF cuts = <<>> THEN [made EXCEPT !.open = Append(@, piece)]
      ELSE [parts |-> Flush(made).parts \o cuts, open |-> <<rest>>]

SplitMessage(text) ==
  LET built[i \in 0..Len(text)] ==
        IF i = 0 THEN Nothing ELSE AddParagraph(built[i - 1], text[i])
  IN  IF SizeOf(text) <= MaxBytes THEN <<text>> ELSE Flush(built[Len(text)]).parts

AddBlock(b, block) ==
  LET made == MakeRoom(b, SizeOf(block))
  IN  IF SizeOf(block) > MaxBytes
      THEN [Flush(made) EXCEPT !.parts = @ \o SplitMessage(block)]
      ELSE [made EXCEPT !.open = @ \o block]

DigestParts(blocks) ==
  LET built[i \in 0..Len(blocks)] ==
        IF i = 0 THEN Nothing ELSE AddBlock(built[i - 1], blocks[i])
  IN  Flush(built[Len(blocks)]).parts

(************************** What it is to be *****************************)

\* Every byte of a text, in order.
Bytes(text) ==
  FlattenSeq([i \in DOMAIN text |->
    [k \in 1..Size(text[i]) |-> <<text[i].of, text[i].from + k - 1>>]])

\* The ways to cut 1..n in runs, each given by the last of every run.
Cuttings(n) == {ends \in SUBSET (1..n) : n \in ends}
RunsOf(ends) ==
  {r \in ({1} \cup {e + 1 : e \in ends}) \X ends :
     r[1] <= r[2] /\ \A e \in ends : e < r[1] \/ r[2] <= e}

Fits(blocks, i, j) == SizeOf(FlattenSeq(SubSeq(blocks, i, j))) <= MaxBytes

\* A digest is cut in messages that Telegram takes, without a byte lost, doubled
\* or moved; a block that fits a message is in one, and when all do, no other way
\* to cut between blocks makes fewer messages.
CutAsItShouldBe(blocks) ==
  LET parts == DigestParts(blocks)
  IN  /\ \A i \in DOMAIN parts : parts[i] # <<>> /\ SizeOf(parts[i]) <= MaxBytes
      /\ Bytes(FlattenSeq(parts)) = Bytes(FlattenSeq(blocks))
      /\ \A j \in DOMAIN blocks : SizeOf(blocks[j]) <= MaxBytes =>
           \E i \in DOMAIN parts : ToSet(blocks[j]) \subseteq ToSet(parts[i])
      /\ (\A j \in DOMAIN blocks : SizeOf(blocks[j]) <= MaxBytes) =>
           \A ends \in Cuttings(Len(blocks)) :
             (\A r \in RunsOf(ends) : Fits(blocks, r[1], r[2])) =>
               Len(parts) <= Cardinality(ends)
=============================================================================
