------------------------------ MODULE MCScript ------------------------------
(* Small instances of Script for TLC.                                       *)
EXTENDS ScriptBlocks

\* Transactions in one piece, over several lines, with a write that jevql refuses
\* or a jev statement in the middle, and in a file; a jev statement with a key,
\* with none, and explained; quotes, brackets and commands that the code and
\* psql read alike, and others.
Picked == {
  << <<"begin", ";">>, <<"w1", ";">>, <<"w5", ";">>, <<"w2", ";">>, <<"commit", ";">> >>,
  << <<"--">>, <<"begin", ";", "w1">>, <<";", "jev", ";", "w2", ";", "end", ";">>, <<"w3">> >>,
  << <<"\\set">>, <<"\\explain", "jev">>, <<"jev", ";">>, <<"w3", ";">>, <<"\\q">>, <<"w4", ";">> >>,
  << <<"w3", ";", "bad", "bad", ";">>, <<"\\i", "tx">>, <<"\\nope">>, <<"jev", ";">> >>,
  << <<"\\i", "none">>, <<"\\i", "calls">>, <<"w3", ";">> >>,
  << <<"\\i", "tx">>, <<"commit", ";">> >>,
  << <<"create", "$$", "w4", ";", "w4", ";", "$$", ";">>, <<"w3">> >>,
  << <<"create", "(">>, <<"w4", ")", ";", "w3">>, <<";">> >>,
  << <<"create", "(", "w4", ";", "w3", ";", "w4", ")", ";">> >>,
  << <<"w3", ";", "\\q">> >> }

\* Every text of at most two lines over SomeLines, and of three over fewer:
\* statements that share a line, that have several, with quotes and brackets,
\* meta commands between and in them.
SomeLines == { <<>>, <<"w3", ";">>, <<"w3">>, <<";">>, <<"jev", ";", "w4">>, <<"\\q">>,
               <<"\\explain", "jev">>, <<"$$", ";", "$$", ";">>, <<"(", "w4">>, <<";", ")">> }
FewLines == { <<"w3">>, <<";">>, <<"\\q">>, <<"jev", ";", "w4">> }
Small == UNION {[1 .. n -> SomeLines] : n \in 0 .. 2} \cup [1 .. 3 -> FewLines]

MCTexts == Picked \cup Small

MCFiles == [tx    |-> << <<"begin", ";">>, <<"w1", ";", "jev", ";">>, <<"w2", ";", "commit", ";">> >>,
            calls |-> << <<"jev", ";">>, <<"w4", ";">> >>]
MCBlocks == {{"w1", "w2", "w5"}}

\* A function whose body has lines that end in a semicolon.
MCFunction == { << <<"begin", ";">>, <<"create", "$$", "w4", ";">>, <<"w3", ";">>, <<"end", ";">>,
                   <<"$$", ";">>, <<"w1", ";">>, <<"commit", ";">> >> }
MCNoFiles == [f \in {} |-> <<>>]
=============================================================================
