------------------------------ MODULE MCApeTty ------------------------------
(* Argument sets of the ApeTty instances, for the .cfg files.              *)
EXTENDS ApeTty

MCLetters == <<"p", "q", "r", "s", "t">>
RawMode == [default_termios EXCEPT !.iflag = {"IGNCR", "INLCR"}, !.lflag = {}, !.vmin = 2]
\* Two special characters are one, and nothing is echoed.
EraseOnNl == [default_termios EXCEPT !.verase = "nl", !.lflag = {"ICANON"}]
MCTermios == {default_termios, RawMode, EraseOnNl}
MCReads == {<<1, 3>>}
MCWrites == {<<<<"csi", "c">>>>}
MCEvents == {{"in"}, {"out", "nval"}}

\* Queries whole, cut between two writes, and cut by the chunks of one write.
MCQueryWrites ==
  {<<<<"csi", "6n">>>>, <<<<"csi">>, <<"6n">>>>, <<<<"6n">>>>, <<<<"p", "csi", "6n">>>>,
   <<<<"nl">>>>}
=============================================================================
