----------------------------- MODULE MCMdnsProxy -----------------------------
(***************************************************************************)
(* MdnsProxy with three queries, a LAN socket of two datagrams and a limit *)
(* of three discarded: queries of one or two questions, with and without   *)
(* the QU bit, and one that cannot be walked to its end.                   *)
(***************************************************************************)
EXTENDS MdnsProxy

Question(qu, malformed) == [qu |-> qu, malformed |-> malformed]

MCQuestionLists ==
    {<<Question(TRUE, FALSE)>>,
     <<Question(FALSE, FALSE), Question(FALSE, FALSE)>>,
     <<Question(FALSE, FALSE), Question(FALSE, TRUE)>>}
=============================================================================
