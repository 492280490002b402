----------------------------- MODULE MCCmdClient -----------------------------
(* Instances of CmdClient for TLC. *)
EXTENDS CmdClient

\* $put with both names; $put with one, longer than buffer; $quit.
UserLines ==
  {<<"$put", "sp", "txt", "sp", "txt">>, <<"$put", "sp", "txt", "txt", "txt", "txt">>,
   <<"$quit">>}

\* No answer, a file, and a file whose trailer is not recognised.
ServerReplies == {<<>>, <<"head", "tail">>, <<"head", "body">>}

\* Something in front of the first line.
SomeGarbage == {<<"junk">>}
=============================================================================
