---------------------------- MODULE MCNetmtServer ----------------------------
(***************************************************************************)
(* Lines and chunks for the server: every command alone, a command with a  *)
(* word, and lines of three words.                                         *)
(***************************************************************************)
EXTENDS NetmtServer

LinesAll ==
    {<<c>> : c \in {"start", "stop", "close", "quit", "PING", "list", "send", "text"}}
      \cup {<<"send", "text">>, <<"text", "text">>, <<"text", "text", "text">>}

ChunksAll == {<<"PING">>, <<"text">>, <<"text", "text", "text">>}

(* The operator and the clients say one thing each.                        *)
LinesQuit == {<<"quit">>}
ChunksLong == {<<"text", "text", "text">>}

=============================================================================
