----------------------------- MODULE MCLauncher -----------------------------
(* Configuration files and users for TLC. *)
EXTENDS Launcher

MCFiles == {<<"client", "client", "client">>, <<"client", "client", "bad">>,
            <<"client", "empty", "client">>, <<>>}

\* "y", "n", "yes", and Enter alone
MCTypedLines == {<<"y", Newline>>, <<"n", Newline>>, <<"y", "e", Newline>>,
                 <<Newline>>}
=============================================================================
