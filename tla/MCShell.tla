------------------------------ MODULE MCShell ------------------------------
(***************************************************************************)
(* Model-checking instance of Shell: a screen of two rows of three cells,  *)
(* five lines and twelve characters kept, commands of up to five           *)
(* characters, one more than the screen shows behind a prompt, and two of  *)
(* them in the history.                                                    *)
(***************************************************************************)
EXTENDS Shell

A == 2
MCTyped == {NUL, SPACE, A}
MCMeaning(word) == CASE word = <<A>> -> "history"
                     [] word = <<A, A>> -> "clear"
                     [] word = <<A, A, A>> -> "exit"
                     [] word = <<A, A, A, A>> -> "help"
                     [] OTHER -> "not found"
=============================================================================
