-------------------------------- MODULE Comments -------------------------------
(***************************************************************************)
(* delete_comments of verilog.ypp, one action for each way an iteration of *)
(* its loop can go.  A text is a sequence of characters, of which only a   *)
(* slash, a star and the end of a line matter.                             *)
(***************************************************************************)
EXTENDS Selection, FiniteSetsExt

CONSTANT Texts
ASSUME TextsAssumption == \A text \in Texts : text \in Seq({"/", "*", "\n", "x"})

VARIABLES str, i, out, eol, result

commentVars == <<str, i, out, eol, result>>

DeleteInit ==
    /\ str \in Texts
    /\ i = 1
    /\ out = TRUE
    /\ eol = FALSE
    /\ result = <<>>

\* The characters from position k on begin with s.
At(k, s) == k + Len(s) - 1 <= Len(str) /\ SubSeq(str, k, k + Len(s) - 1) = s

BlockBegins(k) == At(k, <<"/", "*">>)
LineBegins(k) == At(k, <<"/", "/">>)

OpenBlock ==
    /\ i <= Len(str) /\ out
    /\ BlockBegins(i) /\ ~At(i, <<"/", "*", "/">>)
    /\ out' = FALSE /\ eol' = FALSE
    /\ i' = i + 2
    /\ UNCHANGED <<str, result>>

\* After the `++i' for the star, the test for `//' looks at the character after
\* it, so that a third character `/' makes this a comment to the end of line.
OpenBlockAsLine ==
    /\ i <= Len(str) /\ out
    /\ At(i, <<"/", "*", "/">>)
    /\ out' = FALSE /\ eol' = TRUE
    /\ i' = i + 3
    /\ UNCHANGED <<str, result>>

OpenLine ==
    /\ i <= Len(str) /\ out
    /\ LineBegins(i)
    /\ out' = FALSE /\ eol' = TRUE
    /\ i' = i + 2
    /\ UNCHANGED <<str, result>>

KeepCharacter ==
    /\ i <= Len(str) /\ out
    /\ ~BlockBegins(i) /\ ~LineBegins(i)
    /\ result' = Append(result, str[i])
    /\ i' = i + 1
    /\ UNCHANGED <<str, out, eol>>

\* Mutant: the end of the line is skipped with the comment.
EndLineSkipped ==
    /\ i <= Len(str) /\ ~out /\ eol
    /\ str[i] = "\n"
    /\ out' = TRUE
    /\ i' = i + 1
    /\ UNCHANGED <<str, eol, result>>

EndLine ==
    /\ i <= Len(str) /\ ~out /\ eol
    /\ str[i] = "\n"
    /\ out' = TRUE
    /\ result' = Append(result, str[i])
    /\ i' = i + 1
    /\ UNCHANGED <<str, eol>>

CloseBlock ==
    /\ i <= Len(str) /\ ~out /\ ~eol
    /\ At(i, <<"*", "/">>)
    /\ out' = TRUE
    /\ i' = i + 2
    /\ UNCHANGED <<str, eol, result>>

SkipCharacter ==
    /\ i <= Len(str) /\ ~out
    /\ IF eol THEN str[i] # "\n" ELSE ~At(i, <<"*", "/">>)
    /\ i' = i + 1
    /\ UNCHANGED <<str, out, eol, result>>

DeleteNext ==
    OpenBlock \/ OpenBlockAsLine \/ OpenLine \/ KeepCharacter \/ EndLine
    \/ CloseBlock \/ SkipCharacter

DeleteSpec == DeleteInit /\ [][DeleteNext]_commentVars

-------------------------------------------------------------------------------
(***************************************************************************)
(* What a text without its comments is: it is cut into characters and      *)
(* whole comments, from the left, and the characters are what is kept.     *)
(***************************************************************************)
After(k) ==
    LET stars == {n \in k + 2 .. Len(str) : At(n, <<"*", "/">>)}
        ends == {n \in k + 2 .. Len(str) : str[n] = "\n"}
    IN  CASE BlockBegins(k) -> IF stars = {} THEN Len(str) + 1 ELSE Min(stars) + 2
          [] LineBegins(k) -> IF ends = {} THEN Len(str) + 1 ELSE Min(ends)
          [] OTHER -> k + 1

\* The text is cut at its beginning, and after each character or comment; Cuts
\* is the least set of which this is true.
CutAfterEach(S) == 1 \in S /\ \A k \in S : k <= Len(str) => After(k) \in S
Cuts == {k \in 1 .. Len(str) + 1 :
            \A S \in SUBSET (1 .. Len(str) + 1) : CutAfterEach(S) => k \in S}

Pieces == {k \in Cuts : k <= Len(str)}
Kept == {k \in Pieces : ~BlockBegins(k) /\ ~LineBegins(k)}

\* A text comes out with its comments deleted and nothing else, also when a
\* comment is not closed, is empty, or contains what looks like another; only
\* a block comment that begins with a slash is taken for a comment to the end
\* of the line.
CommentsDeleted ==
    i > Len(str) =>
        \/ Selects(result, str, Kept)
        \/ \E k \in Pieces : At(k, <<"/", "*", "/">>)

===============================================================================
