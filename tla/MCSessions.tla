------------------------------ MODULE MCSessions ------------------------------
(* The sessions of the games and the history browser for TLC, one at a time. *)
EXTENDS Sessions, TLC

CONSTANTS b0, b1

MCBoards == {b0, b1}
MCGames  == {"chess", "checkers", "go", "wu", "reversi", "free_cell"}
Chess    == {"chess"}

\* Nothing saved; three sessions, one of a game this build does not have; and three,
\* two of them saved in the same second, after the first was deleted.
Saves(move, date, known) == [last |-> move, date |-> date, known |-> known]
MCStores ==
  {<<>>,
   0 :> Saves(1, 5, TRUE) @@ 1 :> Saves(0, 3, FALSE) @@ 2 :> Saves(1, 4, TRUE),
   1 :> Saves(1, 5, TRUE) @@ 2 :> Saves(0, 4, TRUE) @@ 3 :> Saves(1, 4, TRUE)}

\* Buttons, previews, and both halves of the list.
MCSpots == {<<20, 40>>, <<30, 45>>, <<120, 240>>, <<250, 240>>, <<440, 40>>, <<440, 120>>, <<440, 430>>}
MCPointers == {"touch", "mouse"}
MCWheel == {120}

=============================================================================
