--------------------------- MODULE MCSavedStateDb ---------------------------
(* Instances of SavedStateDb for TLC. *)
EXTENDS SavedStateDb

CONSTANTS g1, g2, x1, x2, app, browser

MCGames  == {g1, g2}
OneGame  == {g1}
MCStates == {x1, x2}

\* One page: the platform's handle saves, the history browser's deletes.
OnePage  == {app, browser}
PageSaves   == {app}
PageDeletes == {browser}

\* The platform's handle alone, if it also deleted.
JustApp == {app}

========================================
