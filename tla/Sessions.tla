------------------------------- MODULE Sessions -------------------------------
(***************************************************************************)
(* The sessions of the games, and the history browser through which the    *)
(* user looks at them, one part at a time.                                 *)
(***************************************************************************)
EXTENDS GameSessions

CONSTANTS Stores, MaxMoves, MaxPreviews, Spots, MaxTouches, MaxSteps, Pointers, WheelSteps

VARIABLES part,  \* the one that moves
          saved, newest, list, drawn, canvas, window, chosen, y_pos, press, scroll, mouse,
          pointer, down, lost, missed, touches, pressed

Browser == INSTANCE HistoryBrowser WITH head <- newest
browserVars == <<saved, newest, list, drawn, canvas, window, chosen, y_pos, press, scroll, mouse,
                 pointer, down, lost, missed, touches, pressed>>

\* What the browser's constants must satisfy.
ASSUME BrowserAssumption == Browser!HistoryBrowserAssumption

\* While the games move the browser is not opened, and it is all one what it would find.
SessionsInit ==
  /\ part \in {"games", "browser"} /\ Init /\ Browser!Init
  /\ part = "games" => <<saved, pointer>> = CHOOSE x \in Stores \X Pointers : TRUE
Games_Next   == part = "games" /\ Next /\ UNCHANGED <<part, browserVars>>
Browser_Next == part = "browser" /\ Browser!Next /\ UNCHANGED <<part, vars>>
SessionsNext == Games_Next \/ Browser_Next
SessionsSpec == SessionsInit /\ [][SessionsNext]_<<part, vars, browserVars>>

\* The properties of HistoryBrowser, under names of their own.
PressOpensWhatIsShown == Browser!PressOpensWhatIsShown
FollowsWhatIsHeld     == Browser!FollowsWhatIsHeld
CanvasesAreRight      == Browser!CanvasesAreRight

=============================================================================
