----------------------------- MODULE ClientParts ------------------------------
(***************************************************************************)
(* What lies between a client and a game, one part at a time: LuaApi, the  *)
(* calls into a game, and what the game asks of its host: HostUi (popups,  *)
(* buttons, options, timers, events), Drawing and Dictionary.              *)
(***************************************************************************)
EXTENDS LuaApi

CONSTANTS Infos, EvtIds, MaxWindows, MaxThings,        \* of HostUi
          Calls, MaxDrawn,                             \* of Drawing
          Words, WordLen, WordFreq, WordMeta,          \* of Dictionary
          FrameSize, FreshMemory, DictClients

VARIABLES part, \* the one that moves
          uiGame, uiMade, gone, windows, g_popup, buttons, options, timers, events, threw, heard, uiDied,
          drawCalls, drawable_queue, screen, phase, dirty,
          dictClient, garbage, file, line, frames, handle, answer, params, dead

Ui   == INSTANCE HostUi WITH L <- uiGame, made <- uiMade, died <- uiDied
Draw == INSTANCE Drawing WITH asked <- drawCalls
Dict == INSTANCE Dictionary WITH asked <- params

\* What the parts' constants must satisfy.
ASSUME PartsAssumption ==
  Ui!HostUiAssumption /\ Draw!DrawingAssumption /\ Dict!DictionaryAssumption

lua  == <<L, made, closed, stack, mutex, busy, at, died>>
ui   == <<uiGame, uiMade, gone, windows, g_popup, buttons, options, timers, events, threw, heard, uiDied>>
draw == <<drawCalls, drawable_queue, screen, phase, dirty>>
dict == <<dictClient, garbage, file, line, frames, handle, answer, params, dead>>

\* On Android nothing keeps two threads out of one Lua stack, and LuaApi has no
\* meaning for that.
PartsInit ==
  /\ part \in {"lua", "ui", "draw", "dict"} /\ Init /\ Ui!Init /\ Draw!Init /\ Dict!Init
  /\ part = "lua" => client # "android"
Lua_Next  == part = "lua" /\ Next /\ UNCHANGED <<part, ui, draw, dict>>
Ui_Next   == part = "ui" /\ Ui!Next /\ UNCHANGED <<part, lua, draw, dict>>
Draw_Next == part = "draw" /\ Draw!Next /\ UNCHANGED <<part, lua, ui, dict>>
Dict_Next == part = "dict" /\ Dict!Next /\ UNCHANGED <<part, client, lua, ui, draw>>
PartsNext == Lua_Next \/ Ui_Next \/ Draw_Next \/ Dict_Next

\* The fairness is that of the drawing, and says nothing of the other parts.
PartsSpec ==
  PartsInit /\ [][PartsNext]_<<part, client, lua, ui, draw, dict>> /\ Draw!Fairness

\* The properties of the parts, under names of their own.
PopupsShowWhatWasAsked     == Ui!PopupsShowWhatWasAsked
AnswersReachTheAsker       == Ui!AnswersReachTheAsker
PageBelongsToGame          == Ui!PageBelongsToGame
OneSelectionIsSafe         == Ui!OneSelectionIsSafe
NothingLingers             == Ui!NothingLingers
ScreenShowsTheCalls        == Draw!ScreenShowsTheCalls
MessagesAreShown           == Draw!MessagesAreShown
DictionaryAnswers          == Dict!DictionaryAnswers
ChecksIfWordIsInDictionary == Dict!ChecksIfWordIsInDictionary

=============================================================================
