---------------------------- MODULE GameSessions ----------------------------
(***************************************************************************)
(* How the games of one page use saved_state_db: what a script does when   *)
(* the page starts it, when the history browser or a URL hands it a state, *)
(* when the user moves, undoes and begins anew, and when another device    *)
(* sends a move or a whole state.                                          *)
(*                                                                         *)
(* Each game has its own habits (chess_main.lua, checkers_main.lua,        *)
(* go_main.lua, wu_main.lua, reversi_main.rs, free_cell_main.rs).  The     *)
(* rules of the games are left out: a move leads to any other board.  A    *)
(* script cannot read a state of another game: its deserializer raises an  *)
(* error, which ends the callback.                                         *)
(***************************************************************************)
EXTENDS Integers

CONSTANTS
  Games,        \* the games the user plays
  FromUrl,      \* the games that are also opened by a URL with a state
  Boards,       \* what the screen of a game can show
  New,          \* the board of a new game
  MaxSession,   \* bound: see SavedStateDb
  MaxMove,      \* bound: see SavedStateDb
  Wrap,         \* 2^32 in the code
  Missing       \* nil, and what a read of a key that is not stored gives

app     == "g_db_state_handler"
browser == "history_browse_state"
Handles == {app, browser}

Select == "history: select"
Delete == "history: delete"

ASSUME Parameters ==
  /\ Games \subseteq {"chess", "checkers", "go", "wu", "reversi", "free_cell"}
  /\ FromUrl \subseteq Games
  /\ New \in Boards
  /\ MaxSession \in Nat /\ MaxMove \in Nat /\ Wrap \in Nat /\ MaxMove + 1 < Wrap \div 2
  /\ Missing \notin Nat /\ Missing \notin Games \cup {Select, Delete} /\ Missing \notin Games \X Boards

VARIABLES
  head, tail, cell, lastMove, gameOf, dated, lastSess, cache,   \* SavedStateDb
  shown,        \* the game that runs, Select or Delete in the history browser, or Missing
  gameId,       \* g_game_id, under which states are saved
  board,        \* the board the game shows
  session,      \* the game's session_id
  ready,        \* whether start_game of the script got to its end
  given         \* the board was handed to the game, and nothing was saved since

db   == <<head, tail, cell, lastMove, gameOf, dated, lastSess, cache>>
vars == <<db, shown, gameId, board, session, ready, given>>

\* A serialized state belongs to a game.
States == Games \X Boards

Db == INSTANCE SavedStateDb WITH Savers <- {app}, Deleters <- {browser}

Init ==
  /\ Db!Init
  /\ shown = Missing /\ gameId = Missing /\ board = New /\ session = Missing
  /\ ready = FALSE /\ given = FALSE

Running(g) == shown = g /\ ready

\* The games that take a new session id as soon as the script is loaded.
Eager == {"chess", "checkers", "wu"}

\* lua_tointeger(nil) is 0.
ToInt(s) == IF s = Missing THEN 0 ELSE s

\* has_saved_state_offset and adjust_saved_state_offset as the scripts see them.
Has(s, d) == s \in Db!SessionIds /\ Db!has_saved_state_offset(s, d)
At(s, d)  == cell[s][Db!Shift(lastMove[s], d)]
Readable(g, x) == x[1] = g

-----------------------------------------------------------------------------
(* Starting a game *)

Show(g, b, s) == /\ shown' = g /\ gameId' = g
                 /\ board' = b /\ session' = s /\ ready' = TRUE

\* An error in start_game: neither buttons nor popups, and no player.
Fail(g, s) == /\ shown' = g /\ gameId' = g
              /\ board' = New /\ session' = s /\ ready' = FALSE

Load(g, x, s) ==
  IF Readable(g, x) THEN Show(g, x[2], s) ELSE Fail(g, s)

last_session(g) == lastSess[g]
NewId == cache'[app].head

\* start_game with no state, for the first time on this device.  Go keeps the
\* nil session id, and reversi asks for a new one.
StartFirst(g) ==
  /\ last_session(g) = Missing
  /\ Show(g, New, IF g \in Eager \cup {"reversi"} THEN NewId ELSE Missing)

\* Chess looks first whether the last session still has a state.
StartChess(g) ==
  LET last == last_session(g)
  IN  /\ g = "chess" /\ last # Missing
      /\ IF Has(last, 0) THEN Load(g, At(last, 0), last) ELSE Show(g, New, NewId)

\* The others load whatever there is; nil raises an error in a Lua script.
StartLua(g) ==
  LET last == last_session(g)
  IN  /\ g \in {"checkers", "wu", "go"} /\ last # Missing
      /\ IF Has(last, 0) THEN Load(g, At(last, 0), last)
                         ELSE Fail(g, IF g \in Eager THEN NewId ELSE Missing)

\* Free cell begins a new game instead.
StartFreeCell(g) ==
  LET last == last_session(g)
  IN  /\ g = "free_cell" /\ last # Missing
      /\ IF Has(last, 0) THEN Load(g, At(last, 0), last) ELSE Show(g, New, Missing)

\* Reversi asks for the last session and then loads session 0, the one in the
\* state it was made with; a state it cannot decode is reported and ignored.
StartReversi(g) ==
  /\ g = "reversi" /\ last_session(g) # Missing
  /\ IF ~Has(0, 0) THEN Fail(g, 0)
     ELSE Show(g, IF Readable(g, At(0, 0)) THEN At(0, 0)[2] ELSE New, 0)

\* init_game_api makes a new handle, as every start of a game or the browser
\* does; the browser has one more while it runs.
init_game_api(handles) ==
  LET read == [head |-> Db!OrElse(head, 0), tail |-> Db!OrElse(tail, 0)]
  IN  /\ cache' = [h \in Handles |-> IF h \in handles THEN read ELSE Db!NotOpen]
      /\ head' = read.head /\ tail' = read.tail
      /\ UNCHANGED <<cell, lastMove, gameOf, dated, lastSess>>

\* game_init: the page loads the script and starts it.
Open(g) ==
  /\ init_game_api({app})
  /\ StartFirst(g) \/ StartChess(g) \/ StartLua(g) \/ StartFreeCell(g) \/ StartReversi(g)
  /\ given' = FALSE

\* start_game_b64: the page passes no session id, which makes it 0.
OpenUrl(g, b) ==
  /\ init_game_api({app})
  /\ Show(g, b, 0)
  /\ given' = TRUE

-----------------------------------------------------------------------------
(* Playing *)

\* A session id the handle does not know is refused with an error.
Known(s) == cache[app].tail <= s /\ s <= cache[app].head

save_state(s, x) == IF Known(s) THEN Db!save_state(app, gameId, s, x) ELSE UNCHANGED db

\* Free cell asks for an id when it has none, and a Lua script's nil becomes 0.
SessionToSave == IF session = Missing /\ shown = "free_cell" THEN cache[app].head ELSE ToInt(session)

\* The board changes to b and is saved.
Save(b) ==
  /\ save_state(SessionToSave, <<shown, b>>)
  /\ session' = IF shown = "free_cell" THEN SessionToSave ELSE session
  /\ board' = b
  /\ given' = (given /\ ~Known(SessionToSave))
  /\ UNCHANGED <<shown, gameId, ready>>

\* A move of the user; checkers and go save one of another device alike.
Move(g, b) ==
  /\ Running(g) /\ b # board
  /\ Save(b)

\* Chess saves a move it is sent twice, in handle_rc and after it.
ReceiveMoveChess(g, b) ==
  LET s == session
      m == Db!NextMove(s)
      new == s = cache[app].head
  IN  /\ g = "chess" /\ Running(g) /\ b # board
      /\ s \in Db!SessionIds /\ Known(s) /\ m + 1 <= MaxMove
      /\ cell' = [cell EXCEPT ![s][m] = <<g, b>>, ![s][m + 1] = <<g, b>>]
      /\ lastMove' = [lastMove EXCEPT ![s] = m + 1]
      /\ dated' = dated \cup {s}
      /\ lastSess' = [lastSess EXCEPT ![gameId] = s]
      /\ gameOf' = IF new THEN [gameOf EXCEPT ![s] = gameId] ELSE gameOf
      /\ head' = IF new THEN s + 1 ELSE head
      /\ cache' = IF new THEN [cache EXCEPT ![app].head = s + 1] ELSE cache
  /\ board' = b /\ given' = FALSE
  /\ UNCHANGED <<tail, shown, gameId, session, ready>>

\* Mutant: a state from another device is shown and not saved.
ReceiveState_NotSaved(g, b) ==
  /\ g \in {"chess", "checkers"} /\ Running(g)
  /\ board' = b
  /\ UNCHANGED <<db, shown, gameId, session, ready, given>>

\* Another device sends its whole state: chess and checkers save it ...
ReceiveState(g, b) ==
  /\ g \in {"chess", "checkers"} /\ Running(g)
  /\ Save(b)

\* ... go and wu do not, and wu does not save a move it is sent either.
ShowReceived(g, b) ==
  /\ g \in {"go", "wu"} /\ Running(g)
  /\ board' = b
  /\ UNCHANGED <<db, shown, gameId, session, ready, given>>

\* Mutant: the board is shown again without being read from the store.
UndoRedo_Stale(g, d) ==
  /\ Running(g) /\ Has(ToInt(session), d) /\ session # Missing
  /\ Db!adjust_saved_state_offset(session, d)
  /\ UNCHANGED <<shown, gameId, board, session, ready, given>>

\* The Undo and Redo buttons, when they are enabled.  With the session id nil
\* they raise an error.
UndoRedo(g, d) ==
  /\ Running(g) /\ Has(ToInt(session), d) /\ session # Missing
  /\ Db!adjust_saved_state_offset(session, d)
  /\ LET x == At(session, d)
     IN  board' = IF Readable(g, x) THEN x[2] ELSE board
  /\ UNCHANGED <<shown, gameId, session, ready, given>>

\* "New Game" is saved at once under a new id ...
NewGame(g) ==
  /\ g \in {"chess", "checkers", "reversi", "free_cell"} /\ Running(g)
  /\ session' = cache[app].head
  /\ save_state(session', <<g, New>>)
  /\ board' = New /\ given' = FALSE
  /\ UNCHANGED <<shown, gameId, ready>>

\* ... but in go with its first move, and wu goes on in its old session.
NewGameUnsaved(g) ==
  /\ g \in {"go", "wu"} /\ Running(g)
  /\ session' = IF g = "go" THEN cache[app].head ELSE session
  /\ board' = New
  /\ UNCHANGED <<db, shown, gameId, ready, given>>

-----------------------------------------------------------------------------
(* The history browser *)

\* It is started like a game.
OpenHistory ==
  /\ init_game_api(Handles)
  /\ shown' = Select /\ gameId' = Select /\ ready' = FALSE /\ session' = Missing
  /\ board' = New /\ given' = FALSE

\* The sessions it lists: from the newest down to the first without a state.
Listed ==
  {s \in Db!SessionIds : \A t \in s .. cache[browser].head - 1 :
     t \in Db!SessionIds /\ cell[t][Db!OrElse(lastMove[t], 0)] # Missing}
    \cap 0 .. cache[browser].head - 1

\* Mutant: the id the states are saved under stays that of the browser.
LoadGame_KeepsId(s, m) ==
  LET g == gameOf[s]  x == cell[s][m]
  IN  /\ shown = Select /\ s \in Listed
      /\ m \in 0 .. Db!OrElse(lastMove[s], 0) /\ x # Missing
      /\ shown' = g /\ UNCHANGED gameId
      /\ board' = IF Readable(g, x) THEN x[2] ELSE New
      /\ session' = s /\ ready' = Readable(g, x)
  /\ given' = TRUE
  /\ cache' = [cache EXCEPT ![browser] = Db!NotOpen]
  /\ UNCHANGED <<head, tail, cell, lastMove, gameOf, dated, lastSess>>

\* load_game: the cursor of the session stays where it is, whichever of its
\* states is loaded.  The page's handle is the one of the browser's start.
LoadGame(s, m) ==
  LET g == gameOf[s]  x == cell[s][m]
  IN  /\ shown = Select /\ s \in Listed
      /\ m \in 0 .. Db!OrElse(lastMove[s], 0) /\ x # Missing
      /\ IF g = "reversi" /\ ~Readable(g, x) THEN Show(g, New, 0) ELSE Load(g, x, s)
  /\ given' = TRUE
  /\ cache' = [cache EXCEPT ![browser] = Db!NotOpen]
  /\ UNCHANGED <<head, tail, cell, lastMove, gameOf, dated, lastSess>>

\* "Delete sessions" shows another window, with no way back to the list.
OpenDelete ==
  /\ shown = Select /\ shown' = Delete
  /\ UNCHANGED <<db, gameId, board, session, ready, given>>

DeleteTail ==
  /\ shown = Delete
  /\ Db!delete_session(browser)
  /\ UNCHANGED <<shown, gameId, board, session, ready, given>>

Next ==
  \/ \E g \in Games : Open(g)
  \/ \E g \in FromUrl, b \in Boards : OpenUrl(g, b)
  \/ \E g \in Games, b \in Boards : 
       Move(g, b) \/ ReceiveMoveChess(g, b) \/ ReceiveState(g, b) \/ ShowReceived(g, b)
  \/ \E g \in Games, d \in {-1, 1} : UndoRedo(g, d)
  \/ \E g \in Games : NewGame(g) \/ NewGameUnsaved(g)
  \/ OpenHistory \/ OpenDelete \/ DeleteTail
  \/ \E s \in Db!SessionIds, m \in 0 .. MaxMove : LoadGame(s, m)

Spec == Init /\ [][Next]_vars

-----------------------------------------------------------------------------
(* Properties *)

\* The games that save every change of the board.
SaveAll == {"chess", "checkers", "free_cell", "reversi"}

\* Undo and Redo start from what is on the screen: the board of a game that
\* saves every change is the state at the cursor of its session, unless it was
\* handed over by a URL or the history browser and not touched since.
ScreenIsCursor ==
  \A g \in SaveAll \cap Games :
    Running(g) /\ ~given /\ Has(ToInt(session), 0) /\ Readable(g, At(ToInt(session), 0))
      => board = At(ToInt(session), 0)[2]

\* A session holds states of one game only: session_id is the value
\* "returned by get_new_session_id called at the beginning of a new game"
\* (game_api_doc.html).
OneGame(s) ==
  \A m \in Db!MoveIds :
    gameOf[s] # Missing /\ cell[s][m] # Missing => Readable(gameOf[s], cell[s][m])

\* All sessions but the first do, though a script takes its id when it is
\* loaded and begins the session when it saves for the first time: in between
\* nothing else is given the same id.
OneGamePerLaterSession == \A s \in Db!SessionIds \ {0} : OneGame(s)

\* A reload of the page shows the same board again, for the games that save
\* every change and go back to their last session, unless other games have
\* saved into it.
ReloadKeepsBoard ==
  [][\A g \in {"chess", "checkers", "free_cell"} \cap Games :
       Running(g) /\ ~given /\ Open(g) /\ (session \in Db!SessionIds => OneGame(session))
         => ready' /\ board' = board]_vars

=============================================================================
