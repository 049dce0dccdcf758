# AlexGames in TLA+

AlexGames is a collection of small board, card and arcade games that run in a
web browser (C, C++, Lua and Rust compiled to WebAssembly), in an Android app
and in a wxWidgets window. Several of the games can be played over a network
through a relay server. This directory models the parts of the program whose
correctness depends on order, interruption, concurrency or on long sequences of
legal calls, checks the models with TLC and proves the central facts with TLAPS.

## 1. The system and its parts

| part | code | state it keeps | operations |
|---|---|---|---|
| game API and dispatcher | `src/game_api`, `src/emscripten/emscripten_api.c` | the current game's function table, the mutex, `lua_api_busy` | start, update, input, messages, timers; popups as JSON |
| Lua bindings | `src/lua_api` | the Lua state and its stack | one entry per event of a client, one function per call of a script, conversions of arguments |
| Rust bindings | `src/rust_games/rust_game_api.rs` | the Rust handle | the same for games in Rust |
| popups, buttons, options, timers, events | `lua_api.c`, `emscripten_api.c`, `html/js`, `wx_main.cpp`, `wx_game_popup.cpp`, `alex_games_android_jni.cpp` | what is on the screen and which game it belongs to | show, hide, choose, press, add, clear |
| drawing | the same files | the desktop's and Android's queue of calls; whether a paint event is owed | the draw calls, clear, refresh, paint |
| dictionary | `src/dictionary` | frames of words | build, look up, count, draw a random word |
| saved state database | `src/cpp_libs/saved_state_db` | a key-value store with all sessions, moves, cursors and the two ends; per handle a copy of the ends | new id, save, delete the oldest, undo/redo by offset, last session |
| history browser | `src/cpp_libs/history_browse_ui` | its own database handle, the window, the list with its scrolling, the selected session and move, the preview canvases | list, scroll, select, step, load, delete the oldest |
| input helpers | `src/cpp_libs/touch_*`, `mouse_scroll_handler`, `button_helper` | the touch that is followed, the mouse button | press, drag, scroll, wheel |
| storage back ends | `src/cpp_libs/sqlite_saved_state`, local storage, Android preferences | key to bytes | set, get, delete |
| relay server | `src/server/ws/ws_server.py` | sessions: name to socket; one coroutine per client | join, relay to one or all, leave |
| Android relay server | `src/android/.../WebsocketServer.java` | the same, in one queue thread and one thread per client | the same, and a ping timer |
| desktop network | `src/ui_wxWidgets/wx_network.cpp`, `src/server/socket` | server and client threads, a table of connections, events for the window's thread | host, join, accept, read, send, handle |
| browser client | `src/html/js` | socket, start-up progress | connect, send, dispatch |
| two_player | `src/lua_scripts/libs/multiplayer/two_player.lua` | who chose what, join order, popup | join, choose, reselect, leave |
| wait_for_players | `src/lua_scripts/libs/multiplayer/wait_for_players.lua` | numbered players, host or client | join, number, leave, start |
| games | `src/lua_scripts/games`, `src/rust_games` | a board or a table, serialized for the database and the network | rules, undo, broadcast of moves and states |

How they interact:

- The page (or the app, or the window) starts one game at a time through the
  dispatcher. The game calls back into the API to draw, to show popups, to send
  messages and to save states; the API hands it input, messages and saved states.
- Every event enters a Lua game the same way: the desktop's mutex, the flag
  `lua_api_busy`, the error handler on the stack, a protected call, and back.
- What a game puts on its host belongs to the host from then on; when another
  game begins, the page clears most of it, the desktop and Android do not.
- A game saves under a session id that it took from the database; the
  dispatcher adds the id of the game. The history browser is started like a
  game, works on the same store with a handle of its own, and replaces itself by
  the game whose state was chosen.
- A message of a game goes to the relay server, addressed to all or to one
  client by its name, and comes back to the others under the sender's name. The
  server's own messages come from `ctrl`. Desktop clients use plain sockets
  instead, where one of them hosts. On top of this, `two_player` agrees on
  colours, `wait_for_players` on numbers, and each game broadcasts its moves and,
  on request, its whole state.

### What is hard here

- **Stale copies.** A database handle reads the ends of the range of sessions
  once; a script takes its session id long before it uses it; the cursor, the
  board on the screen and the saved state are three records of one thing. A
  press is looked up in a list that was scrolled and was read earlier; an answer
  to a popup may come when another game plays; numbers of players move while
  `player_name_to_idx` keeps the old ones.
- **Interruption.** Nothing groups the writes of one save or one deletion, so a
  killed process leaves part of them. A script may raise an error anywhere in a
  call from C, and every early return has to give back what was taken.
- **Interleaving.** The relay's coroutines loop over a dictionary that others
  change whenever a send waits; an exception ends a coroutine halfway. On the
  desktop the threads of the network and the window meet in the game.
- **Ordering.** Devices that choose, join and leave at the same time see each
  other's messages in different orders, and each keeps its own tables. A socket
  has no message boundaries. Painting happens after events, not after messages.
- **Edges.** Words at the end of a frame, characters that JSON escapes, odd sizes
  and swapped arguments in drawing, fingers that never lift.
- **Long legal sequences.** Undo twice, move, redo; delete, reload, undo; a
  double jump in checkers; captures, ko and passes in go.

For each component the properties wanted are: the database gives back what was
saved and never gives one id to two games; undo leads back to what was on the
screen; the relay and the sockets deliver to the right clients, once, in order,
and leaves are told; devices agree once their messages have arrived; one thread
at a time is inside a game, and an error does not end the program; an answer
reaches the game that asked; what is pressed is what is shown; every client
shows the same picture; a word is found if the file has it; a refused move
changes nothing and an accepted one is the move the rules describe. PROJECT.json
lists each hazard at its line, with the properties that cover it, or the reason
why none does yet.

## 2. The modules

```
UndoHistory                      what the database promises, without keys
   ^ refined by (KeepsPromise)
SavedStateDb                     the key-value store and any number of handles
   ^ refined by (ImplementsDb)        ^ used by (INSTANCE)
SavedStateWrites                 GameSessions
  the same, write by write,        six games, the URL and the history browser
  with process kills               on one store
HistoryBrowser                   its windows, canvases, fingers and mouse
LuaApi                           every way from a client into a Lua game
HostUi  Drawing  Dictionary      what a Lua game asks its host for
RelayServer                      ws_server.py, coroutine by coroutine
DesktopNet                       the desktop's sockets, thread by thread
TwoPlayer  WaitForPlayers        the libraries on every device of a session
GoRules  WuRules  ReversiRules  CheckersRules     the rules
ClientParts                      LuaApi, HostUi, Drawing and Dictionary together
BoardGames                       the rules of the four board games together
Sessions                         GameSessions and HistoryBrowser together
Transports                       RelayServer, DesktopNet, TwoPlayer and WaitForPlayers together
SavedStateDbProofs  SavedStateWritesProofs  SessionsProofs  TransportsProofs
TwoPlayerProofs  WaitForPlayersProofs  ClientPartsProofs  BoardGamesProofs   theorems
```

Some modules join parts that one run explores one at a time: `Sessions`,
`ClientParts`, `BoardGames` and `Transports` for the parts named above, and
`MCLinks` for `TwoPlayer`, `RelayServer` and `DesktopNet`. A variable
`part` says which one moves; the others stay as they begin, so that the states
are the sum of the parts' and not their product. Each extends the module whose
theorems are about the properties it checks, and instantiates the others.

| module | code | state | actions |
|---|---|---|---|
| `SavedStateDb` | `saved_state_db.cpp` | one variable per kind of key (`cell` is `state_<session>_<move>`, `lastMove` the cursor, ...), and per handle its `cache` of the ends | one per method: constructor/refresh, save to a known session, save to a new one, delete the oldest, undo/redo |
| `UndoHistory` | `game_api.h`, the class comment | a book of sessions with numbered states and a cursor | begin, record, turn, forget |
| `SavedStateWrites` | the `store_data`/`delete_stored_data` calls in their order | the disk as a function of keys, and the writes still to be made | each method queues its writes; `MakeWrite` makes one; `Crash` |
| `GameSessions` | the `*_main` scripts, `history_browse_ui.cpp`, `emscripten_api.c` | the store, and the running game's id, board and session id | start, open from a URL, move, received move, received state, undo/redo, new game, list, load, delete |
| `HistoryBrowser` | `history_browse_ui.cpp`, `touch_press_handler`, `touch_scroll_handler`, `mouse_scroll_handler`, `button_helper`, `alexgames.js` | the window, the list and its previews, what every extra canvas shows, the active canvas, the scroll offset, the handlers' fingers and mouse | open, update, one per event of a finger, of the mouse and its wheel, the buttons; external: another page deletes, the system takes a touch |
| `LuaApi` | `lua_api.c` | the game that events go to, each game's Lua stack as kinds of values, the mutex, `lua_api_busy`, where each thread is | enter, turned away, not defined, call, return or error, finish, abort; load a game; the console |
| `HostUi` | `lua_api.c`, `game_api.c`, `emscripten_api.c`, `alexgames.js`, `wx_main.cpp`, `wx_game_popup.cpp`, `alex_games_android_jni.cpp` | windows made so far and the one the host knows, buttons, options, timers, events, each with its game | show and hide a popup, choose, dismiss, press; add, update, delete; another game on each client |
| `Drawing` | the draw calls of the same files | the script's calls, the queue, the screen, whether a paint is owed | handler begins/ends, draw, clear, refresh, paint |
| `Dictionary` | `c_dictionary.c`, its bindings | the file, the frames, the memory behind the last word | open, read a line, end of file, random word; look-ups are operators |
| `RelayServer` | `ws_server.py` | connections, the dict of sessions, and per coroutine its program counter and its place in a loop | one per stretch between two `await`s |
| `DesktopNet` | `wx_network.cpp`, `socket_server_impl.c`, `wx_main.cpp` | the threads, the table of clients, the bytes each way, the events of each window's thread | host, join, connect, accept, announce, run, register, read, end, quit, send, handle |
| `TwoPlayer` | `two_player.lua` | per device its choice, what it knows, its join order, its popup and its inbox | user: start, choose, leave; one per kind of message |
| `WaitForPlayers` | `wait_for_players.lua` | per device whether it is a client, its number, `players`, `player_name_to_idx`, its popup and its inbox | init, start, leave; one per kind of message |
| `GoRules` | `go_core.lua` | board, previous board, turn, last move | move, pass |
| `WuRules` | `wu_core.lua` | board, turn, last move, winner | move; a reload that loses the winner |
| `ReversiRules` | `reversi_core.rs` | board, turn | move |
| `CheckersRules` | `checkers_core.lua` | board, turn, selection, whether only jumps are accepted | one per way a click is accepted |

How the code is abstracted:

- A serialized state is an opaque value, a board of a game in `GameSessions` one
  of two. `uint32_t` move ids wrap at `Wrap`.
- A Lua stack is the sequence of the kinds of its values. What a script does in a
  call is a choice: it lacks the function, returns, or raises a string or
  something else. `lua_pop_error_handler` really empties the stack
  (`lua_pop(L, -1)`), and so does the model.
- A Lua table of `wait_for_players` is a function on the indices it holds, and
  `#t` any of its borders, as Lua allows.
- A text is a sequence of six kinds of characters: quote, newline, backslash, the
  other control characters, what means something behind a backslash (`n`), and the
  rest. A number of a script is given in halves, a place on the screen in half
  pixels; a colour is one digit, written once or twice. What the desktop's toolkit
  measures of a text is given with the call.
- A word is its rank in the alphabet with its length, frequency and metadata.
  Memory from `malloc` reads as zero or as some word.
- What is undefined in C is a choice or an end: `undefined` in `DesktopNet` (a
  send over a freed connection), `died` in `LuaApi` and `HostUi`, `dead` in
  `Dictionary` stop the part.
- Calls that the code refuses with an error and no change are not actions: they
  would be stuttering steps. The exceptions that end a coroutine or a callback
  with part of its work done are actions.

Definitions with a suffix (`SaveNew_NoGame`, `LeaveBroken_Break`) that are
commented "Mutant" are not part of the specifications: each is a plausible
mistake in the definition that follows it, used to see that a property would
notice.

Two assumptions simplify the network. `RelayServer` orders what a client sends
and does not lose it (it is TCP), while closing may happen at any time.
`TwoPlayer` and `WaitForPlayers` take a send and its relaying as one step and
are built on the relay as it works while no coroutine fails.

## 3. The runs

| run | what it shows | bounds, and why they are enough |
|---|---|---|
| `db_page` | cursor, fresh ids, whole sessions, the undo stack, and the refinement of `UndoHistory`, when the page's handle saves and the browser's deletes | 2 games, 2 states, 2 sessions, 3 moves, `Wrap` 8: a save after two undos, a deletion beside a save, both handles stale, and a move id wrapped from 0 to -1 all occur. Proved for all bounds (section 5) |
| `db_redo` | *violated*: redo after a new move leads into the abandoned line | the shortest such history has 3 moves |
| `writes_crash` | what a kill between two writes leaves: ids stay fresh and a cursor points to a state, except perhaps that of the oldest session (`DiskIsSound`), each kill costs at most one session; without kills, the writes add up to `SavedStateDb` | 2 sessions, 3 moves, 2 kills: the second can hit the repair of the first |
| `sessions` | games: the screen is the state at the cursor, sessions hold one game, a reload keeps the board. Browser: its canvases show what its windows say, a press opens what is shown where it was pressed, and handlers follow what is held | 6 games, 2 boards, 2 sessions, 2 moves: undo, and two games that meet in one session. Three stores (nothing, three sessions with one unknown game, three after a deletion, two of them of one date), 7 places to press, 3 fingers or 4 steps of the mouse: a drag that ends, one the system takes, one that is lifted in another window (which takes a third finger), a scrolled list, a session deleted by another page |
| `host` | one thread at a time is in a game, errors of a script are survived, popups show what was asked, answers reach the asker, the page belongs to its game, the list of games is safe to use once, every client shows the script's picture, drawings by messages get painted, the dictionary answers what the file says | 2 threads, 2 games, a stack limit of 20 as in the code with console commands that leave 1, 16 or 20 values; 3 windows, 2 things, 2 events: an old popup, a new one and the list of games; every pair of two draw calls out of seven with odd sizes, a text on the left and one in the middle among them; five popups: plain ones, one with quotes and newlines, one with a backslash, one with a control character; every subset of 5 words of 1 to 3 letters in frames of two or three |
| `host_lingers` | *violated*: options of the game before stay on the page | 2 games, 2 options |
| `dict_words` | *violated*: words of the last frame are not found | 2 words in one frame |
| `lua_abort` | *violated*: an error in an entry with a result, or one that is no string, aborts the program | 1 call |
| `devices` | relay: order, at most once, isolation of sessions, no sends to who left, relay to all reaches all. `two_player`: what devices know of each other once messages arrived; somebody is first. `wait_for_players`: the host's numbers and the clients' agree. Sockets: bytes keep their order | relay: 3 clients, 2 sessions, 2 messages, 1 leave, every send may wait: a loop is interrupted by a join, a leave or both, with a member before and one after. `two_player`: 3 devices, 1 choice each, 1 leave. `wait_for_players`: 3 devices, 2 leaves, which move numbers twice. Sockets: 1 host, 2 that join, 1 message each way of 2 bytes, reads of up to 3: a message is torn, and a client comes while another sends |
| `links` | liveness: a leave is told to every member that stays, unless an exception that a third client causes cuts the telling short; every choice arrives, the same colour asks again; the host hears what a desktop client sent | 3 clients, 2 of which leave, 1 message, and every send may wait: the announcement meets one that has left, and a dict that changed; 2 devices with 2 choices each, where a choice crosses a second one; 1 client, 2 messages of 2 bytes and reads of up to 3, which tear messages and join two |
| `wait_joins` | *violated*: two devices that open the game at the same time number each other | 3 devices |
| `boards` | all games of go on 3x3 (no group without liberties, a refused move changes nothing, no immediate retake), wu on 3x3 with rows of 3, reversi on 4x4, checkers on 5x4 with one row of pieces | groups, captures of several groups, suicide, ko; rows completed in the middle, and a second one after a reload; several runs turned at once; double jumps, new kings and games to the last piece |

In `devices` a device of `wait_for_players` comes or goes only when nothing is on
its way (`OneAtATime`): `wait_joins` shows that without this two hosts arise.
Renumbering still sends several rounds of messages that cross, because every
device that knows the one who left sends the new numbers.

Most runs switch the deadlock check off, because their systems do stop: all
clients may have left, a user need not do anything, a board may be full, a bound
may be reached, and only one part moves. The runs of the database keep it on.

Where `SYMMETRY` is used the permuted values are treated alike by the
specification (in `devices` the two clients that nobody addresses by name and
the players of the libraries; in `wait_joins` the devices), and only invariants
and a property of single steps are checked.

**Fairness.** `RelayServer` assumes weak fairness of every coroutine that can go
on: the event loop resumes each of them, and a send that waits ends, because its
receiver reads, closes, or is closed by the library's keepalive. Nothing is assumed
of clients.
`TwoPlayer` assumes weak fairness of handling the next message of each inbox:
the browser's event loop delivers what has come. `DesktopNet` assumes weak
fairness of each thread of the program and of the window's thread handling its
events: threads are scheduled. `Drawing` assumes that handlers end and, as
strong fairness, that a paint event that the toolkit owes comes at some time
between handlers, however many of them come: the toolkit sends it whenever its
queue is empty. Users, scripts and remote programs owe nothing. The other
modules have no liveness properties.

`SameColourAsksAgain` holds for two devices, as many as `two_player` is made for;
with a third one its choice hides the popup of another. `MessagesAreShown` says
when a message's drawing gets on the desktop's screen although nothing asks for
a paint: if a line or a rectangle has been painted, since painting one asks for
the next paint. A picture of graphics only waits for the user.

## 4. Where the code differs from what it says

Shown by a run:

1. **Redo after a save** (`db_redo`). `saved_state_db.cpp:95-97` wants the moves
   after the new one deleted; they stay. `UndoHistory` therefore states the
   weaker promise that the code keeps.
2. **Two hosts** (`wait_joins`). Whoever has not heard its number yet answers a
   join as the host would (`wait_for_players.lua:174`), and its message to all
   overwrites a player in the real host's table.
3. **Errors that abort** (`lua_abort`). `handle_key_evt` and `get_state` take a
   result off the stack that an error did not leave, and an error that is no
   string stays; `lua_pop_error_handler` then raises outside of any protected call.
4. **Options linger** (`host_lingers`). `init_game_options` walks over the live
   list of children while it removes them (`alexgames.js:75`).
5. **Words of the last frame** (`dict_words`). `find_frame_containing_word` finds
   no frame where none begins after the word (`c_dictionary.c:348`).

Contained in the models as the code has them, with no run of their own:

- Two leaves at once: `client_left` does not catch the exception of a send to a
  connection that has just closed, so that a third client may hear of one only
  (`ws_server.py:98`); and where someone joins or leaves while a relay or an
  announcement waits, the iterator's exception has the same effect. `LeaveAnnounced`
  says that a leave is told unless one of these happened (`CutShort`), and always
  where no third client was in the session.
- Two first players: the join order is kept per device, and simultaneous choices
  make both responsible for the dice (`two_player.lua:187`). `PlayersAgree`
  says that there is at least one.
- Session 0: a game opened from a URL with a state gets no session id, which
  becomes 0, the first session ever begun on the device (`alexgames.js:103`);
  go and reversi come to 0 on ways of their own. `OneGamePerLaterSession` is
  about the others.
- Chess saves a received move twice; wu goes on in the old session after "New
  Game", does not save received moves, and forgets the winner on a reload;
  reversi has no pass.
- A popup's text with a backslash becomes another text on the page, or freezes
  it, and one with a tab, a carriage return or another control character freezes it
  (`game_api.c:520-537`; only the newline is escaped). The JSON of a popup is
  written into 10 KiB whose end `write_str` takes no notice of: `Fits`, an assumption
  on the popups, says that it is not reached; Android shows the first message and the first button,
  and says 0 and no state for whichever was pressed.
- The desktop's list of games opened twice goes through a null pointer
  (`wx_main.cpp:979`).
- A short colour is a little darker on the desktop and on Android (`#f00` counts
  0xf0).
- The desktop lifts a text by the height of its font, so that its lower edge is
  where the page has its baseline (`wx_main.cpp:748`, "I guess this is how it is in
  html?"), and centres it by its number of bytes times the width of an average
  character (`:750`); one that should end at its place begins there. The canvas of
  Android ignores the width of a line (`AlexGamesCanvas.java:115`), draws no outline
  of a circle, takes the points of a text's size for pixels, and neither turns nor
  flips a graphic.
- The last frame of the dictionary is not ended by a zero (`c_dictionary.c:118`),
  and a random word where none matches divides by zero (`:517`).
- The history browser returns early with a preview's canvas active when a session
  cannot be read (`history_browse_ui.cpp:867`).
- A press is not given up by a finger that moves far in one direction only
  (`touch_press_handler.cpp:29-31`).
- A finger that began to scroll the list and is lifted while another window is
  shown leaves the list's `TouchScrollHandler` waiting for it
  (`history_browse_ui.cpp:1068`, `touch_scroll_handler.cpp:17-35`): back in the
  list, no finger scrolls it any more. It takes three touches: one that moves
  away and stays, one that presses an entry, one that presses "back" after the
  first was lifted. `FollowsWhatIsHeld` names these fingers (`missed`); with two
  touches the case never happens.

## 5. Proofs

What is proved holds for every value of the constants that satisfies the named
ASSUMEs of the module in question: bounds are natural numbers, special values
(`Missing`, `None`, ...) are not ordinary ones, and what the table says. Each
invariant that is called inductive below was first checked by TLC as an invariant
of the run named with it.

| module | run | theorems | hypotheses beyond the types of the constants |
|---|---|---|---|
| `SavedStateDbProofs` | `db_page` | `TypeCorrect`, `CursorSafe`, `UndoStackSafe`, `FreshSafe`, `KeptWholeSafe`, `PromiseKept` | move ids below half of `Wrap` (the code's `int`); for the last three one handle that saves and one that deletes |
| `SavedStateWritesProofs` | `writes_crash` | `DiskAlwaysSound`, `KillCostsOneSession`, `UndoStackSurvives`, `WritesImplementDb` | the same bound on move ids |
| `SessionsProofs` | `sessions` | `InvariantHolds`, `SessionsAreNotMixed`, `CursorIsOnScreen`, `ReloadIsHarmless` | the same; `Games` are among the six that are modelled, each with its habits |
| | | `BrowserIsConsistent`, `TheListFollowsTheHand`, `CanvasesShowTheirSessions`, `PressesOpenTheirEntry` | none: anything saved, any places, any number of fingers |
| `TransportsProofs` | `devices` | `RelayKeepsOrder`, `LeaveIsTrue`, `RelayIsComplete`, `BytesArriveInOrder` | finitely many clients and sessions of the relay; any number of desktop clients |
| | | `TwoPlayerAgrees`, `WaitForPlayersAgrees` | those of the two modules below |
| `TwoPlayerProofs` | `links` | `InvariantHolds`, `ChoicesBecomeKnown`, `DevicesAgree`, `SameColourIsNoticed` | for the last, at most two devices |
| `WaitForPlayersProofs` | `devices` | `EverybodyIsNumbered` | `OneAtATime`: a device comes or leaves when nothing is on its way (without it the property is false, `wait_joins`); any finite number of devices, any number of leaves |
| `ClientPartsProofs` | `host` | `HostInvariantHolds`, `PageIsTheGames`, `AnswersAreHeard`, `SelectionIsSafe`, `WordsAreShown`, `PicturesAgree`, `DictionaryIsRight`, `OneAtATime`, `RaisedIsSurvived` | for the last, `OneCaller`: on Android only one thread calls |
| `BoardGamesProofs` | `boards` | `Safe`, `NeverStuckMidJump`, `JumpsForced`, `GroupFacts`, `GoIsKept`, `WuIsDecided`, `ReversiTurns` | `BoardAssumption`: in checkers the two camps do not meet; for the other games any size, any length of rows |

**The database.** The code writes the cursor without looking, so `CursorOnState`
is inductive only together with `Bounded` (no state and no cursor above the
bound, hence no wrap of `uint32_t`) and with the games' rule that Undo and Redo
are enabled only when the state is there. This and `UndoStackKept` hold for any
number of handles with arbitrarily stale ends. `FreshSessions` and
`KeptSessionsWhole` need `EndsKnown`: the saver knows the head exactly and the
deleter the tail, while the other end of each may lag behind. With two savers
they are false (two tabs get one id). `PromiseKept`: every step is a step of
`UndoHistory` under the mapping `Book`, `Tail`, `Head`, or leaves it alone.

**Its writes.** An operation has decided all its writes when it begins, so the
invariant speaks of two stores: the disk, and the disk as it will be once the
queue `todo` is written (`Flushed`). Both are sound (`Typed`, `FreshOn`,
`CursorOn`); the step that makes a write is harmless because of what is known of
the queue: the head comes first and the tail last and a state before the cursor
(`InOrder`), one operation writes to one session (`OneSession`), removes states
of the oldest only and writes others ahead of the cursor (`Careful`). A kill then
drops a queue over a sound disk. Damage is counted on the flushed store
(`BrokenOn`), where a queue that is dropped adds at most its one session: hence
`KillCostsOneSession`. `WritesImplementDb` maps the flushed store to
`SavedStateDb`; an operation is its step as it begins and each write a stutter,
until the first kill.

**The games.** `ScreenIsCursor`, `OneGamePerLaterSession` and `ReloadKeepsBoard`
need each other through the session id that a script took long ago. The
invariant has the parts of the store (`Sessions`: nothing stored from the head
up, nothing below the tail, whole sessions between; `Lasts`: a game's last
session is its own, or the first, or deleted; `Cells`) and of the screen
(`HandlesAgree`: no handle is behind the store except the page's while sessions
are deleted; `Plays`: a running game holds no session id, that of the first
session, its own, or the next free one; `Reloads`: a board that was not handed
over is a new one, or that of the session a reload comes back to). Session 0 is
excepted throughout, because the code does mix games there (section 4).

**The history browser.** The invariant has three parts. `BrowserTypes`: among them
that the list is never scrolled past its ends, without which a press could be
taken for an entry before the first. `Hands`: the window that is shown waits for
no finger that is gone, and what makes it last is what the windows that are not
shown do. A press is the end of the finger that the window waited for, so the
window it leaves waits for nobody, and finds nobody waiting when it comes back;
only the scrolling of the list is left with a finger (`missed`). A click comes
after the button is up, so the list that is left does not follow the mouse.
`Pictures`: every entry has a canvas of its own that shows its session, whose
last canvas belongs to the chosen state, and a preview saves nothing
(`PreviewsSaveNothing`): this is what would fail if the callbacks that a preview
is given passed `save_state` on. That the preview, when it is pressed, is the
chosen state needs that no button lies over it (`PreviewIsNoButton`, from the
pixels of the layout). `PressesOpenTheirEntry` computes the entry from the place
of the press both ways, as it is drawn and as it is looked up.

**The relay.** Messages are numbered per sender only in the model, so order and
"at most once" become `Numbered` (what is on its way is numbered upwards),
`Relaying` and `Relayed` (what is received is older than what is being relayed,
or is that message and the receiver has been passed already). `LeftIsGone` needs
`Entries` (a client registers once, in the session its coroutine names, and is
taken out before the coroutine ends) and that a coroutine in its `finally` block
tells of its own client. `RelayReachesAll` is about the loop over a dictionary
that others change while a send waits: everybody the loop has passed has the
message (`Reached`), and a size that changed ends the loop with an exception, so
that an end without one has passed everybody. Fairness is not used.

**The sockets.** `BytesKeepTheirOrder` compares what one side sent with what the
other side has: heard by its game, waiting as an event of its window's thread, or
still on the wire, one after the other. It is inductive with the types alone
(`NetInv`), because a read moves a piece from the front of the wire to the end of
the waiting and an event moves one from there to what was heard, whatever the
threads and the table of clients do meanwhile. What waits is a `FlattenSeq` over
the events of one sender among those of all: `SaidAppend` and `SaidTail` say what an
event at the end and one at the front do to it, and rest on what flattening is
(`FlattenAppend`, `FlattenTail`).

**Two players.** `ChoicesKnown` speaks of the moment when nothing is on its way;
the invariant says for every moment that what d will know of e, once its inbox is
handled, is what e has chosen (`Sees`), or nothing yet while the "joined" of d is
on its way to e. The last message of e in the inbox decides, so the steps that
matter are those that append to an inbox and take from it. That somebody is first
(`DevicesAgree`) needs a second invariant, `Orders`: a join order holds whom its
device knows a colour of and itself once it has chosen (`Entered`), and those that
have chosen can be numbered so that everyone a device has before itself has a
smaller number (`Ranked`). The numbers are those of the first choices: who chooses
gets a new number and comes last in its own order, and who is entered later comes
behind. The player with the least number then has nobody before it.
`SameColourAsksAgain` is proved for two devices and false for three: a message of
the third takes the popup of another away.

**Waiting for players.** `NumbersAgree` speaks of the moment when nothing is on
its way, and says nothing of `player_name_to_idx`, on which the next leave
depends. As long as no host has left (`HostsStay`; the code elects no other), the
invariant distinguishes three moments:

- nobody has come yet (`NobodyYet`);
- a newcomer has no number (`Unnumbered`): its "joined" is on the way to the one
  host, exactly once, and everybody else knows everything (`Knows`);
- everybody has a number (`Numbering`): there is a table `tab` that gives each
  device of the session one of 1 .. n and the host the first, though perhaps no
  device has it yet.

In the last, all that a device has or has coming is true of `tab` (`Sound`): no
message but the one that tells of a leave names a wrong number. Who has not heard of
the leave (`Late`) still has the whole table of before and the number of the one
who left under its name, so `table.remove` leaves it with `tab` (`StillKnows`).
Everybody who hears of it sends everybody the new numbers, hosts and clients alike
(`wait_for_players.lua:162`), and the batches of several senders cross, each with a
`clear_players` that forgets what the one before had told. That this comes to an
end with the right numbers is `Settled`: in the inbox of x the last batch that
clears is whole (`Full`), so that after it x knows all; or somebody else has still
to hear of the leave (`MoreThan`) and will send x one more batch. With empty
inboxes nobody is late, so everybody is settled, and settled without messages is
`NumbersAgree` (`RestAgrees`), and what the next leave needs (`AtRestAllKnow`).
TLC checked the invariant for three and four devices before it was proved.

`TwoPlayerAgrees` and `WaitForPlayersAgrees` say the same of the two libraries as
the run `devices` has them, as instances in `Transports`; they follow from the
theorems of the modules by expanding both instances (`SamePlayers`, `SameWaiters`).

**Calls into Lua.** `OneThreadInGame` is not inductive: `LUA_API_ENTER` takes
the mutex first and returns without giving it back if `lua_api_busy` is set. What
is missing is `BusyIsHeld`: the flag is set only while the mutex is held, so
whoever got the mutex never finds it set. `RaisedIsSurvived` follows what lies on
the stack of the game from the call to the return, for every stage of an entry;
it excludes the entries that take a result and errors that are no strings, where
the program does end (`lua_abort`). On Android there is no mutex and two threads
in one stack have no meaning, hence `OneCaller`.

**Popups and what belongs to a game.** `UiInv` says of every window ever made
that it shows what was asked for (`ShowsAsked`), that off the desktop a visible
window is the host's only one and belongs to the playing game, that on the
desktop a visible list of games is the one the host knows unless two were opened
(`WindowsInv`), and that the page's buttons, timers and events belong to the game
it plays, with none where there is no game (`ThingsInv`). Most actions only hide
windows or change a choice (`Tame`). The theorems are about `PartsSpec`, the four
parts of a client of which one moves, which is the specification the run `host`
checks with values for its constants.

**The words of a popup.** On the page the title and the items of a popup pass through
`write_json_str` and `JSON.parse`, which refuses control characters in a string.
`WordsAreShown` rests on `WrittenIsRead`: a text of any length without a backslash
and without a control character other than the newline comes out as it went in. The
invariant of the reading is `HasRead`, what `JSON.parse` knows after the first k
characters of the text were written behind one another and read: these k, and it is
not within an escape. A character is written as one or two, and `CharIsRead` follows
both. What the page parses is a function of what it has read so far, so two readings
that agree on what they have read know the same (`ReadAgree`). With one of the
characters that are not escaped `popup_info_to_json_str` writes JSON that
`JSON.parse` refuses or reads as another text; the theorem says that nothing else
does.

**Drawing.** `DrawInv` says what a client keeps: the page what it has drawn, the
desktop every call in its queue, Android the calls it draws, in their order, which
is a statement about the places they had (`KeptInOrder`). Where and how each client
draws a call is computed per kind of call from the bindings' conversions and the
client's arithmetic (`PlainAlike`, `TextAlike`, `AndroidAlike`), for any coordinates,
sizes and measures that a script and a toolkit can give. Half of an odd size is where
clients differ by half a pixel. `SamePlace`, `SameSize` and `SameLook` say, for each
kind, in what they are alike and by how much they are not: for a text of the desktop
the heights cancel out to the part of the font below the baseline, and a centred one
is off by half of what its width is more than its bytes times the average.

**The dictionary.** `DictInv` follows the reading of the file line by line:
the frames hold exactly the lines read, in their order from one frame to the next,
all but the last are ended, and none is empty once there is a word (`Filled`,
`AddFills`). That an entry always fits into a new frame is the one thing asked of
the frame size. The search then needs only that the first words of the frames
ascend (`FrameChosen`): a word that does not begin its frame is found because the
next frame begins behind it, which is what the last frame lacks. For random words,
counting down from any number below the count comes to exactly one entry
(`EveryRank`: the entries before each are of different numbers), and the entries
that match are the words of the file that do (`MatchingAreWanted`).

**Checkers.** The invariant joins `TypeOK`, `WellPlaced`, `SelectedIsOwn` and
`NotStuckMidJump`: that a jump is left survives a change of the selection, which
is allowed in the middle of a double jump, only because no piece moves then.
`JumpsForced` needs that a player's move leaves nothing of that player's that was
not there except the piece on its target.

**Go.** `Group` is a flood fill in as many rounds as the board has points.
`GroupFacts` says what it finds: the smallest set that holds the point and every
neighbour of its colour (each round adds a point or the set is closed, and there
are no more points than rounds). After that no proof looks at the fill again. The
invariant says of the board, and of the one before it, that no set of stones is
dead, that is without liberties and joined to nothing of its colour; and that the
last move put one stone and took only the other player's. A capture looks in four
directions in turn while the board changes under it: what it takes in one is dead
before, and what is dead afterwards next to the stone would have been taken
(`CaptureFacts`); away from the stone it would have been dead before the move
(`MoveKeepsLiberties`). For the ko, taking back a single stone gives the very
board before it (`RetakeRepeats`), which needs that the board before had nothing
dead; the code's comparison with `prev_board` then refuses it. A pass between the
two does not change `prev_board`, and the theorem holds for it as well.

**Wu and reversi.** Both count along a direction up to the first point that is not
as wanted, that is to the least member of a set of naturals, and both properties
speak of the points themselves: rows in wu, what lies between two discs in
reversi. `RowsAreCounted` and `TurnedIsEnclosed` show that the two agree: in wu for
a row that the stone joins from either end or in its middle, in reversi because no
two directions from one cell meet (`OneWay`) and a row that left the board does
not come back (`OffTheBoard`).

**Induction.** The induction theorems of the library take a predicate as an
operator, which cannot be instantiated here. That every set of naturals has a
least member (`LeastMember`) and that a set with 0 and all successors has them all
(`AllNaturals`) are statements about sets; they are proved from the
well-foundedness of the strict subset relation on finite sets, and stand in for
induction in what is proved of the flood fill, of flattening, of the reading of a
text and of the search of the dictionary.

### What is only model-checked, and why

- Liveness: `LeaveAnnounced`, `ChoiceArrives`, `HostHearsEveryone`,
  `MessagesAreShown`. The installed provers have no support for fairness.

Every safety property of the passing runs, and the refinements, are stated by a
theorem.

## 6. Not modelled

- Two threads in one Lua state on Android: the binding has no mutex there
  (`alex_games_android_jni.cpp:651`), and what they do to the stack has no
  meaning. `LuaApi` is run for the desktop and the page.
- What a host's message to a client that quit does on the desktop: the handle is
  freed (`wx_network.cpp:135`), and `DesktopNet` stops there.
- The Rust bindings: a function table and conversions.
- The arcade games, swipes and the touchpad: motion in real numbers.
- Menus, dialogs and the decoding of images of the desktop; the Java side of
  Android but for what its canvas draws; the page beyond loading games, input, popups and drawing.
- Serialization: a serialized state stands for its contents, except for what it
  is known to lose (wu's winner) and that a script cannot read another game's.
- Not yet: the Android relay server, chess, backgammon, the card games and the
  puzzles; see the plan.

## 7. Plan

The order followed so far: the database first (all games rest on it), then what
it promises, its writes, the relay, the agreement of two players, the games'
use of the database and the rules of the board games; then `WaitForPlayers`, the
desktop's sockets, and what lies between a client and a game: the calls into
Lua, popups, drawing, the dictionary and the history browser. Next:

1. `GameSync`: the broadcast of moves and states between devices (`chess_main`,
   `checkers_main`, `go_main`), on top of `GameSessions`: what two devices show
   after moves, undo and a restart cross (`chess_main.lua:331`).
2. `AndroidRelay`: the queue thread, client threads and ping timer of
   `WebsocketServer.java`, as another refinement of what `RelayServer` delivers.
3. `ChessRules` on small boards (check, castling, promotion), `BackgammonRules`
   (dice, bar), then `CribRules`, `SolitaireRules` and `PokerChips` with
   conservation of cards and chips; minesweeper for several players.
4. Proofs: that the coroutines of `RelayServer` implement the relay that `TwoPlayer`
   and `WaitForPlayers` assume, where a message reaches all at once.
