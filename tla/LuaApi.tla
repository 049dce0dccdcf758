-------------------------------- MODULE LuaApi --------------------------------
(***************************************************************************)
(* How an event of a client gets into the script of a Lua game             *)
(* (src/lua_api/lua_api.c).  Every entry has the same shape: take the      *)
(* client's mutex, refuse if another call is inside, push the error        *)
(* handler, look the script's function up, push its arguments, call it     *)
(* protected, take what is left off the stack, and leave.                  *)
(*                                                                         *)
(* A Lua stack is the sequence of the kinds of values on it.  What the     *)
(* script does is a choice: it is loaded or not, defines the function or   *)
(* not, returns some kind of value, or raises a string ("message") or      *)
(* something else ("object").                                              *)
(*                                                                         *)
(* Android has no mutex; what two threads do to one Lua stack there has no *)
(* meaning, and no run lets them.                                          *)
(***************************************************************************)
EXTENDS Naturals, Sequences, FiniteSets

CONSTANTS Threads, Main, NoThread,
          Clients,     \* subset of {"desktop", "browser", "android"}
          MaxGames,    \* bound: games loaded one after the other
          StackLimit,  \* 20 in the code
          CmdResults   \* how many values a console command may return

ASSUME LuaApiAssumption ==
  /\ Main \in Threads /\ NoThread \notin Threads
  /\ Clients \subseteq {"desktop", "browser", "android"}
  /\ MaxGames \in Nat \ {0} /\ StackLimit \in Nat \ {0} /\ CmdResults \subseteq Nat

VARIABLES client, \* which client the program was built as
          L,      \* the game that events go to; 0 is the null pointer
          made,   \* games loaded so far
          closed, \* games whose state was closed
          stack,  \* the Lua stack of each game
          mutex,  \* alexgames_mutex: its holder
          busy,   \* lua_api_busy
          at,     \* where each thread is in a call
          died    \* why the process ended

vars == <<client, L, made, closed, stack, mutex, busy, at, died>>

Games == 1 .. MaxGames

\* An entry: what it pushes for the script, how many of these it says it
\* pushed, and the results it wants.
Entry(name, pushed, nargs, nresults) ==
  [name |-> name, pushed |-> pushed, nargs |-> nargs, nresults |-> nresults]

update                   == Entry("update", 1, 1, 0)
handle_user_string_input == Entry("handle_user_string_input", 2, 2, 0)
handle_user_clicked      == Entry("handle_user_clicked", 2, 2, 0)
handle_mousemove         == Entry("handle_mousemove", 3, 3, 0)
handle_mouse_evt         == Entry("handle_mouse_evt", 4, 4, 0)
handle_wheel_changed     == Entry("handle_wheel_changed", 2, 2, 0)
handle_key_evt           == Entry("handle_key_evt", 2, 2, 1)
handle_touch_evt         == Entry("handle_touch_evt", 2, 2, 0)
handle_msg_received      == Entry("handle_msg_received", 2, 2, 0)
handle_btn_clicked       == Entry("handle_btn_clicked", 1, 1, 0)
handle_popup_btn_clicked == Entry("handle_popup_btn_clicked", 3, 3, 0)
handle_game_option_evt   == Entry("handle_game_option_evt", 2, 2, 0)
start_game               == Entry("start_game", 2, 2, 0)
get_state                == Entry("get_state", 0, 0, 1)
get_init_state           == Entry("get_init_state", 0, 0, 1)

lua_game_api ==
  {update, handle_user_string_input, handle_user_clicked, handle_mousemove,
   handle_mouse_evt, handle_wheel_changed, handle_key_evt, handle_touch_evt,
   handle_msg_received, handle_btn_clicked, handle_popup_btn_clicked,
   handle_game_option_evt, start_game, get_state, get_init_state}

\* The main thread makes every call; another thread brings only messages, and
\* the browser has no other thread.
CallsOf(t) ==
  IF t = Main THEN lua_game_api
  ELSE IF client = "browser" THEN {} ELSE {handle_msg_received}

HasMutex == client = "desktop"

Out == [pos |-> "out", entry |-> update, game |-> 0, told |-> FALSE]
Inside(pos, e, g) == [pos |-> pos, entry |-> e, game |-> g, told |-> FALSE]

Kinds == {"handler", "function", "value", "message", "object", "nil", "table",
          "long table", "string", "long string"}
\* "long" stands for whatever read_bytearray and get_state refuse: a state
\* larger than the buffer, a byte that is no byte.

Init ==
  /\ client \in Clients
  /\ L = 0 /\ made = 0 /\ closed = {}
  /\ stack = [g \in Games |-> <<>>]
  /\ mutex = NoThread /\ busy = FALSE
  /\ at = [t \in Threads |-> Out]
  /\ died = "no"

-----------------------------------------------------------------------------
\* LUA_API_EXIT and the return of thread t.
LUA_API_EXIT(t) ==
  /\ busy' = FALSE
  /\ mutex' = IF HasMutex THEN NoThread ELSE mutex
  /\ at' = [at EXCEPT ![t] = Out]

NoGame == L = 0 \/ L \in closed

\* LUA_API_ENTER.  Whoever finds the game busy returns, and keeps the mutex.  A
\* call without a game is undefined (here: the end), except update, which looks
\* for the null pointer first.
LUA_API_ENTER(t, e) ==
  /\ at[t].pos = "out" /\ e \in CallsOf(t)
  /\ ~(L = 0 /\ e = update)
  /\ HasMutex => mutex = NoThread
  /\ mutex' = IF HasMutex THEN t ELSE mutex
  /\ died' = IF NoGame /\ ~busy THEN "no game" ELSE died
  /\ busy' = TRUE
  /\ at' = IF NoGame \/ busy THEN at ELSE [at EXCEPT ![t] = Inside("entered", e, L)]
  /\ UNCHANGED <<client, L, made, closed, stack>>

Mine(t) == stack[at[t].game]
Top(s) == IF s = <<>> THEN "nil" ELSE s[Len(s)]
Drop(s, n) == SubSeq(s, 1, Len(s) - n)
Copies(kind, n) == [i \in 1 .. n |-> kind]
SetStack(t, s) == stack' = [stack EXCEPT ![at[t].game] = s]

lua_checkstack_fails(s) == Len(s) >= StackLimit

\* lua_checkstack_or_return: the call is turned away, the stack stays as it is.
TurnedAway(t) ==
  /\ at[t].pos = "entered" /\ lua_checkstack_fails(Mine(t))
  /\ LUA_API_EXIT(t)
  /\ UNCHANGED <<client, L, made, closed, stack, died>>

\* Mutant: the early return forgets LUA_API_EXIT.
NotDefined_NoExit(t) ==
  /\ at[t].pos = "entered" /\ ~lua_checkstack_fails(Mine(t))
  /\ SetStack(t, <<>>)
  /\ at' = [at EXCEPT ![t] = Out]
  /\ UNCHANGED <<client, L, made, closed, mutex, busy, died>>

\* lua_getglobal_checktype_or_return: the script has no function of that name.
NotDefined(t) ==
  /\ at[t].pos = "entered" /\ ~lua_checkstack_fails(Mine(t))
  /\ SetStack(t, <<>>)
  /\ LUA_API_EXIT(t)
  /\ UNCHANGED <<client, L, made, closed, died>>

lua_push_error_handler(s) == Append(s, "handler")

\* The function and its arguments are pushed and the script begins.
Call(t) ==
  LET e == at[t].entry
      s == lua_push_error_handler(Mine(t)) \o <<"function">> \o Copies("value", e.pushed)
  IN /\ at[t].pos = "entered" /\ ~lua_checkstack_fails(Mine(t))
     /\ ~(e = handle_touch_evt /\ lua_checkstack_fails(s))
     /\ SetStack(t, s)
     /\ at' = [at EXCEPT ![t].pos = "running"]
     /\ UNCHANGED <<client, L, made, closed, mutex, busy, died>>

\* The loop over the touches asks for room again and returns with everything
\* still on the stack.
TouchLoopTurnedAway(t) ==
  LET s == lua_push_error_handler(Mine(t)) \o <<"function">> \o Copies("value", 2)
  IN /\ at[t].pos = "entered" /\ at[t].entry = handle_touch_evt
     /\ ~lua_checkstack_fails(Mine(t)) /\ lua_checkstack_fails(s)
     /\ SetStack(t, s)
     /\ LUA_API_EXIT(t)
     /\ UNCHANGED <<client, L, made, closed, died>>

\* A string gets a trace, anything else is passed on as it is.  It is only asked
\* when it lies at index 1; otherwise Lua has a message of its own.
lua_err_handler(s, raised) == IF s[1] = "handler" THEN raised ELSE "message"

\* Mutant: the message stays on the stack.
handle_lua_err_Stays(s) == s

\* Shows the error and takes it off the stack, if it is a string.
handle_lua_err(s) == IF Top(s) = "message" THEN Drop(s, 1) ELSE s

\* lua_pcall with the error handler at index 1.
pcall_handle_error(s, e, outcome) ==
  LET base == Drop(s, e.nargs + 1)
  IN CASE s[Len(base) + 1] # "function" -> handle_lua_err(Append(base, "message"))
       [] outcome \in {"message", "object"} ->
            handle_lua_err(Append(base, lua_err_handler(s, outcome)))
       [] OTHER -> base \o Copies(outcome, e.nresults)

Outcomes(e) ==
  {"message", "object", "nil"} \cup
  (IF e \in {get_state, get_init_state}
   THEN {"table", "long table", "string", "long string", "value"} ELSE {})

\* The script ends, in one way or another.
Return(t, outcome) ==
  /\ at[t].pos = "running" /\ outcome \in Outcomes(at[t].entry)
  /\ SetStack(t, pcall_handle_error(Mine(t), at[t].entry, outcome))
  /\ at' = [at EXCEPT ![t].pos = "returned", ![t].told = (outcome = "message")]
  /\ UNCHANGED <<client, L, made, closed, mutex, busy, died>>

\* lua_pop_error_handler: expects a function on top, and then empties the stack.
pop_error_handler_ok(s) == Top(s) \in {"handler", "function"}
lua_pop_error_handler(s) == <<>>

\* read_bytearray and the check of a string's length raise an error outside of
\* any protected call.
read_bytearray_fails(s) == Top(s) \in {"long table", "long string"}

\* handle_key_evt reads its result and takes it off; get_state and
\* get_init_state copy theirs out first.
AfterResult(s, e) == IF e.nresults = 1 THEN Drop(s, IF s = <<>> THEN 0 ELSE 1) ELSE s
call_func_get_bytearray_fails(s, e) ==
  e \in {get_state, get_init_state} /\ read_bytearray_fails(s)

Finish(t) ==
  LET e == at[t].entry
      s == AfterResult(Mine(t), e)
  IN /\ at[t].pos = "returned"
     /\ ~call_func_get_bytearray_fails(Mine(t), e) /\ pop_error_handler_ok(s)
     /\ SetStack(t, lua_pop_error_handler(s))
     /\ LUA_API_EXIT(t)
     /\ UNCHANGED <<client, L, made, closed, died>>

\* luaL_error with no protected call around it: Lua's panic, and abort().
Abort(t) ==
  LET e == at[t].entry
  IN /\ at[t].pos = "returned"
     /\ \/ call_func_get_bytearray_fails(Mine(t), e)
        \/ ~pop_error_handler_ok(AfterResult(Mine(t), e))
     /\ died' = "unprotected error"
     /\ UNCHANGED <<client, L, made, closed, stack, mutex, busy, at>>

-----------------------------------------------------------------------------
\* lua_close, if there is a game.
destroy_lua_game == closed \cup ({L} \ {0})

\* start_lua_game and init_lua_game: a new Lua state with an empty stack, or no
\* game when the script fails.  Nothing of it takes the mutex.  The page closes
\* the old game first, and keeps its pointer when the new one fails; the desktop
\* and Android close none.
init_lua_game(loads) ==
  /\ at[Main].pos = "out" /\ made < MaxGames
  /\ made' = made + 1
  /\ L' = IF loads THEN made + 1 ELSE IF client = "browser" THEN L ELSE 0
  /\ closed' = IF client = "browser" THEN destroy_lua_game ELSE closed
  /\ busy' = FALSE
  /\ UNCHANGED <<client, stack, mutex, at, died>>

\* The browser's console: what the command returns stays on the stack; an error
\* empties it.
lua_run_cmd(n, fails) ==
  /\ client = "browser" /\ ~NoGame /\ at[Main].pos = "out" /\ ~lua_checkstack_fails(stack[L])
  /\ n \in CmdResults
  /\ stack' = [stack EXCEPT ![L] = IF fails THEN <<>> ELSE @ \o Copies("value", n)]
  /\ UNCHANGED <<client, L, made, closed, mutex, busy, at, died>>

Step(t) == \/ TurnedAway(t) \/ NotDefined(t) \/ Call(t) \/ TouchLoopTurnedAway(t)
           \/ \E outcome \in Kinds : Return(t, outcome)
           \/ Finish(t) \/ Abort(t)

Next ==
  /\ died = "no"
  /\ \/ \E t \in Threads : Step(t) \/ \E e \in lua_game_api : LUA_API_ENTER(t, e)
     \/ \E loads \in BOOLEAN : init_lua_game(loads)
     \/ \E n \in CmdResults, fails \in BOOLEAN : lua_run_cmd(n, fails)

Spec == Init /\ [][Next]_vars

-----------------------------------------------------------------------------
InGame == {t \in Threads : at[t].pos # "out"}

\* On the desktop the window's thread and the server's thread both enter the game:
\* never two at once, and whoever is inside holds the mutex, and nobody else.
\* Every early return of lua_api.c has to give it back.
OneThreadInGame ==
  client = "desktop" /\ died = "no" =>
    /\ \A t \in InGame : mutex = t
    /\ mutex # NoThread => mutex \in InGame

\* An error that a script raises as a string is shown and survived by every entry
\* that takes no result: the process goes down only for handle_key_evt, get_state
\* and get_init_state, or when what was raised is not a string.
ErrorsAreSurvived ==
  died = "unprotected error" =>
    \E t \in InGame : at[t].entry.nresults = 1 \/ ~at[t].told

\* lua_pop_error_handler: "expected last stack value to be error handler func".
HandlerIsOnTop == died # "unprotected error"
=============================================================================
