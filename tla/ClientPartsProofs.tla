-------------------------- MODULE ClientPartsProofs ---------------------------
(***************************************************************************)
(* Proofs about what lies between a client and a game.                     *)
(*                                                                         *)
(* LuaApi, for any number of threads and games: on the desktop only the    *)
(* holder of the mutex is inside a game.  OneThreadInGame is not inductive,*)
(* for a thread that finds the game busy keeps the mutex, so that busy has *)
(* to imply that the mutex was taken.  Errors that are raised as strings   *)
(* are survived: for this the proof follows what lies on the stack of the  *)
(* game from the call to the return.                                       *)
(*                                                                         *)
(* HostUi, for any popups, texts, events and numbers of games and windows: *)
(* what is on the screen shows what was asked, by the game that plays.  A  *)
(* text is followed through write_json_str and JSON.parse, a character at  *)
(* a time: what was read after the first k characters are these k.         *)
(*                                                                         *)
(* Drawing, for any calls, places and sizes: a client keeps the calls in   *)
(* their order, and each kind of call becomes the same shape on all.       *)
(***************************************************************************)
EXTENDS ClientParts, FiniteSetTheorems, SequenceTheorems, WellFoundedInduction, TLAPS

-----------------------------------------------------------------------------
(* Calls into Lua *)

Positions == {"out", "entered", "running", "returned"}
Places == [pos : Positions, entry : lua_game_api, game : Nat, told : BOOLEAN]

Shapes == L \in Nat /\ made \in Nat /\ at \in [Threads -> Places]

\* busy is set by nobody but the one who has the mutex.
BusyIsHeld == client = "desktop" /\ died = "no" /\ busy => mutex # NoThread

LuaInv == Shapes /\ OneThreadInGame /\ BusyIsHeld

\* Before the first call nobody is inside.
LEMMA LuaStarts == Init => LuaInv
<1>1. update \in lua_game_api
      BY DEF lua_game_api
<1>2. Out \in Places
      BY <1>1 DEF Out, Places, Positions
<1> QED
    BY <1>2 DEF Init, LuaInv, Shapes, OneThreadInGame, BusyIsHeld, InGame, Out

\* LUA_API_EXIT by the thread that is inside, whatever else the step changes.
LEMMA ExitKeeps ==
  ASSUME LuaInv, NEW t \in Threads, at[t].pos # "out", LUA_API_EXIT(t), died = "no",
         UNCHANGED <<client, L, made, died>>
  PROVE  LuaInv'
<1>1. Out \in Places
      BY DEF Out, Places, Positions, lua_game_api
<1>2. Shapes'
      BY <1>1 DEF LuaInv, Shapes, LUA_API_EXIT
<1>3. at' = [at EXCEPT ![t] = Out] /\ busy' = FALSE /\ Out.pos = "out"
      BY DEF LUA_API_EXIT, Out
<1>4. at'[t].pos = "out" /\ \A u \in Threads \ {t} : at'[u] = at[u]
      BY <1>3 DEF LuaInv, Shapes
<1>5. ASSUME client = "desktop" PROVE mutex' = NoThread /\ InGame' = {}
  <2>1. mutex = t /\ \A u \in InGame : u = t
        BY <1>5 DEF LuaInv, OneThreadInGame, InGame
  <2>2. mutex' = NoThread
        BY <1>5 DEF LUA_API_EXIT, HasMutex
  <2> QED
      BY <1>4, <2>1, <2>2 DEF InGame
<1>6. OneThreadInGame'
      BY <1>5 DEF OneThreadInGame
<1> QED
    BY <1>2, <1>3, <1>6 DEF LuaInv, BusyIsHeld

\* A step inside a call, which neither takes nor gives back anything.
LEMMA InsideKeeps ==
  ASSUME LuaInv, NEW t \in Threads, at[t].pos # "out", at' \in [Threads -> Places],
         at'[t].pos # "out", \A u \in Threads \ {t} : at'[u] = at[u],
         UNCHANGED <<client, L, made, mutex, busy, died>>
  PROVE  LuaInv'
<1>1. Shapes'
      BY DEF LuaInv, Shapes
<1>2. InGame' = InGame
      BY DEF InGame
<1> QED
    BY <1>1, <1>2 DEF LuaInv, OneThreadInGame, BusyIsHeld

\* A thread that enters had to get the mutex; if it is not let in, the game was busy
\* and the mutex taken, or there was none and the program is at its end.
LEMMA EnterKeeps ==
  ASSUME LuaInv, died = "no", NEW t \in Threads, NEW e \in lua_game_api, LUA_API_ENTER(t, e)
  PROVE  LuaInv'
<1>1. at' \in [Threads -> Places]
  <2>1. Inside("entered", e, L) \in Places
        BY DEF LuaInv, Shapes, Inside, Places, Positions
  <2> QED
      BY <2>1 DEF LuaInv, Shapes, LUA_API_ENTER
<1>2. Shapes'
      BY <1>1 DEF LuaInv, Shapes, LUA_API_ENTER
<1>3. ASSUME client' = "desktop", died' = "no" PROVE OneThreadInGame' /\ BusyIsHeld'
  <2>1. client = "desktop" /\ mutex = NoThread /\ mutex' = t /\ t # NoThread
        BY <1>3, LuaApiAssumption DEF LUA_API_ENTER, HasMutex
  <2>2. ~busy /\ ~NoGame
        BY <1>3, <2>1 DEF LUA_API_ENTER, LuaInv, BusyIsHeld
  <2>3. at' = [at EXCEPT ![t] = Inside("entered", e, L)]
        BY <2>2 DEF LUA_API_ENTER
  <2>4. at'[t].pos = "entered" /\ \A u \in Threads \ {t} : at'[u] = at[u]
        BY <2>3 DEF Inside, LuaInv, Shapes
  <2>5. InGame = {}
        BY <2>1, LuaApiAssumption DEF LuaInv, OneThreadInGame, InGame
  <2>6. InGame' = {t}
        BY <2>4, <2>5 DEF InGame
  <2> QED
      BY <2>1, <2>6 DEF OneThreadInGame, BusyIsHeld
<1> QED
    BY <1>2, <1>3 DEF LuaInv, OneThreadInGame, BusyIsHeld

\* Every step of a thread inside a call keeps the invariant.
LEMMA StepKeeps ==
  ASSUME LuaInv, died = "no", NEW t \in Threads, Step(t)
  PROVE  LuaInv'
<1>1. CASE TurnedAway(t) \/ NotDefined(t) \/ TouchLoopTurnedAway(t) \/ Finish(t)
  <2>1. at[t].pos # "out" /\ LUA_API_EXIT(t) /\ UNCHANGED <<client, L, made, died>>
        BY <1>1 DEF TurnedAway, NotDefined, TouchLoopTurnedAway, Finish
  <2> QED
      BY <2>1, ExitKeeps
<1>2. CASE Call(t)
  <2>1. at[t].pos # "out" /\ at' = [at EXCEPT ![t].pos = "running"]
        BY <1>2 DEF Call
  <2>2. UNCHANGED <<client, L, made, mutex, busy, died>>
        BY <1>2 DEF Call
  <2>3. at' \in [Threads -> Places] /\ at'[t].pos = "running"
        BY <2>1 DEF LuaInv, Shapes, Places, Positions
  <2>4. \A u \in Threads \ {t} : at'[u] = at[u]
        BY <2>1 DEF LuaInv, Shapes
  <2> QED
      BY <2>1, <2>2, <2>3, <2>4, InsideKeeps
<1>3. ASSUME NEW outcome \in Kinds, Return(t, outcome) PROVE LuaInv'
  <2>1. /\ at[t].pos # "out"
        /\ at' = [at EXCEPT ![t].pos = "returned", ![t].told = (outcome = "message")]
        BY <1>3 DEF Return
  <2>2. UNCHANGED <<client, L, made, mutex, busy, died>>
        BY <1>3 DEF Return
  <2>3. at' \in [Threads -> Places] /\ at'[t].pos = "returned"
        BY <2>1, ZenonT(40) DEF LuaInv, Shapes, Places, Positions
  <2>4. \A u \in Threads \ {t} : at'[u] = at[u]
        BY <2>1 DEF LuaInv, Shapes
  <2> QED
      BY <2>1, <2>2, <2>3, <2>4, InsideKeeps
<1>4. CASE Abort(t)
      BY <1>4 DEF Abort, LuaInv, Shapes, OneThreadInGame, BusyIsHeld
<1> QED
    BY <1>1, <1>2, <1>3, <1>4 DEF Step

\* So does every step of the program.
LEMMA LuaSteps == LuaInv /\ [Next]_vars => LuaInv'
<1> SUFFICES ASSUME LuaInv, [Next]_vars PROVE LuaInv'
    OBVIOUS
<1>1. CASE UNCHANGED vars
      BY <1>1 DEF vars, LuaInv, Shapes, OneThreadInGame, BusyIsHeld, InGame
<1>2. ASSUME died = "no", NEW t \in Threads, Step(t) PROVE LuaInv'
      BY <1>2, StepKeeps
<1>3. ASSUME died = "no", NEW t \in Threads, NEW e \in lua_game_api, LUA_API_ENTER(t, e)
      PROVE  LuaInv'
      BY <1>3, EnterKeeps
<1>4. ASSUME NEW loads \in BOOLEAN, init_lua_game(loads) PROVE LuaInv'
  <2>1. Shapes'
        BY <1>4 DEF init_lua_game, LuaInv, Shapes
  <2>2. InGame' = InGame /\ ~busy' /\ UNCHANGED <<client, mutex, died>>
        BY <1>4 DEF init_lua_game, InGame
  <2> QED
      BY <2>1, <2>2 DEF LuaInv, OneThreadInGame, BusyIsHeld
<1>5. ASSUME NEW n \in CmdResults, NEW fails \in BOOLEAN, lua_run_cmd(n, fails) PROVE LuaInv'
  <2>1. UNCHANGED <<client, L, made, mutex, busy, at, died>>
        BY <1>5 DEF lua_run_cmd
  <2> QED
      BY <2>1 DEF LuaInv, Shapes, OneThreadInGame, BusyIsHeld, InGame
<1> QED
    BY <1>1, <1>2, <1>3, <1>4, <1>5 DEF Next

\* With any number of threads, games, console commands and early returns, the
\* desktop's mutex lets one thread at a time into a Lua game, and is held by nobody
\* else.
THEOREM OneAtATime == Spec => []OneThreadInGame
<1>1. LuaInv => OneThreadInGame
      BY DEF LuaInv
<1> QED
    BY <1>1, LuaStarts, LuaSteps, PTL DEF Spec

-----------------------------------------------------------------------------
(* Errors that are survived *)

\* The stacks, and the games there are.
Stacks ==
  /\ stack \in [Games -> Seq(Kinds)]
  /\ L \in 0 .. MaxGames /\ made \in 0 .. MaxGames
  /\ client \in Clients
  /\ \A t \in Threads : at[t].pos # "out" => at[t].game \in Games

\* Without a mutex only the main thread makes calls.
OnlyMain == client # "desktop" => InGame \subseteq {Main}

\* While the script runs, what it was called with lies on its game's stack: the
\* handler, the function and the arguments that are said to be there.
CallIsOnStack ==
  died = "no" =>
    \A t \in Threads : at[t].pos = "running" =>
      LET s == stack[at[t].game]
          n == at[t].entry.nargs
      IN  /\ Len(s) >= n + 2
          /\ s[Len(s) - n - 1] = "handler" /\ s[Len(s) - n] = "function"

\* Once a string that was raised is shown, the handler is on top again.
HandlerIsBack ==
  died = "no" =>
    \A t \in Threads :
      at[t].pos = "returned" /\ at[t].told => Top(stack[at[t].game]) = "handler"

StackInv == Stacks /\ OnlyMain /\ CallIsOnStack /\ HandlerIsBack /\ ErrorsAreSurvived

\* Every entry says how many arguments it pushed as many as it pushed, and wants at
\* most one result.
LEMMA EntriesAgree ==
  ASSUME NEW e \in lua_game_api
  PROVE  e.pushed \in Nat /\ e.nargs = e.pushed /\ e.nresults \in {0, 1}
BY DEF lua_game_api, Entry, update, handle_user_string_input, handle_user_clicked,
       handle_mousemove, handle_mouse_evt, handle_wheel_changed, handle_key_evt,
       handle_touch_evt, handle_msg_received, handle_btn_clicked, handle_popup_btn_clicked,
       handle_game_option_evt, start_game, get_state, get_init_state

\* What Copies returns.
LEMMA CopiesAre ==
  ASSUME NEW kind \in Kinds, NEW n \in Nat
  PROVE  Copies(kind, n) \in Seq(Kinds) /\ Len(Copies(kind, n)) = n
<1>1. \A i \in 1 .. n : kind \in Kinds
  OBVIOUS
<1>2. [i \in 1 .. n |-> kind] \in [1 .. n -> Kinds]
  OBVIOUS
<1>3. QED
  BY <1>2 DEF Copies

\* What a call pushes.
LEMMA PushedForCall ==
  ASSUME NEW q \in Seq(Kinds), NEW n \in Nat, NEW s,
         s = lua_push_error_handler(q) \o <<"function">> \o Copies("value", n)
  PROVE  /\ s \in Seq(Kinds) /\ Len(s) = Len(q) + 2 + n
         /\ s[Len(s) - n - 1] = "handler" /\ s[Len(s) - n] = "function"
<1> DEFINE h == lua_push_error_handler(q)
           f == h \o <<"function">>
           a == Copies("value", n)
<1>1. Len(q) \in Nat
  OBVIOUS
<1>2. "handler" \in Kinds /\ "function" \in Kinds /\ "value" \in Kinds
  BY DEF Kinds
<1>3. h \in Seq(Kinds) /\ Len(h) = Len(q) + 1 /\ h[Len(q) + 1] = "handler"
  BY <1>2, AppendProperties DEF lua_push_error_handler
<1>4. <<"function">> \in Seq(Kinds) /\ Len(<<"function">>) = 1 /\ <<"function">>[1] = "function"
  BY <1>2
<1> HIDE DEF h
<1>5. f \in Seq(Kinds) /\ Len(f) = Len(q) + 2 /\ f[Len(q) + 1] = "handler" /\ f[Len(q) + 2] = "function"
  BY <1>1, <1>3, <1>4, ConcatProperties
<1>6. a \in Seq(Kinds) /\ Len(a) = n
  BY <1>2, CopiesAre
<1>7. s = f \o a
  BY DEF h
<1> HIDE DEF f, a
<1>8. /\ s \in Seq(Kinds) /\ Len(s) = Len(q) + 2 + n
      /\ s[Len(q) + 1] = "handler" /\ s[Len(q) + 2] = "function"
  <2>1. \A i \in 1 .. Len(q) + 2 : (f \o a)[i] = f[i]
    <3>1. \A i \in 1 .. Len(q) + 2 : i \in 1 .. Len(f) + Len(a) /\ i <= Len(f)
      BY <1>1, <1>5, <1>6
    <3>2. \A i \in 1 .. Len(f) + Len(a) : (f \o a)[i] = IF i <= Len(f) THEN f[i] ELSE a[i - Len(f)]
      BY <1>5, <1>6, ConcatProperties
    <3>3. QED
      BY <3>1, <3>2
  <2>2. s \in Seq(Kinds) /\ Len(s) = Len(f) + Len(a)
    BY <1>5, <1>6, <1>7, ConcatProperties
  <2>3. Len(q) + 1 \in 1 .. Len(q) + 2 /\ Len(q) + 2 \in 1 .. Len(q) + 2
    BY <1>1
  <2>4. s[Len(q) + 1] = "handler" /\ s[Len(q) + 2] = "function"
    BY <1>5, <1>7, <2>1, <2>3
  <2>5. QED
    BY <1>1, <1>5, <1>6, <2>2, <2>4
<1>9. Len(s) - n - 1 = Len(q) + 1 /\ Len(s) - n = Len(q) + 2
  <2>1. Len(s) = Len(q) + 2 + n
    BY <1>8
  <2>2. QED
    BY <1>1, <2>1
<1>10. s[Len(s) - n - 1] = "handler" /\ s[Len(s) - n] = "function"
  BY <1>8, <1>9, Zenon
<1>11. QED
  BY <1>8, <1>10, Zenon

\* What is left when n values are dropped.
LEMMA DropKeeps ==
  ASSUME NEW s \in Seq(Kinds), NEW n \in Nat, n <= Len(s)
  PROVE  /\ Drop(s, n) \in Seq(Kinds) /\ Len(Drop(s, n)) = Len(s) - n
         /\ \A i \in 1 .. Len(s) - n : Drop(s, n)[i] = s[i]
<1>1. Len(s) \in Nat /\ Len(s) - n \in 0 .. Len(s)
  BY LenProperties
<1>2. QED
  BY <1>1, SubSeqProperties DEF Drop

\* Of a call that ends the function and its arguments are gone.  A string that was
\* raised is shown and gone too, so that the handler is on top.
LEMMA CallEnds ==
  ASSUME NEW s \in Seq(Kinds), NEW e \in lua_game_api, NEW outcome \in Kinds,
         Len(s) >= e.nargs + 2,
         s[Len(s) - e.nargs - 1] = "handler", s[Len(s) - e.nargs] = "function"
  PROVE  /\ pcall_handle_error(s, e, outcome) \in Seq(Kinds)
         /\ outcome = "message" => Top(pcall_handle_error(s, e, outcome)) = "handler"
<1> DEFINE base == Drop(s, e.nargs + 1)
<1>1. e.nargs \in Nat /\ e.nresults \in {0, 1}
  BY EntriesAgree
<1>2. Len(s) \in Nat /\ e.nargs + 1 \in Nat /\ e.nargs + 1 <= Len(s)
  BY <1>1, LenProperties
<1>3. /\ base \in Seq(Kinds) /\ Len(base) = Len(s) - (e.nargs + 1)
      /\ \A i \in 1 .. Len(s) - (e.nargs + 1) : base[i] = s[i]
  BY <1>2, DropKeeps
<1> HIDE DEF base
<1>4. Len(base) \in Nat /\ Len(base) >= 1 /\ base[Len(base)] = "handler" /\ s[Len(base) + 1] = "function"
  <2>1. PICK k \in Nat : k = Len(s) - (e.nargs + 1) /\ k >= 1
    BY <1>1, <1>2
  <2>2. Len(base) = k /\ \A i \in 1 .. k : base[i] = s[i]
    BY <1>3, <2>1
  <2>3. s[k] = "handler" /\ s[k + 1] = "function"
    <3>1. k = Len(s) - e.nargs - 1 /\ k + 1 = Len(s) - e.nargs
      BY <1>1, <1>2, <2>1
    <3>2. QED
      BY <3>1
  <2>4. base[k] = s[k]
    <3>1. k \in 1 .. k
      BY <2>1
    <3>2. QED
      BY <2>2, <3>1
  <2>5. QED
    BY <2>1, <2>2, <2>3, <2>4
<1>5. ASSUME NEW kind \in Kinds
      PROVE  /\ handle_lua_err(Append(base, kind)) \in Seq(Kinds)
             /\ kind = "message" => handle_lua_err(Append(base, kind)) = base
  <2> DEFINE b == Append(base, kind)
  <2>1. b \in Seq(Kinds) /\ Len(b) = Len(base) + 1 /\ b[Len(base) + 1] = kind
          /\ \A i \in 1 .. Len(base) : b[i] = base[i]
    BY <1>3, <1>4, AppendProperties
  <2> HIDE DEF b
  <2>2. Top(b) = kind
    BY <1>4, <2>1 DEF Top
  <2>3. /\ Drop(b, 1) \in Seq(Kinds) /\ Len(Drop(b, 1)) = Len(base)
        /\ \A i \in 1 .. Len(base) : Drop(b, 1)[i] = base[i]
    <3>1. 1 <= Len(b) /\ Len(b) - 1 = Len(base)
      BY <1>4, <2>1
    <3>2. /\ Drop(b, 1) \in Seq(Kinds) /\ Len(Drop(b, 1)) = Len(b) - 1
          /\ \A i \in 1 .. Len(b) - 1 : Drop(b, 1)[i] = b[i]
      BY <2>1, <3>1, DropKeeps
    <3>3. QED
      BY <2>1, <3>1, <3>2
  <2>4. Drop(b, 1) = base
    BY <1>3, <2>3, SeqEqual
  <2>5. QED
    BY <2>1, <2>2, <2>3, <2>4 DEF handle_lua_err, b
<1>6. CASE outcome \in {"message", "object"}
  <2>1. pcall_handle_error(s, e, outcome) = handle_lua_err(Append(base, lua_err_handler(s, outcome)))
    BY <1>4, <1>6 DEF pcall_handle_error, base
  <2>2. lua_err_handler(s, outcome) \in Kinds /\ (outcome = "message" => lua_err_handler(s, outcome) = "message")
    BY DEF lua_err_handler, Kinds
  <2>3. Top(base) = "handler"
    BY <1>4 DEF Top
  <2>4. QED
    BY <1>5, <2>1, <2>2, <2>3
<1>7. CASE outcome \notin {"message", "object"}
  <2>1. pcall_handle_error(s, e, outcome) = base \o Copies(outcome, e.nresults)
    BY <1>4, <1>7 DEF pcall_handle_error, base
  <2>2. e.nresults \in Nat
    BY <1>1
  <2>3. Copies(outcome, e.nresults) \in Seq(Kinds)
    BY <2>2, CopiesAre
  <2>4. base \o Copies(outcome, e.nresults) \in Seq(Kinds)
    BY <1>3, <2>3, ConcatProperties
  <2>5. QED
    BY <1>7, <2>1, <2>4
<1>8. QED
  BY <1>6, <1>7

\* Before the first call the stacks are empty.
LEMMA InitStackInv == Init => StackInv
<1> SUFFICES ASSUME Init PROVE StackInv
  OBVIOUS
<1>1. Out.pos = "out"
  BY DEF Out
<1>2. <<>> \in Seq(Kinds)
  OBVIOUS
<1>3. Stacks
  BY <1>1, <1>2, LuaApiAssumption DEF Init, Stacks
<1>4. OnlyMain /\ CallIsOnStack /\ HandlerIsBack /\ ErrorsAreSurvived
  BY <1>1 DEF Init, OnlyMain, InGame, CallIsOnStack, HandlerIsBack, ErrorsAreSurvived
<1>5. QED
  BY <1>3, <1>4 DEF StackInv

\* Nobody shares the game with a thread that is inside.
LEMMA InsideAlone ==
  ASSUME LuaInv, StackInv, died = "no", NEW t \in Threads, at[t].pos # "out"
  PROVE  \A u \in Threads \ {t} : at[u].pos = "out"
<1>1. CASE client = "desktop"
  BY <1>1 DEF LuaInv, OneThreadInGame, InGame
<1>2. CASE client # "desktop"
  BY <1>2 DEF StackInv, OnlyMain, InGame
<1>3. QED
  BY <1>1, <1>2

\* A step of the thread that is inside, which leaves its own stack s behind.
LEMMA InsideStacks ==
  ASSUME LuaInv, StackInv, died = "no", NEW t \in Threads, at[t].pos # "out",
         NEW s \in Seq(Kinds), SetStack(t, s), at' \in [Threads -> Places],
         at'[t].pos # "out" => at'[t].game = at[t].game,
         \A u \in Threads \ {t} : at'[u] = at[u],
         UNCHANGED <<client, L, made, died>>,
         at'[t].pos = "running" =>
           /\ Len(s) >= at'[t].entry.nargs + 2
           /\ s[Len(s) - at'[t].entry.nargs - 1] = "handler"
           /\ s[Len(s) - at'[t].entry.nargs] = "function",
         at'[t].pos = "returned" /\ at'[t].told => Top(s) = "handler"
  PROVE  StackInv'
<1>1. \A u \in Threads \ {t} : at'[u].pos = "out"
  BY InsideAlone
<1>2. at[t].game \in Games /\ stack' = [stack EXCEPT ![at[t].game] = s]
  BY DEF StackInv, Stacks, SetStack
<1>3. stack' \in [Games -> Seq(Kinds)] /\ stack'[at[t].game] = s
  BY <1>2 DEF StackInv, Stacks
<1>4. Stacks'
  BY <1>1, <1>2, <1>3 DEF StackInv, Stacks, Games
<1>5. OnlyMain'
  BY <1>1 DEF StackInv, OnlyMain, InGame
<1>6. CallIsOnStack'
  BY <1>1, <1>3 DEF CallIsOnStack
<1>7. HandlerIsBack'
  BY <1>1, <1>3 DEF HandlerIsBack, Top
<1>8. ErrorsAreSurvived'
  BY DEF ErrorsAreSurvived
<1>9. QED
  BY <1>4, <1>5, <1>6, <1>7, <1>8 DEF StackInv

\* A step of the thread that is inside keeps the stacks as they should be.
LEMMA StepStacks ==
  ASSUME LuaInv, StackInv, died = "no", NEW t \in Threads, Step(t)
  PROVE  StackInv'
<1> DEFINE g == at[t].game
           q == stack[g]
<1>1. at[t] \in Places /\ Out \in Places /\ Out.pos = "out"
  BY DEF LuaInv, Shapes, Out, Places, Positions, lua_game_api
<1>2. at[t].pos # "out"
  BY DEF Step, TurnedAway, NotDefined, Call, TouchLoopTurnedAway, Return, Finish, Abort
<1>3. q \in Seq(Kinds) /\ Mine(t) = q /\ <<>> \in Seq(Kinds)
  BY <1>2 DEF StackInv, Stacks, Mine
<1>4. at[t].entry \in lua_game_api
  BY <1>1 DEF Places
\* A thread that leaves the game with s on the stack.
<1>5. ASSUME NEW s \in Seq(Kinds), SetStack(t, s), LUA_API_EXIT(t), UNCHANGED <<client, L, made, died>>
      PROVE  StackInv'
  <2>1. at' \in [Threads -> Places] /\ at'[t].pos = "out" /\ \A u \in Threads \ {t} : at'[u] = at[u]
    BY <1>1, <1>5 DEF LUA_API_EXIT, LuaInv, Shapes
  <2>2. QED
    BY <1>2, <1>5, <2>1, InsideStacks
<1>6. CASE TurnedAway(t)
  <2>1. SetStack(t, q)
    BY <1>3, <1>6 DEF TurnedAway, SetStack, StackInv, Stacks
  <2>2. LUA_API_EXIT(t) /\ UNCHANGED <<client, L, made, died>>
    BY <1>6 DEF TurnedAway
  <2>3. QED
    BY <1>3, <1>5, <2>1, <2>2
<1>7. CASE NotDefined(t) \/ Finish(t)
  <2>1. SetStack(t, <<>>) /\ LUA_API_EXIT(t) /\ UNCHANGED <<client, L, made, died>>
    BY <1>7 DEF NotDefined, Finish, lua_pop_error_handler
  <2>2. QED
    BY <1>3, <1>5, <2>1
<1>8. CASE TouchLoopTurnedAway(t)
  <2>1. PICK s : /\ s = lua_push_error_handler(q) \o <<"function">> \o Copies("value", 2)
                 /\ SetStack(t, s) /\ LUA_API_EXIT(t) /\ UNCHANGED <<client, L, made, died>>
    BY <1>3, <1>8 DEF TouchLoopTurnedAway
  <2>2. s \in Seq(Kinds)
    BY <1>3, <2>1, PushedForCall
  <2>3. QED
    BY <1>5, <2>1, <2>2
<1>9. CASE Call(t)
  <2>1. PICK n \in Nat : n = at[t].entry.nargs /\ at[t].entry.pushed = n
    BY <1>4, EntriesAgree
  <2>2. PICK s : /\ s = lua_push_error_handler(q) \o <<"function">> \o Copies("value", n)
                 /\ SetStack(t, s)
    BY <1>3, <1>9, <2>1 DEF Call
  <2> HIDE DEF q, g
  <2>3. /\ s \in Seq(Kinds) /\ Len(s) = Len(q) + 2 + n
        /\ s[Len(s) - n - 1] = "handler" /\ s[Len(s) - n] = "function"
    <3>1. q \in Seq(Kinds)
      BY <1>3
    <3>2. s = lua_push_error_handler(q) \o <<"function">> \o Copies("value", n)
      BY <2>2
    <3>3. s \in Seq(Kinds) /\ Len(s) = Len(q) + 2 + n
      BY <3>1, <3>2, PushedForCall, ZenonT(40)
    <3>4. s[Len(s) - n - 1] = "handler"
      BY <3>1, <3>2, PushedForCall, ZenonT(40)
    <3>5. s[Len(s) - n] = "function"
      BY <3>1, <3>2, PushedForCall, ZenonT(40)
    <3>6. QED
      BY <3>3, <3>4, <3>5
  <2>4. Len(s) >= n + 2
    <3>1. Len(q) \in Nat
      BY <1>3, LenProperties
    <3>2. QED
      BY <2>1, <2>3, <3>1
  <2>5. at' = [at EXCEPT ![t].pos = "running"] /\ UNCHANGED <<client, L, made, died>>
    BY <1>9 DEF Call
  <2>6. /\ at' \in [Threads -> Places] /\ at'[t].pos = "running"
        /\ at'[t].game = at[t].game /\ at'[t].entry = at[t].entry
        /\ \A u \in Threads \ {t} : at'[u] = at[u]
    BY <2>5 DEF LuaInv, Shapes, Places, Positions
  <2>7. QED
    BY <1>2, <2>1, <2>2, <2>3, <2>4, <2>5, <2>6, InsideStacks, ZenonT(40)
<1>10. ASSUME NEW outcome \in Kinds, Return(t, outcome) PROVE StackInv'
  <2>1. at[t].pos = "running"
    BY <1>10 DEF Return
  <2>2. /\ Len(q) >= at[t].entry.nargs + 2
        /\ q[Len(q) - at[t].entry.nargs - 1] = "handler"
        /\ q[Len(q) - at[t].entry.nargs] = "function"
    BY <2>1 DEF StackInv, CallIsOnStack
  <2>3. PICK s : s = pcall_handle_error(q, at[t].entry, outcome) /\ SetStack(t, s)
    BY <1>3, <1>10 DEF Return
  <2>4. s \in Seq(Kinds) /\ (outcome = "message" => Top(s) = "handler")
    BY <1>3, <1>4, <2>2, <2>3, CallEnds
  <2>5. /\ at' = [at EXCEPT ![t].pos = "returned", ![t].told = (outcome = "message")]
        /\ UNCHANGED <<client, L, made, died>>
    BY <1>10 DEF Return
  <2>6. /\ at' \in [Threads -> Places] /\ at'[t].pos = "returned" /\ at'[t].game = g
        /\ at'[t].told = (outcome = "message")
        /\ \A u \in Threads \ {t} : at'[u] = at[u]
    BY <2>5 DEF LuaInv, Shapes, Places, Positions
  <2>7. QED
    BY <1>2, <2>3, <2>4, <2>5, <2>6, InsideStacks
<1>11. CASE Abort(t)
  <2>1. died' = "unprotected error" /\ UNCHANGED <<client, L, made, stack, at>> /\ at[t].pos = "returned"
    BY <1>11 DEF Abort
  <2>2. Stacks' /\ OnlyMain' /\ CallIsOnStack' /\ HandlerIsBack'
    BY <2>1 DEF StackInv, Stacks, OnlyMain, InGame, CallIsOnStack, HandlerIsBack
  <2>3. at[t].entry.nresults = 1 \/ ~at[t].told
    <3>1. SUFFICES ASSUME at[t].entry.nresults # 1, at[t].told PROVE FALSE
      OBVIOUS
    <3>2. Top(q) = "handler"
      BY <2>1, <3>1 DEF StackInv, HandlerIsBack
    <3>3. AfterResult(q, at[t].entry) = q
      BY <3>1 DEF AfterResult
    <3>4. at[t].entry \notin {get_state, get_init_state}
      BY <3>1 DEF get_state, get_init_state, Entry
    <3>5. QED
      BY <1>3, <1>11, <3>2, <3>3, <3>4 DEF Abort, call_func_get_bytearray_fails, pop_error_handler_ok
  <2>4. ErrorsAreSurvived'
    BY <2>1, <2>3 DEF ErrorsAreSurvived, InGame
  <2>5. QED
    BY <2>2, <2>4 DEF StackInv
<1>12. QED
  BY <1>6, <1>7, <1>8, <1>9, <1>10, <1>11 DEF Step

\* What the proof takes Android for: one thread that calls into the game.
OneCaller == "android" \in Clients => Threads = {Main}

\* Every step does.
LEMMA NextStacks ==
  ASSUME OneCaller, LuaInv, StackInv, [Next]_vars
  PROVE  StackInv'
<1>1. CASE UNCHANGED vars
  BY <1>1 DEF vars, StackInv, Stacks, OnlyMain, InGame, CallIsOnStack, HandlerIsBack, Top,
              ErrorsAreSurvived
<1>2. ASSUME died = "no", NEW t \in Threads, Step(t) PROVE StackInv'
  BY <1>2, StepStacks
<1>3. ASSUME died = "no", NEW t \in Threads, NEW e \in lua_game_api, LUA_API_ENTER(t, e)
      PROVE  StackInv'
  <2>1. /\ UNCHANGED <<client, L, made, stack>> /\ died' # "unprotected error" /\ at[t].pos = "out"
        /\ at' = at \/ (at' = [at EXCEPT ![t] = Inside("entered", e, L)] /\ L # 0)
    BY <1>3 DEF LUA_API_ENTER, NoGame
  <2>2. /\ \A u \in Threads \ {t} : at'[u] = at[u]
        /\ at'[t] = at[t] \/ (at'[t].pos = "entered" /\ at'[t].game = L /\ L # 0)
    <3>1. at \in [Threads -> Places]
      BY DEF LuaInv, Shapes
    <3>2. CASE at' = at
      BY <3>2
    <3>3. CASE at' = [at EXCEPT ![t] = Inside("entered", e, L)] /\ L # 0
      <4>1. at'[t] = Inside("entered", e, L)
        BY <3>1, <3>3
      <4>2. \A u \in Threads \ {t} : at'[u] = at[u]
        BY <3>1, <3>3
      <4>3. Inside("entered", e, L).pos = "entered" /\ Inside("entered", e, L).game = L
        BY DEF Inside
      <4>4. QED
        BY <3>3, <4>1, <4>2, <4>3
    <3>4. QED
      BY <2>1, <3>2, <3>3
  <2>3. L # 0 => L \in Games
    BY LuaApiAssumption DEF StackInv, Stacks, Games
  <2>4. Stacks'
    BY <2>1, <2>2, <2>3 DEF StackInv, Stacks
  <2>5. \A u \in Threads :
           at'[u] = at[u] \/ (at'[u].pos # "running" /\ at'[u].pos # "returned")
    BY <2>2
  <2>6. CallIsOnStack'
    BY <1>3, <2>1, <2>5 DEF StackInv, CallIsOnStack
  <2>7. HandlerIsBack'
    BY <1>3, <2>1, <2>5 DEF StackInv, HandlerIsBack, Top
  <2>8. client # "desktop" => t = Main
    BY <1>3, LuaApiAssumption DEF OneCaller, LUA_API_ENTER, CallsOf, StackInv, Stacks
  <2>9. OnlyMain'
    BY <2>1, <2>2, <2>8 DEF StackInv, OnlyMain, InGame
  <2>10. ErrorsAreSurvived'
    BY <2>1 DEF ErrorsAreSurvived
  <2>11. QED
    BY <2>4, <2>6, <2>7, <2>9, <2>10 DEF StackInv
<1>4. ASSUME NEW loads \in BOOLEAN, init_lua_game(loads) PROVE StackInv'
  <2>1. /\ UNCHANGED <<client, stack, at, died>> /\ made < MaxGames /\ made' = made + 1
        /\ L' \in {made + 1, L, 0}
    BY <1>4 DEF init_lua_game
  <2>2. Stacks'
    BY <2>1, LuaApiAssumption DEF StackInv, Stacks
  <2>3. QED
    BY <2>1, <2>2 DEF StackInv, OnlyMain, InGame, CallIsOnStack, HandlerIsBack, Top, ErrorsAreSurvived
<1>5. ASSUME died = "no", NEW n \in CmdResults, NEW fails \in BOOLEAN, lua_run_cmd(n, fails)
      PROVE  StackInv'
  <2>1. /\ UNCHANGED <<client, L, made, at, died>> /\ client = "browser" /\ at[Main].pos = "out" /\ L # 0
        /\ stack' = [stack EXCEPT ![L] = IF fails THEN <<>> ELSE stack[L] \o Copies("value", n)]
    BY <1>5 DEF lua_run_cmd, NoGame
  <2>2. \A u \in Threads : at[u].pos = "out"
    BY <2>1 DEF StackInv, OnlyMain, InGame
  <2>3. n \in CmdResults
    BY <1>5
  <2>4. L \in Games /\ stack \in [Games -> Seq(Kinds)]
    BY <2>1, LuaApiAssumption DEF StackInv, Stacks, Games
  <2>5. stack[L] \in Seq(Kinds) /\ "value" \in Kinds /\ n \in Nat
    BY <2>3, <2>4, LuaApiAssumption DEF Kinds
  <2>6. stack[L] \o Copies("value", n) \in Seq(Kinds)
    BY <2>5, CopiesAre, ConcatProperties
  <2>7. stack' \in [Games -> Seq(Kinds)]
    <3>1. <<>> \in Seq(Kinds)
      OBVIOUS
    <3>2. QED
      BY <2>1, <2>6, <2>4, <3>1
  <2>8. Stacks'
    BY <2>1, <2>7 DEF StackInv, Stacks
  <2>9. QED
    BY <2>1, <2>2, <2>8 DEF StackInv, OnlyMain, InGame, CallIsOnStack, HandlerIsBack, ErrorsAreSurvived
<1>6. QED
  BY <1>1, <1>2, <1>3, <1>4, <1>5 DEF Next

\* A string that a script raises never ends the process, whatever entry it is raised
\* in, as long as the entry takes no result: for any number of games, calls and
\* console commands, and of threads on the desktop.
THEOREM RaisedIsSurvived == ASSUME OneCaller PROVE Spec => []ErrorsAreSurvived
<1>1. Init => LuaInv /\ StackInv
  BY LuaStarts, InitStackInv
<1>2. (LuaInv /\ StackInv) /\ [Next]_vars => (LuaInv /\ StackInv)'
  BY LuaSteps, NextStacks
<1>3. StackInv => ErrorsAreSurvived
  BY DEF StackInv
<1>4. QED
  BY <1>1, <1>2, <1>3, PTL DEF Spec

-----------------------------------------------------------------------------
(* Popups, buttons, options, timers and events *)

\* s is a sequence, of whatever it holds.
AnySeq(s) == s \in Seq({s[i] : i \in DOMAIN s})

\* A value with the fields of a window.
IsWindow(win) ==
  /\ win = [kind |-> win.kind, game |-> win.game, id |-> win.id, asked |-> win.asked,
            title |-> win.title, items |-> win.items, chosen |-> win.chosen,
            visible |-> win.visible]
  /\ win.visible \in BOOLEAN

\* The title and the items shown on client c are those of the popup that was asked
\* for, word for word, unless on the page one of its texts has what is not escaped.
ShowsWords(c, title, items, asked) ==
  (c = "browser" => ~Ui!Awkward(asked)) =>
    /\ title = asked.title
    /\ IF c = "android" THEN \A i \in DOMAIN items : items[i] \in Ui!ToSet(asked.items)
       ELSE items = asked.items

\* A window of a script has the popup's id and its words, and but for Android an item
\* for every item that was asked for, with the kind and the id the script gave it.
ShowsAsked(c, win) ==
  win.kind = "script" =>
    /\ win.id = win.asked.id /\ ShowsWords(c, win.title, win.items, win.asked)
    /\ c # "android" =>
         /\ DOMAIN win.items = DOMAIN win.asked.items
         /\ \A i \in DOMAIN win.items :
              win.items[i].type = win.asked.items[i].type /\ win.items[i].id = win.asked.items[i].id

TwoSelections(ws) ==
  \E v, w \in 1 .. Len(ws) : v # w /\ ws[v].kind = "select" /\ ws[w].kind = "select"

\* The windows ws of client c, of which it knows g, while game l plays and the games
\* d were closed.
WindowsInv(c, g, l, d, ws) ==
  /\ AnySeq(ws) /\ g \in 0 .. Len(ws)
  /\ \A w \in 1 .. Len(ws) : IsWindow(ws[w]) /\ ShowsAsked(c, ws[w])
  /\ c # "desktop" =>
       \A w \in 1 .. Len(ws) :
         /\ ws[w].kind = "script"
         /\ ws[w].visible => w = g /\ (l \notin d => ws[w].game = l)
  /\ \/ TwoSelections(ws)
     \/ \A w \in 1 .. Len(ws) : ws[w].visible /\ ws[w].kind = "select" => w = g

\* The windows ws2 are the windows ws, of which some may be hidden and some choices
\* may have changed.
Tame(ws, ws2) ==
  /\ AnySeq(ws2) /\ Len(ws2) = Len(ws)
  /\ \A w \in 1 .. Len(ws) :
       /\ IsWindow(ws2[w])
       /\ ws2[w].kind = ws[w].kind /\ ws2[w].game = ws[w].game /\ ws2[w].id = ws[w].id
       /\ ws2[w].asked = ws[w].asked /\ ws2[w].title = ws[w].title /\ ws2[w].items = ws[w].items
       /\ ws2[w].visible => ws[w].visible

\* t is s with x in the place of its element w, or x behind its last.
Replaced(s, w, x, t) ==
  /\ AnySeq(t) /\ Len(t) = Len(s) /\ t[w] = x
  /\ \A v \in 1 .. Len(s) : v # w => t[v] = s[v]
Appended(s, x, t) ==
  /\ AnySeq(t) /\ Len(t) = Len(s) + 1 /\ t[Len(s) + 1] = x
  /\ \A v \in 1 .. Len(s) : t[v] = s[v]

-----------------------------------------------------------------------------
(* Sequences of windows *)

\* A sequence is one of its own elements.
LEMMA SelfSeq ==
  ASSUME NEW S, NEW s \in Seq(S)
  PROVE  AnySeq(s)
<1> DEFINE T == {s[i] : i \in DOMAIN s}
           n == Len(s)
<1>1. n \in Nat /\ s \in [1 .. n -> S] BY LenProperties
<1>2. s \in [1 .. n -> T] BY <1>1
<1>3. s \in Seq(T)
  <2> HIDE DEF T, n
  <2>1. [1 .. n -> T] \in {[1 .. k -> T] : k \in Nat} BY <1>1
  <2> QED BY <1>2, <2>1, SeqDef
<1> QED BY <1>3 DEF AnySeq

\* A sequence stays one when an entry is replaced.
LEMMA ReplaceSeq ==
  ASSUME NEW s, AnySeq(s), NEW w \in 1 .. Len(s), NEW x
  PROVE  Replaced(s, w, x, [s EXCEPT ![w] = x])
<1> DEFINE S == {s[i] : i \in DOMAIN s} \cup {x}
<1>1. s \in Seq(S) /\ x \in S
  <2>1. s \in Seq({s[i] : i \in DOMAIN s}) BY DEF AnySeq
  <2> QED BY <2>1, SeqMonotonic
<1> HIDE DEF S
<1>2. /\ [s EXCEPT ![w] = x] \in Seq(S)
      /\ Len([s EXCEPT ![w] = x]) = Len(s)
      /\ \A j \in 1 .. Len(s) : [s EXCEPT ![w] = x][j] = IF j = w THEN x ELSE s[j]
  BY <1>1, ExceptSeq
<1> QED BY <1>2, SelfSeq DEF Replaced

\* A sequence stays one when something is appended.
LEMMA AppendSeq ==
  ASSUME NEW s, AnySeq(s), NEW x
  PROVE  Appended(s, x, Append(s, x))
<1> DEFINE S == {s[i] : i \in DOMAIN s} \cup {x}
<1>1. s \in Seq(S) /\ x \in S
  <2>1. s \in Seq({s[i] : i \in DOMAIN s}) BY DEF AnySeq
  <2> QED BY <2>1, SeqMonotonic
<1> HIDE DEF S
<1>2. Append(s, x) \in Seq(S) /\ Len(Append(s, x)) = Len(s) + 1 /\ Append(s, x)[Len(s) + 1] = x
  BY <1>1
<1>3. \A v \in 1 .. Len(s) : Append(s, x)[v] = s[v] BY <1>1
<1> QED BY <1>2, <1>3, SelfSeq DEF Appended

\* The length of a sequence is a natural number, and its domain ends there.
LEMMA SeqFacts ==
  ASSUME NEW s, AnySeq(s)
  PROVE  Len(s) \in Nat /\ DOMAIN s = 1 .. Len(s)
BY DEF AnySeq

\* Hiding a window changes nothing else of it.
LEMMA HideOne ==
  ASSUME NEW win, IsWindow(win)
  PROVE  LET x == [win EXCEPT !.visible = FALSE]
         IN  /\ IsWindow(x) /\ x.visible = FALSE /\ x.kind = win.kind /\ x.game = win.game
             /\ x.id = win.id /\ x.asked = win.asked /\ x.title = win.title /\ x.items = win.items
<1>1. ASSUME NEW off
      PROVE  LET x == [win EXCEPT !.visible = off]
             IN  x = [kind |-> win.kind, game |-> win.game, id |-> win.id, asked |-> win.asked,
                      title |-> win.title, items |-> win.items, chosen |-> win.chosen,
                      visible |-> off]
  BY DEF IsWindow
<1> DEFINE x == [win EXCEPT !.visible = FALSE]
<1>2. x = [kind |-> win.kind, game |-> win.game, id |-> win.id, asked |-> win.asked,
           title |-> win.title, items |-> win.items, chosen |-> win.chosen, visible |-> FALSE]
  BY <1>1
<1> HIDE DEF x
<1>3. /\ x.visible = FALSE /\ x.kind = win.kind /\ x.game = win.game
      /\ x.id = win.id /\ x.asked = win.asked /\ x.title = win.title /\ x.items = win.items /\ x.chosen = win.chosen
  BY <1>2
<1>4. IsWindow(x) BY <1>2, <1>3 DEF IsWindow
<1> QED BY <1>3, <1>4 DEF x

\* Hiding a window leaves the others as they are.
LEMMA HideIsTame ==
  ASSUME NEW ws, AnySeq(ws), \A v \in 1 .. Len(ws) : IsWindow(ws[v]), NEW w \in 0 .. Len(ws)
  PROVE  /\ Tame(ws, Ui!Hide(ws, w))
         /\ w # 0 => ~Ui!Hide(ws, w)[w].visible
<1>1. CASE w = 0 BY <1>1 DEF Ui!Hide, Tame
<1>2. CASE w # 0
  <2> DEFINE x == [ws[w] EXCEPT !.visible = FALSE]
             t == [ws EXCEPT ![w] = x]
  <2>1. Len(ws) \in Nat /\ w \in 1 .. Len(ws) BY <1>2, SeqFacts
  <2>2. Replaced(ws, w, x, t) BY <2>1, ReplaceSeq
  <2>3. /\ IsWindow(x) /\ x.visible = FALSE /\ x.kind = ws[w].kind /\ x.game = ws[w].game
        /\ x.id = ws[w].id /\ x.asked = ws[w].asked /\ x.title = ws[w].title /\ x.items = ws[w].items
    BY <2>1, HideOne
  <2>4. Ui!Hide(ws, w) = t BY <1>2, <2>1, SeqFacts DEF Ui!Hide
  <2>5. Tame(ws, t)
    <3> HIDE DEF t, x
    <3>1. ASSUME NEW v \in 1 .. Len(ws)
          PROVE  /\ IsWindow(t[v])
                 /\ t[v].kind = ws[v].kind /\ t[v].game = ws[v].game /\ t[v].id = ws[v].id
                 /\ t[v].asked = ws[v].asked /\ t[v].title = ws[v].title /\ t[v].items = ws[v].items
                 /\ t[v].visible => ws[v].visible
      BY <2>2, <2>3 DEF Replaced
    <3> QED BY <2>2, <3>1 DEF Tame, Replaced
  <2>6. t[w] = x BY <2>2 DEF Replaced
  <2> QED BY <2>3, <2>4, <2>5, <2>6
<1> QED BY <1>1, <1>2

\* A choice in a window leaves everything else as it is.
LEMMA ChooseIsTame ==
  ASSUME NEW ws, AnySeq(ws), \A v \in 1 .. Len(ws) : IsWindow(ws[v]),
         NEW w \in 1 .. Len(ws), NEW i, NEW o
  PROVE  Tame(ws, [ws EXCEPT ![w].chosen[i] = o])
<1> DEFINE x == [ws[w] EXCEPT !.chosen = [ws[w].chosen EXCEPT ![i] = o]]
           t == [ws EXCEPT ![w] = x]
<1>1. Replaced(ws, w, x, t) BY ReplaceSeq
<1>2. /\ IsWindow(x) /\ x.visible = ws[w].visible /\ x.kind = ws[w].kind /\ x.game = ws[w].game
      /\ x.id = ws[w].id /\ x.asked = ws[w].asked /\ x.title = ws[w].title /\ x.items = ws[w].items
  <2>1. IsWindow(ws[w]) OBVIOUS
  <2> QED BY <2>1 DEF IsWindow
<1>3. [ws EXCEPT ![w].chosen[i] = o] = t BY SeqFacts
<1>4. ASSUME NEW v \in 1 .. Len(ws)
      PROVE  /\ IsWindow(t[v])
             /\ t[v].kind = ws[v].kind /\ t[v].game = ws[v].game /\ t[v].id = ws[v].id
             /\ t[v].asked = ws[v].asked /\ t[v].title = ws[v].title /\ t[v].items = ws[v].items
             /\ t[v].visible => ws[v].visible
  <2> HIDE DEF t, x
  <2> QED BY <1>1, <1>2 DEF Replaced
<1> HIDE DEF t
<1> QED BY <1>1, <1>3, <1>4 DEF Tame, Replaced

-----------------------------------------------------------------------------
(* What each way of changing the windows keeps *)

\* Whatever is hidden or chosen, the invariant of the windows stays.
LEMMA TameKeeps ==
  ASSUME NEW c, NEW g, NEW l, NEW d, NEW ws, NEW ws2, WindowsInv(c, g, l, d, ws), Tame(ws, ws2)
  PROVE  WindowsInv(c, g, l, d, ws2)
<1>1. /\ AnySeq(ws) /\ g \in 0 .. Len(ws) /\ AnySeq(ws2) /\ Len(ws2) = Len(ws)
      /\ \A w \in 1 .. Len(ws) : IsWindow(ws2[w])
  BY DEF WindowsInv, Tame
<1>2. ASSUME NEW w \in 1 .. Len(ws)
      PROVE  ShowsAsked(c, ws2[w])
  <2>1. ShowsAsked(c, ws[w]) BY DEF WindowsInv
  <2>2. /\ ws2[w].kind = ws[w].kind /\ ws2[w].id = ws[w].id
        /\ ws2[w].asked = ws[w].asked /\ ws2[w].title = ws[w].title /\ ws2[w].items = ws[w].items
    BY DEF Tame
  <2> QED BY <2>1, <2>2 DEF ShowsAsked
<1>3. ASSUME c # "desktop", NEW w \in 1 .. Len(ws)
      PROVE  /\ ws2[w].kind = "script"
             /\ ws2[w].visible => w = g /\ (l \notin d => ws2[w].game = l)
  BY <1>3 DEF WindowsInv, Tame
<1>4. \/ TwoSelections(ws2)
      \/ \A w \in 1 .. Len(ws2) : ws2[w].visible /\ ws2[w].kind = "select" => w = g
  <2>1. CASE TwoSelections(ws) BY <1>1, <2>1 DEF TwoSelections, Tame
  <2>2. CASE ~TwoSelections(ws)
    <3>1. \A w \in 1 .. Len(ws) : ws[w].visible /\ ws[w].kind = "select" => w = g
      BY <2>2 DEF WindowsInv
    <3> QED BY <1>1, <3>1 DEF Tame
  <2> QED BY <2>1, <2>2
<1> QED BY <1>1, <1>2, <1>3, <1>4 DEF WindowsInv

\* Whoever hides the popup that the host knows of may begin another game.
LEMMA HideKeeps ==
  ASSUME NEW c, NEW g, NEW l, NEW d, NEW ws, WindowsInv(c, g, l, d, ws), NEW l2, NEW d2
  PROVE  WindowsInv(c, 0, l2, d2, Ui!Hide(ws, g))
<1> DEFINE ws2 == Ui!Hide(ws, g)
<1>1. AnySeq(ws) /\ g \in 0 .. Len(ws) /\ \A w \in 1 .. Len(ws) : IsWindow(ws[w])
  BY DEF WindowsInv
<1>2. Tame(ws, ws2) /\ (g # 0 => ~ws2[g].visible) BY <1>1, HideIsTame
<1> HIDE DEF ws2
<1>3. WindowsInv(c, g, l, d, ws2) BY <1>2, TameKeeps
<1>4. ASSUME NEW w \in 1 .. Len(ws2), ws2[w].visible, w = g
      PROVE  FALSE
  <2>1. g # 0 BY <1>1, <1>2, <1>4, SeqFacts DEF Tame
  <2> QED BY <1>2, <1>4, <2>1
<1>5. 0 \in 0 .. Len(ws2) BY <1>2, SeqFacts DEF Tame
<1>6. ASSUME c # "desktop", NEW w \in 1 .. Len(ws2)
      PROVE  ws2[w].kind = "script" /\ ~ws2[w].visible
  BY <1>3, <1>4, <1>6 DEF WindowsInv
<1>7. \/ TwoSelections(ws2)
      \/ \A w \in 1 .. Len(ws2) : ~(ws2[w].visible /\ ws2[w].kind = "select")
  BY <1>3, <1>4 DEF WindowsInv
<1> QED BY <1>3, <1>5, <1>6, <1>7 DEF WindowsInv, ws2

\* A new popup of the script that plays, in the place of the one that was there.
LEMMA ShowKeeps ==
  ASSUME NEW c, NEW g, NEW l, NEW d, NEW ws, WindowsInv(c, g, l, d, ws),
         NEW x, IsWindow(x), ShowsAsked(c, x), x.kind = "script", x.game = l
  PROVE  WindowsInv(c, Len(ws) + 1, l, d, Append(Ui!Hide(ws, g), x))
<1> DEFINE h == Ui!Hide(ws, g)
           t == Append(h, x)
           n == Len(ws)
<1>1. WindowsInv(c, 0, l, d, h) BY HideKeeps
<1>2. Len(h) = n /\ AnySeq(h) /\ n \in Nat
  <2>1. AnySeq(ws) /\ g \in 0 .. Len(ws) /\ \A w \in 1 .. Len(ws) : IsWindow(ws[w])
    BY DEF WindowsInv
  <2> QED BY <2>1, HideIsTame, SeqFacts DEF Tame
<1>3. Appended(h, x, t) BY <1>2, AppendSeq
<1> HIDE DEF h, t, n
<1>4. AnySeq(t) /\ Len(t) = n + 1 /\ t[n + 1] = x /\ \A v \in 1 .. n : t[v] = h[v]
  BY <1>2, <1>3 DEF Appended
<1>5. ASSUME NEW w \in 1 .. Len(t) PROVE w \in 1 .. n \/ w = n + 1 BY <1>2, <1>4
<1>6. ASSUME NEW w \in 1 .. Len(t) PROVE IsWindow(t[w]) /\ ShowsAsked(c, t[w])
  BY <1>1, <1>2, <1>4, <1>5 DEF WindowsInv
<1>7. ASSUME c # "desktop", NEW w \in 1 .. Len(t)
      PROVE  /\ t[w].kind = "script"
             /\ t[w].visible => w = n + 1 /\ (l \notin d => t[w].game = l)
  <2>1. CASE w = n + 1 BY <1>4, <2>1
  <2>2. CASE w # n + 1
    <3>1. w \in 1 .. n /\ t[w] = h[w] BY <1>4, <1>5, <2>2
    <3>2. h[w].kind = "script" /\ (h[w].visible => w = 0) BY <1>1, <1>2, <1>7, <3>1 DEF WindowsInv
    <3> QED BY <1>2, <3>1, <3>2
  <2> QED BY <2>1, <2>2
<1>8. \/ TwoSelections(t)
      \/ \A w \in 1 .. Len(t) : t[w].visible /\ t[w].kind = "select" => w = n + 1
  <2>1. CASE TwoSelections(h)
    <3>1. PICK v, w \in 1 .. n : v # w /\ h[v].kind = "select" /\ h[w].kind = "select"
      BY <1>2, <2>1 DEF TwoSelections
    <3>2. v \in 1 .. Len(t) /\ w \in 1 .. Len(t) BY <1>2, <1>4
    <3> QED BY <1>4, <3>1, <3>2 DEF TwoSelections
  <2>2. CASE ~TwoSelections(h)
    <3>1. \A w \in 1 .. n : ~(h[w].visible /\ h[w].kind = "select")
      BY <1>1, <1>2, <2>2 DEF WindowsInv
    <3> QED BY <1>4, <1>5, <3>1
  <2> QED BY <2>1, <2>2
<1>9. n + 1 \in 0 .. Len(t) BY <1>2, <1>4
<1> QED BY <1>4, <1>6, <1>7, <1>8, <1>9 DEF WindowsInv, t, h, n

\* The desktop's list of games beside whatever is there.
LEMMA SelectKeeps ==
  ASSUME NEW g, NEW l, NEW d, NEW ws, WindowsInv("desktop", g, l, d, ws),
         NEW x, IsWindow(x), x.kind = "select"
  PROVE  WindowsInv("desktop", Len(ws) + 1, l, d, Append(ws, x))
<1> DEFINE t == Append(ws, x)
           n == Len(ws)
<1>1. AnySeq(ws) /\ n \in Nat BY SeqFacts DEF WindowsInv
<1>2. Appended(ws, x, t) BY <1>1, AppendSeq
<1> HIDE DEF t, n
<1>3. AnySeq(t) /\ Len(t) = n + 1 /\ t[n + 1] = x /\ \A v \in 1 .. n : t[v] = ws[v]
  BY <1>1, <1>2 DEF Appended, n
<1>4. ASSUME NEW w \in 1 .. Len(t) PROVE w \in 1 .. n \/ w = n + 1 BY <1>1, <1>3
<1>5. ASSUME NEW w \in 1 .. Len(t) PROVE IsWindow(t[w]) /\ ShowsAsked("desktop", t[w])
  <2>1. CASE w = n + 1 BY <1>3, <2>1 DEF ShowsAsked
  <2>2. CASE w \in 1 .. n BY <1>1, <1>3, <2>2 DEF WindowsInv, n
  <2> QED BY <1>4, <2>1, <2>2
<1>6. \/ TwoSelections(t)
      \/ \A w \in 1 .. Len(t) : t[w].visible /\ t[w].kind = "select" => w = n + 1
  <2>1. CASE \E v \in 1 .. n : ws[v].kind = "select"
    <3>1. PICK v \in 1 .. n : ws[v].kind = "select" BY <2>1
    <3>2. /\ v \in 1 .. Len(t) /\ n + 1 \in 1 .. Len(t) /\ v # n + 1
          /\ t[v].kind = "select" /\ t[n + 1].kind = "select"
      BY <1>1, <1>3, <3>1
    <3> QED BY <3>2 DEF TwoSelections
  <2>2. CASE \A v \in 1 .. n : ws[v].kind # "select" BY <1>3, <1>4, <2>2
  <2> QED BY <2>1, <2>2
<1>7. n + 1 \in 0 .. Len(t) BY <1>1, <1>3
<1> QED BY <1>3, <1>5, <1>6, <1>7 DEF WindowsInv, t, n

-----------------------------------------------------------------------------
(* The invariant of what a game put on its host *)

\* What is on the page c while game l plays and the games d were closed: the
\* buttons bs, the timers ts, the events es and the windows ws.
ThingsInv(c, l, d, bs, ts, es, ws) ==
  c = "browser" =>
    /\ AnySeq(bs) /\ AnySeq(ts) /\ DOMAIN es = EvtIds
    /\ l \notin d => /\ \A i \in 1 .. Len(bs) : bs[i] = l
                     /\ \A i \in 1 .. Len(ts) : ts[i] = l
                     /\ \A e \in EvtIds : es[e] \in {0, l}
    /\ l = 0 => bs = <<>> /\ ts = <<>> /\ ws = <<>>

\* The game is the last one loaded or an older one, or there is none; the page closes
\* only games that were loaded.
GamesInv(l, n, d) == n \in Nat /\ l \in 0 .. n /\ d \subseteq 1 .. n

UiInv ==
  /\ client \in Clients
  /\ GamesInv(uiGame, uiMade, gone)
  /\ WindowsInv(client, g_popup, uiGame, gone, windows)
  /\ ThingsInv(client, uiGame, gone, buttons, timers, events, windows)
  /\ uiDied => TwoSelections(windows)

\* The empty sequence is one.
LEMMA EmptyIsSeq == AnySeq(<<>>) /\ Len(<<>>) = 0
BY EmptySeq, SelfSeq

\* Removing an element leaves only elements that were there.
LEMMA RemoveSeq ==
  ASSUME NEW s, AnySeq(s), NEW h \in DOMAIN s
  PROVE  /\ AnySeq(Ui!RemoveAt(s, h))
         /\ \A i \in 1 .. Len(Ui!RemoveAt(s, h)) : \E j \in 1 .. Len(s) : Ui!RemoveAt(s, h)[i] = s[j]
<1> DEFINE S == {s[i] : i \in DOMAIN s}
           a == SubSeq(s, 1, h - 1)
           b == SubSeq(s, h + 1, Len(s))
<1>1. s \in Seq(S) BY DEF AnySeq
<1>2. Len(s) \in Nat /\ DOMAIN s = 1 .. Len(s) /\ h \in Nat /\ 1 <= h /\ h <= Len(s)
  BY SeqFacts
<1>3. a \in Seq(S)
  <2>1. \A i \in 1 .. h - 1 : s[i] \in S BY <1>2
  <2> HIDE DEF S
  <2> QED BY <1>2, <2>1, SubSeqProperties
<1>4. b \in Seq(S)
  <2>1. \A i \in h + 1 .. Len(s) : s[i] \in S BY <1>2
  <2> HIDE DEF S
  <2> QED BY <1>2, <2>1, SubSeqProperties
<1>5. Ui!RemoveAt(s, h) = a \o b BY DEF Ui!RemoveAt
<1>6. a \o b \in Seq(S)
  <2> HIDE DEF S, a, b
  <2> QED BY <1>3, <1>4, ConcatProperties
<1>7. AnySeq(Ui!RemoveAt(s, h)) BY <1>5, <1>6, SelfSeq
<1>8. ASSUME NEW i \in 1 .. Len(a \o b) PROVE \E j \in 1 .. Len(s) : (a \o b)[i] = s[j]
  <2>1. (a \o b)[i] \in S
    <3> HIDE DEF S, a, b
    <3> QED BY <1>6, ElementOfSeq
  <2> HIDE DEF a, b
  <2> QED BY <1>2, <2>1
<1> QED BY <1>5, <1>7, <1>8

-----------------------------------------------------------------------------
(* Naturals, and sequences put together *)

\* A set of naturals that has members has a least one.
LEMMA LeastMember ==
  ASSUME NEW S \in SUBSET Nat, S # {}
  PROVE  \E m \in S : \A k \in S : m <= k
<1> DEFINE upTo(x) == {y \in S : y <= x}
           T == {upTo(x) : x \in S}
<1>1. \A x \in S : IsFiniteSet(upTo(x))
  BY FS_BoundedSetOfNaturals
<1>2. T \subseteq FiniteSubsetsOf(S)
  BY <1>1 DEF FiniteSubsetsOf
<1>3. T # {}
  OBVIOUS
<1>4. IsWellFoundedOn(StrictSubsetOrdering(S), FiniteSubsetsOf(S))
  BY FS_StrictSubsetOrderingWellFounded
<1> HIDE DEF T
<1>5. PICK u \in T : \A v \in T : ~(<<v, u>> \in StrictSubsetOrdering(S))
  BY <1>2, <1>3, <1>4, WFMin
<1>6. PICK m \in S : u = upTo(m)
  BY <1>5 DEF T
<1>7. ASSUME NEW k \in S, k < m PROVE FALSE
  <2>1. upTo(k) \in T
    BY DEF T
  <2>2. upTo(k) \subseteq upTo(m)
    <3> SUFFICES ASSUME NEW y \in S, y <= k PROVE y <= m
      OBVIOUS
    <3>1. k \in Nat /\ m \in Nat /\ y \in Nat
      OBVIOUS
    <3>2. QED
      BY <3>1, <1>7
  <2>3. m \in upTo(m) /\ m \notin upTo(k)
    BY <1>7
  <2>4. <<upTo(k), u>> \in StrictSubsetOrdering(S)
    BY <2>2, <2>3, <1>6 DEF StrictSubsetOrdering
  <2>5. QED
    BY <2>1, <2>4, <1>5
<1>8. QED
  BY <1>7

\* A set of naturals with zero and the successor of each of its members has all of them.
LEMMA AllNaturals ==
  ASSUME NEW S, 0 \in S, \A n \in Nat : n \in S => n + 1 \in S
  PROVE  Nat \subseteq S
<1> DEFINE U == Nat \ S
<1> SUFFICES ASSUME U # {} PROVE FALSE
  OBVIOUS
<1>1. PICK m \in U : \A k \in U : m <= k
  <2>1. U \in SUBSET Nat
    OBVIOUS
  <2> HIDE DEF U
  <2>2. QED
    BY <2>1, LeastMember
<1>2. m # 0 /\ m - 1 \in Nat
  BY <1>1
<1>3. m - 1 \in S
  BY <1>1, <1>2
<1>4. QED
  BY <1>1, <1>2, <1>3

\* f tells what the first 1 .. n of the sequences ss are together.
IsFlat(f, ss, n) ==
  f = [i \in 1 .. n |-> IF i = 1 THEN ss[i] ELSE f[i - 1] \o ss[i]]

\* What is so of 1, and of k if it is of the one before, is so of all up to n.
LEMMA CountUp ==
  ASSUME NEW n \in Nat, NEW T, n # 0 => 1 \in T,
         \A i, k \in 1 .. n : i \in T /\ k = i + 1 => k \in T
  PROVE  1 .. n \subseteq T
<1> DEFINE S == {i \in Nat : i \in 1 .. n => i \in T}
<1>1. 0 \in S
  OBVIOUS
<1>2. ASSUME NEW i \in Nat, i \in S PROVE i + 1 \in S
  <2>1. CASE i + 1 \notin 1 .. n
    BY <2>1
  <2>2. CASE i + 1 \in 1 .. n /\ i = 0
    BY <2>2
  <2>3. CASE i + 1 \in 1 .. n /\ i # 0
    <3>1. i \in 1 .. n
      BY <2>3
    <3>2. QED
      BY <3>1, <2>3, <1>2
  <2>4. QED
    BY <2>1, <2>2, <2>3
<1> HIDE DEF S
<1>3. Nat \subseteq S
  BY <1>1, <1>2, AllNaturals
<1>4. \A i \in 1 .. n : i \in Nat
  BY SMT
<1>5. QED
  BY <1>3, <1>4 DEF S

\* They can be put together one after another.
LEMMA FlatExists ==
  ASSUME NEW ss, NEW n \in Nat
  PROVE  \E f : IsFlat(f, ss, n)
<1> DEFINE S == {m \in Nat : \E f : IsFlat(f, ss, m)}
<1>1. 0 \in S
  <2> DEFINE f == [i \in 1 .. 0 |-> ss[i]]
  <2>1. 1 .. 0 = {}
    BY SMT
  <2>2. IsFlat(f, ss, 0)
    BY <2>1 DEF IsFlat
  <2>3. QED
    BY <2>2
<1>2. ASSUME NEW m \in Nat, m \in S PROVE m + 1 \in S
  <2>1. PICK f : IsFlat(f, ss, m)
    BY <1>2
  <2> DEFINE g == [i \in 1 .. m + 1 |->
                     IF i <= m THEN f[i] ELSE IF i = 1 THEN ss[i] ELSE f[m] \o ss[i]]
  <2>2. ASSUME NEW i \in 1 .. m + 1
        PROVE  g[i] = IF i = 1 THEN ss[i] ELSE g[i - 1] \o ss[i]
    <3>1. CASE i <= m
      <4>1. i \in 1 .. m /\ g[i] = f[i] /\ (i # 1 => g[i - 1] = f[i - 1])
        BY <3>1
      <4>2. f[i] = IF i = 1 THEN ss[i] ELSE f[i - 1] \o ss[i]
        BY <2>1, <4>1 DEF IsFlat
      <4>3. QED
        BY <4>1, <4>2
    <3>2. CASE ~(i <= m)
      <4>1. i - 1 = m /\ (i # 1 => i - 1 \in 1 .. m + 1 /\ i - 1 <= m)
        BY <3>2
      <4>2. QED
        BY <3>2, <4>1
    <3>3. QED
      BY <3>1, <3>2
  <2>3. IsFlat(g, ss, m + 1)
    BY <2>2 DEF IsFlat
  <2>4. QED
    BY <2>3
<1> HIDE DEF S
<1>3. Nat \subseteq S
  BY <1>1, <1>2, AllNaturals
<1>4. QED
  BY <1>3 DEF S

\* What FlattenSeq is: nothing of nothing, or else the last of those.
LEMMA FlattenIs ==
  ASSUME NEW ss, NEW n \in Nat, n = Len(ss)
  PROVE  /\ n = 0 => Ui!FlattenSeq(ss) = ss
         /\ n # 0 => \E f : IsFlat(f, ss, n) /\ Ui!FlattenSeq(ss) = f[n]
<1>1. \E f : IsFlat(f, ss, n)
  BY FlatExists
<1>2. QED
  BY <1>1 DEF Ui!FlattenSeq, IsFlat

\* The first is what ss begins with, and each other one has the next of ss behind it.
Steps(f, ss, n) ==
  /\ n # 0 => f[1] = ss[1]
  /\ \A i, k \in 1 .. n : k = i + 1 => f[k] = f[i] \o ss[k]

\* Those that IsFlat tells are such steps.
LEMMA FlatSteps ==
  ASSUME NEW ss, NEW f, NEW n \in Nat, IsFlat(f, ss, n)
  PROVE  Steps(f, ss, n)
<1>1. \A k \in 1 .. n : f[k] = IF k = 1 THEN ss[k] ELSE f[k - 1] \o ss[k]
  BY DEF IsFlat
<1>2. ASSUME n # 0 PROVE f[1] = ss[1]
  <2>1. 1 \in 1 .. n
    BY <1>2
  <2>2. QED
    BY <2>1, <1>1
<1>3. ASSUME NEW i \in 1 .. n, NEW k \in 1 .. n, k = i + 1 PROVE f[k] = f[i] \o ss[k]
  <2>1. k # 1 /\ k - 1 = i
    BY <1>3
  <2>2. f[k] = IF k = 1 THEN ss[k] ELSE f[k - 1] \o ss[k]
    BY <1>1
  <2>3. QED
    BY <2>1, <2>2, Zenon
<1>4. QED
  BY <1>2, <1>3 DEF Steps

-----------------------------------------------------------------------------
(* The JSON in which a popup gets to the page *)

\* What JSON.parse knows before the first character.
Start == [ok |-> TRUE, text |-> <<>>, escaped |-> FALSE]

\* f tells what JSON.parse knows after each of the first n characters of w.
IsRead(f, w, n) ==
  f = [i \in 0 .. n |-> IF i = 0 THEN Start ELSE Ui!JsonChar(f[i - 1], w[i])]

\* It can be told.
LEMMA ReadExists ==
  ASSUME NEW w, NEW n \in Nat
  PROVE  \E f : IsRead(f, w, n)
<1> DEFINE S == {m \in Nat : \E f : IsRead(f, w, m)}
<1>1. 0 \in S
  <2> DEFINE f == [i \in 0 .. 0 |-> Start]
  <2>1. \A i \in 0 .. 0 : i = 0
    BY SMT
  <2>2. f = [i \in 0 .. 0 |-> IF i = 0 THEN Start ELSE Ui!JsonChar(f[i - 1], w[i])]
    BY <2>1
  <2>3. QED
    BY <2>2 DEF IsRead
<1>2. ASSUME NEW m \in Nat, m \in S PROVE m + 1 \in S
  <2>1. PICK f : IsRead(f, w, m)
    BY <1>2
  <2> DEFINE g == [i \in 0 .. m + 1 |-> IF i <= m THEN f[i] ELSE Ui!JsonChar(f[m], w[i])]
  <2>2. ASSUME NEW i \in 0 .. m + 1
        PROVE  g[i] = IF i = 0 THEN Start ELSE Ui!JsonChar(g[i - 1], w[i])
    <3>1. CASE i <= m
      <4>1. i \in 0 .. m /\ g[i] = f[i] /\ (i # 0 => g[i - 1] = f[i - 1])
        BY <3>1
      <4>2. f[i] = IF i = 0 THEN Start ELSE Ui!JsonChar(f[i - 1], w[i])
        BY <2>1, <4>1 DEF IsRead
      <4>3. QED
        BY <4>1, <4>2
    <3>2. CASE ~(i <= m)
      <4>1. i - 1 = m /\ i # 0 /\ i - 1 \in 0 .. m + 1 /\ i - 1 <= m
        BY <3>2
      <4>2. QED
        BY <3>2, <4>1
    <3>3. QED
      BY <3>1, <3>2
  <2>3. IsRead(g, w, m + 1)
    BY <2>2 DEF IsRead
  <2>4. QED
    BY <2>3
<1> HIDE DEF S
<1>3. Nat \subseteq S
  BY <1>1, <1>2, AllNaturals
<1>4. QED
  BY <1>3 DEF S

\* What JSON.parse makes of the text is told by the last of it.
LEMMA ParseIs ==
  ASSUME NEW w, NEW n \in Nat, n = Len(w)
  PROVE  \E f : /\ IsRead(f, w, n)
                /\ Ui!JsonParse(w) = [ok |-> f[n].ok /\ ~f[n].escaped, text |-> f[n].text]
<1>1. \E f : IsRead(f, w, n)
  BY ReadExists
<1>2. QED
  BY <1>1 DEF Ui!JsonParse, IsRead, Start

\* d is what JSON.parse knows once it has read the first k characters of t.
HasRead(d, t, k) ==
  /\ d = [ok |-> TRUE, text |-> d.text, escaped |-> FALSE]
  /\ d.text \in Seq(Ui!Characters) /\ Len(d.text) = k /\ \A i \in 1 .. k : d.text[i] = t[i]

\* A character written and read again.
LEMMA CharIsRead ==
  ASSUME NEW t \in Seq(Ui!Characters), NEW k \in Nat, NEW m, m = k + 1, m <= Len(t), t[m] \notin {"backslash", "control"},
         NEW d, HasRead(d, t, k)
  PROVE  \/ \E c \in Ui!Characters : Ui!Escaped(t[m]) = <<c>> /\ HasRead(Ui!JsonChar(d, c), t, m)
         \/ \E b, c \in Ui!Characters :
              /\ Ui!Escaped(t[m]) = <<b, c>>
              /\ HasRead(Ui!JsonChar(Ui!JsonChar(d, b), c), t, m)
<1>1. m \in 1 .. Len(t) /\ t[m] \in Ui!Characters
  BY ElementOfSeq
<1>2. PICK x : x = d.text
  OBVIOUS
<1>3. x \in Seq(Ui!Characters) /\ Len(x) = k /\ d = [ok |-> TRUE, text |-> x, escaped |-> FALSE]
  BY <1>2 DEF HasRead
<1>4. PICK y : y = Append(x, t[m])
  OBVIOUS
<1>5. /\ y \in Seq(Ui!Characters) /\ Len(y) = m /\ \A i \in 1 .. m : y[i] = t[i]
  <2>1. \A i \in 1 .. k : x[i] = t[i]
    BY <1>2 DEF HasRead
  <2>2. y \in Seq(Ui!Characters) /\ Len(y) = m /\ y[m] = t[m] /\ \A i \in 1 .. k : y[i] = x[i]
    BY <1>1, <1>3, <1>4
  <2>3. \A i \in 1 .. m : i \in 1 .. k \/ i = m
    OBVIOUS
  <2>4. QED
    BY <2>1, <2>2, <2>3
<1>6. ASSUME NEW e, e = [ok |-> TRUE, text |-> y, escaped |-> FALSE] PROVE HasRead(e, t, m)
  BY <1>5, <1>6 DEF HasRead
<1>7. "n" \in Ui!Characters /\ "quote" \in Ui!Characters /\ "backslash" \in Ui!Characters
  BY DEF Ui!Characters
<1>8. CASE t[m] \in {"n", "letter"}
  <2>1. Ui!Escaped(t[m]) = <<t[m]>>
    BY <1>8 DEF Ui!Escaped
  <2>2. Ui!JsonChar(d, t[m]) = [ok |-> TRUE, text |-> y, escaped |-> FALSE]
    BY <1>3, <1>4, <1>8 DEF Ui!JsonChar
  <2>3. QED
    BY <1>1, <1>6, <2>1, <2>2
<1>9. ASSUME NEW c, (t[m] = "quote" /\ c = "quote") \/ (t[m] = "newline" /\ c = "n")
      PROVE  HasRead(Ui!JsonChar(Ui!JsonChar(d, "backslash"), c), t, m)
  <2>1. Ui!JsonChar(d, "backslash") = [ok |-> TRUE, text |-> x, escaped |-> TRUE]
    BY <1>3 DEF Ui!JsonChar
  <2>2. PICK e : e = [ok |-> TRUE, text |-> x, escaped |-> TRUE]
    OBVIOUS
  <2>3. Ui!JsonChar(e, c) = [ok |-> TRUE, text |-> y, escaped |-> FALSE]
    <3>1. PICK f : f = Ui!JsonChar(e, c)
      OBVIOUS
    <3>2. CASE t[m] = "newline" /\ c = "n"
      <4>1. f = [e EXCEPT !.text = Append(x, "newline"), !.escaped = FALSE]
        BY <2>2, <3>1, <3>2 DEF Ui!JsonChar
      <4>2. f = [ok |-> TRUE, text |-> y, escaped |-> FALSE]
        BY <1>4, <2>2, <3>2, <4>1
      <4>3. QED
        BY <3>1, <4>2
    <3>3. CASE t[m] = "quote" /\ c = "quote"
      <4>1. f = [e EXCEPT !.text = Append(x, "quote"), !.escaped = FALSE]
        BY <2>2, <3>1, <3>3 DEF Ui!JsonChar
      <4>2. f = [ok |-> TRUE, text |-> y, escaped |-> FALSE]
        BY <1>4, <2>2, <3>3, <4>1
      <4>3. QED
        BY <3>1, <4>2
    <3>4. QED
      BY <1>9, <3>2, <3>3
  <2>4. QED
    BY <1>6, <2>1, <2>2, <2>3
<1>10. CASE t[m] = "quote"
  <2>1. Ui!Escaped(t[m]) = <<"backslash", "quote">>
    BY <1>10 DEF Ui!Escaped
  <2>2. HasRead(Ui!JsonChar(Ui!JsonChar(d, "backslash"), "quote"), t, m)
    BY <1>9, <1>10
  <2>3. QED
    BY <1>7, <2>1, <2>2
<1>11. CASE t[m] = "newline"
  <2>1. Ui!Escaped(t[m]) = <<"backslash", "n">>
    BY <1>11 DEF Ui!Escaped
  <2>2. HasRead(Ui!JsonChar(Ui!JsonChar(d, "backslash"), "n"), t, m)
    BY <1>9, <1>11
  <2>3. "backslash" \in Ui!Characters /\ "n" \in Ui!Characters
    BY <1>7
  <2>4. QED
    BY <2>1, <2>2, <2>3, Zenon
<1>12. QED
  BY <1>1, <1>8, <1>10, <1>11 DEF Ui!Characters

\* Two readings of the same characters know the same.
LEMMA ReadAgree ==
  ASSUME NEW w, NEW v, NEW k \in Nat, NEW n \in Nat, k <= n, NEW f, NEW g,
         IsRead(f, w, k), IsRead(g, v, n), \A i \in 1 .. k : w[i] = v[i]
  PROVE  f[k] = g[k]
<1> DEFINE S == {i \in Nat : i <= k => f[i] = g[i]}
<1>1. 0 \in S
  <2>1. f[0] = Start /\ g[0] = Start
    BY DEF IsRead
  <2>2. QED
    BY <2>1
<1>2. ASSUME NEW i \in Nat, i \in S PROVE i + 1 \in S
  <2>1. SUFFICES ASSUME i + 1 <= k PROVE f[i + 1] = g[i + 1]
    OBVIOUS
  <2>2. PICK m : m = i + 1
    OBVIOUS
  <2>3. m \in 1 .. k /\ m \in 0 .. k /\ m \in 0 .. n /\ m # 0 /\ m - 1 = i /\ f[i] = g[i]
    BY <1>2, <2>1, <2>2
  <2>4. f[m] = Ui!JsonChar(f[i], w[m]) /\ g[m] = Ui!JsonChar(g[i], v[m])
    BY <2>3 DEF IsRead
  <2>5. QED
    BY <2>2, <2>3, <2>4
<1> HIDE DEF S
<1>3. Nat \subseteq S
  BY <1>1, <1>2, AllNaturals
<1>4. QED
  BY <1>3 DEF S

\* JSON.parse knows d when it has read w.
ReadsTo(w, d) == \E f : IsRead(f, w, Len(w)) /\ f[Len(w)] = d

\* It reads on, one character at a time.
LEMMA ReadsOn ==
  ASSUME NEW w \in Seq(Ui!Characters), NEW c \in Ui!Characters, NEW d, ReadsTo(w, d)
  PROVE  ReadsTo(Append(w, c), Ui!JsonChar(d, c))
<1>1. PICK n \in Nat : n = Len(w)
  OBVIOUS
<1>2. PICK f : IsRead(f, w, n) /\ f[n] = d
  BY <1>1 DEF ReadsTo
<1>3. PICK v : v = Append(w, c)
  OBVIOUS
<1>4. PICK m \in Nat : m = n + 1
  OBVIOUS
<1>5. Len(v) = m /\ v[m] = c /\ \A i \in 1 .. n : w[i] = v[i]
  BY <1>1, <1>3, <1>4
<1>6. PICK g : IsRead(g, v, m)
  BY ReadExists
<1>7. f[n] = g[n]
  BY <1>2, <1>4, <1>5, <1>6, ReadAgree
<1>8. m \in 0 .. m /\ m # 0 /\ m - 1 = n
  BY <1>4
<1>9. g[m] = Ui!JsonChar(g[n], v[m])
  BY <1>6, <1>8 DEF IsRead
<1>10. QED
  BY <1>2, <1>3, <1>5, <1>6, <1>7, <1>9 DEF ReadsTo

\* A character of a text, written behind what was read, is read again.
LEMMA EscapedIsRead ==
  ASSUME NEW t \in Seq(Ui!Characters), NEW k \in Nat, NEW m, m = k + 1, m <= Len(t), t[m] \notin {"backslash", "control"},
         NEW w \in Seq(Ui!Characters), NEW d, ReadsTo(w, d), HasRead(d, t, k)
  PROVE  /\ w \o Ui!Escaped(t[m]) \in Seq(Ui!Characters)
         /\ \E e : ReadsTo(w \o Ui!Escaped(t[m]), e) /\ HasRead(e, t, m)
<1>1. CASE \E c \in Ui!Characters : Ui!Escaped(t[m]) = <<c>> /\ HasRead(Ui!JsonChar(d, c), t, m)
  <2>1. PICK c \in Ui!Characters : Ui!Escaped(t[m]) = <<c>> /\ HasRead(Ui!JsonChar(d, c), t, m)
    BY <1>1
  <2>2. w \o <<c>> = Append(w, c) /\ Append(w, c) \in Seq(Ui!Characters)
    OBVIOUS
  <2>3. QED
    BY <2>1, <2>2, ReadsOn
<1>2. CASE \E b, c \in Ui!Characters :
             /\ Ui!Escaped(t[m]) = <<b, c>>
             /\ HasRead(Ui!JsonChar(Ui!JsonChar(d, b), c), t, m)
  <2>1. PICK b \in Ui!Characters, c \in Ui!Characters :
          /\ Ui!Escaped(t[m]) = <<b, c>>
          /\ HasRead(Ui!JsonChar(Ui!JsonChar(d, b), c), t, m)
    BY <1>2
  <2>2. /\ w \o <<b, c>> = Append(Append(w, b), c) /\ Append(w, b) \in Seq(Ui!Characters)
        /\ Append(Append(w, b), c) \in Seq(Ui!Characters)
    OBVIOUS
  <2>3. ReadsTo(Append(w, b), Ui!JsonChar(d, b))
    BY ReadsOn
  <2>4. ReadsTo(Append(Append(w, b), c), Ui!JsonChar(Ui!JsonChar(d, b), c))
    BY <2>2, <2>3, ReadsOn
  <2>5. QED
    BY <2>1, <2>2, <2>4
<1>3. QED
  BY <1>1, <1>2, CharIsRead

\* A text without a backslash or a control character comes out as it was written.
LEMMA WrittenIsRead ==
  ASSUME NEW t \in Seq(Ui!Characters), \A i \in DOMAIN t : t[i] \notin {"backslash", "control"}
  PROVE  Ui!JsonParse(Ui!write_json_str(t)) = [ok |-> TRUE, text |-> t]
<1>1. PICK n \in Nat : n = Len(t) /\ DOMAIN t = 1 .. n
  OBVIOUS
<1>2. PICK ss : ss = [i \in 1 .. n |-> Ui!Escaped(t[i])]
  OBVIOUS
<1>3. Len(ss) = n /\ Ui!write_json_str(t) = Ui!FlattenSeq(ss)
  BY <1>1, <1>2 DEF Ui!write_json_str
<1>4. <<>> \in Seq(Ui!Characters) /\ ReadsTo(<<>>, Start) /\ HasRead(Start, t, 0)
  <2>1. PICK f : IsRead(f, <<>>, 0)
    BY ReadExists
  <2>2. f[0] = Start /\ Len(<<>>) = 0
    BY <2>1 DEF IsRead
  <2>3. ReadsTo(<<>>, Start)
    BY <2>1, <2>2 DEF ReadsTo
  <2>4. HasRead(Start, t, 0)
    BY DEF HasRead, Start
  <2>5. QED
    BY <2>3, <2>4
<1>5. PICK w, d : /\ w = Ui!FlattenSeq(ss) /\ w \in Seq(Ui!Characters)
                  /\ ReadsTo(w, d) /\ HasRead(d, t, n)
  <2>1. CASE n = 0
    <3>1. ss = <<>>
      BY <1>2, <2>1
    <3>2. Ui!FlattenSeq(ss) = <<>>
      BY <1>3, <2>1, <3>1, FlattenIs
    <3>3. QED
      BY <1>4, <2>1, <3>2
  <2>2. CASE n # 0
    <3>1. PICK f : Steps(f, ss, n) /\ Ui!FlattenSeq(ss) = f[n]
      BY <1>3, <2>2, FlattenIs, FlatSteps
    <3> DEFINE T == {k \in 1 .. n : f[k] \in Seq(Ui!Characters)
                                    /\ \E e : ReadsTo(f[k], e) /\ HasRead(e, t, k)}
    <3>2. 1 \in T
      <4>1. f[1] = Ui!Escaped(t[1]) /\ 1 \in 1 .. n
        BY <1>2, <2>2, <3>1 DEF Steps
      <4>2. PICK v, s, k, m : v = <<>> /\ s = Start /\ k = 0 /\ m = 1
        OBVIOUS
      <4>3. k \in Nat /\ m = k + 1 /\ m <= Len(t) /\ t[m] \notin {"backslash", "control"}
        BY <1>1, <2>2, <4>2
      <4>4. v \in Seq(Ui!Characters) /\ ReadsTo(v, s) /\ HasRead(s, t, k)
        BY <1>4, <4>2
      <4>5. /\ v \o Ui!Escaped(t[m]) \in Seq(Ui!Characters)
            /\ \E e : ReadsTo(v \o Ui!Escaped(t[m]), e) /\ HasRead(e, t, m)
        BY <4>3, <4>4, EscapedIsRead
      <4>6. <<>> \o Ui!Escaped(t[1]) = Ui!Escaped(t[1])
        BY DEF Ui!Escaped
      <4>7. QED
        BY <4>1, <4>2, <4>5, <4>6
    <3>3. ASSUME NEW i \in 1 .. n, NEW k \in 1 .. n, i \in T, k = i + 1 PROVE k \in T
      <4>1. PICK u : u = f[i]
        OBVIOUS
      <4>2. u \in Seq(Ui!Characters) /\ \E e : ReadsTo(u, e) /\ HasRead(e, t, i)
        BY <3>3, <4>1
      <4>3. f[k] = u \o Ui!Escaped(t[k])
        BY <1>2, <3>1, <3>3, <4>1 DEF Steps
      <4>4. i \in Nat /\ k <= Len(t) /\ t[k] \notin {"backslash", "control"}
        BY <1>1, <3>3
      <4>5. /\ u \o Ui!Escaped(t[k]) \in Seq(Ui!Characters)
            /\ \E e : ReadsTo(u \o Ui!Escaped(t[k]), e) /\ HasRead(e, t, k)
        BY <3>3, <4>2, <4>4, EscapedIsRead
      <4>6. QED
        BY <4>3, <4>5
    <3> HIDE DEF T
    <3>4. \A i, k \in 1 .. n : i \in T /\ k = i + 1 => k \in T
      BY <3>3
    <3>5. 1 .. n \subseteq T
      BY <3>2, <3>4, CountUp
    <3>6. n \in T
      BY <2>2, <3>5
    <3>7. QED
      BY <3>1, <3>6 DEF T
  <2>3. QED
    BY <2>1, <2>2
<1>6. d.ok = TRUE /\ d.escaped = FALSE /\ d.text = t
  <2>1. d = [ok |-> TRUE, text |-> d.text, escaped |-> FALSE]
    BY <1>5 DEF HasRead
  <2>2. d.text \in Seq(Ui!Characters) /\ Len(d.text) = Len(t) /\ \A i \in 1 .. Len(t) : d.text[i] = t[i]
    BY <1>1, <1>5 DEF HasRead
  <2>3. PICK x : x = d.text
    OBVIOUS
  <2>4. x \in Seq(Ui!Characters) /\ Len(x) = Len(t) /\ \A i \in 1 .. Len(t) : x[i] = t[i]
    BY <2>2, <2>3
  <2>5. x = t
    BY <2>4, SeqEqual
  <2>6. d.text = t
    BY <2>3, <2>5
  <2>7. QED
    BY <2>1, <2>6
<1>7. PICK m \in Nat : m = Len(w)
  BY <1>5
<1>8. PICK f : /\ IsRead(f, w, m)
               /\ Ui!JsonParse(w) = [ok |-> f[m].ok /\ ~f[m].escaped, text |-> f[m].text]
  BY <1>7, ParseIs
<1>9. f[m] = d
  <2>1. PICK g : IsRead(g, w, m) /\ g[m] = d
    BY <1>5, <1>7 DEF ReadsTo
  <2>2. f[m] = g[m]
    BY <1>7, <1>8, <2>1, \A i \in 1 .. m : w[i] = w[i], m <= m, ReadAgree
  <2>3. QED
    BY <2>1, <2>2
<1>10. QED
  BY <1>3, <1>5, <1>6, <1>8, <1>9

-----------------------------------------------------------------------------
(* What a popup shows of what was asked *)

\* The items of a popup are as the constants say.
LEMMA ItemsAre ==
  ASSUME NEW info \in Infos
  PROVE  /\ info.items \in Seq(Ui!AnyItem)
         /\ \A i \in DOMAIN info.items : info.items[i] \in Ui!AnyItem
<1>1. info.items \in Seq(Ui!AnyItem)
  BY PartsAssumption DEF Ui!HostUiAssumption
<1>2. QED
  BY <1>1, ElementOfSeq, LenProperties

\* A text of a popup without such characters comes out of JSON.parse as it went in.
LEMMA TextIsRead ==
  ASSUME NEW info \in Infos, ~Ui!Awkward(info), NEW t \in Seq(Ui!Characters), t \in Ui!TextsOf(info)
  PROVE  Ui!JsonParse(Ui!write_json_str(t)) = [ok |-> TRUE, text |-> t] /\ Ui!Parsed(t) = t
<1>1. {"backslash", "control"} \cap Ui!ToSet(t) = {}
  BY DEF Ui!Awkward
<1>2. \A k \in DOMAIN t : t[k] \notin {"backslash", "control"}
  BY <1>1 DEF Ui!ToSet
<1>3. PICK x : x = Ui!JsonParse(Ui!write_json_str(t))
  OBVIOUS
<1>4. x = [ok |-> TRUE, text |-> t]
  BY <1>2, <1>3, WrittenIsRead
<1>5. x.text = t
  BY <1>4
<1> QED
  BY <1>3, <1>4, <1>5 DEF Ui!Parsed

\* A popup's texts are sequences of characters.
LEMMA TextsAre ==
  ASSUME NEW info \in Infos
  PROVE  /\ info.title \in Seq(Ui!Characters) /\ info.title \in Ui!TextsOf(info)
         /\ \A i \in DOMAIN info.items :
              /\ info.items[i].texts \in Seq(Seq(Ui!Characters))
              /\ \A k \in DOMAIN info.items[i].texts :
                   /\ info.items[i].texts[k] \in Seq(Ui!Characters)
                   /\ info.items[i].texts[k] \in Ui!TextsOf(info)
         /\ \A t \in Ui!TextsOf(info) : t \in Seq(Ui!Characters)
<1>1. info.title \in Seq(Ui!Characters) /\ info.title \in Ui!TextsOf(info)
  BY PartsAssumption DEF Ui!HostUiAssumption, Ui!TextsOf
<1>2. ASSUME NEW i \in DOMAIN info.items
      PROVE  /\ info.items[i].texts \in Seq(Seq(Ui!Characters))
             /\ \A k \in DOMAIN info.items[i].texts :
                  /\ info.items[i].texts[k] \in Seq(Ui!Characters)
                  /\ info.items[i].texts[k] \in Ui!TextsOf(info)
  <2>1. PICK s : s = info.items[i].texts
    OBVIOUS
  <2>2. s \in Seq(Seq(Ui!Characters))
    BY <2>1, ItemsAre DEF Ui!AnyItem
  <2>3. \A k \in DOMAIN s : s[k] \in Seq(Ui!Characters)
    BY <2>2, ElementOfSeq, LenProperties
  <2>4. \A k \in DOMAIN s : s[k] \in Ui!TextsOf(info)
    BY <1>2, <2>1 DEF Ui!TextsOf, Ui!ToSet
  <2> QED
    BY <2>1, <2>2, <2>3, <2>4
<1>3. ASSUME NEW t \in Ui!TextsOf(info) PROVE t \in Seq(Ui!Characters)
  <2>1. CASE t = info.title
    BY <1>1, <2>1
  <2>2. CASE t # info.title
    <3>1. PICK i \in DOMAIN info.items : t \in Ui!ToSet(info.items[i].texts)
      BY <1>3, <2>2 DEF Ui!TextsOf
    <3>2. PICK k \in DOMAIN info.items[i].texts : t = info.items[i].texts[k]
      BY <3>1 DEF Ui!ToSet
    <3> QED
      BY <1>2, <3>2
  <2> QED
    BY <2>1, <2>2
<1> QED
  BY <1>1, <1>2, <1>3

\* A popup without such characters comes out of JSON.parse as it went in.
LEMMA PopupIsRead ==
  ASSUME NEW info \in Infos, ~Ui!Awkward(info)
  PROVE  /\ Ui!Parsed(info.title) = info.title /\ Ui!ParsedItems(info) = info.items
         /\ ~Ui!JsonFails(info)
<1>1. Ui!Parsed(info.title) = info.title
  BY TextsAre, TextIsRead
<1>2. ~Ui!JsonFails(info)
  <2> SUFFICES ASSUME NEW t \in Ui!TextsOf(info) PROVE Ui!JsonParse(Ui!write_json_str(t)).ok
    BY DEF Ui!JsonFails
  <2>1. PICK x : x = Ui!JsonParse(Ui!write_json_str(t))
    OBVIOUS
  <2>2. x = [ok |-> TRUE, text |-> t]
    BY <2>1, TextsAre, TextIsRead
  <2>3. x.ok
    BY <2>2
  <2> QED
    BY <2>1, <2>3
<1> DEFINE Read(i) == [k \in DOMAIN info.items[i].texts |-> Ui!Parsed(info.items[i].texts[k])]
<1>3. Ui!ParsedItems(info) = [i \in DOMAIN info.items |-> [info.items[i] EXCEPT !.texts = Read(i)]]
  BY DEF Ui!ParsedItems
<1>4. ASSUME NEW i \in DOMAIN info.items
      PROVE  Read(i) = info.items[i].texts
  <2>1. PICK s : s = info.items[i].texts
    OBVIOUS
  <2>2. s \in Seq(Seq(Ui!Characters)) /\ \A k \in DOMAIN s : Ui!Parsed(s[k]) = s[k]
    BY <2>1, TextsAre, TextIsRead
  <2>3. s = [k \in DOMAIN s |-> s[k]]
    BY <2>2
  <2>4. [k \in DOMAIN s |-> Ui!Parsed(s[k])] = [k \in DOMAIN s |-> s[k]]
    BY <2>2
  <2> QED
    BY <2>1, <2>3, <2>4
<1> HIDE DEF Read
<1>5. ASSUME NEW i \in DOMAIN info.items
      PROVE  [info.items[i] EXCEPT !.texts = Read(i)] = info.items[i]
  <2>1. PICK item \in Ui!AnyItem : item = info.items[i]
    BY ItemsAre
  <2>2. PICK texts : texts = Read(i)
    OBVIOUS
  <2>3. texts = item.texts
    BY <1>4, <2>1, <2>2
  <2>4. PICK same : same = [item EXCEPT !.texts = texts]
    OBVIOUS
  <2>5. same = item
    BY <2>3, <2>4 DEF Ui!AnyItem
  <2> QED
    BY <2>1, <2>2, <2>4, <2>5
<1>6. info.items = [i \in DOMAIN info.items |-> info.items[i]]
  BY ItemsAre
<1> QED
  BY <1>1, <1>2, <1>3, <1>5, <1>6

\* Android's popup has items of those asked for.
LEMMA FirstIsAsked ==
  ASSUME NEW items \in Seq(Ui!AnyItem), NEW type
  PROVE  /\ Ui!First(items, type) \in Seq(Ui!AnyItem)
         /\ \A i \in DOMAIN Ui!First(items, type) : Ui!First(items, type)[i] \in Ui!ToSet(items)
<1> DEFINE is == {i \in DOMAIN items : items[i].type = type}
<1>1. CASE is = {}
  <2>1. Ui!First(items, type) = <<>>
    BY <1>1 DEF Ui!First
  <2>2. QED
    BY <2>1
<1>2. CASE is # {}
  <2>1. PICK m : m = Ui!Min(is)
    OBVIOUS
  <2>2. m \in is
    <3>1. is \in SUBSET Nat
      BY LenProperties
    <3> HIDE DEF is
    <3>2. PICK k \in is : \A j \in is : k <= j
      BY <1>2, <3>1, LeastMember
    <3>3. QED
      BY <2>1, <3>2 DEF Ui!Min
  <2>3. Ui!First(items, type) = <<items[m]>>
    BY <1>2, <2>1 DEF Ui!First
  <2>4. items[m] \in Ui!AnyItem /\ items[m] \in Ui!ToSet(items)
    BY <2>2, ElementOfSeq, LenProperties DEF Ui!ToSet
  <2>5. QED
    BY <2>3, <2>4
<1>3. QED
  BY <1>1, <1>2

\* Every host shows a popup word for word, as far as it shows it, unless on the page a
\* text of it has what is not escaped.
LEMMA WordsAreAsked ==
  ASSUME NEW info \in Infos, client \in {"desktop", "browser", "android"}
  PROVE  ShowsWords(client, Ui!ShownTitle(info), Ui!ShownItems(info), info)
<1>1. CASE client = "desktop"
  BY <1>1 DEF Ui!ShownTitle, Ui!ShownItems, ShowsWords
<1>2. CASE client = "browser"
  BY <1>2, PopupIsRead DEF Ui!ShownTitle, Ui!ShownItems, ShowsWords
<1>3. CASE client = "android"
  <2>1. PICK f, g : f = Ui!First(info.items, "msg") /\ g = Ui!First(info.items, "btn")
    OBVIOUS
  <2>2. /\ f \in Seq(Ui!AnyItem) /\ g \in Seq(Ui!AnyItem)
        /\ \A i \in DOMAIN f : f[i] \in Ui!ToSet(info.items)
        /\ \A i \in DOMAIN g : g[i] \in Ui!ToSet(info.items)
    BY <2>1, ItemsAre, FirstIsAsked
  <2>3. \A i \in DOMAIN (f \o g) : (f \o g)[i] \in Ui!ToSet(info.items)
    BY <2>2
  <2>4. Ui!ShownItems(info) = f \o g
    BY <1>3, <2>1 DEF Ui!ShownItems
  <2>5. QED
    BY <1>3, <2>3, <2>4 DEF Ui!ShownTitle, ShowsWords
<1>4. QED
  BY <1>1, <1>2, <1>3

\* Every popup that a host shows has the items asked for, with their kinds and ids.
LEMMA ItemsAreAsked ==
  ASSUME NEW info \in Infos, client \in {"desktop", "browser"}
  PROVE  /\ DOMAIN Ui!ShownItems(info) = DOMAIN info.items
         /\ \A i \in DOMAIN info.items :
              /\ Ui!ShownItems(info)[i].type = info.items[i].type
              /\ Ui!ShownItems(info)[i].id = info.items[i].id
<1>1. CASE client = "desktop" BY <1>1 DEF Ui!ShownItems
<1>2. CASE client = "browser"
  <2> DEFINE Texts(i) == [k \in DOMAIN info.items[i].texts |-> Ui!Parsed(info.items[i].texts[k])]
  <2>1. Ui!ShownItems(info) = [i \in DOMAIN info.items |-> [info.items[i] EXCEPT !.texts = Texts(i)]]
    BY <1>2 DEF Ui!ShownItems, Ui!ParsedItems
  <2>2. ASSUME NEW i \in DOMAIN info.items, NEW texts
        PROVE  /\ [info.items[i] EXCEPT !.texts = texts].type = info.items[i].type
               /\ [info.items[i] EXCEPT !.texts = texts].id = info.items[i].id
    <3>1. info.items[i] \in Ui!AnyItem BY ItemsAre
    <3> QED BY <3>1 DEF Ui!AnyItem
  <2> HIDE DEF Texts
  <2> QED BY <2>1, <2>2
<1> QED BY <1>1, <1>2

-----------------------------------------------------------------------------
(* One step of the host *)

\* Nothing that the invariant of the windows speaks of changes.
SameWindows == UNCHANGED <<client, uiGame, uiMade, gone, windows, g_popup, uiDied>>

\* Nobody hears of a popup.
NoAnswer == heard'.kind # "popup"

\* While the windows stay, only what is on the page has to be looked at.
LEMMA SameWindowsKeeps ==
  ASSUME UiInv, SameWindows,
         ThingsInv(client, uiGame, gone, buttons', timers', events', windows)
  PROVE  UiInv'
BY DEF UiInv, SameWindows, GamesInv, WindowsInv, ThingsInv, TwoSelections

\* Windows of which some were hidden or changed are still windows, and the page's
\* things are still its game's.
LEMMA TameStep ==
  ASSUME UiInv, Tame(windows, windows'), UNCHANGED <<client, uiGame, uiMade, gone, g_popup, uiDied>>,
         UNCHANGED <<buttons, timers, events>>
  PROVE  UiInv'
<1>1. WindowsInv(client, g_popup, uiGame, gone, windows') BY TameKeeps DEF UiInv
<1>2. TwoSelections(windows) => TwoSelections(windows') BY DEF TwoSelections, Tame
<1>3. windows = <<>> => windows' = <<>>
  <2>1. ASSUME windows = <<>> PROVE windows' = <<>>
    <3>1. Len(windows') = 0 /\ AnySeq(windows') BY <2>1, EmptyIsSeq DEF Tame
    <3> QED BY <3>1, EmptySeq DEF AnySeq
  <2> QED BY <2>1
<1> QED BY <1>1, <1>2, <1>3 DEF UiInv, ThingsInv, GamesInv

\* The windows and the page's things are sequences.
LEMMA UiShapes ==
  ASSUME UiInv
  PROVE  /\ AnySeq(windows) /\ Len(windows) \in Nat /\ DOMAIN windows = 1 .. Len(windows)
         /\ g_popup \in 0 .. Len(windows)
         /\ \A w \in 1 .. Len(windows) : IsWindow(windows[w])
         /\ uiMade \in Nat /\ uiGame \in 0 .. uiMade /\ gone \subseteq 1 .. uiMade
<1>1. AnySeq(windows) BY DEF UiInv, WindowsInv
<1> QED BY <1>1, SeqFacts DEF UiInv, WindowsInv, GamesInv

\* A script shows a popup.
LEMMA ShowStep ==
  ASSUME UiInv, NEW info \in Infos, Ui!show_popup(info)
  PROVE  UiInv' /\ NoAnswer
<1>1. NoAnswer BY DEF Ui!show_popup, Ui!Nothing, NoAnswer
<1>2. /\ UNCHANGED <<client, uiGame, uiMade, gone, buttons, timers, events, uiDied>>
      /\ uiGame # 0
  BY DEF Ui!show_popup, Ui!CanAsk
<1>3. CASE UNCHANGED <<windows, g_popup>>
  <2>1. SameWindows BY <1>2, <1>3 DEF SameWindows
  <2>2. ThingsInv(client, uiGame, gone, buttons', timers', events', windows)
    BY <1>2 DEF UiInv
  <2> QED BY <1>1, <2>1, <2>2, SameWindowsKeeps
<1>4. CASE ~UNCHANGED <<windows, g_popup>>
  <2> DEFINE choices == [i \in DOMAIN info.items |-> 0]
             x == Ui!Window("script", info, Ui!ShownTitle(info), Ui!ShownItems(info), choices)
  <2>1. windows' = Append(Ui!Hide(windows, g_popup), x) /\ g_popup' = Len(windows) + 1
    BY <1>4 DEF Ui!show_popup
  <2> HIDE DEF choices
  <2>2. x = [kind |-> "script", game |-> uiGame, id |-> info.id, asked |-> info,
             title |-> Ui!ShownTitle(info), items |-> Ui!ShownItems(info), chosen |-> choices, visible |-> TRUE]
    BY DEF Ui!Window
  <2> HIDE DEF x
  <2>3. /\ x.kind = "script" /\ x.game = uiGame /\ x.id = info.id /\ x.asked = info
        /\ x.title = Ui!ShownTitle(info) /\ x.items = Ui!ShownItems(info) /\ x.chosen = choices
    BY <2>2
  <2>4. x.visible = TRUE BY <2>2
  <2>5. IsWindow(x) BY <2>2, <2>3, <2>4 DEF IsWindow
  <2>6. ShowsAsked(client, x)
    <3>1. client \in {"desktop", "browser", "android"}
      BY LuaApiAssumption DEF UiInv
    <3>2. CASE client \in {"desktop", "browser"} BY <2>3, <3>2, ItemsAreAsked, WordsAreAsked DEF ShowsAsked
    <3>3. CASE client = "android" BY <2>3, <3>3, WordsAreAsked DEF ShowsAsked
    <3> QED BY <3>1, <3>2, <3>3
  <2>7. WindowsInv(client, g_popup', uiGame, gone, windows')
    BY <2>1, <2>3, <2>5, <2>6, ShowKeeps DEF UiInv
  <2>8. TwoSelections(windows) => TwoSelections(windows')
    <3>1. AnySeq(Ui!Hide(windows, g_popup)) /\ Tame(windows, Ui!Hide(windows, g_popup))
      BY UiShapes, HideIsTame DEF Tame
    <3>2. Appended(Ui!Hide(windows, g_popup), x, windows') BY <2>1, <3>1, AppendSeq
    <3> QED BY <3>1, <3>2, UiShapes DEF TwoSelections, Tame, Appended
  <2> QED BY <1>1, <1>2, <2>7, <2>8 DEF UiInv, ThingsInv, GamesInv
<1> QED BY <1>3, <1>4

\* The script hides its popup.
LEMMA HidePopupStep ==
  ASSUME UiInv, Ui!lua_hide_popup
  PROVE  UiInv' /\ NoAnswer
<1>1. NoAnswer BY DEF Ui!lua_hide_popup, Ui!Nothing, NoAnswer
<1>2. /\ UNCHANGED <<client, uiGame, uiMade, gone, buttons, timers, events, uiDied>>
      /\ uiGame # 0 /\ windows' = Ui!Hide(windows, g_popup) /\ g_popup' = 0
  BY DEF Ui!lua_hide_popup, Ui!CanAsk, Ui!hide_popup
<1>3. WindowsInv(client, g_popup', uiGame, gone, windows') BY <1>2, HideKeeps DEF UiInv
<1>4. Tame(windows, windows') BY <1>2, UiShapes, HideIsTame
<1>5. TwoSelections(windows) => TwoSelections(windows') BY <1>4 DEF TwoSelections, Tame
<1> QED BY <1>1, <1>2, <1>3, <1>5 DEF UiInv, ThingsInv, GamesInv

\* The user picks an option of a dropdown.
LEMMA ChooseStep ==
  ASSUME UiInv, NEW w \in DOMAIN windows, NEW i, NEW o, Ui!Choose(w, i, o)
  PROVE  UiInv' /\ NoAnswer
<1>1. NoAnswer BY DEF Ui!Choose, Ui!Nothing, NoAnswer
<1>2. /\ UNCHANGED <<client, uiGame, uiMade, gone, g_popup, buttons, timers, events, uiDied>>
      /\ windows' = [windows EXCEPT ![w].chosen[i] = o]
  BY DEF Ui!Choose
<1>3. Tame(windows, windows') BY <1>2, UiShapes, ChooseIsTame
<1> QED BY <1>1, <1>2, <1>3, TameStep

\* The user closes a popup's window.
LEMMA DismissStep ==
  ASSUME UiInv, NEW w \in DOMAIN windows, Ui!Dismiss(w)
  PROVE  UiInv' /\ NoAnswer
<1>1. NoAnswer BY DEF Ui!Dismiss, Ui!Nothing, NoAnswer
<1>2. /\ UNCHANGED <<client, uiGame, uiMade, gone, g_popup, buttons, timers, events, uiDied>>
      /\ windows' = Ui!Hide(windows, w)
  BY DEF Ui!Dismiss
<1>3. w \in 0 .. Len(windows) BY UiShapes
<1>4. Tame(windows, windows') BY <1>2, <1>3, UiShapes, HideIsTame
<1> QED BY <1>1, <1>2, <1>4, TameStep

\* What a script asks for besides popups is its own.
LEMMA ThingsStep ==
  ASSUME UiInv,
         \/ Ui!create_btn \/ Ui!add_game_option
         \/ \E period \in {0, 1} : Ui!update_timer_ms(period)
         \/ \E h \in DOMAIN timers : Ui!delete_timer(h)
         \/ \E e \in EvtIds : Ui!enable_evt(e) \/ Ui!disable_evt(e)
  PROVE  UiInv' /\ NoAnswer
<1>1. SameWindows /\ NoAnswer
  BY DEF Ui!create_btn, Ui!add_game_option, Ui!update_timer_ms, Ui!delete_timer,
         Ui!enable_evt, Ui!disable_evt, Ui!Nothing, NoAnswer, SameWindows
<1>2. uiGame # 0 /\ uiGame \notin gone
  BY DEF Ui!create_btn, Ui!add_game_option, Ui!update_timer_ms, Ui!delete_timer,
         Ui!enable_evt, Ui!disable_evt, Ui!CanAsk
<1> DEFINE Own(bs) == AnySeq(bs) /\ \A i \in 1 .. Len(bs) : bs[i] = uiGame
<1>3. ASSUME client = "browser"
      PROVE  Own(buttons') /\ Own(timers') /\ DOMAIN events' = EvtIds
             /\ \A e \in EvtIds : events'[e] \in {0, uiGame}
  <2>1. /\ Own(buttons) /\ Own(timers) /\ DOMAIN events = EvtIds
        /\ \A e \in EvtIds : events[e] \in {0, uiGame}
    BY <1>2, <1>3 DEF UiInv, ThingsInv
  <2>2. ASSUME NEW bs, Own(bs) PROVE Own(Append(bs, uiGame))
    <3>1. Appended(bs, uiGame, Append(bs, uiGame)) BY <2>2, AppendSeq
    <3>2. Len(bs) \in Nat BY <2>2, SeqFacts
    <3> QED BY <2>2, <3>1, <3>2 DEF Appended
  <2>3. Own(<<>>) BY EmptyIsSeq
  <2>4. \A h \in DOMAIN timers : Own(Ui!RemoveAt(timers, h)) BY <2>1, RemoveSeq
  <2>5. ASSUME NEW e \in EvtIds, NEW g \in {0, uiGame}
        PROVE  /\ DOMAIN [events EXCEPT ![e] = g] = EvtIds
               /\ \A f \in EvtIds : [events EXCEPT ![e] = g][f] \in {0, uiGame}
    BY <2>1
  <2> HIDE DEF Own
  <2>6. CASE Ui!create_btn BY <2>1, <2>2, <2>6 DEF Ui!create_btn
  <2>7. CASE Ui!add_game_option BY <2>1, <2>7 DEF Ui!add_game_option
  <2>8. ASSUME NEW period \in {0, 1}, Ui!update_timer_ms(period)
        PROVE  Own(timers') /\ UNCHANGED <<buttons, events>>
    BY <2>1, <2>2, <2>3, <2>8, <1>3 DEF Ui!update_timer_ms
  <2>9. ASSUME NEW h \in DOMAIN timers, Ui!delete_timer(h)
        PROVE  Own(timers') /\ UNCHANGED <<buttons, events>>
    BY <2>4, <2>9 DEF Ui!delete_timer
  <2>10. ASSUME NEW e \in EvtIds, Ui!enable_evt(e) \/ Ui!disable_evt(e)
         PROVE  /\ UNCHANGED <<buttons, timers>> /\ DOMAIN events' = EvtIds
                /\ \A f \in EvtIds : events'[f] \in {0, uiGame}
    BY <2>1, <2>5, <2>10 DEF Ui!enable_evt, Ui!disable_evt
  <2> QED BY <2>1, <2>6, <2>7, <2>8, <2>9, <2>10
<1>4. ThingsInv(client, uiGame, gone, buttons', timers', events', windows)
  BY <1>2, <1>3 DEF ThingsInv
<1> QED BY <1>1, <1>4, SameWindowsKeeps

\* A button or an option is pressed.
LEMMA ClickStep ==
  ASSUME UiInv, NEW things, NEW kind \in {"button", "option"}, NEW i,
         Ui!handle_click(things, kind, i)
  PROVE  UiInv' /\ NoAnswer
<1>1. SameWindows /\ NoAnswer /\ UNCHANGED <<buttons, timers, events>>
  BY DEF Ui!handle_click, NoAnswer, SameWindows
<1> QED BY <1>1, SameWindowsKeeps DEF UiInv

\* A button of a popup is pressed: the game that showed it hears of it.
LEMMA ButtonStep ==
  ASSUME UiInv, NEW w \in DOMAIN windows, NEW i \in DOMAIN windows[w].items, Ui!OnButton(w, i)
  PROVE  UiInv' /\ AnswersReachTheAsker'
<1> DEFINE win == windows[w]
<1>1. /\ UNCHANGED <<client, uiGame, uiMade, gone, g_popup, buttons, timers, events, uiDied>>
      /\ windows' = IF client = "android" THEN Ui!Hide(windows, w) ELSE windows
      /\ win.visible /\ win.kind = "script" /\ win.items[i].type = "btn" /\ uiGame \notin gone
      /\ heard' = [kind |-> "popup", game |-> IF client = "desktop" THEN win.game ELSE uiGame,
                   of |-> win.id,
                   id |-> IF client = "android" THEN 0 ELSE win.items[i].id,
                   state |-> IF client = "android" THEN <<>> ELSE Ui!get_state(win)]
  BY DEF Ui!OnButton
<1>2. w \in 1 .. Len(windows) /\ w \in 0 .. Len(windows) BY UiShapes
<1>3. Tame(windows, Ui!Hide(windows, w)) BY <1>2, UiShapes, HideIsTame
<1>4. UiInv'
  <2>1. CASE client = "android" BY <1>1, <1>3, <2>1, TameStep
  <2>2. CASE client # "android"
    <3>1. SameWindows /\ UNCHANGED <<buttons, timers, events>> BY <1>1, <2>2 DEF SameWindows
    <3> QED BY <3>1, SameWindowsKeeps DEF UiInv
  <2> QED BY <2>1, <2>2
<1>5. client = "desktop" \/ win.game = uiGame
  BY <1>1, <1>2 DEF UiInv, WindowsInv
<1>6. ShowsAsked(client, win) BY <1>2 DEF UiInv, WindowsInv
<1>7. heard'.game = win.game /\ heard'.of = win.asked.id
  BY <1>1, <1>5, <1>6 DEF ShowsAsked
<1>8. /\ w \in DOMAIN windows' /\ windows'[w].kind = "script" /\ windows'[w].game = win.game
      /\ windows'[w].asked = win.asked
  <2>1. CASE client = "android"
    <3>1. DOMAIN windows' = 1 .. Len(windows) BY <1>1, <1>3, <2>1, SeqFacts DEF Tame
    <3> QED BY <1>1, <1>2, <1>3, <2>1, <3>1 DEF Tame
  <2>2. CASE client # "android" BY <1>1, <1>2, <2>2
  <2> QED BY <2>1, <2>2
<1>9. ASSUME client # "android"
      PROVE  /\ windows' = windows /\ heard'.id = win.items[i].id
             /\ heard'.state = Ui!get_state(win)
             /\ DOMAIN win.items = DOMAIN win.asked.items
             /\ \A j \in DOMAIN win.items : /\ win.items[j].type = win.asked.items[j].type
                                            /\ win.items[j].id = win.asked.items[j].id
  BY <1>1, <1>6, <1>9 DEF ShowsAsked
<1>10. ASSUME client # "android"
       PROVE  \E j \in DOMAIN win.asked.items :
                win.asked.items[j].type = "btn" /\ win.asked.items[j].id = heard'.id
  BY <1>1, <1>9, <1>10
<1>11. ASSUME client # "android", NEW j \in DOMAIN win.asked.items,
              win.asked.items[j].type = "dropdown"
       PROVE  \E k \in DOMAIN heard'.state :
                heard'.state[k].id = win.asked.items[j].id /\ heard'.state[k].selected = win.chosen[j]
  <2>1. j \in Ui!Dropdowns(win) BY <1>9, <1>11 DEF Ui!Dropdowns
  <2>2. heard'.state = [k \in Ui!Dropdowns(win) |-> [id |-> win.items[k].id, selected |-> win.chosen[k]]]
    BY <1>9, <1>11 DEF Ui!get_state
  <2>3. /\ j \in DOMAIN heard'.state /\ heard'.state[j].id = win.items[j].id
        /\ heard'.state[j].selected = win.chosen[j]
    BY <2>1, <2>2
  <2> QED BY <1>9, <1>11, <2>3
<1>12. AnswersReachTheAsker'
  BY <1>1, <1>7, <1>8, <1>9, <1>10, <1>11 DEF AnswersReachTheAsker, Ui!AnswersReachTheAsker
<1> QED BY <1>4, <1>12

\* The desktop's list of games is opened.
LEMMA SelectStep ==
  ASSUME UiInv, Ui!GameSelect
  PROVE  UiInv' /\ NoAnswer
<1> DEFINE info == [id |-> "games", title |-> <<>>, items |-> <<>>]
           x == Ui!Window("select", info, <<>>, <<>>, <<>>)
<1>1. /\ UNCHANGED <<client, uiGame, uiMade, gone, buttons, timers, events, uiDied>>
      /\ client = "desktop" /\ windows' = Append(windows, x) /\ g_popup' = Len(windows) + 1
      /\ NoAnswer
  BY DEF Ui!GameSelect, Ui!Nothing, NoAnswer
<1>2. x = [kind |-> "select", game |-> 0, id |-> info.id, asked |-> info,
           title |-> <<>>, items |-> <<>>, chosen |-> <<>>, visible |-> TRUE]
  BY DEF Ui!Window
<1> HIDE DEF x
<1>3. /\ x.kind = "select" /\ x.game = 0 /\ x.id = info.id /\ x.asked = info
      /\ x.title = <<>> /\ x.items = <<>> /\ x.chosen = <<>>
  BY <1>2
<1>4. x.visible = TRUE BY <1>2
<1>5. IsWindow(x) BY <1>2, <1>3, <1>4 DEF IsWindow
<1>6. WindowsInv(client, g_popup', uiGame, gone, windows')
  BY <1>1, <1>3, <1>5, SelectKeeps DEF UiInv
<1>7. TwoSelections(windows) => TwoSelections(windows')
  <2>1. Appended(windows, x, windows') BY <1>1, UiShapes, AppendSeq
  <2> QED BY <2>1, UiShapes DEF TwoSelections, Appended
<1> QED BY <1>1, <1>6, <1>7 DEF UiInv, ThingsInv, GamesInv

\* A game is picked from the list of the desktop: if no popup is known, the list was
\* opened twice.
LEMMA PickStep ==
  ASSUME UiInv, NEW w \in DOMAIN windows, NEW loads \in BOOLEAN,
         Ui!game_selection_handle_popup_btn_clicked(w, loads)
  PROVE  UiInv' /\ NoAnswer
<1>1. windows[w].visible /\ windows[w].kind = "select"
  BY DEF Ui!game_selection_handle_popup_btn_clicked
<1>2. w \in 1 .. Len(windows) BY UiShapes
<1>3. client = "desktop" BY <1>1, <1>2 DEF UiInv, WindowsInv
<1>4. CASE g_popup = 0
  <2>1. /\ UNCHANGED <<client, uiGame, uiMade, gone, windows, g_popup, buttons, timers, events>>
        /\ NoAnswer
    BY <1>4 DEF Ui!game_selection_handle_popup_btn_clicked, Ui!Nothing, NoAnswer
  <2>2. TwoSelections(windows) BY <1>1, <1>2, <1>4 DEF UiInv, WindowsInv
  <2> QED BY <2>1, <2>2 DEF UiInv, GamesInv, WindowsInv, ThingsInv, TwoSelections
<1>5. CASE g_popup # 0
  <2>1. /\ windows' = Ui!Hide(windows, g_popup) /\ g_popup' = 0 /\ uiMade' = uiMade + 1
        /\ uiGame' = IF loads THEN uiMade + 1 ELSE 0
        /\ UNCHANGED <<client, gone, uiDied>> /\ NoAnswer
    BY <1>5 DEF Ui!game_selection_handle_popup_btn_clicked, Ui!hide_popup, Ui!StartGame, Ui!Nothing,
                NoAnswer
  <2>2. WindowsInv(client', g_popup', uiGame', gone', windows') BY <2>1, HideKeeps DEF UiInv
  <2>3. Tame(windows, windows') BY <2>1, UiShapes, HideIsTame
  <2>4. TwoSelections(windows) => TwoSelections(windows') BY <2>3 DEF TwoSelections, Tame
  <2>5. GamesInv(uiGame', uiMade', gone') BY <2>1, UiShapes DEF GamesInv
  <2> QED BY <1>3, <2>1, <2>2, <2>4, <2>5 DEF UiInv, ThingsInv
<1> QED BY <1>4, <1>5

\* Android begins another game.
LEMMA AndroidStep ==
  ASSUME UiInv, NEW loads \in BOOLEAN, Ui!jniInit(loads)
  PROVE  UiInv' /\ NoAnswer
<1>1. /\ windows' = Ui!Hide(windows, g_popup) /\ g_popup' = 0 /\ uiMade' = uiMade + 1
      /\ uiGame' = IF loads THEN uiMade + 1 ELSE 0
      /\ UNCHANGED <<client, gone, uiDied>> /\ client = "android" /\ NoAnswer
  BY DEF Ui!jniInit, Ui!hide_popup, Ui!StartGame, Ui!Nothing, NoAnswer
<1>2. WindowsInv(client', g_popup', uiGame', gone', windows') BY <1>1, HideKeeps DEF UiInv
<1>3. Tame(windows, windows') BY <1>1, UiShapes, HideIsTame
<1>4. TwoSelections(windows) => TwoSelections(windows') BY <1>3 DEF TwoSelections, Tame
<1>5. GamesInv(uiGame', uiMade', gone') BY <1>1, UiShapes DEF GamesInv
<1> QED BY <1>1, <1>2, <1>4, <1>5 DEF UiInv, ThingsInv

\* The page begins another game: nothing of the one before is left on it.
LEMMA PageStep ==
  ASSUME UiInv, NEW loads \in BOOLEAN, Ui!game_init(loads)
  PROVE  UiInv' /\ NoAnswer
<1>1. /\ uiMade' = uiMade + 1 /\ uiGame' = IF loads THEN uiMade + 1 ELSE uiGame
      /\ UNCHANGED <<client, uiDied>> /\ client = "browser" /\ uiGame \notin gone /\ NoAnswer
  BY DEF Ui!game_init, Ui!Nothing, NoAnswer
<1>2. CASE uiGame # 0
  <2>1. /\ windows' = Ui!Hide(windows, g_popup) /\ g_popup' = 0 /\ gone' = gone \cup {uiGame}
        /\ buttons' = <<>> /\ timers' = <<>> /\ events' = [e \in EvtIds |-> 0]
    BY <1>2 DEF Ui!game_init, Ui!hide_popup, Ui!destroy_all
  <2>2. WindowsInv(client', g_popup', uiGame', gone', windows') BY <1>1, <2>1, HideKeeps DEF UiInv
  <2>3. Tame(windows, windows') BY <2>1, UiShapes, HideIsTame
  <2>4. TwoSelections(windows) => TwoSelections(windows') BY <2>3 DEF TwoSelections, Tame
  <2>5. GamesInv(uiGame', uiMade', gone') BY <1>1, <1>2, <2>1, UiShapes DEF GamesInv
  <2>6. ThingsInv(client', uiGame', gone', buttons', timers', events', windows')
    <3>1. uiGame' # 0 BY <1>1, <1>2, UiShapes
    <3> QED BY <2>1, <3>1, EmptyIsSeq DEF ThingsInv
  <2> QED BY <1>1, <2>2, <2>4, <2>5, <2>6 DEF UiInv
<1>3. CASE uiGame = 0
  <2>1. UNCHANGED <<windows, g_popup, buttons, timers, events, gone>> BY <1>3 DEF Ui!game_init
  <2>2. /\ buttons = <<>> /\ timers = <<>> /\ windows = <<>> /\ DOMAIN events = EvtIds
        /\ \A e \in EvtIds : events[e] = 0
    BY <1>1, <1>3 DEF UiInv, ThingsInv
  <2>3. WindowsInv(client', g_popup', uiGame', gone', windows')
    BY <1>1, <2>1, <2>2, EmptyIsSeq DEF UiInv, WindowsInv
  <2>4. GamesInv(uiGame', uiMade', gone') BY <1>1, <1>3, <2>1, UiShapes DEF GamesInv
  <2>5. ThingsInv(client', uiGame', gone', buttons', timers', events', windows')
    BY <2>1, <2>2, EmptyIsSeq DEF ThingsInv
  <2> QED BY <1>1, <2>1, <2>3, <2>4, <2>5 DEF UiInv, TwoSelections
<1> QED BY <1>2, <1>3

-----------------------------------------------------------------------------
(* The theorems *)

\* At the beginning there is no game, and nothing of one.
LEMMA UiBegins == Ui!Init => UiInv
<1> SUFFICES ASSUME Ui!Init PROVE UiInv OBVIOUS
<1>1. /\ client \in Clients /\ uiGame = 0 /\ uiMade = 0 /\ gone = {} /\ windows = <<>> /\ g_popup = 0
      /\ buttons = <<>> /\ timers = <<>> /\ events = [e \in EvtIds |-> 0] /\ uiDied = FALSE
  BY DEF Ui!Init
<1>2. WindowsInv(client, g_popup, uiGame, gone, windows) BY <1>1, EmptyIsSeq DEF WindowsInv
<1>3. ThingsInv(client, uiGame, gone, buttons, timers, events, windows)
  BY <1>1, EmptyIsSeq DEF ThingsInv
<1> QED BY <1>1, <1>2, <1>3 DEF UiInv, GamesInv

\* Each step of the host keeps the invariant, and whoever hears of a popup's button is
\* the game that asked.
LEMMA UiSteps ==
  ASSUME UiInv, Ui!Next
  PROVE  UiInv' /\ AnswersReachTheAsker'
<1>1. NoAnswer => AnswersReachTheAsker'
  BY DEF NoAnswer, AnswersReachTheAsker, Ui!AnswersReachTheAsker
<1>2. CASE Ui!Asks
  <2>1. ASSUME NEW info \in Infos, Ui!show_popup(info) PROVE UiInv' /\ NoAnswer
    BY <2>1, ShowStep
  <2>2. CASE Ui!lua_hide_popup BY <1>1, <2>2, HidePopupStep
  <2>3. CASE \/ Ui!create_btn \/ Ui!add_game_option
             \/ \E period \in {0, 1} : Ui!update_timer_ms(period)
             \/ \E h \in DOMAIN timers : Ui!delete_timer(h)
             \/ \E e \in EvtIds : Ui!enable_evt(e) \/ Ui!disable_evt(e)
    BY <1>1, <2>3, ThingsStep
  <2> QED BY <1>1, <1>2, <2>1, <2>2, <2>3 DEF Ui!Asks
<1>3. CASE Ui!User
  <2>1. ASSUME NEW w \in DOMAIN windows, NEW i \in DOMAIN windows[w].items, Ui!OnButton(w, i)
        PROVE  UiInv' /\ AnswersReachTheAsker'
    BY <2>1, ButtonStep
  <2>2. ASSUME NEW w \in DOMAIN windows, NEW i, NEW o, Ui!Choose(w, i, o) PROVE UiInv' /\ NoAnswer
    BY <2>2, ChooseStep
  <2>3. ASSUME NEW w \in DOMAIN windows, Ui!Dismiss(w) PROVE UiInv' /\ NoAnswer
    BY <2>3, DismissStep
  <2>4. ASSUME NEW i, Ui!handle_click(buttons, "button", i) PROVE UiInv' /\ NoAnswer
    BY <2>4, ClickStep
  <2>5. ASSUME NEW i, Ui!handle_click(options, "option", i) PROVE UiInv' /\ NoAnswer
    BY <2>5, ClickStep
  <2>6. CASE Ui!GameSelect BY <1>1, <2>6, SelectStep
  <2>7. ASSUME NEW loads \in BOOLEAN,
               \/ Ui!game_init(loads) \/ Ui!jniInit(loads)
               \/ \E w \in DOMAIN windows : Ui!game_selection_handle_popup_btn_clicked(w, loads)
        PROVE  UiInv' /\ NoAnswer
    BY <2>7, PageStep, AndroidStep, PickStep
  <2> QED BY <1>1, <1>3, <2>1, <2>2, <2>3, <2>4, <2>5, <2>6, <2>7 DEF Ui!User
<1> QED BY <1>2, <1>3 DEF Ui!Next

\* No other part touches what the host shows, or the drawing.
LEMMA PartsSteps ==
  ASSUME [PartsNext]_<<part, client, lua, ui, draw, dict>>
  PROVE  /\ Ui!Next \/ UNCHANGED <<client, ui>>
         /\ Draw!Next \/ UNCHANGED <<client, draw>>
<1>1. CASE Lua_Next
  <2>1. Next /\ UNCHANGED <<ui, draw>> BY <1>1 DEF Lua_Next
  <2>2. UNCHANGED client
    BY <2>1 DEF Next, Step, LUA_API_ENTER, TurnedAway, NotDefined, Call, TouchLoopTurnedAway,
                Return, Finish, Abort, init_lua_game, lua_run_cmd
  <2> QED BY <2>1, <2>2
<1>2. CASE Ui_Next
  <2>1. Ui!Next /\ UNCHANGED draw BY <1>2 DEF Ui_Next
  <2>2. Ui!Asks => UNCHANGED client
    BY DEF Ui!Asks, Ui!show_popup, Ui!lua_hide_popup, Ui!create_btn, Ui!add_game_option,
           Ui!update_timer_ms, Ui!delete_timer, Ui!enable_evt, Ui!disable_evt
  <2>3. Ui!User => UNCHANGED client
    BY DEF Ui!User, Ui!OnButton, Ui!Choose, Ui!Dismiss, Ui!handle_click, Ui!GameSelect, Ui!game_init,
           Ui!jniInit, Ui!StartGame, Ui!game_selection_handle_popup_btn_clicked
  <2> QED BY <2>1, <2>2, <2>3 DEF Ui!Next
<1>3. CASE Draw_Next
  <2>1. Draw!Next /\ UNCHANGED ui BY <1>3 DEF Draw_Next
  <2>2. UNCHANGED client
    BY <2>1 DEF Draw!Next, Draw!HandlerBegins, Draw!Draw, Draw!lua_draw_clear, Draw!lua_draw_refresh,
                Draw!HandlerEnds, Draw!PaintBegins, Draw!OnPaint
  <2> QED BY <2>1, <2>2
<1>4. CASE Dict_Next BY <1>4 DEF Dict_Next
<1> QED BY <1>1, <1>2, <1>3, <1>4 DEF PartsNext

\* What the theorems need of every state.  Only on the page does a popup leave the
\* call, and only one with a character that is not escaped.
Frozen(c, t) == \A i \in DOMAIN t : c = "browser" /\ Ui!Awkward(t[i])
HostInv == UiInv /\ AnswersReachTheAsker /\ Frozen(client, threw)

\* Whatever the host does, nothing else leaves its call.
LEMMA FrozenSteps ==
  ASSUME Frozen(client, threw), Ui!Next
  PROVE  Frozen(client', threw')
<1>1. CASE UNCHANGED <<client, threw>>
  BY <1>1
<1>2. CASE UNCHANGED client /\ threw' = <<>>
  BY <1>2 DEF Frozen
<1>3. ASSUME NEW info \in Infos, Ui!show_popup(info)
      PROVE  Frozen(client', threw')
  <2>1. CASE client = "browser" /\ Ui!JsonFails(info)
    <3>1. threw' = <<info>> /\ client' = client
      BY <1>3, <2>1 DEF Ui!show_popup
    <3>2. Ui!Awkward(info)
      BY <2>1, PopupIsRead
    <3>3. QED
      BY <2>1, <3>1, <3>2 DEF Frozen
  <2>2. CASE ~(client = "browser" /\ Ui!JsonFails(info))
    BY <1>1, <1>3, <2>2 DEF Ui!show_popup
  <2>3. QED
    BY <2>1, <2>2
<1>4. CASE Ui!Asks
  <2>1. ASSUME \/ Ui!lua_hide_popup \/ Ui!create_btn \/ Ui!add_game_option
               \/ \E period \in {0, 1} : Ui!update_timer_ms(period)
               \/ \E h \in DOMAIN timers : Ui!delete_timer(h)
               \/ \E e \in EvtIds : Ui!enable_evt(e) \/ Ui!disable_evt(e)
        PROVE  UNCHANGED <<client, threw>>
    BY <2>1 DEF Ui!lua_hide_popup, Ui!create_btn, Ui!add_game_option, Ui!update_timer_ms,
                Ui!delete_timer, Ui!enable_evt, Ui!disable_evt
  <2>2. QED
    BY <1>1, <1>3, <1>4, <2>1 DEF Ui!Asks
<1>5. CASE Ui!User
  <2>1. ASSUME NEW w, NEW i, NEW o, Ui!OnButton(w, i) \/ Ui!Choose(w, i, o) \/ Ui!Dismiss(w)
        PROVE  UNCHANGED <<client, threw>>
    BY <2>1 DEF Ui!OnButton, Ui!Choose, Ui!Dismiss
  <2>2. ASSUME NEW i, NEW w, NEW loads,
               \/ Ui!handle_click(buttons, "button", i) \/ Ui!handle_click(options, "option", i)
               \/ Ui!GameSelect \/ Ui!game_init(loads) \/ Ui!jniInit(loads)
               \/ Ui!game_selection_handle_popup_btn_clicked(w, loads)
        PROVE  UNCHANGED client /\ (UNCHANGED threw \/ threw' = <<>>)
    BY <2>2 DEF Ui!handle_click, Ui!GameSelect, Ui!game_init, Ui!jniInit, Ui!StartGame,
                Ui!game_selection_handle_popup_btn_clicked
  <2>3. QED
    BY <1>1, <1>2, <1>5, <2>1, <2>2 DEF Ui!User
<1>6. QED
  BY <1>4, <1>5 DEF Ui!Next

\* The host's invariant holds always, for any popups, events and bounds.
THEOREM HostInvariantHolds == PartsSpec => []HostInv
<1>1. PartsInit => HostInv
  <2>1. Ui!Init => AnswersReachTheAsker /\ Frozen(client, threw)
    BY DEF Ui!Init, Ui!Nothing, AnswersReachTheAsker, Ui!AnswersReachTheAsker, Frozen
  <2> QED BY <2>1, UiBegins DEF PartsInit, HostInv
<1>2. HostInv /\ [PartsNext]_<<part, client, lua, ui, draw, dict>> => HostInv'
  <2> SUFFICES ASSUME HostInv, [PartsNext]_<<part, client, lua, ui, draw, dict>> PROVE HostInv'
    OBVIOUS
  <2>1. CASE Ui!Next BY <2>1, UiSteps, FrozenSteps DEF HostInv
  <2>2. CASE UNCHANGED <<client, ui>>
    <3>1. SameWindows /\ UNCHANGED <<client, buttons, timers, events, heard, threw>>
      BY <2>2 DEF ui, SameWindows
    <3>2. UiInv' BY <3>1, SameWindowsKeeps DEF HostInv, UiInv
    <3>3. AnswersReachTheAsker'
      BY <3>1 DEF HostInv, SameWindows, AnswersReachTheAsker, Ui!AnswersReachTheAsker
    <3> QED BY <3>1, <3>2, <3>3 DEF HostInv
  <2> QED BY <2>1, <2>2, PartsSteps
<1> QED BY <1>1, <1>2, PTL DEF PartsSpec

\* On the page nothing but options outlives its game, however games are begun, fail
\* to load, ask and hide.
THEOREM PageIsTheGames == PartsSpec => []PageBelongsToGame
<1>1. HostInv => PageBelongsToGame
  <2> SUFFICES ASSUME HostInv, client = "browser", uiGame \notin gone
               PROVE  /\ \A s \in {buttons, timers} : \A i \in DOMAIN s : s[i] = uiGame
                      /\ \A e \in EvtIds : events[e] \in {0, uiGame}
                      /\ \A w \in Ui!Visible : windows[w].game = uiGame
    BY DEF PageBelongsToGame, Ui!PageBelongsToGame
  <2>1. /\ AnySeq(buttons) /\ AnySeq(timers) /\ \A e \in EvtIds : events[e] \in {0, uiGame}
        /\ \A i \in 1 .. Len(buttons) : buttons[i] = uiGame
        /\ \A i \in 1 .. Len(timers) : timers[i] = uiGame
    BY DEF HostInv, UiInv, ThingsInv
  <2>2. \A s \in {buttons, timers} : \A i \in DOMAIN s : s[i] = uiGame BY <2>1, SeqFacts
  <2>3. \A w \in Ui!Visible : windows[w].game = uiGame
    BY UiShapes DEF HostInv, UiInv, WindowsInv, Ui!Visible
  <2> QED BY <2>1, <2>2, <2>3
<1> QED BY <1>1, HostInvariantHolds, PTL

\* The game that showed a popup hears of its buttons, with the ids it gave them and what
\* every dropdown shows, for any popups and however the games were changed.
THEOREM AnswersAreHeard == PartsSpec => []AnswersReachTheAsker
<1>1. HostInv => AnswersReachTheAsker BY DEF HostInv
<1> QED BY <1>1, HostInvariantHolds, PTL

\* The desktop's list of games goes through the null pointer only when it was opened
\* twice, whatever popups were shown and hidden between.
THEOREM SelectionIsSafe == PartsSpec => []OneSelectionIsSafe
<1>1. HostInv => OneSelectionIsSafe
  BY UiShapes DEF HostInv, UiInv, OneSelectionIsSafe, Ui!OneSelectionIsSafe, TwoSelections
<1> QED BY <1>1, HostInvariantHolds, PTL

\* What the last popup of a script shows is what the script asked for, word for word,
\* unless on the page one of its texts has a backslash or a control character other than
\* the newline; and nothing else freezes the page: for any popups, with any texts that
\* fit.
THEOREM WordsAreShown == PartsSpec => []PopupsShowWhatWasAsked
<1>1. HostInv => PopupsShowWhatWasAsked
  <2> SUFFICES ASSUME HostInv PROVE PopupsShowWhatWasAsked
    OBVIOUS
  <2>1. \A i \in DOMAIN threw : client = "browser" /\ Ui!Awkward(threw[i])
    BY DEF HostInv, Frozen
  <2>2. ASSUME NEW w \in Ui!Visible, windows[w].kind = "script"
        PROVE  ShowsWords(client, windows[w].title, windows[w].items, windows[w].asked)
    <3>1. w \in 1 .. Len(windows)
      BY UiShapes DEF HostInv, Ui!Visible
    <3>2. ShowsAsked(client, windows[w])
      BY <3>1 DEF HostInv, UiInv, WindowsInv
    <3>3. QED
      BY <2>2, <3>2 DEF ShowsAsked
  <2>3. QED
    BY <2>1, <2>2 DEF PopupsShowWhatWasAsked, Ui!PopupsShowWhatWasAsked, ShowsWords
<1>2. QED
  BY <1>1, HostInvariantHolds, PTL

-----------------------------------------------------------------------------
(* Drawing: what a call becomes *)

\* Numbers of a script become ints, sizes naturals.
LEMMA IntsAre ==
  /\ \A v \in Int : Draw!lua_get_int_or_float(v) \in Int
  /\ \A v \in Nat : Draw!lua_get_int_or_float(v) \in Nat /\ Draw!lua_tointeger(v) \in Nat
  BY DEF Draw!lua_get_int_or_float, Draw!lua_tointeger

\* What the bindings carry is a call of the same kind.
Carries(kind, places, sizes, looks) ==
  \A c \in Draw!CallsOf(kind, places, sizes, looks) :
    Draw!Carried(c) \in Draw!CallsOf(kind, places, sizes, looks)

\* So do sequences of them.
LEMMA IntsOf ==
  ASSUME NEW n \in Nat, NEW f
  PROVE  /\ f \in [1 .. n -> Int] => Draw!Ints(f) \in [1 .. n -> Int]
         /\ f \in [1 .. n -> Nat] => Draw!Ints(f) \in [1 .. n -> Nat]
<1>1. ASSUME f \in [1 .. n -> Int] PROVE Draw!Ints(f) \in [1 .. n -> Int]
  BY <1>1, IntsAre DEF Draw!Ints
<1>2. ASSUME f \in [1 .. n -> Nat] PROVE Draw!Ints(f) \in [1 .. n -> Nat]
  BY <1>2, IntsAre DEF Draw!Ints
<1> QED BY <1>1, <1>2

\* This is so of each kind.
LEMMA CarriedIs ==
  /\ \A places, sizes \in Nat : \A kind \in {"graphic", "line", "rect", "triangle", "circle"} :
       \A looks : Carries(kind, places, sizes, looks)
  /\ \A looks : Carries("text", 2, 1, looks)
<1>1. ASSUME NEW places \in Nat, NEW sizes \in Nat, NEW looks,
             NEW kind \in {"graphic", "line", "rect", "triangle", "circle"},
             NEW c \in Draw!CallsOf(kind, places, sizes, looks)
      PROVE  Draw!Carried(c) \in Draw!CallsOf(kind, places, sizes, looks)
  <2>1. c.kind = kind /\ c.at \in [1 .. places -> Int] /\ c.dim \in [1 .. sizes -> Nat]
    BY DEF Draw!CallsOf
  <2>2. Draw!Ints(c.at) \in [1 .. places -> Int] /\ Draw!Ints(c.dim) \in [1 .. sizes -> Nat]
    BY <2>1, IntsOf
  <2>3. Draw!Carried(c) = [c EXCEPT !.at = Draw!Ints(@), !.dim = Draw!Ints(@)]
    BY <2>1 DEF Draw!Carried, Draw!lua_draw_graphic, Draw!lua_draw_line, Draw!lua_draw_shape
  <2>4. QED
    BY <2>2, <2>3 DEF Draw!CallsOf
<1>2. ASSUME NEW looks, NEW c \in Draw!CallsOf("text", 2, 1, looks)
      PROVE  Draw!Carried(c) \in Draw!CallsOf("text", 2, 1, looks)
  <2>1. c.kind = "text" /\ c.at \in [1 .. 2 -> Int] /\ c.dim \in [1 .. 1 -> Nat]
    BY DEF Draw!CallsOf
  <2>2. PICK n \in Nat : n = Draw!lua_tointeger(c.dim[1])
    BY <2>1, IntsAre
  <2>3. Draw!Ints(c.at) \in [1 .. 2 -> Int]
    BY <2>1, IntsOf
  <2>4. <<n>> \in [1 .. 1 -> Nat]
    OBVIOUS
  <2>5. Draw!Carried(c) = [c EXCEPT !.at = Draw!Ints(@), !.dim = <<n>>]
    BY <2>1, <2>2 DEF Draw!Carried, Draw!lua_draw_text
  <2>6. QED
    BY <2>3, <2>4, <2>5 DEF Draw!CallsOf
<1>3. QED
  BY <1>1, <1>2 DEF Carries

\* A coordinate is near itself.
LEMMA NearSelf == \A x \in Int : Draw!Near(x, x)
  BY DEF Draw!Near

\* The places of half pixels are ints.
LEMMA Doubled ==
  ASSUME NEW n \in Nat, NEW f \in [1 .. n -> Int]
  PROVE  Draw!Double(f) \in [1 .. n -> Int]
  BY DEF Draw!Double

\* What the page shows for the ints d, of n coordinates, is p.
IsPage(p, d, kind, n) ==
  /\ p.kind = kind /\ p.look = d.look /\ p.colour = 17 * d.colour.digit
  /\ kind # "graphic" => p.at = Draw!Double(d.at) /\ p.at \in [1 .. n -> Int]
  /\ kind = "graphic" => p.at = <<2 * d.at[1] - d.dim[2], 2 * d.at[2] - d.dim[1]>>
  /\ kind \notin {"circle", "text"} => p.dim = d.dim
  /\ kind = "circle" => p.dim = d.dim \/ p.dim = <<d.dim[1], 1>>
  /\ kind = "text" => p.dim = <<4 * d.dim[1]>>

\* This is what PageShape tells.
LEMMA PageIs ==
  ASSUME NEW kind, NEW n \in Nat, NEW k \in Nat, NEW looks, NEW d \in Draw!CallsOf(kind, n, k, looks)
  PROVE  IsPage(Draw!PageShape(d), d, kind, n)
<1>1. d.kind = kind /\ d.at \in [1 .. n -> Int]
  BY DEF Draw!CallsOf
<1>2. QED
  BY <1>1, Doubled DEF Draw!PageShape, Draw!Channel, IsPage

\* The desktop's colour is the page's, but for colours of three digits.
LEMMA ColourIs ==
  ASSUME NEW kind, NEW n \in Nat, NEW k \in Nat, NEW looks, NEW d \in Draw!CallsOf(kind, n, k, looks)
  PROVE  Draw!colour_str_to_wxColour(d.colour) = 17 * d.colour.digit \/ d.colour.length = 3
<1>1. PICK g \in 0 .. 15 : g = d.colour.digit
  BY DEF Draw!CallsOf
<1>2. 16 * g + g = 17 * g
  OBVIOUS
<1>3. QED
  BY <1>1, <1>2 DEF Draw!colour_str_to_wxColour

\* What is on the screen, but for the desktop's texts, agrees with the page's, field by
\* field.
LEMMA AlikeIs ==
  ASSUME NEW s, NEW d, NEW p, p = Draw!PageShape(d), s.kind = p.kind,
         ~(d.kind = "text" /\ client = "desktop"),
         \A i \in DOMAIN p.at : Draw!Near(s.at[i], p.at[i]),
         Draw!SameSize(s, p, d), Draw!SameLook(s, p, d)
  PROVE  Draw!SamePicture(s, d)
  BY DEF Draw!SamePicture, Draw!SamePlace

\* Lines and triangles.
LEMMA PlainAlike ==
  ASSUME NEW kind \in {"line", "triangle"}, NEW n \in Nat, NEW k \in Nat, NEW looks,
         NEW d \in Draw!CallsOf(kind, n, k, looks), client = "desktop"
  PROVE  Draw!SamePicture(Draw!DesktopShape(d), d)
<1>1. d.kind = kind /\ d.at \in [1 .. n -> Int]
  BY DEF Draw!CallsOf
<1>2. PICK s, p : s = Draw!DesktopShape(d) /\ p = Draw!PageShape(d)
  OBVIOUS
<1>3. s = [d EXCEPT !.at = Draw!Double(@), !.colour = Draw!colour_str_to_wxColour(@)]
  BY <1>1, <1>2 DEF Draw!DesktopShape, Draw!wx_draw_line, Draw!wx_draw_triangle
<1>4. /\ s.kind = kind /\ s.at = Draw!Double(d.at) /\ s.dim = d.dim /\ s.look = d.look
      /\ s.colour = Draw!colour_str_to_wxColour(d.colour)
  BY <1>1, <1>3 DEF Draw!CallsOf
<1>5. /\ p.kind = kind /\ p.look = d.look /\ p.colour = 17 * d.colour.digit
      /\ p.at = Draw!Double(d.at) /\ p.at \in [1 .. n -> Int] /\ p.dim = d.dim
  <2>1. IsPage(p, d, kind, n)
    BY <1>2, PageIs
  <2>2. QED
    BY <2>1 DEF IsPage
<1>6. \A i \in DOMAIN p.at : Draw!Near(s.at[i], p.at[i])
  BY <1>4, <1>5, NearSelf
<1>7. s.colour = p.colour \/ d.colour.length = 3
  BY <1>4, <1>5, ColourIs
<1>8. Draw!SameSize(s, p, d) /\ Draw!SameLook(s, p, d)
  BY <1>1, <1>4, <1>5, <1>7 DEF Draw!SameSize, Draw!SameLook
<1>9. QED
  BY <1>1, <1>2, <1>4, <1>5, <1>6, <1>8, AlikeIs

\* Texts: the heights cancel out.
LEMMA TextPlaces ==
  ASSUME NEW y \in Int, NEW x \in Int, NEW height \in Nat, NEW ascent \in Nat
  PROVE  /\ 2 * (y - height + ascent) + 2 * (height - ascent) = 2 * y
         /\ Draw!Near(2 * x - 2 * x, 0)
  BY DEF Draw!Near

\* So the desktop's texts are where SamePlace says.
LEMMA TextAlike ==
  ASSUME NEW d \in Draw!CallsOf("text", 2, 1, {"left", "centre", "right"}), client = "desktop"
  PROVE  Draw!SamePicture(Draw!DesktopShape(d), d)
<1>1. /\ d.kind = "text" /\ d.at \in [1 .. 2 -> Int] /\ d.look \in {"left", "centre", "right"}
      /\ d.measured \in Draw!Measures
  BY DEF Draw!CallsOf
<1>2. PICK s, p : s = Draw!DesktopShape(d) /\ p = Draw!PageShape(d)
  OBVIOUS
<1>3. PICK t \in Draw!Measures : t = d.measured
  BY <1>1
<1>4. PICK y \in Int, x \in Int : y = d.at[1] /\ x = d.at[2]
  BY <1>1
<1>5. PICK left \in Int : left = IF d.look = "centre" THEN x - (t.bytes * t.average) \div 2 ELSE x
  <2>1. PICK m \in Nat : m = t.bytes * t.average
    BY <1>3 DEF Draw!Measures
  <2>2. m \div 2 \in Int
    OBVIOUS
  <2> QED
    BY <2>1, <2>2
<1>6. PICK box : box = <<2 * (y - t.height + t.ascent),
                        IF d.look = "centre" THEN 2 * left + t.width ELSE 2 * left>>
  OBVIOUS
<1>7. s = [d EXCEPT !.at = box, !.dim = <<4 * @[1]>>, !.look = IF @ = "centre" THEN @ ELSE "left",
                    !.colour = Draw!colour_str_to_wxColour(@)]
  BY <1>1, <1>2, <1>3, <1>4, <1>5, <1>6 DEF Draw!DesktopShape, Draw!wx_draw_text
<1>8. /\ s.kind = "text" /\ s.at = box /\ s.dim = <<4 * d.dim[1]>>
      /\ s.look = IF d.look = "centre" THEN d.look ELSE "left"
      /\ s.colour = Draw!colour_str_to_wxColour(d.colour)
  BY <1>1, <1>7 DEF Draw!CallsOf
<1>9. /\ p.kind = "text" /\ p.look = d.look /\ p.colour = 17 * d.colour.digit
      /\ p.at = Draw!Double(d.at) /\ p.dim = <<4 * d.dim[1]>>
  <2>1. IsPage(p, d, "text", 2)
    BY <1>2, PageIs
  <2>2. QED
    BY <2>1 DEF IsPage
<1>10. p.at[1] = 2 * y /\ p.at[2] = 2 * x
  BY <1>1, <1>4, <1>9 DEF Draw!Double
<1>11. Draw!SamePlace(s, p, d)
  <2>1. s.at[1] = 2 * (y - t.height + t.ascent)
    BY <1>6, <1>8
  <2>2. s.at[2] = IF d.look = "centre" THEN 2 * left + t.width ELSE 2 * left
    BY <1>6, <1>8
  <2>3. s.at[1] + 2 * (t.height - t.ascent) = p.at[1]
    BY <1>3, <1>10, <2>1, TextPlaces DEF Draw!Measures
  <2>4. Draw!Near(s.at[2] - p.at[2], IF d.look = "centre" THEN t.width - t.bytes * t.average ELSE 0)
    <3>1. CASE d.look = "centre"
      <4>1. PICK m \in Nat, w \in Nat : m = t.bytes * t.average /\ w = t.width
        BY <1>3 DEF Draw!Measures
      <4>2. s.at[2] = 2 * (x - m \div 2) + w
        BY <1>5, <2>2, <3>1, <4>1
      <4>3. s.at[2] - p.at[2] = 2 * (x - m \div 2) + w - 2 * x
        BY <1>10, <4>2
      <4>4. PICK a, b : a = s.at[2] - p.at[2] /\ b = w - m
        OBVIOUS
      <4>5. Draw!Near(2 * (x - m \div 2) + w - 2 * x, w - m)
        BY DEF Draw!Near
      <4>6. Draw!Near(a, b)
        BY <4>3, <4>4, <4>5
      <4>7. (IF d.look = "centre" THEN t.width - t.bytes * t.average ELSE 0) = b
        BY <3>1, <4>1, <4>4
      <4> QED
        BY <4>4, <4>6, <4>7
    <3>2. CASE d.look # "centre"
      BY <1>3, <1>5, <1>10, <2>2, <3>2, TextPlaces DEF Draw!Measures
    <3> QED
      BY <3>1, <3>2
  <2> QED
    BY <1>1, <1>3, <2>3, <2>4 DEF Draw!SamePlace
<1>12. s.colour = p.colour \/ d.colour.length = 3
  BY <1>8, <1>9, ColourIs
<1>13. Draw!SameSize(s, p, d) /\ Draw!SameLook(s, p, d)
  BY <1>1, <1>8, <1>9, <1>12 DEF Draw!SameSize, Draw!SameLook
<1> QED
  BY <1>2, <1>8, <1>9, <1>11, <1>13 DEF Draw!SamePicture

\* Circles.
LEMMA CircleAlike ==
  ASSUME NEW d \in Draw!CallsOf("circle", 2, 2, {"plain"}), client = "desktop"
  PROVE  Draw!SamePicture(Draw!DesktopShape(d), d)
<1>1. d.kind = "circle" /\ d.at \in [1 .. 2 -> Int]
  BY DEF Draw!CallsOf
<1>2. PICK s, p : s = Draw!DesktopShape(d) /\ p = Draw!PageShape(d)
  OBVIOUS
<1>3. s = [d EXCEPT !.at = Draw!Double(@), !.dim = <<@[1], 1>>,
                    !.colour = Draw!colour_str_to_wxColour(@)]
  BY <1>1, <1>2 DEF Draw!DesktopShape, Draw!wx_draw_circle
<1>4. /\ s.kind = "circle" /\ s.at = Draw!Double(d.at) /\ s.dim = <<d.dim[1], 1>> /\ s.look = d.look
      /\ s.colour = Draw!colour_str_to_wxColour(d.colour)
  BY <1>1, <1>3 DEF Draw!CallsOf
<1>5. /\ p.kind = "circle" /\ p.look = d.look /\ p.colour = 17 * d.colour.digit
      /\ p.at = Draw!Double(d.at) /\ p.at \in [1 .. 2 -> Int] /\ p.dim[1] = d.dim[1]
  <2>1. IsPage(p, d, "circle", 2)
    BY <1>2, PageIs
  <2>2. QED
    BY <2>1 DEF IsPage
<1>6. \A i \in DOMAIN p.at : Draw!Near(s.at[i], p.at[i])
  BY <1>4, <1>5, NearSelf
<1>7. s.colour = p.colour \/ d.colour.length = 3
  BY <1>4, <1>5, ColourIs
<1>8. s.dim[1] = p.dim[1]
  BY <1>4, <1>5
<1>9. Draw!SameSize(s, p, d) /\ Draw!SameLook(s, p, d)
  BY <1>1, <1>4, <1>5, <1>7, <1>8 DEF Draw!SameSize, Draw!SameLook
<1>10. QED
  BY <1>1, <1>2, <1>4, <1>5, <1>6, <1>9, AlikeIs

\* Rectangles: the desktop has their corner and size.
LEMMA RectAlike ==
  ASSUME NEW d \in Draw!CallsOf("rect", 4, 1, {"plain"}), client = "desktop"
  PROVE  Draw!SamePicture(Draw!DesktopShape(d), d)
<1>1. d.kind = "rect" /\ d.at \in [1 .. 4 -> Int]
  BY DEF Draw!CallsOf
<1>2. PICK s, p : s = Draw!DesktopShape(d) /\ p = Draw!PageShape(d)
  OBVIOUS
<1>3. PICK a, b, x, y : a = d.at[1] /\ b = d.at[2] /\ x = d.at[3] /\ y = d.at[4]
  OBVIOUS
<1>4. a \in Int /\ b \in Int /\ x \in Int /\ y \in Int
  BY <1>1, <1>3
<1>5. a + (x - a) = x /\ b + (y - b) = y
  BY <1>4
<1>6. d.at = <<a, b, x, y>>
  BY <1>1, <1>3
<1>7. s = [d EXCEPT !.at = Draw!Double(@), !.colour = Draw!colour_str_to_wxColour(@)]
  <2>1. Draw!wx_draw_rect(d) = [d EXCEPT !.at = Draw!Double(<<a, b, a + (x - a), b + (y - b)>>)]
    BY <1>3 DEF Draw!wx_draw_rect
  <2>2. Draw!wx_draw_rect(d) = [d EXCEPT !.at = Draw!Double(@)]
    BY <2>1, <1>5, <1>6
  <2>3. QED
    BY <1>1, <1>2, <2>2 DEF Draw!DesktopShape
<1>8. /\ s.kind = "rect" /\ s.at = Draw!Double(d.at) /\ s.dim = d.dim /\ s.look = d.look
      /\ s.colour = Draw!colour_str_to_wxColour(d.colour)
  BY <1>1, <1>7 DEF Draw!CallsOf
<1>9. /\ p.kind = "rect" /\ p.look = d.look /\ p.colour = 17 * d.colour.digit
      /\ p.at = Draw!Double(d.at) /\ p.at \in [1 .. 4 -> Int] /\ p.dim = d.dim
  <2>1. IsPage(p, d, "rect", 4)
    BY <1>2, PageIs
  <2>2. QED
    BY <2>1 DEF IsPage
<1>10. \A i \in DOMAIN p.at : Draw!Near(s.at[i], p.at[i])
  BY <1>8, <1>9, NearSelf
<1>11. s.colour = p.colour \/ d.colour.length = 3
  BY <1>8, <1>9, ColourIs
<1>12. Draw!SameSize(s, p, d) /\ Draw!SameLook(s, p, d)
  BY <1>1, <1>8, <1>9, <1>11 DEF Draw!SameSize, Draw!SameLook
<1>13. QED
  BY <1>1, <1>2, <1>8, <1>9, <1>10, <1>12, AlikeIs

\* Half a size, rounded, is the half to half a pixel.
LEMMA HalfIsNear == \A x \in Int : \A h \in Nat : Draw!Near(2 * (x - h \div 2), 2 * x - h)
  BY DEF Draw!Near

\* Graphics: half of an odd size is a whole number on the desktop and on Android.
LEMMA GraphicAlike ==
  ASSUME NEW looks, NEW d \in Draw!CallsOf("graphic", 2, 2, looks), client = "desktop"
  PROVE  Draw!SamePicture(Draw!DesktopShape(d), d)
<1>1. d.kind = "graphic" /\ d.at \in [1 .. 2 -> Int] /\ d.dim \in [1 .. 2 -> Nat]
  BY DEF Draw!CallsOf
<1>2. PICK s, p : s = Draw!DesktopShape(d) /\ p = Draw!PageShape(d)
  OBVIOUS
<1>3. PICK y, x, h, w : y = d.at[1] /\ x = d.at[2] /\ w = d.dim[1] /\ h = d.dim[2]
  OBVIOUS
<1>4. y \in Int /\ x \in Int /\ h \in Nat /\ w \in Nat
  BY <1>1, <1>3
<1>5. d.dim = <<w, h>>
  BY <1>1, <1>3
<1>6. PICK v : v = [d EXCEPT !.at = <<2 * (y - h \div 2), 2 * (x - w \div 2)>>, !.dim = <<w, h>>, !.look = "plain"]
  OBVIOUS
<1>7. Draw!wx_draw_graphic(d) = v
  BY <1>3, <1>6 DEF Draw!wx_draw_graphic, Draw!DrawGraphicDrawable
<1>8. s = [v EXCEPT !.colour = Draw!colour_str_to_wxColour(@)]
  BY <1>1, <1>2, <1>7 DEF Draw!DesktopShape
<1>9. /\ s.kind = "graphic" /\ s.at = <<2 * (y - h \div 2), 2 * (x - w \div 2)>> /\ s.dim = d.dim
      /\ s.colour = Draw!colour_str_to_wxColour(d.colour)
  BY <1>1, <1>5, <1>6, <1>8 DEF Draw!CallsOf
<1>10. /\ p.kind = "graphic" /\ p.look = d.look /\ p.colour = 17 * d.colour.digit
       /\ p.at = <<2 * y - h, 2 * x - w>> /\ p.dim = d.dim
  <2>1. IsPage(p, d, "graphic", 2)
    BY <1>2, PageIs
  <2>2. QED
    BY <1>3, <2>1 DEF IsPage
<1>11. Draw!Near(2 * (y - h \div 2), 2 * y - h) /\ Draw!Near(2 * (x - w \div 2), 2 * x - w)
  BY <1>4, HalfIsNear
<1>12. \A i \in DOMAIN p.at : Draw!Near(s.at[i], p.at[i])
  BY <1>9, <1>10, <1>11
<1>13. s.colour = p.colour \/ d.colour.length = 3
  BY <1>9, <1>10, ColourIs
<1>14. Draw!SameSize(s, p, d) /\ Draw!SameLook(s, p, d)
  BY <1>1, <1>9, <1>10, <1>13 DEF Draw!SameSize, Draw!SameLook
<1>15. QED
  BY <1>1, <1>2, <1>9, <1>10, <1>12, <1>14, AlikeIs

\* The page's coordinates are whole numbers of half pixels.
LEMMA PlacesAreInts ==
  ASSUME NEW kind, NEW n \in Nat, NEW k \in Nat, NEW looks, NEW d \in Draw!CallsOf(kind, n, k, looks),
         kind = "graphic" => n = 2 /\ k = 2, NEW p, p = Draw!PageShape(d)
  PROVE  \A i \in DOMAIN p.at : p.at[i] \in Int
<1>1. d.kind = kind /\ d.at \in [1 .. n -> Int] /\ d.dim \in [1 .. k -> Nat]
  BY DEF Draw!CallsOf
<1>2. IsPage(p, d, kind, n)
  BY PageIs
<1>3. CASE kind # "graphic"
  BY <1>2, <1>3 DEF IsPage
<1>4. CASE kind = "graphic"
  <2>1. PICK y, x, h, w : y = d.at[1] /\ x = d.at[2] /\ w = d.dim[1] /\ h = d.dim[2]
    OBVIOUS
  <2>2. y \in Int /\ x \in Int /\ h \in Nat /\ w \in Nat
    BY <1>1, <1>4, <2>1
  <2>3. p.at = <<2 * y - h, 2 * x - w>>
    BY <1>2, <1>4, <2>1 DEF IsPage
  <2>4. 2 * y - h \in Int /\ 2 * x - w \in Int
    BY <2>2
  <2>5. QED
    BY <2>3, <2>4
<1>5. QED
  BY <1>3, <1>4

\* The page agrees with itself.
LEMMA PageAlike ==
  ASSUME NEW kind, NEW n \in Nat, NEW k \in Nat, NEW looks, NEW d \in Draw!CallsOf(kind, n, k, looks),
         kind = "graphic" => n = 2 /\ k = 2, client = "browser"
  PROVE  Draw!SamePicture(Draw!PageShape(d), d)
<1>1. PICK p : p = Draw!PageShape(d)
  OBVIOUS
<1>2. \A i \in DOMAIN p.at : Draw!Near(p.at[i], p.at[i])
  BY <1>1, PlacesAreInts, NearSelf
<1>3. Draw!SameSize(p, p, d) /\ Draw!SameLook(p, p, d)
  BY DEF Draw!SameSize, Draw!SameLook
<1>4. QED
  BY <1>1, <1>2, <1>3, AlikeIs

\* Android's shapes are the page's, but for what it leaves out.
LEMMA AndroidAlike ==
  ASSUME NEW kind, NEW n \in Nat, NEW k \in Nat, NEW looks, NEW d \in Draw!CallsOf(kind, n, k, looks),
         kind = "graphic" => n = 2 /\ k = 2, kind = "text" => k = 1, client = "android"
  PROVE  Draw!SamePicture(Draw!AndroidShape(d), d)
<1>1. d.kind = kind /\ d.at \in [1 .. n -> Int] /\ d.dim \in [1 .. k -> Nat]
  BY DEF Draw!CallsOf
<1>2. PICK s, p : s = Draw!AndroidShape(d) /\ p = Draw!PageShape(d)
  OBVIOUS
<1>3. /\ s.kind = kind
      /\ kind # "graphic" => s.look = d.look /\ s.at = Draw!Double(d.at)
      /\ kind = "graphic" =>
           s.at = <<2 * (d.at[1] - d.dim[2] \div 2), 2 * (d.at[2] - d.dim[1] \div 2)>>
      /\ s.colour = Draw!colour_str_to_wxColour(d.colour)
  BY <1>1, <1>2 DEF Draw!AndroidShape
<1>4. /\ kind \notin {"line", "circle", "text"} => s.dim = d.dim
      /\ kind = "circle" => s.dim = <<d.dim[1], 0>>
      /\ kind = "text" => s.dim = <<3 * d.dim[1]>>
  BY <1>1, <1>2 DEF Draw!AndroidShape
<1>5. IsPage(p, d, kind, n)
  BY <1>2, PageIs
<1>6. p.kind = kind /\ p.look = d.look /\ p.colour = 17 * d.colour.digit
  BY <1>5 DEF IsPage
<1>7. \A i \in DOMAIN p.at : Draw!Near(s.at[i], p.at[i])
  <2>1. CASE kind # "graphic"
    <3>1. \A i \in DOMAIN p.at : p.at[i] \in Int
      BY <1>2, PlacesAreInts
    <3>2. s.at = p.at
      BY <1>3, <1>5, <2>1 DEF IsPage
    <3> QED
      BY <3>1, <3>2, NearSelf
  <2>2. CASE kind = "graphic"
    <3>1. PICK y, x, h, w : y = d.at[1] /\ x = d.at[2] /\ w = d.dim[1] /\ h = d.dim[2]
      OBVIOUS
    <3>2. y \in Int /\ x \in Int /\ h \in Nat /\ w \in Nat
      BY <1>1, <2>2, <3>1
    <3>3. p.at = <<2 * y - h, 2 * x - w>>
      BY <1>5, <2>2, <3>1 DEF IsPage
    <3>4. s.at = <<2 * (y - h \div 2), 2 * (x - w \div 2)>>
      BY <1>3, <2>2, <3>1
    <3>5. Draw!Near(2 * (y - h \div 2), 2 * y - h) /\ Draw!Near(2 * (x - w \div 2), 2 * x - w)
      BY <3>2, HalfIsNear
    <3> QED
      BY <3>3, <3>4, <3>5
  <2> QED
    BY <2>1, <2>2
<1>8. Draw!SameSize(s, p, d)
  <2>1. kind \in {"graphic", "rect", "triangle"} => s.dim = p.dim
    BY <1>4, <1>5 DEF IsPage
  <2>2. kind = "circle" => s.dim[1] = p.dim[1]
    BY <1>4, <1>5 DEF IsPage
  <2>3. kind = "text" => 4 * s.dim[1] = 3 * p.dim[1]
    <3> SUFFICES ASSUME kind = "text" PROVE 4 * s.dim[1] = 3 * p.dim[1]
      OBVIOUS
    <3>1. PICK z \in Nat : z = d.dim[1]
      BY <1>1
    <3>2. s.dim[1] = 3 * z /\ p.dim[1] = 4 * z
      BY <1>4, <1>5, <3>1 DEF IsPage
    <3> QED
      BY <3>2
  <2> QED
    BY <1>1, <2>1, <2>2, <2>3 DEF Draw!SameSize
<1>9. Draw!SameLook(s, p, d)
  <2>1. s.colour = p.colour \/ d.colour.length = 3
    BY <1>3, <1>6, ColourIs
  <2> QED
    BY <1>1, <1>3, <1>6, <2>1 DEF Draw!SameLook
<1>10. QED
  BY <1>2, <1>3, <1>6, <1>7, <1>8, <1>9, AlikeIs

\* Whatever may be drawn is drawn alike by every client that draws it.
LEMMA CallsAlike ==
  ASSUME NEW c \in Calls, client \in Clients
  PROVE  Draw!SamePicture(Draw!Shape(c), Draw!Carried(c))
<1>1. PICK d : d = Draw!Carried(c)
  OBVIOUS
<1> DEFINE Drawable(e) ==
      \/ e \in Draw!CallsOf("graphic", 2, 2, {"plain", "turned", "flipped"})
      \/ e \in Draw!CallsOf("line", 4, 1, {"plain"})
      \/ e \in Draw!CallsOf("text", 2, 1, {"left", "centre", "right"})
      \/ e \in Draw!CallsOf("rect", 4, 1, {"plain"})
      \/ e \in Draw!CallsOf("triangle", 6, 1, {"plain"})
      \/ e \in Draw!CallsOf("circle", 2, 2, {"plain"})
<1>2. Drawable(c)
  BY PartsAssumption DEF Draw!DrawingAssumption
<1>3. Drawable(d)
  BY <1>1, <1>2, CarriedIs DEF Carries
<1>4. client \in {"desktop", "browser", "android"}
  BY PartsAssumption DEF Draw!DrawingAssumption
<1>5. Draw!SamePicture(Draw!Shape(c), d)
  <2>1. CASE client = "desktop"
    <3>1. Draw!Shape(c) = Draw!DesktopShape(d)
      BY <1>1, <2>1 DEF Draw!Shape
    <3>2. QED
      BY <1>3, <2>1, <3>1, PlainAlike, TextAlike, CircleAlike, RectAlike, GraphicAlike
  <2>2. CASE client = "android"
    <3>1. Draw!Shape(c) = Draw!AndroidShape(d)
      BY <1>1, <2>2 DEF Draw!Shape
    <3>2. QED
      BY <1>3, <2>2, <3>1, AndroidAlike
  <2>3. CASE client = "browser"
    <3>1. Draw!Shape(c) = Draw!PageShape(d)
      BY <1>1, <2>3 DEF Draw!Shape
    <3>2. ASSUME NEW kind, NEW n \in Nat, NEW k \in Nat, NEW looks, d \in Draw!CallsOf(kind, n, k, looks),
                 kind = "graphic" => n = 2 /\ k = 2
          PROVE  Draw!SamePicture(Draw!PageShape(d), d)
      BY <2>3, <3>2, PageAlike
    <3>3. QED
      BY <1>3, <3>1, <3>2
  <2>4. QED
    BY <1>4, <2>1, <2>2, <2>3
<1>6. QED
  BY <1>1, <1>5

-----------------------------------------------------------------------------
(* Drawing: what a client keeps *)

\* What a client keeps of the calls so far; only the desktop paints.
DrawInv ==
  /\ client \in Clients /\ drawCalls \in Seq(Calls) /\ drawable_queue \in Seq(Calls)
  /\ phase = "update" => client = "desktop"
  /\ client = "browser" => screen = Draw!Shapes(drawCalls)
  /\ client = "desktop" => drawable_queue = drawCalls
  /\ client = "android" => Draw!KeptInOrder(drawable_queue, drawCalls)

\* Nothing is kept of no calls.
LEMMA NothingKept == Draw!KeptInOrder(<<>>, <<>>) /\ Draw!Shapes(<<>>) = <<>>
<1>1. DOMAIN <<>> = {}
  OBVIOUS
<1>2. PICK place : place = [i \in {} |-> 0]
  OBVIOUS
<1>3. place \in [{} -> {}]
  BY <1>2
<1>4. Draw!KeptInOrder(<<>>, <<>>)
  BY <1>1, <1>3 DEF Draw!KeptInOrder
<1>5. Draw!Shapes(<<>>) = <<>>
  BY <1>1 DEF Draw!Shapes
<1>6. QED
  BY <1>4, <1>5

\* KeptInOrder, with the lengths and the places given.
KeptBy(place, q, cs, n, m) ==
  /\ place \in [1 .. n -> 1 .. m]
  /\ \A i \in 1 .. n : q[i] = cs[place[i]]
  /\ \A i, j \in 1 .. n : i < j => place[i] < place[j]
  /\ \A j \in 1 .. m : Draw!AndroidDraws(cs[j]) <=> \E i \in 1 .. n : place[i] = j

\* The two say the same.
LEMMA KeptIs ==
  ASSUME NEW q \in Seq(Calls), NEW cs \in Seq(Calls), NEW n, NEW m, n = Len(q), m = Len(cs)
  PROVE  Draw!KeptInOrder(q, cs) <=> \E place : KeptBy(place, q, cs, n, m)
<1>1. DOMAIN q = 1 .. n /\ DOMAIN cs = 1 .. m
  OBVIOUS
<1>2. ASSUME NEW place
      PROVE  KeptBy(place, q, cs, n, m) <=>
               /\ place \in [DOMAIN q -> DOMAIN cs]
               /\ \A i \in DOMAIN q : q[i] = cs[place[i]]
               /\ \A i, j \in DOMAIN q : i < j => place[i] < place[j]
               /\ \A j \in DOMAIN cs : Draw!AndroidDraws(cs[j]) <=> \E i \in DOMAIN q : place[i] = j
  BY <1>1, Zenon DEF KeptBy
<1>3. QED
  BY <1>2, Zenon DEF Draw!KeptInOrder

\* One more call is kept behind the others, or by nobody.
LEMMA OneMoreKept ==
  ASSUME NEW q \in Seq(Calls), NEW cs \in Seq(Calls), NEW c \in Calls, Draw!KeptInOrder(q, cs),
         NEW r, r = IF Draw!AndroidDraws(c) THEN Append(q, c) ELSE q
  PROVE  Draw!KeptInOrder(r, Append(cs, c))
<1>1. PICK n \in Nat, m \in Nat : n = Len(q) /\ m = Len(cs)
  OBVIOUS
<1>2. PICK place : KeptBy(place, q, cs, n, m)
  BY <1>1, KeptIs
<1>3. PICK ds \in Seq(Calls) : ds = Append(cs, c)
  <2>1. Append(cs, c) \in Seq(Calls)
    OBVIOUS
  <2>2. QED
    BY <2>1, Zenon
<1>4. Len(ds) = m + 1 /\ ds[m + 1] = c /\ \A j \in 1 .. m : ds[j] = cs[j]
  BY <1>1, <1>3
<1>5. \A i : i \in 1 .. n + 1 <=> i \in 1 .. n \/ i = n + 1
  OBVIOUS
<1>6. CASE ~Draw!AndroidDraws(c)
  <2>1. ASSUME NEW j \in 1 .. m + 1
        PROVE  Draw!AndroidDraws(ds[j]) <=> \E i \in 1 .. n : place[i] = j
    <3>1. CASE j = m + 1
      <4>1. \A i \in 1 .. n : place[i] # m + 1
        BY <1>2 DEF KeptBy
      <4>2. QED
        BY <1>4, <1>6, <3>1, <4>1
    <3>2. CASE j \in 1 .. m
      BY <1>2, <1>4, <3>2 DEF KeptBy
    <3>3. QED
      BY <3>1, <3>2
  <2>2. place \in [1 .. n -> 1 .. m + 1] /\ \A i \in 1 .. n : q[i] = ds[place[i]]
    BY <1>2, <1>4 DEF KeptBy
  <2>3. KeptBy(place, q, ds, n, m + 1)
    BY <1>2, <2>1, <2>2 DEF KeptBy
  <2>4. Draw!KeptInOrder(q, ds)
    BY <1>1, <1>4, <2>3, KeptIs
  <2>5. QED
    BY <1>3, <1>6, <2>4
<1>7. CASE Draw!AndroidDraws(c)
  <2>1. PICK p : p = [i \in 1 .. n + 1 |-> IF i \in 1 .. n THEN place[i] ELSE m + 1]
    OBVIOUS
  <2>2. /\ p[n + 1] = m + 1 /\ \A i \in 1 .. n : p[i] = place[i] /\ p[i] \in 1 .. m
        /\ p \in [1 .. n + 1 -> 1 .. m + 1]
    BY <1>2, <2>1 DEF KeptBy
  <2>3. r \in Seq(Calls) /\ Len(r) = n + 1 /\ r[n + 1] = c /\ \A i \in 1 .. n : r[i] = q[i]
    BY <1>1, <1>7
  <2>4. \A i \in 1 .. n + 1 : r[i] = ds[p[i]]
    <3>1. ASSUME NEW i \in 1 .. n PROVE r[i] = ds[p[i]]
      BY <1>2, <1>4, <2>2, <2>3 DEF KeptBy
    <3>2. r[n + 1] = ds[p[n + 1]]
      BY <1>4, <2>2, <2>3
    <3>3. QED
      BY <1>5, <3>1, <3>2, Zenon
  <2>5. \A i, j \in 1 .. n + 1 : i < j => p[i] < p[j]
    <3> SUFFICES ASSUME NEW i \in 1 .. n + 1, NEW j \in 1 .. n + 1, i < j PROVE p[i] < p[j]
      OBVIOUS
    <3>1. i \in 1 .. n
      OBVIOUS
    <3>2. CASE j \in 1 .. n
      BY <1>2, <2>2, <3>1, <3>2 DEF KeptBy
    <3>3. CASE j = n + 1
      BY <2>2, <3>1, <3>3
    <3>4. QED
      BY <3>2, <3>3
  <2>6. ASSUME NEW j \in 1 .. m + 1
        PROVE  Draw!AndroidDraws(ds[j]) <=> \E i \in 1 .. n + 1 : p[i] = j
    <3>1. CASE j = m + 1
      BY <1>4, <1>7, <2>2, <3>1
    <3>2. CASE j \in 1 .. m
      <4>1. Draw!AndroidDraws(ds[j]) <=> \E i \in 1 .. n : place[i] = j
        BY <1>2, <1>4, <3>2 DEF KeptBy
      <4>2. (\E i \in 1 .. n : place[i] = j) <=> \E i \in 1 .. n + 1 : p[i] = j
        <5>1. \A i \in 1 .. n : p[i] = place[i]
          BY <2>2
        <5>2. p[n + 1] # j
          BY <2>2, <3>2
        <5>3. QED
          BY <1>5, <5>1, <5>2, Zenon
      <4>3. QED
        BY <4>1, <4>2
    <3>3. QED
      BY <3>1, <3>2
  <2>7. KeptBy(p, r, ds, n + 1, m + 1)
    BY <2>2, <2>4, <2>5, <2>6 DEF KeptBy
  <2>8. QED
    BY <1>3, <1>4, <2>3, <2>7, KeptIs
<1>8. QED
  BY <1>6, <1>7

\* The steps of the drawing keep the invariant.
LEMMA DrawSteps == DrawInv /\ Draw!Next => DrawInv'
<1> SUFFICES ASSUME DrawInv, Draw!Next PROVE DrawInv'
  OBVIOUS
<1>1. ASSUME NEW c \in Calls, Draw!Draw(c) PROVE DrawInv'
  <2>1. /\ drawCalls' = Append(drawCalls, c) /\ client' = client /\ phase' = phase
        /\ client = "browser" => screen' = Append(screen, Draw!Shape(c)) /\ drawable_queue' = drawable_queue
        /\ client # "browser" =>
             drawable_queue' = IF client = "android" /\ ~Draw!AndroidDraws(c) THEN drawable_queue
                               ELSE Append(drawable_queue, c)
    BY <1>1 DEF Draw!Draw
  <2>2. drawCalls' \in Seq(Calls) /\ drawable_queue' \in Seq(Calls)
    BY <2>1 DEF DrawInv
  <2>3. ASSUME client = "browser" PROVE screen' = Draw!Shapes(drawCalls)'
    <3>1. Draw!Shapes(Append(drawCalls, c)) = Append(Draw!Shapes(drawCalls), Draw!Shape(c))
      BY DEF DrawInv, Draw!Shapes
    <3>2. Draw!Shapes(drawCalls)' = Draw!Shapes(Append(drawCalls, c))
      BY <2>1 DEF Draw!Shapes, Draw!Shape
    <3>3. QED
      BY <2>1, <2>3, <3>1, <3>2 DEF DrawInv
  <2>4. ASSUME client = "android" PROVE Draw!KeptInOrder(drawable_queue', drawCalls')
    BY <2>1, <2>4, OneMoreKept DEF DrawInv
  <2>5. QED
    BY <2>1, <2>2, <2>3, <2>4 DEF DrawInv
<1>2. CASE Draw!lua_draw_clear
  <2>1. /\ drawCalls' = <<>> /\ drawable_queue' = <<>> /\ client' = client /\ phase' = phase
        /\ client = "browser" => screen' = <<>>
    BY <1>2 DEF Draw!lua_draw_clear, Draw!draw_clear
  <2>2. Draw!Shapes(drawCalls)' = <<>>
    BY <2>1 DEF Draw!Shapes
  <2>3. QED
    BY <2>1, <2>2, NothingKept DEF DrawInv
<1>3. CASE \/ \E why \in {"event", "message"} : Draw!HandlerBegins(why)
           \/ Draw!HandlerEnds \/ Draw!PaintBegins \/ Draw!OnPaint \/ Draw!lua_draw_refresh
  <2>1. /\ UNCHANGED <<client, drawCalls, drawable_queue>>
        /\ client = "browser" => screen' = screen
        /\ phase' = "update" => client = "desktop"
    BY <1>3 DEF DrawInv, Draw!HandlerBegins, Draw!HandlerEnds, Draw!PaintBegins, Draw!OnPaint,
                Draw!lua_draw_refresh
  <2>2. Draw!Shapes(drawCalls)' = Draw!Shapes(drawCalls)
    BY <2>1 DEF Draw!Shapes, Draw!Shape
  <2>3. QED
    BY <2>1, <2>2 DEF DrawInv
<1>4. QED
  BY <1>1, <1>2, <1>3 DEF Draw!Next

\* What a client keeps of a script's calls are these calls in their order, and it puts
\* each where, as large and as coloured as SamePicture says, for all calls, numbers,
\* places and measures of texts: where the page would, but above all for the desktop's
\* texts, which stand on their lower edge and are centred by their bytes.
THEOREM PicturesAgree == PartsSpec => []ScreenShowsTheCalls
<1>1. PartsInit => DrawInv
  <2>1. Draw!Init => DrawInv
    BY NothingKept DEF Draw!Init, DrawInv
  <2> QED BY <2>1 DEF PartsInit
<1>2. DrawInv /\ [PartsNext]_<<part, client, lua, ui, draw, dict>> => DrawInv'
  <2> SUFFICES ASSUME DrawInv, [PartsNext]_<<part, client, lua, ui, draw, dict>> PROVE DrawInv'
    OBVIOUS
  <2>1. CASE Draw!Next BY <2>1, DrawSteps
  <2>2. CASE UNCHANGED <<client, draw>>
    <3>1. UNCHANGED <<client, drawCalls, drawable_queue, screen, phase>> BY <2>2 DEF draw
    <3>2. Draw!Shapes(drawCalls)' = Draw!Shapes(drawCalls) BY <3>1 DEF Draw!Shapes, Draw!Shape
    <3> QED BY <3>1, <3>2 DEF DrawInv
  <2> QED BY <2>1, <2>2, PartsSteps
<1>3. DrawInv => ScreenShowsTheCalls
  <2> SUFFICES ASSUME DrawInv PROVE ScreenShowsTheCalls
    OBVIOUS
  <2>1. \A i \in DOMAIN drawCalls : drawCalls[i] \in Calls
    BY DEF DrawInv
  <2>2. \A i \in DOMAIN drawCalls :
         Draw!SamePicture(Draw!Shape(drawCalls[i]), Draw!Carried(drawCalls[i]))
    BY <2>1, CallsAlike DEF DrawInv
  <2> QED BY <2>2 DEF DrawInv, ScreenShowsTheCalls, Draw!ScreenShowsTheCalls
<1> QED BY <1>1, <1>2, <1>3, PTL DEF PartsSpec

-----------------------------------------------------------------------------
(* The dictionary: what is found and what is drawn *)

Frame == [words : Seq(Words), pos : Nat, zero : BOOLEAN]

\* The words of the frames ascend, from one to the next and from frame to frame.
InOrder(fs) ==
  \A i, j \in 1 .. Len(fs) : \A a \in DOMAIN fs[i].words : \A b \in DOMAIN fs[j].words :
    i < j \/ (i = j /\ a < b) => fs[i].words[a] < fs[j].words[b]

\* They are the first n lines of the file f.
AreLines(fs, f, n) ==
  /\ \A i \in 1 .. Len(fs) : \A a \in DOMAIN fs[i].words : \E k \in 1 .. n : f[k] = fs[i].words[a]
  /\ \A k \in 1 .. n : \E i \in 1 .. Len(fs) : \E a \in DOMAIN fs[i].words : f[k] = fs[i].words[a]

\* The frames fs after n lines of the file f: all are ended but the last, and none is
\* empty once there is a word.
Filled(fs, f, n) ==
  /\ fs \in Seq(Frame) /\ Len(fs) # 0 /\ (n = 0 => Len(fs) = 1)
  /\ \A i \in 1 .. Len(fs) : /\ i # Len(fs) => fs[i].zero
                             /\ fs[i].words = <<>> => n = 0 /\ fs[i].pos = 0
  /\ InOrder(fs) /\ AreLines(fs, f, n)

\* gs is fs with the word w behind all others.
Grown(fs, gs, w) ==
  LET p == Len(gs)
      q == Len(gs[p].words)
  IN /\ p # 0 /\ q # 0 /\ gs[p].words[q] = w /\ Len(fs) <= p
     /\ \A i \in 1 .. Len(gs) : \A a \in DOMAIN gs[i].words :
          \/ i = p /\ a = q
          \/ /\ i \in 1 .. Len(fs) /\ a \in DOMAIN fs[i].words
             /\ gs[i].words[a] = fs[i].words[a] /\ (i = p => a < q)
     /\ \A i \in 1 .. Len(fs) : \A a \in DOMAIN fs[i].words :
          a \in DOMAIN gs[i].words /\ gs[i].words[a] = fs[i].words[a]

\* The next line is above all words before it, and so the order stays.
LEMMA GrownIsFilled ==
  ASSUME NEW f \in Seq(Words), Dict!Sorted(f), NEW n \in Nat, NEW m \in 1 .. Len(f), m = n + 1,
         NEW fs \in Seq(Frame), NEW gs \in Seq(Frame), InOrder(fs), AreLines(fs, f, n),
         Grown(fs, gs, f[m])
  PROVE  InOrder(gs) /\ AreLines(gs, f, m)
<1>1. PICK p, q : p = Len(gs) /\ q = Len(gs[p].words)
  OBVIOUS
<1>2. /\ p \in Nat /\ p # 0 /\ gs[p] \in Frame /\ q \in 1 .. q /\ q \in Nat
      /\ gs[p].words[q] = f[m] /\ Len(fs) <= p /\ p \in 1 .. Len(gs) /\ q \in DOMAIN gs[p].words
  <2>1. p \in Nat /\ p # 0 /\ p \in 1 .. Len(gs)
    BY <1>1 DEF Grown
  <2>2. gs[p] \in Frame
    BY <2>1, ElementOfSeq
  <2>3. gs[p].words \in Seq(Words)
    BY <2>2 DEF Frame
  <2>4. q # 0 /\ gs[p].words[q] = f[m] /\ Len(fs) <= p
    BY <1>1 DEF Grown
  <2>5. QED
    BY <1>1, <2>1, <2>2, <2>3, <2>4
<1>3. ASSUME NEW i \in 1 .. Len(gs), NEW a \in DOMAIN gs[i].words
      PROVE  \/ i = p /\ a = q /\ gs[i].words[a] = f[m]
             \/ /\ i \in 1 .. Len(fs) /\ a \in DOMAIN fs[i].words
                /\ gs[i].words[a] = fs[i].words[a] /\ (i = p => a < q) /\ fs[i].words[a] < f[m]
  <2>1. CASE i = p /\ a = q
    BY <1>2, <2>1
  <2>2. CASE /\ i \in 1 .. Len(fs) /\ a \in DOMAIN fs[i].words
             /\ gs[i].words[a] = fs[i].words[a] /\ (i = p => a < q)
    <3>1. PICK k \in 1 .. n : f[k] = fs[i].words[a]
      BY <2>2 DEF AreLines
    <3>2. k \in DOMAIN f /\ m \in DOMAIN f /\ k < m
      OBVIOUS
    <3>3. f[k] < f[m]
      BY <3>2 DEF Dict!Sorted
    <3>4. QED
      BY <2>2, <3>1, <3>3
  <2>3. QED
    BY <1>1, <2>1, <2>2 DEF Grown
<1>4. InOrder(gs)
  <2> SUFFICES ASSUME NEW i \in 1 .. Len(gs), NEW j \in 1 .. Len(gs), NEW a \in DOMAIN gs[i].words,
                      NEW b \in DOMAIN gs[j].words, i < j \/ (i = j /\ a < b)
               PROVE  gs[i].words[a] < gs[j].words[b]
    BY DEF InOrder
  <2>1. a \in Nat /\ b \in Nat
    <3>1. gs[i] \in Frame /\ gs[j] \in Frame
      BY ElementOfSeq
    <3>2. gs[i].words \in Seq(Words) /\ gs[j].words \in Seq(Words)
      BY <3>1 DEF Frame
    <3>3. QED
      BY <3>2
  <2>2. ~(i = p /\ a = q)
    <3>1. CASE j = p
      <4>1. b \in 1 .. q
        <5>1. gs[p].words \in Seq(Words)
          BY <1>2 DEF Frame
        <5>2. QED
          BY <1>1, <3>1, <5>1
      <4>2. QED
        BY <1>2, <2>1, <3>1, <4>1
    <3>2. CASE j # p
      BY <1>1, <3>2
    <3>3. QED
      BY <3>1, <3>2
  <2>3. /\ i \in 1 .. Len(fs) /\ a \in DOMAIN fs[i].words
        /\ gs[i].words[a] = fs[i].words[a] /\ fs[i].words[a] < f[m]
    BY <1>3, <2>2
  <2>4. CASE gs[j].words[b] = f[m]
    BY <2>3, <2>4
  <2>5. CASE j \in 1 .. Len(fs) /\ b \in DOMAIN fs[j].words /\ gs[j].words[b] = fs[j].words[b]
    BY <2>3, <2>5 DEF InOrder
  <2>6. QED
    BY <1>3, <2>4, <2>5
<1>5. ASSUME NEW i \in 1 .. Len(gs), NEW a \in DOMAIN gs[i].words
      PROVE  \E k \in 1 .. m : f[k] = gs[i].words[a]
  <2>1. CASE gs[i].words[a] = f[m]
    BY <2>1
  <2>2. CASE i \in 1 .. Len(fs) /\ a \in DOMAIN fs[i].words /\ gs[i].words[a] = fs[i].words[a]
    <3>1. PICK k \in 1 .. n : f[k] = fs[i].words[a]
      BY <2>2 DEF AreLines
    <3>2. k \in 1 .. m
      OBVIOUS
    <3>3. QED
      BY <2>2, <3>1, <3>2
  <2>3. QED
    BY <1>3, <2>1, <2>2
<1>6. ASSUME NEW k \in 1 .. m
      PROVE  \E i \in 1 .. Len(gs) : \E a \in DOMAIN gs[i].words : f[k] = gs[i].words[a]
  <2>1. CASE k = m
    BY <1>2, <2>1
  <2>2. CASE k \in 1 .. n
    <3>1. PICK i \in 1 .. Len(fs) : \E a \in DOMAIN fs[i].words : f[k] = fs[i].words[a]
      BY <2>2 DEF AreLines
    <3>2. PICK a \in DOMAIN fs[i].words : f[k] = fs[i].words[a]
      BY <3>1
    <3>3. a \in DOMAIN gs[i].words /\ gs[i].words[a] = fs[i].words[a]
      BY DEF Grown
    <3>4. i \in 1 .. Len(gs)
      BY <1>1, <1>2
    <3>5. QED
      BY <3>2, <3>3, <3>4
  <2>3. QED
    BY <2>1, <2>2
<1>7. QED
  BY <1>4, <1>5, <1>6 DEF AreLines

\* gs has l frames and those of fs before the last.
Kept(fs, gs, l) == gs \in Seq(Frame) /\ Len(gs) = l /\ \A i \in 1 .. Len(fs) : i # Len(fs) => gs[i] = fs[i]

\* The last frame of fs, and r, the ones before it.
Parted(fs, r, l) ==
  /\ l \in Nat /\ l # 0 /\ Dict!Last(fs) = fs[l] /\ fs[l] \in Frame
  /\ r \in Seq(Frame) /\ Len(r) = l - 1 /\ \A i \in 1 .. l - 1 : r[i] = fs[i]

\* x in the place of the last frame.
Exchanged(fs, gs, x) == Kept(fs, gs, Len(fs)) /\ gs[Len(fs)] = x

\* v behind that.
Followed(fs, gs, x, v) == Kept(fs, gs, Len(fs) + 1) /\ gs[Len(fs)] = x /\ gs[Len(fs) + 1] = v

\* gs is r and then t.
Joined(gs, r, t) ==
  /\ gs \in Seq(Frame) /\ Len(gs) = Len(r) + Len(t)
  /\ \A i \in 1 .. Len(r) + Len(t) : gs[i] = IF i <= Len(r) THEN r[i] ELSE t[i - Len(r)]

\* What one list behind the other is.
LEMMA FramesJoined ==
  ASSUME NEW r \in Seq(Frame), NEW t \in Seq(Frame)
  PROVE  Joined(r \o t, r, t)
<1>1. /\ r \o t \in Seq(Frame) /\ Len(r \o t) = Len(r) + Len(t)
      /\ \A i \in 1 .. Len(r) + Len(t) : (r \o t)[i] = IF i <= Len(r) THEN r[i] ELSE t[i - Len(r)]
  BY ConcatProperties
<1>2. QED
  BY <1>1 DEF Joined

\* Frames are the last one and the ones before it.
LEMMA FrontOfFrames ==
  ASSUME NEW fs \in Seq(Frame), Len(fs) # 0
  PROVE  Parted(fs, Dict!Front(fs), Len(fs))
<1>1. PICK l, r : l = Len(fs) /\ r = Dict!Front(fs)
  OBVIOUS
<1>2. l \in Nat /\ l # 0 /\ Dict!Last(fs) = fs[l] /\ fs[l] \in Frame
  BY <1>1, ElementOfSeq DEF Dict!Last
<1>3. r = SubSeq(fs, 1, l - 1)
  BY <1>1 DEF Dict!Front
<1>4. \A i \in 1 .. l - 1 : fs[i] \in Frame
  BY <1>1, <1>2, ElementOfSeq
<1>5. r \in Seq(Frame) /\ Len(r) = l - 1 /\ \A i \in 1 .. l - 1 : r[i] = fs[i]
  BY <1>2, <1>3, <1>4
<1>6. QED
  BY <1>1, <1>2, <1>5 DEF Parted

\* Replacing the last frame.
LEMMA LastReplaced ==
  ASSUME NEW fs \in Seq(Frame), Len(fs) # 0, NEW x \in Frame
  PROVE  Exchanged(fs, Dict!Front(fs) \o <<x>>, x)
<1>1. PICK l, r, t : l = Len(fs) /\ r = Dict!Front(fs) /\ t = <<x>>
  OBVIOUS
<1>2. Parted(fs, r, l)
  BY <1>1, FrontOfFrames
<1>3. /\ l \in Nat /\ l # 0 /\ r \in Seq(Frame) /\ Len(r) = l - 1
      /\ \A i \in 1 .. l - 1 : r[i] = fs[i]
  BY <1>2 DEF Parted
<1>4. t \in Seq(Frame) /\ Len(t) = 1 /\ t[1] = x
  BY <1>1
<1>5. PICK gs : gs = r \o t
  OBVIOUS
<1>6. Joined(gs, r, t)
  BY <1>3, <1>4, <1>5, FramesJoined
<1>7. gs \in Seq(Frame) /\ Len(gs) = l /\ gs[l] = x
  BY <1>3, <1>4, <1>6 DEF Joined
<1>8. ASSUME NEW i \in 1 .. l, i # l PROVE gs[i] = fs[i]
  BY <1>3, <1>4, <1>6, <1>8 DEF Joined
<1>9. QED
  BY <1>1, <1>5, <1>7, <1>8 DEF Exchanged, Kept

\* Replacing the last frame and putting one behind it.
LEMMA LastFollowed ==
  ASSUME NEW fs \in Seq(Frame), Len(fs) # 0, NEW x \in Frame, NEW v \in Frame
  PROVE  Followed(fs, Dict!Front(fs) \o <<x, v>>, x, v)
<1>1. PICK l, r, t : l = Len(fs) /\ r = Dict!Front(fs) /\ t = <<x, v>>
  OBVIOUS
<1>2. Parted(fs, r, l)
  BY <1>1, FrontOfFrames
<1>3. /\ l \in Nat /\ l # 0 /\ r \in Seq(Frame) /\ Len(r) = l - 1
      /\ \A i \in 1 .. l - 1 : r[i] = fs[i]
  BY <1>2 DEF Parted
<1>4. t \in Seq(Frame) /\ Len(t) = 2 /\ t[1] = x /\ t[2] = v
  BY <1>1
<1>5. PICK gs : gs = r \o t
  OBVIOUS
<1>6. Joined(gs, r, t)
  BY <1>3, <1>4, <1>5, FramesJoined
<1>7. gs \in Seq(Frame) /\ Len(gs) = l + 1 /\ gs[l] = x /\ gs[l + 1] = v
  <2>1. gs \in Seq(Frame) /\ Len(gs) = l + 1
        /\ \A i \in 1 .. l + 1 : gs[i] = IF i <= l - 1 THEN r[i] ELSE t[i - (l - 1)]
    <3>1. Len(r) + Len(t) = l + 1 /\ Len(r) = l - 1
      BY <1>3, <1>4
    <3>2. QED
      BY <1>6, <3>1 DEF Joined
  <2>2. l \in 1 .. l + 1 /\ l + 1 \in 1 .. l + 1 /\ l - (l - 1) = 1 /\ (l + 1) - (l - 1) = 2
        /\ ~(l <= l - 1) /\ ~(l + 1 <= l - 1)
    BY <1>3
  <2>3. gs[l] = t[l - (l - 1)] /\ gs[l + 1] = t[(l + 1) - (l - 1)]
    BY <2>1, <2>2
  <2>4. QED
    BY <1>4, <2>1, <2>2, <2>3
<1>8. ASSUME NEW i \in 1 .. l, i # l PROVE gs[i] = fs[i]
  BY <1>3, <1>4, <1>6, <1>8 DEF Joined
<1>9. QED
  BY <1>1, <1>5, <1>7, <1>8 DEF Followed, Kept

\* A line more of the file, and the frames are still filled.
LEMMA AddFills ==
  ASSUME NEW f \in Seq(Words), Dict!Sorted(f), NEW n \in Nat, NEW m \in 1 .. Len(f), m = n + 1,
         NEW fs, Filled(fs, f, n), NEW zero \in BOOLEAN
  PROVE  Filled(Dict!add_word_to_frames(fs, f[m], zero), f, m)
<1>1. PICK l, x, w : l = Len(fs) /\ x = fs[l] /\ w = f[m]
  OBVIOUS
<1>2. /\ fs \in Seq(Frame) /\ l \in Nat /\ l # 0 /\ x \in Frame /\ Dict!Last(fs) = x /\ w \in Words
      /\ x.words \in Seq(Words) /\ x.pos \in Nat /\ x.zero \in BOOLEAN
  <2>1. fs \in Seq(Frame) /\ Len(fs) # 0
    BY DEF Filled
  <2>2. Parted(fs, Dict!Front(fs), Len(fs))
    BY <2>1, FrontOfFrames
  <2>3. l \in Nat /\ l # 0 /\ Dict!Last(fs) = x /\ x \in Frame
    BY <1>1, <2>2 DEF Parted
  <2>4. w \in Words
    BY <1>1, ElementOfSeq
  <2>5. QED
    BY <2>1, <2>3, <2>4 DEF Frame
<1>3. Dict!entry_size(w) \in Nat /\ Dict!entry_size(w) + 1 <= FrameSize
  <2>1. WordLen[w] \in Nat /\ FrameSize \in Nat /\ WordLen[w] + 7 <= FrameSize
    BY <1>2, PartsAssumption DEF Dict!DictionaryAssumption
  <2>2. QED
    BY <2>1 DEF Dict!entry_size
<1>4. \A i \in 1 .. Len(fs) : /\ i # l => fs[i].zero
                              /\ fs[i].words = <<>> => n = 0 /\ fs[i].pos = 0
  BY <1>1 DEF Filled
<1>5. InOrder(fs) /\ AreLines(fs, f, n)
  BY DEF Filled
<1>6. PICK gs : gs = Dict!add_word_to_frames(fs, w, zero)
  OBVIOUS
<1>7. CASE Dict!fits(x, w)
  <2>1. PICK y : y = Dict!add_word_to_frame(x, w)
    OBVIOUS
  <2>2. y = [words |-> Append(x.words, w), pos |-> x.pos + Dict!entry_size(w), zero |-> x.zero]
    BY <1>2, <2>1 DEF Frame, Dict!add_word_to_frame
  <2>3. y \in Frame /\ y.words = Append(x.words, w)
    BY <1>2, <1>3, <2>2 DEF Frame
  <2>4. gs = Dict!Front(fs) \o <<y>>
    BY <1>2, <1>6, <1>7, <2>1 DEF Dict!add_word_to_frames
  <2>5. /\ gs \in Seq(Frame) /\ Len(gs) = l /\ gs[l] = y
        /\ \A i \in 1 .. l : i # l => gs[i] = fs[i]
    <3>1. Exchanged(fs, gs, y)
      BY <1>1, <1>2, <2>3, <2>4, LastReplaced
    <3>2. QED
      BY <1>1, <3>1 DEF Exchanged, Kept
  <2>6. PICK q : q = Len(x.words) + 1
    OBVIOUS
  <2>7. /\ Len(y.words) = q /\ q \in Nat /\ q # 0 /\ y.words[q] = w /\ DOMAIN y.words = 1 .. q
        /\ \A a \in DOMAIN x.words : a \in 1 .. q /\ a < q /\ y.words[a] = x.words[a]
        /\ \A a \in 1 .. q : a = q \/ a \in DOMAIN x.words
    BY <1>2, <2>3, <2>6
  <2>8. Grown(fs, gs, w)
    <3>1. ASSUME NEW i \in 1 .. l, NEW a \in DOMAIN gs[i].words
          PROVE  \/ i = l /\ a = q
                 \/ /\ i \in 1 .. l /\ a \in DOMAIN fs[i].words
                    /\ gs[i].words[a] = fs[i].words[a] /\ (i = l => a < q)
      BY <1>1, <2>5, <2>7
    <3>2. ASSUME NEW i \in 1 .. l, NEW a \in DOMAIN fs[i].words
          PROVE  a \in DOMAIN gs[i].words /\ gs[i].words[a] = fs[i].words[a]
      BY <1>1, <2>5, <2>7
    <3>3. l <= l
      BY <1>2
    <3>4. QED
      BY <1>1, <1>2, <2>5, <2>7, <3>1, <3>2, <3>3 DEF Grown
  <2>9. InOrder(gs) /\ AreLines(gs, f, m)
    BY <1>1, <1>2, <1>5, <2>5, <2>8, GrownIsFilled
  <2>10. ASSUME NEW i \in 1 .. Len(gs)
         PROVE  (i # Len(gs) => gs[i].zero) /\ gs[i].words # <<>>
    <3>1. CASE i = l
      <4>1. y.words # <<>>
        BY <2>7
      <4>2. QED
        BY <2>5, <3>1, <4>1
    <3>2. CASE i # l
      <4>1. i \in 1 .. Len(fs) /\ gs[i] = fs[i] /\ n # 0
        <5>1. i \in 1 .. l /\ gs[i] = fs[i]
          BY <2>5, <3>2
        <5>2. n # 0
          BY <1>1, <1>2, <3>2, <5>1 DEF Filled
        <5>3. QED
          BY <1>1, <5>1, <5>2
      <4>2. QED
        BY <1>4, <3>2, <4>1
    <3>3. QED
      BY <3>1, <3>2
  <2>11. QED
    BY <1>1, <1>2, <1>6, <2>5, <2>9, <2>10 DEF Filled
<1>8. CASE ~Dict!fits(x, w)
  <2>1. PICK z, v : z = [x EXCEPT !.zero = TRUE] /\ v = Dict!add_word_to_frame(Dict!create_frame(zero), w)
    OBVIOUS
  <2>2. z \in Frame /\ z.zero /\ z.words = x.words
    BY <1>2, <2>1 DEF Frame
  <2>3. v = [words |-> <<w>>, pos |-> Dict!entry_size(w), zero |-> zero]
    <3>1. PICK e : e = Dict!create_frame(zero)
      OBVIOUS
    <3>2. e = [words |-> <<>>, pos |-> 0, zero |-> zero]
      BY <3>1 DEF Dict!create_frame
    <3>3. v = [words |-> Append(<<>>, w), pos |-> 0 + Dict!entry_size(w), zero |-> zero]
      <4>1. v = [e EXCEPT !.words = Append(@, w), !.pos = @ + Dict!entry_size(w)]
        BY <2>1, <3>1 DEF Dict!add_word_to_frame
      <4>2. QED
        BY <3>2, <4>1
    <3>4. Append(<<>>, w) = <<w>> /\ 0 + Dict!entry_size(w) = Dict!entry_size(w)
      BY <1>3
    <3>5. QED
      BY <3>3, <3>4
  <2>4. <<w>> \in Seq(Words)
    BY <1>2
  <2>5. v \in Frame /\ v.words = <<w>>
    BY <1>3, <2>3, <2>4 DEF Frame
  <2>6. gs = Dict!Front(fs) \o <<z, v>>
    BY <1>2, <1>6, <1>8, <2>1 DEF Dict!add_word_to_frames
  <2>7. /\ gs \in Seq(Frame) /\ Len(gs) = l + 1 /\ gs[l] = z /\ gs[l + 1] = v
        /\ \A i \in 1 .. l : i # l => gs[i] = fs[i]
    <3>1. Followed(fs, gs, z, v)
      BY <1>1, <1>2, <2>2, <2>5, <2>6, LastFollowed
    <3>2. QED
      BY <1>1, <3>1 DEF Followed, Kept
  <2>8. PICK p \in Nat : p = l + 1
    BY <1>2
  <2>9. /\ Len(gs) = p /\ gs[p].words = <<w>> /\ p # 0 /\ l <= p
        /\ \A i \in 1 .. p : i = p \/ (i \in 1 .. l /\ i # p)
        /\ \A i \in 1 .. l : i \in 1 .. p /\ gs[i].words = fs[i].words
    BY <1>1, <1>2, <2>2, <2>5, <2>7, <2>8
  <2>10. Grown(fs, gs, w)
    <3>1. Len(gs[p].words) = 1 /\ gs[p].words[1] = w /\ DOMAIN gs[p].words = {1}
      BY <2>9
    <3>2. ASSUME NEW i \in 1 .. p, NEW a \in DOMAIN gs[i].words
          PROVE  \/ i = p /\ a = 1
                 \/ /\ i \in 1 .. l /\ a \in DOMAIN fs[i].words
                    /\ gs[i].words[a] = fs[i].words[a] /\ (i = p => a < 1)
      BY <2>9, <3>1
    <3>3. ASSUME NEW i \in 1 .. l, NEW a \in DOMAIN fs[i].words
          PROVE  a \in DOMAIN gs[i].words /\ gs[i].words[a] = fs[i].words[a]
      BY <2>9
    <3>4. QED
      BY <1>1, <2>9, <3>1, <3>2, <3>3 DEF Grown
  <2>11. InOrder(gs) /\ AreLines(gs, f, m)
    BY <1>1, <1>2, <1>5, <2>7, <2>10, GrownIsFilled
  <2>12. n # 0 /\ x.words # <<>>
    <3>1. x.words # <<>>
      <4>1. ASSUME x.words = <<>> PROVE FALSE
        <5>1. x.pos = 0
          BY <1>1, <1>2, <1>4, <4>1
        <5>2. QED
          BY <1>3, <1>8, <5>1 DEF Dict!fits
      <4>2. QED
        BY <4>1
    <3>2. PICK a \in DOMAIN x.words : TRUE
      <4>1. Len(x.words) \in Nat \ {0}
        BY <1>2, <3>1, EmptySeq
      <4>2. 1 \in DOMAIN x.words
        BY <1>2, <4>1
      <4>3. QED
        BY <4>2
    <3>3. l \in 1 .. Len(fs)
      BY <1>1, <1>2
    <3>4. \E k \in 1 .. n : f[k] = x.words[a]
      BY <1>1, <1>5, <3>3 DEF AreLines
    <3>5. QED
      BY <3>1, <3>4
  <2>13. ASSUME NEW i \in 1 .. Len(gs)
         PROVE  (i # Len(gs) => gs[i].zero) /\ gs[i].words # <<>>
    <3>1. CASE i = p
      <4>1. <<w>> # <<>>
        <5>1. Len(<<w>>) = 1 /\ Len(<<>>) = 0
          OBVIOUS
        <5>2. QED
          BY <5>1
      <4>2. QED
        BY <2>9, <3>1, <4>1
    <3>2. CASE i = l /\ i # p
      BY <2>2, <2>7, <2>12, <3>2
    <3>3. CASE i # l /\ i # p
      <4>1. i \in 1 .. l /\ gs[i] = fs[i]
        BY <2>7, <2>9, <3>3
      <4>2. QED
        BY <1>1, <1>4, <2>12, <3>3, <4>1
    <3>4. QED
      BY <3>1, <3>2, <3>3
  <2>14. QED
    BY <1>1, <1>2, <1>6, <2>7, <2>9, <2>11, <2>13 DEF Filled
<1>9. QED
  BY <1>7, <1>8

-----------------------------------------------------------------------------
\* The scan stops at the least.
LEMMA MinIs ==
  ASSUME NEW S \in SUBSET Nat, S # {}, NEW m, m = Dict!Min(S)
  PROVE  m \in S /\ \A k \in S : m <= k
<1>1. \E x \in S : \A k \in S : x <= k
  BY LeastMember
<1>2. m = CHOOSE x \in S : \A k \in S : x <= k
  BY DEF Dict!Min
<1>3. QED
  BY <1>1, <1>2

\* Frames as they are once the file is read, while the memory behind the last word is zero.
Whole(fs, f) == Filled(fs, f, Len(f)) /\ \A i \in 1 .. Len(fs) : fs[i].zero

\* What a frame then is.
LEMMA WholeFrames ==
  ASSUME NEW f \in Seq(Words), NEW fs, Whole(fs, f)
  PROVE  /\ fs \in Seq(Frame) /\ Len(fs) \in Nat \ {0}
         /\ \A i \in 1 .. Len(fs) :
              /\ Dict!scan(fs[i]) = fs[i].words /\ fs[i].words \in Seq(Words)
              /\ DOMAIN fs[i].words = 1 .. Len(fs[i].words) /\ Len(fs[i].words) \in Nat
<1>1. fs \in Seq(Frame) /\ Len(fs) # 0
  BY DEF Whole, Filled
<1>2. ASSUME NEW i \in 1 .. Len(fs)
      PROVE  /\ Dict!scan(fs[i]) = fs[i].words /\ fs[i].words \in Seq(Words)
             /\ DOMAIN fs[i].words = 1 .. Len(fs[i].words) /\ Len(fs[i].words) \in Nat
  <2>1. fs[i] \in Frame
    BY <1>1, ElementOfSeq
  <2>2. fs[i].words \in Seq(Words)
    BY <2>1 DEF Frame
  <2>3. Dict!scan(fs[i]) = fs[i].words
    BY DEF Whole, Dict!scan
  <2>4. QED
    BY <2>2, <2>3
<1>3. QED
  BY <1>1, <1>2

\* The words are numbers from 1.
LEMMA WordsAreRanks ==
  ASSUME NEW w \in Words
  PROVE  w \in Nat /\ w # 0 /\ WordFreq[w] \in Nat /\ WordFreq[w] # 0
BY PartsAssumption DEF Dict!DictionaryAssumption

\* A frame is looked through up to the first word that is not smaller, and a word
\* that is in it is found.
LEMMA FoundInFrame ==
  ASSUME NEW f \in Seq(Words), NEW fs, Whole(fs, f), NEW i \in 1 .. Len(fs), NEW w \in Words
  PROVE  Dict!get_word_freq_in_frame(fs[i], w) # 0 <=> \E a \in DOMAIN fs[i].words : fs[i].words[a] = w
<1>1. PICK s : s = fs[i].words
  OBVIOUS
<1>2. /\ Dict!scan(fs[i]) = s /\ s \in Seq(Words) /\ DOMAIN s = 1 .. Len(s) /\ Len(s) \in Nat
  BY <1>1, WholeFrames
<1>3. \A a \in 1 .. Len(s) : s[a] \in Nat
  BY <1>2, WordsAreRanks, ElementOfSeq
<1>4. \A a, b \in 1 .. Len(s) : a < b => s[a] < s[b]
  BY <1>1, <1>2 DEF Whole, Filled, InOrder
<1>5. PICK stop : stop = {a \in 1 .. Len(s) : s[a] >= w}
  OBVIOUS
<1>6. PICK m : m = Dict!Min(stop)
  OBVIOUS
<1>7. Dict!get_word_freq_in_frame(fs[i], w) = IF stop # {} /\ s[m] = w THEN WordFreq[w] ELSE 0
  BY <1>2, <1>5, <1>6 DEF Dict!get_word_freq_in_frame
<1>8. stop # {} => m \in stop /\ \A k \in stop : m <= k
  <2>1. stop \in SUBSET Nat
    BY <1>2, <1>5
  <2>2. QED
    BY <1>6, <2>1, MinIs
<1>9. w \in Nat /\ WordFreq[w] # 0
  BY WordsAreRanks
<1>10. ASSUME NEW a \in 1 .. Len(s), s[a] = w
       PROVE  stop # {} /\ s[m] = w
  <2>1. a \in stop
    BY <1>5, <1>9, <1>10
  <2>2. m \in 1 .. Len(s) /\ s[m] >= w /\ m <= a
    BY <1>5, <1>8, <2>1
  <2>3. ~(m < a)
    BY <1>3, <1>4, <1>9, <1>10, <2>2
  <2>4. m = a
    BY <2>2, <2>3
  <2>5. QED
    BY <1>10, <2>1, <2>4
<1>11. ASSUME stop # {} /\ s[m] = w
       PROVE  \E a \in 1 .. Len(s) : s[a] = w
  BY <1>5, <1>8, <1>11
<1>12. QED
  BY <1>1, <1>2, <1>7, <1>9, <1>10, <1>11

\* A frame begins with its first word.
LEMMA FirstOfFrame ==
  ASSUME NEW f \in Seq(Words), NEW fs, Whole(fs, f), NEW i \in 1 .. Len(fs)
  PROVE  /\ Dict!first_word(fs[i]) \in Nat
         /\ Len(f) # 0 => 1 \in DOMAIN fs[i].words /\ Dict!first_word(fs[i]) = fs[i].words[1]
         /\ Len(f) = 0 => fs[i].words = <<>> /\ Dict!first_word(fs[i]) = 0
<1>1. PICK s : s = fs[i].words
  OBVIOUS
<1>2. Dict!scan(fs[i]) = s /\ s \in Seq(Words) /\ DOMAIN s = 1 .. Len(s) /\ Len(s) \in Nat
  BY <1>1, WholeFrames
<1>3. Dict!first_word(fs[i]) = IF s = <<>> THEN 0 ELSE Head(s)
  BY <1>2 DEF Dict!first_word
<1>4. CASE s = <<>>
  <2>1. Len(f) = 0
    BY <1>1, <1>4 DEF Whole, Filled
  <2>2. QED
    BY <1>1, <1>3, <1>4, <2>1
<1>5. CASE s # <<>>
  <2>1. Len(s) # 0 /\ 1 \in DOMAIN s /\ Head(s) = s[1] /\ s[1] \in Words
    <3>1. Len(s) \in Nat \ {0}
      BY <1>2, <1>5, EmptySeq
    <3>2. 1 \in 1 .. Len(s)
      BY <3>1
    <3>3. QED
      BY <1>2, <1>5, <3>1, <3>2, ElementOfSeq
  <2>2. s[1] \in Nat
    BY <2>1, WordsAreRanks
  <2>3. Len(f) # 0
    <3>1. \E k \in 1 .. Len(f) : f[k] = s[1]
      BY <1>1, <2>1 DEF Whole, Filled, AreLines
    <3>2. QED
      BY <3>1
  <2>4. QED
    BY <1>1, <1>3, <1>5, <2>1, <2>2, <2>3
<1>6. QED
  BY <1>4, <1>5

\* The one of n frames where w is to be looked for, if h is what they begin with.
Chosen(n, h, w, g) ==
  /\ \A i \in 1 .. n : h[i] = w => g = i
  /\ \A i, j \in 1 .. n : j = i + 1 /\ h[i] < w /\ w < h[j] => g = i
  /\ g # 0 => g \in 1 .. n /\ (g < n \/ w = h[g])

\* Of frames that begin with ascending words: the one that begins with the word, or the
\* one before the first that begins behind it.
LEMMA FrameChosen ==
  ASSUME NEW n \in Nat, NEW h \in [1 .. n -> Nat], \A i, j \in 1 .. n : i < j => h[i] < h[j],
         NEW w \in Nat, NEW after, after = {i \in 1 .. n : h[i] >= w},
         NEW m, m = Dict!Min(after),
         NEW g, g = IF after = {} THEN 0 ELSE IF h[m] = w THEN m ELSE m - 1
  PROVE  Chosen(n, h, w, g)
<1>1. after # {} => m \in 1 .. n /\ h[m] >= w /\ \A k \in after : m <= k
  <2>1. after \in SUBSET Nat
    OBVIOUS
  <2>2. after # {} => m \in after /\ \A k \in after : m <= k
    BY <2>1, MinIs
  <2>3. QED
    BY <2>2
<1>2. ASSUME NEW i \in 1 .. n, h[i] = w
      PROVE  g = i
  <2>1. i \in after
    BY <1>2
  <2>2. m \in 1 .. n /\ h[m] >= w /\ m <= i
    BY <1>1, <2>1
  <2>3. m = i
    <3>1. ~(m < i)
      BY <1>2, <2>2
    <3>2. QED
      BY <2>2, <3>1
  <2>4. QED
    BY <1>2, <2>1, <2>3
<1>3. ASSUME NEW i \in 1 .. n, NEW j \in 1 .. n, j = i + 1, h[i] < w, w < h[j]
      PROVE  g = i
  <2>1. j \in after
    BY <1>3
  <2>2. m \in 1 .. n /\ h[m] >= w /\ m <= j
    BY <1>1, <2>1
  <2>3. ~(m < i) /\ m # i
    BY <1>3, <2>2
  <2>4. m = j
    BY <1>3, <2>2, <2>3
  <2>5. h[m] # w
    BY <1>3, <2>4
  <2>6. QED
    BY <1>3, <2>1, <2>4, <2>5
<1>4. ASSUME g # 0
      PROVE  g \in 1 .. n /\ (g < n \/ w = h[g])
  <2>1. after # {} /\ m \in 1 .. n
    BY <1>1, <1>4
  <2>2. CASE h[m] = w
    BY <2>1, <2>2
  <2>3. CASE h[m] # w
    BY <1>4, <2>1, <2>3
  <2>4. QED
    BY <2>2, <2>3
<1>5. QED
  BY <1>2, <1>3, <1>4 DEF Chosen

\* A word is found if it is in the file and its frame is not the last, or it begins that
\* one.
LEMMA FoundInDict ==
  ASSUME NEW f \in Seq(Words), NEW fs, Whole(fs, f), NEW w \in Words
  PROVE  Dict!dict_is_valid_word(fs, w) <=>
           \E i \in 1 .. Len(fs) :
             /\ w \in Dict!ToSet(fs[i].words) /\ w \in Dict!ToSet(f)
             /\ i < Len(fs) \/ w = Dict!first_word(fs[i])
<1>1. PICK n, h : n = Len(fs) /\ h = [i \in 1 .. n |-> Dict!first_word(fs[i])]
  OBVIOUS
<1>2. PICK after : after = {i \in 1 .. n : h[i] >= w}
  OBVIOUS
<1>3. PICK m : m = Dict!Min(after)
  OBVIOUS
<1>4. PICK g : g = IF after = {} THEN 0 ELSE IF h[m] = w THEN m ELSE m - 1
  OBVIOUS
<1>5. n \in Nat /\ n # 0 /\ h \in [1 .. n -> Nat]
  <2>1. n \in Nat /\ n # 0
    BY <1>1, WholeFrames
  <2>2. \A i \in 1 .. n : Dict!first_word(fs[i]) \in Nat
    BY <1>1, FirstOfFrame
  <2>3. QED
    BY <1>1, <2>1, <2>2
<1>6. w \in Nat /\ w # 0
  BY WordsAreRanks
<1>7. after # {} => m \in 1 .. n
  <2>1. after \in SUBSET Nat
    BY <1>2, <1>5
  <2>2. after # {} => m \in after
    BY <1>3, <2>1, MinIs
  <2>3. QED
    BY <1>2, <2>2
<1>8. Dict!find_frame_containing_word(fs, w) = g
  <2>1. after = {i \in 1 .. Len(fs) : Dict!first_word(fs[i]) >= w}
    BY <1>1, <1>2
  <2>2. after # {} => h[m] = Dict!first_word(fs[m])
    BY <1>1, <1>7
  <2>3. QED
    BY <1>3, <1>4, <2>1, <2>2 DEF Dict!find_frame_containing_word
<1>9. Dict!dict_is_valid_word(fs, w) <=> g # 0 /\ Dict!get_word_freq_in_frame(fs[g], w) # 0
  BY <1>8 DEF Dict!dict_is_valid_word, Dict!get_word_freq_in_dict
<1>10. CASE Len(f) = 0
  <2>1. \A i \in 1 .. n : fs[i].words = <<>> /\ h[i] = 0
    BY <1>1, <1>10, FirstOfFrame
  <2>2. after = {}
    BY <1>2, <1>6, <2>1
  <2>3. \A i \in 1 .. n : w \notin Dict!ToSet(fs[i].words)
    <3>1. Dict!ToSet(<<>>) = {}
      BY EmptySeq DEF Dict!ToSet
    <3>2. QED
      BY <2>1, <3>1
  <2>4. QED
    BY <1>1, <1>4, <1>9, <2>2, <2>3
<1>11. CASE Len(f) # 0
  <2>1. \A i \in 1 .. n : 1 \in DOMAIN fs[i].words /\ h[i] = fs[i].words[1] /\ h[i] = Dict!first_word(fs[i])
    BY <1>1, <1>11, FirstOfFrame
  <2>2. InOrder(fs) /\ AreLines(fs, f, Len(f))
    BY DEF Whole, Filled
  <2>3. \A i, j \in 1 .. n : i < j => h[i] < h[j]
    BY <1>1, <2>1, <2>2 DEF InOrder
  <2>4. /\ \A i \in 1 .. n : h[i] = w => g = i
        /\ \A i, j \in 1 .. n : j = i + 1 /\ h[i] < w /\ w < h[j] => g = i
        /\ g # 0 => g \in 1 .. n /\ (g < n \/ w = h[g])
    <3>1. Chosen(n, h, w, g)
      BY <1>2, <1>3, <1>4, <1>5, <1>6, <2>3, FrameChosen
    <3>2. QED
      BY <3>1 DEF Chosen
  <2>5. ASSUME NEW i \in 1 .. n, w \in Dict!ToSet(fs[i].words), i < n \/ w = h[i]
        PROVE  g = i
    <3>1. PICK a \in DOMAIN fs[i].words : fs[i].words[a] = w
      BY <2>5 DEF Dict!ToSet
    <3>2. CASE w = h[i]
      BY <2>4, <3>2
    <3>3. CASE w # h[i]
      <4>1. i < n
        BY <2>5, <3>3
      <4>2. PICK j : j = i + 1
        OBVIOUS
      <4>3. j \in 1 .. n /\ i < j
        BY <1>5, <4>1, <4>2
      <4>4. a \in 1 .. Len(fs[i].words) /\ a # 1
        BY <1>1, <2>1, <3>1, <3>3, WholeFrames
      <4>5. h[i] < w
        <5>1. 1 < a
          BY <1>1, <4>4, WholeFrames
        <5>2. QED
          BY <1>1, <2>1, <2>2, <3>1, <5>1 DEF InOrder
      <4>6. w < h[j]
        BY <1>1, <2>1, <2>2, <3>1, <4>3 DEF InOrder
      <4>7. QED
        BY <2>4, <4>2, <4>3, <4>5, <4>6
    <3>4. QED
      BY <3>2, <3>3
  <2>6. ASSUME NEW i \in 1 .. n, w \in Dict!ToSet(fs[i].words), i < n \/ w = h[i]
        PROVE  g # 0 /\ Dict!get_word_freq_in_frame(fs[g], w) # 0
    <3>1. g = i
      BY <2>5, <2>6
    <3>2. \E a \in DOMAIN fs[i].words : fs[i].words[a] = w
      BY <2>6 DEF Dict!ToSet
    <3>3. i \in 1 .. Len(fs) /\ i # 0
      BY <1>1
    <3>4. QED
      BY <3>1, <3>2, <3>3, FoundInFrame
  <2>7. ASSUME g # 0, Dict!get_word_freq_in_frame(fs[g], w) # 0
        PROVE  /\ g \in 1 .. n /\ w \in Dict!ToSet(fs[g].words) /\ w \in Dict!ToSet(f)
               /\ g < n \/ w = h[g]
    <3>1. g \in 1 .. n /\ (g < n \/ w = h[g])
      BY <2>4, <2>7
    <3>2. PICK a \in DOMAIN fs[g].words : fs[g].words[a] = w
      BY <1>1, <2>7, <3>1, FoundInFrame
    <3>3. PICK k \in 1 .. Len(f) : f[k] = w
      BY <1>1, <2>2, <3>1, <3>2 DEF AreLines
    <3>4. QED
      BY <3>1, <3>2, <3>3 DEF Dict!ToSet
  <2>8. QED
    BY <1>1, <1>9, <2>1, <2>6, <2>7
<1>12. QED
  BY <1>10, <1>11

\* Places are in one order.
LEMMA PlacesAreOrdered ==
  ASSUME NEW spot \in Nat \X Nat, NEW be \in Nat \X Nat
  PROVE  /\ ~Dict!Before(spot, spot)
         /\ spot # be => Dict!Before(spot, be) \/ Dict!Before(be, spot)
         /\ \A of \in Nat \X Nat : Dict!Before(of, spot) /\ Dict!Before(spot, be) => Dict!Before(of, be)
<1>1. spot[1] \in Nat /\ spot[2] \in Nat /\ be[1] \in Nat /\ be[2] \in Nat
      /\ spot = <<spot[1], spot[2]>> /\ be = <<be[1], be[2]>>
  OBVIOUS
<1>2. ~Dict!Before(spot, spot)
  BY <1>1 DEF Dict!Before
<1>3. spot # be => Dict!Before(spot, be) \/ Dict!Before(be, spot)
  <2>1. spot # be => spot[1] # be[1] \/ spot[2] # be[2]
    BY <1>1
  <2>2. QED
    BY <1>1, <2>1 DEF Dict!Before
<1>4. ASSUME NEW of \in Nat \X Nat, Dict!Before(of, spot), Dict!Before(spot, be)
      PROVE  Dict!Before(of, be)
  <2>1. of[1] \in Nat /\ of[2] \in Nat
    OBVIOUS
  <2>2. QED
    BY <1>1, <1>4, <2>1 DEF Dict!Before
<1>5. QED
  BY <1>2, <1>3, <1>4

\* Counting down from any number of places comes to one of them.
LEMMA EveryRank ==
  ASSUME NEW M \in SUBSET (Nat \X Nat), IsFiniteSet(M), NEW k \in Nat, k < Cardinality(M)
  PROVE  \E spot \in M : Cardinality({be \in M : Dict!Before(be, spot)}) = k
<1> DEFINE below(spot) == {be \in M : Dict!Before(be, spot)}
           ranks == 0 .. Cardinality(M) - 1
           rank == [spot \in M |-> Cardinality(below(spot))]
<1>1. Cardinality(M) \in Nat
  BY FS_CardinalityType
<1>2. ASSUME NEW spot \in M
      PROVE  IsFiniteSet(below(spot)) /\ Cardinality(below(spot)) \in ranks
  <2>1. below(spot) \in SUBSET M
    OBVIOUS
  <2>2. below(spot) # M
    <3>1. spot \notin below(spot)
      BY PlacesAreOrdered
    <3>2. QED
      BY <3>1
  <2> HIDE DEF below
  <2>3. /\ IsFiniteSet(below(spot)) /\ Cardinality(below(spot)) <= Cardinality(M)
        /\ Cardinality(M) = Cardinality(below(spot)) => M = below(spot)
    BY <2>1, FS_Subset
  <2>4. Cardinality(below(spot)) \in Nat
    BY <2>3, FS_CardinalityType
  <2>5. QED
    BY <1>1, <2>2, <2>3, <2>4
<1>3. ASSUME NEW spot \in M, NEW be \in M, Dict!Before(spot, be)
      PROVE  Cardinality(below(spot)) < Cardinality(below(be))
  <2>1. below(spot) \in SUBSET below(be)
    <3>1. \A of \in below(spot) : Dict!Before(of, be)
      BY <1>3, PlacesAreOrdered
    <3>2. QED
      BY <3>1
  <2>2. below(spot) # below(be)
    <3>1. spot \in below(be) /\ spot \notin below(spot)
      BY <1>3, PlacesAreOrdered
    <3>2. QED
      BY <3>1
  <2>3. /\ IsFiniteSet(below(spot)) /\ Cardinality(below(spot)) \in ranks
        /\ IsFiniteSet(below(be)) /\ Cardinality(below(be)) \in ranks
    BY <1>2
  <2> HIDE DEF below
  <2>4. Cardinality(below(spot)) <= Cardinality(below(be))
        /\ (Cardinality(below(be)) = Cardinality(below(spot)) => below(be) = below(spot))
    BY <2>1, <2>3, FS_Subset
  <2>5. QED
    BY <1>1, <2>2, <2>3, <2>4
<1>4. rank \in Injection(M, ranks)
  <2>1. rank \in [M -> ranks]
    <3>1. \A spot \in M : Cardinality(below(spot)) \in ranks
      BY <1>2
    <3> HIDE DEF below, ranks
    <3>2. QED
      BY <3>1
  <2>2. ASSUME NEW spot \in M, NEW be \in M, rank[spot] = rank[be]
        PROVE  spot = be
    <3>1. Cardinality(below(spot)) = Cardinality(below(be))
      BY <2>2
    <3>2. Cardinality(below(spot)) \in Nat /\ Cardinality(below(be)) \in Nat
      <4>1. IsFiniteSet(below(spot)) /\ IsFiniteSet(below(be))
        BY <1>2
      <4> HIDE DEF below
      <4>2. QED
        BY <4>1, FS_CardinalityType
    <3>3. ~Dict!Before(spot, be) /\ ~Dict!Before(be, spot)
      <4> HIDE DEF below
      <4>1. QED
        BY <1>3, <3>1, <3>2
    <3>4. QED
      BY <3>3, PlacesAreOrdered
  <2> HIDE DEF rank, ranks
  <2>3. QED
    BY <2>1, <2>2 DEF Injection, IsInjective
<1>5. IsFiniteSet(ranks) /\ Cardinality(ranks) = Cardinality(M)
  <2>1. PICK n \in Nat : n = Cardinality(M)
    BY <1>1
  <2>2. IsFiniteSet(0 .. n - 1) /\ Cardinality(0 .. n - 1) = n
    <3>1. 0 \in Int /\ n - 1 \in Int
      OBVIOUS
    <3>2. IsFiniteSet(0 .. n - 1)
          /\ Cardinality(0 .. n - 1) = IF 0 > n - 1 THEN 0 ELSE (n - 1) - 0 + 1
      BY <3>1, FS_Interval
    <3>3. QED
      BY <3>2
  <2>3. QED
    BY <2>1, <2>2
<1>6. rank \in Surjection(M, ranks)
  <2> HIDE DEF rank, ranks
  <2>1. QED
    BY <1>4, <1>5, FS_Injection
<1>7. k \in ranks
  BY <1>1
<1>8. PICK spot \in M : rank[spot] = k
  <2> HIDE DEF rank, ranks
  <2>1. QED
    BY <1>6, <1>7 DEF Surjection
<1>9. QED
  BY <1>8

\* A frame is read as finitely many entries.
LEMMA ScanIs ==
  ASSUME NEW fr \in Frame, garbage \in Words
  PROVE  Dict!scan(fr) \in Seq(Words) /\ Len(Dict!scan(fr)) \in Nat
<1>1. fr.words \in Seq(Words)
  BY DEF Frame
<1>2. Append(fr.words, garbage) \in Seq(Words)
  BY <1>1
<1>3. Dict!scan(fr) \in Seq(Words)
  BY <1>1, <1>2 DEF Dict!scan
<1>4. QED
  BY <1>3

\* All entries are finitely many places.
LEMMA EntriesAre ==
  ASSUME NEW fs \in Seq(Frame), garbage \in Words
  PROVE  /\ IsFiniteSet(Dict!Entries(fs)) /\ Dict!Entries(fs) \in SUBSET (Nat \X Nat)
         /\ \A spot \in Dict!Entries(fs) :
              spot[1] \in 1 .. Len(fs) /\ spot[2] \in 1 .. Len(Dict!scan(fs[spot[1]]))
         /\ \A i \in 1 .. Len(fs) : \A a \in 1 .. Len(Dict!scan(fs[i])) : <<i, a>> \in Dict!Entries(fs)
<1> DEFINE places(i) == {i} \X (1 .. Len(Dict!scan(fs[i])))
           P == {places(i) : i \in 1 .. Len(fs)}
<1>1. \A i \in 1 .. Len(fs) : Len(Dict!scan(fs[i])) \in Nat
  <2>1. \A i \in 1 .. Len(fs) : fs[i] \in Frame
    BY ElementOfSeq
  <2>2. QED
    BY <2>1, ScanIs
<1>2. \A i \in 1 .. Len(fs) : IsFiniteSet(places(i))
  <2> SUFFICES ASSUME NEW i \in 1 .. Len(fs) PROVE IsFiniteSet(places(i))
    OBVIOUS
  <2>1. IsFiniteSet({i})
    BY FS_Singleton
  <2>2. PICK n \in Nat : n = Len(Dict!scan(fs[i]))
    BY <1>1
  <2>3. IsFiniteSet(1 .. n)
    BY FS_Interval
  <2>4. IsFiniteSet({i} \X (1 .. n))
    BY <2>1, <2>3, FS_Product
  <2>5. QED
    BY <2>2, <2>4
<1>3. IsFiniteSet(P)
  <2>1. PICK h : h = [i \in 1 .. Len(fs) |-> places(i)]
    OBVIOUS
  <2>2. h \in Surjection(1 .. Len(fs), P)
    <3> HIDE DEF places
    <3>1. h \in [1 .. Len(fs) -> P] /\ \A t \in P : \E s \in 1 .. Len(fs) : h[s] = t
      BY <2>1
    <3> HIDE DEF P
    <3>2. QED
      BY <3>1 DEF Surjection
  <2>3. IsFiniteSet(1 .. Len(fs))
    BY FS_Interval
  <2> HIDE DEF P
  <2>4. QED
    BY <2>2, <2>3, FS_Surjection
<1>4. \A t \in P : IsFiniteSet(t)
  <2> HIDE DEF places
  <2>1. QED
    BY <1>2
<1>5. Dict!Entries(fs) = UNION P
  BY DEF Dict!Entries
<1>6. IsFiniteSet(Dict!Entries(fs))
  <2> HIDE DEF P
  <2>1. QED
    BY <1>3, <1>4, <1>5, FS_UNION
<1>7. ASSUME NEW spot \in Dict!Entries(fs)
      PROVE  /\ spot \in Nat \X Nat
             /\ spot[1] \in 1 .. Len(fs) /\ spot[2] \in 1 .. Len(Dict!scan(fs[spot[1]]))
  <2>1. PICK i \in 1 .. Len(fs) : spot \in places(i)
    BY <1>5
  <2>2. spot[1] = i /\ spot[2] \in 1 .. Len(Dict!scan(fs[i])) /\ spot = <<i, spot[2]>>
    BY <2>1
  <2>3. i \in Nat /\ spot[2] \in Nat
    BY <1>1, <2>2
  <2>4. <<i, spot[2]>> \in Nat \X Nat
    BY <2>3
  <2>5. QED
    BY <2>2, <2>4
<1>8. ASSUME NEW i \in 1 .. Len(fs), NEW a \in 1 .. Len(Dict!scan(fs[i]))
      PROVE  <<i, a>> \in Dict!Entries(fs)
  <2>1. <<i, a>> \in places(i)
    OBVIOUS
  <2> HIDE DEF places
  <2>2. QED
    BY <1>5, <2>1
<1>9. QED
  BY <1>6, <1>7, <1>8

\* The dictionary counts as everybody does.
LEMMA Counts ==
  ASSUME NEW S
  PROVE  Dict!Cardinality(S) = Cardinality(S) /\ (Dict!IsFiniteSet(S) <=> IsFiniteSet(S))
BY DEF Dict!Cardinality, Cardinality, Dict!IsFiniteSet, IsFiniteSet

\* A random word is one that matches, wherever the counting begins.
LEMMA RandomIsMatching ==
  ASSUME NEW fs \in Seq(Frame), garbage \in Words, NEW p, NEW k \in Nat,
         k < Dict!get_words_matching_params(fs, p)
  PROVE  Dict!get_word_matching_params_idx(fs, p, k) \in {Dict!Entry(fs, spot) : spot \in Dict!matching(fs, p)}
<1>1. PICK M : M = Dict!matching(fs, p)
  OBVIOUS
<1>2. M \in SUBSET Dict!Entries(fs)
  BY <1>1 DEF Dict!matching
<1>3. IsFiniteSet(Dict!Entries(fs)) /\ Dict!Entries(fs) \in SUBSET (Nat \X Nat)
  BY EntriesAre
<1>4. IsFiniteSet(M)
  BY <1>2, <1>3, FS_Subset
<1>5. M \in SUBSET (Nat \X Nat)
  BY <1>2, <1>3
<1>6. k < Cardinality(M)
  <2>1. Dict!get_words_matching_params(fs, p) = Dict!Cardinality(Dict!matching(fs, p))
    BY DEF Dict!get_words_matching_params
  <2>2. QED
    BY <1>1, <2>1, Counts
<1>7. \E spot \in M : Cardinality({be \in M : Dict!Before(be, spot)}) = k
  BY <1>4, <1>5, <1>6, EveryRank
<1>8. \E spot \in Dict!matching(fs, p) :
        Dict!Cardinality({be \in Dict!matching(fs, p) : Dict!Before(be, spot)}) = k
  <2>1. PICK spot \in M : Cardinality({be \in M : Dict!Before(be, spot)}) = k
    BY <1>7
  <2>2. Dict!Cardinality({be \in M : Dict!Before(be, spot)}) = k
    BY <2>1, Counts
  <2>3. QED
    BY <1>1, <2>2
<1>9. PICK of : of = CHOOSE spot \in Dict!matching(fs, p) :
                         Dict!Cardinality({be \in Dict!matching(fs, p) : Dict!Before(be, spot)}) = k
  OBVIOUS
<1>10. of \in Dict!matching(fs, p)
  BY <1>8, <1>9
<1>11. Dict!get_word_matching_params_idx(fs, p, k) = Dict!Entry(fs, of)
  BY <1>9 DEF Dict!get_word_matching_params_idx
<1>12. QED
  BY <1>10, <1>11

\* What is read of a frame, if g lies behind its last word, and what can be drawn.
ReadBy(g, fr)   == IF fr.zero THEN fr.words ELSE Append(fr.words, g)
Spots(g, fs)    == UNION {{i} \X (1 .. Len(ReadBy(g, fs[i]))) : i \in 1 .. Len(fs)}
At(g, fs, spot) == ReadBy(g, fs[spot[1]])[spot[2]]
Drawn(g, fs, p) ==
  {At(g, fs, spot) : spot \in {of \in Spots(g, fs) : Dict!word_matches_params(p, At(g, fs, of))}}

\* That is what the dictionary draws from.
LEMMA DrawnIs ==
  ASSUME NEW fs, NEW p
  PROVE  {Dict!Entry(fs, spot) : spot \in Dict!matching(fs, p)} = Drawn(garbage, fs, p)
<1>1. \A fr : Dict!scan(fr) = ReadBy(garbage, fr)
  BY DEF Dict!scan, ReadBy
<1>2. Dict!Entries(fs) = Spots(garbage, fs)
  BY <1>1 DEF Dict!Entries, Spots
<1>3. \A spot : Dict!Entry(fs, spot) = At(garbage, fs, spot)
  BY <1>1 DEF Dict!Entry, At
<1>4. Dict!matching(fs, p) = {of \in Spots(garbage, fs) : Dict!word_matches_params(p, At(garbage, fs, of))}
  BY <1>2, <1>3 DEF Dict!matching
<1>5. QED
  BY <1>3, <1>4 DEF Drawn

\* The words of a file that have what was asked for.
Fitting(f, p) == {w \in Words : w \in Dict!ToSet(f) /\ Dict!word_matches_params(p, w)}

\* What matches in a whole dictionary are the words of the file that have what was
\* asked for.
LEMMA MatchingAreWanted ==
  ASSUME NEW f \in Seq(Words), NEW fs, Whole(fs, f), garbage \in Words, NEW p
  PROVE  Drawn(garbage, fs, p) = Fitting(f, p)
<1>1. PICK M : M = Dict!matching(fs, p)
  OBVIOUS
<1>2. fs \in Seq(Frame) /\ AreLines(fs, f, Len(f))
  BY DEF Whole, Filled
<1>3. ASSUME NEW spot \in M
      PROVE  /\ Dict!Entry(fs, spot) \in Words /\ Dict!Entry(fs, spot) \in Dict!ToSet(f)
             /\ Dict!word_matches_params(p, Dict!Entry(fs, spot))
  <2>1. spot \in Dict!Entries(fs) /\ Dict!word_matches_params(p, Dict!Entry(fs, spot))
    BY <1>1, <1>3 DEF Dict!matching
  <2>2. PICK i, a : i = spot[1] /\ a = spot[2]
    OBVIOUS
  <2>3. i \in 1 .. Len(fs) /\ a \in 1 .. Len(Dict!scan(fs[i]))
    BY <1>2, <2>1, <2>2, EntriesAre
  <2>4. Dict!scan(fs[i]) = fs[i].words /\ a \in DOMAIN fs[i].words
    BY <2>3, WholeFrames
  <2>5. Dict!Entry(fs, spot) = fs[i].words[a]
    BY <2>2, <2>4 DEF Dict!Entry
  <2>6. PICK k \in 1 .. Len(f) : f[k] = fs[i].words[a]
    BY <1>2, <2>3, <2>4 DEF AreLines
  <2>7. f[k] \in Words /\ k \in DOMAIN f
    BY ElementOfSeq
  <2>8. QED
    BY <2>1, <2>5, <2>6, <2>7 DEF Dict!ToSet
<1>4. ASSUME NEW w \in Words, w \in Dict!ToSet(f), Dict!word_matches_params(p, w)
      PROVE  \E spot \in M : Dict!Entry(fs, spot) = w
  <2>1. PICK k \in 1 .. Len(f) : f[k] = w
    BY <1>4 DEF Dict!ToSet
  <2>2. PICK i \in 1 .. Len(fs) : \E a \in DOMAIN fs[i].words : f[k] = fs[i].words[a]
    BY <1>2 DEF AreLines
  <2>3. PICK a \in DOMAIN fs[i].words : w = fs[i].words[a]
    BY <2>1, <2>2
  <2>4. Dict!scan(fs[i]) = fs[i].words /\ a \in 1 .. Len(fs[i].words)
    BY <2>3, WholeFrames
  <2>5. <<i, a>> \in Dict!Entries(fs)
    BY <1>2, <2>4, EntriesAre
  <2>6. Dict!Entry(fs, <<i, a>>) = w
    BY <2>3, <2>4 DEF Dict!Entry
  <2>7. <<i, a>> \in M
    BY <1>1, <1>4, <2>5, <2>6 DEF Dict!matching
  <2>8. QED
    BY <2>6, <2>7
<1>5. {Dict!Entry(fs, spot) : spot \in M} = {w \in Words : w \in Dict!ToSet(f) /\ Dict!word_matches_params(p, w)}
  BY <1>3, <1>4
<1>6. QED
  BY <1>1, <1>5, DrawnIs DEF Fitting

\* What holds of the dictionary: its frames hold the lines read, what was drawn could be
\* drawn, and it is known where a script may die.
DictInv ==
  /\ garbage \in Words /\ file \in Seq(Words) /\ Dict!Sorted(file) /\ line \in 0 .. Len(file)
  /\ params.include_weird_or_vulgar = FALSE
  /\ handle \in {"null", "building", "dict"}
  /\ handle = "null" => frames = <<>> /\ line = 0
  /\ handle # "null" => Filled(frames, file, line)
  /\ handle = "dict" => line = Len(file)
  /\ handle # "dict" => answer = 0
  /\ dead = "no" /\ answer # 0 => answer \in Drawn(garbage, frames, params)
  /\ dead = "modulo zero" => handle = "dict" /\ Drawn(garbage, frames, params) = {}
  /\ dead = "assert" => dictClient = "c" /\ handle = "null"

\* Files are lists of words in order.
LEMMA FilesAre ==
  ASSUME NEW f \in Dict!Files
  PROVE  f \in Seq(Words) /\ Dict!Sorted(f) /\ Len(f) \in Nat
<1>1. Dict!Cardinality(Words) \in Nat
  <2>1. IsFiniteSet(Words)
    BY PartsAssumption, Counts DEF Dict!DictionaryAssumption
  <2>2. QED
    BY <2>1, Counts, FS_CardinalityType
<1>2. PICK n \in 0 .. Dict!Cardinality(Words) : f \in [1 .. n -> Words]
  BY DEF Dict!Files
<1>3. n \in Nat
  BY <1>1, <1>2
<1>4. f \in Seq(Words) /\ Len(f) \in Nat
  BY <1>2, <1>3
<1>5. QED
  BY <1>4 DEF Dict!Files

\* The first frame of a file.
LEMMA FirstFills ==
  ASSUME NEW f \in Seq(Words), NEW zero \in BOOLEAN
  PROVE  Filled(<<Dict!create_frame(zero)>>, f, 0)
<1>1. PICK x : x = Dict!create_frame(zero)
  OBVIOUS
<1>2. x = [words |-> <<>>, pos |-> 0, zero |-> zero]
  BY <1>1 DEF Dict!create_frame
<1>3. <<>> \in Seq(Words)
  OBVIOUS
<1>4. x \in Frame /\ x.words = <<>> /\ x.pos = 0
  BY <1>2, <1>3 DEF Frame
<1>5. PICK fs : fs = <<x>>
  OBVIOUS
<1>6. fs \in Seq(Frame) /\ Len(fs) = 1 /\ \A i \in 1 .. Len(fs) : i = 1 /\ fs[i] = x
  BY <1>4, <1>5
<1>7. DOMAIN <<>> = {}
  OBVIOUS
<1>8. InOrder(fs)
  <2>1. \A i \in 1 .. Len(fs) : \A a \in DOMAIN fs[i].words : FALSE
    BY <1>4, <1>6, <1>7
  <2>2. QED
    BY <2>1 DEF InOrder
<1>9. AreLines(fs, f, 0)
  <2>1. \A i \in 1 .. Len(fs) : \A a \in DOMAIN fs[i].words : FALSE
    BY <1>4, <1>6, <1>7
  <2>2. \A k \in 1 .. 0 : FALSE
    OBVIOUS
  <2>3. QED
    BY <2>1, <2>2 DEF AreLines
<1>10. \A i \in 1 .. Len(fs) : (i # Len(fs) => fs[i].zero) /\ (fs[i].words = <<>> => fs[i].pos = 0)
  BY <1>4, <1>6
<1>11. QED
  BY <1>1, <1>5, <1>6, <1>8, <1>9, <1>10 DEF Filled

\* A script that draws a word gets one that matches, or dies where none does or there is
\* no dictionary.
LEMMA DrawingKeeps ==
  ASSUME DictInv, dead = "no", NEW p \in Dict!Params, NEW r \in Nat, Dict!dict_get_random_word(p, r)
  PROVE  DictInv'
<1>1. PICK fs, n : fs = frames /\ n = Dict!get_words_matching_params(frames, p)
  OBVIOUS
<1>2. /\ handle \in {"null", "dict"} /\ (dictClient = "c" \/ handle = "dict") /\ params' = p
      /\ UNCHANGED <<dictClient, garbage, file, line, frames, handle>>
  BY DEF Dict!dict_get_random_word, Dict!dict_is_ready, DictInv
<1>3. p.include_weird_or_vulgar = FALSE
  BY DEF Dict!Params
<1>4. CASE handle = "null"
  <2>1. dead' = "assert" /\ answer' = answer
    BY <1>4 DEF Dict!dict_get_random_word
  <2>2. QED
    BY <1>2, <1>3, <1>4, <2>1 DEF DictInv
<1>5. CASE handle = "dict"
  <2>1. fs \in Seq(Frame) /\ garbage \in Words
    BY <1>1, <1>5 DEF DictInv, Filled
  <2>2. PICK M : M = Dict!matching(fs, p)
    OBVIOUS
  <2>3. IsFiniteSet(M) /\ n = Cardinality(M) /\ n \in Nat
    <3>1. IsFiniteSet(Dict!Entries(fs))
      BY <2>1, EntriesAre
    <3>2. M \in SUBSET Dict!Entries(fs)
      BY <2>2 DEF Dict!matching
    <3>3. IsFiniteSet(M)
      BY <3>1, <3>2, FS_Subset
    <3>4. n = Dict!Cardinality(M)
      BY <1>1, <2>2 DEF Dict!get_words_matching_params
    <3>5. QED
      BY <3>3, <3>4, Counts, FS_CardinalityType
  <2>4. {Dict!Entry(fs, spot) : spot \in M} = Drawn(garbage, fs, p)
    BY <2>2, DrawnIs
  <2>5. CASE n = 0
    <3>1. dead' = "modulo zero" /\ answer' = answer
      BY <1>1, <1>5, <2>5 DEF Dict!dict_get_random_word
    <3>2. M = {}
      BY <2>3, <2>5, FS_EmptySet
    <3>3. Drawn(garbage, fs, p) = {}
      BY <2>4, <3>2
    <3>4. Drawn(garbage', frames', params') = {}
      BY <1>1, <1>2, <3>3
    <3>5. QED
      BY <1>2, <1>3, <1>5, <3>1, <3>4 DEF DictInv
  <2>6. CASE n # 0
    <3>1. dead' = "no" /\ answer' = Dict!get_word_matching_params_idx(fs, p, r % n)
      BY <1>1, <1>5, <2>6 DEF Dict!dict_get_random_word
    <3>2. PICK k : k = r % n
      OBVIOUS
    <3>3. k \in Nat /\ k < n
      BY <2>3, <2>6, <3>2
    <3>4. Dict!get_word_matching_params_idx(fs, p, k) \in {Dict!Entry(fs, spot) : spot \in Dict!matching(fs, p)}
      BY <1>1, <2>1, <3>3, RandomIsMatching
    <3>5. answer' \in Drawn(garbage, fs, p)
      BY <2>2, <2>4, <3>1, <3>2, <3>4
    <3>6. answer' \in Drawn(garbage', frames', params')
      BY <1>1, <1>2, <3>5
    <3>7. QED
      BY <1>2, <1>3, <1>5, <3>1, <3>6 DEF DictInv
  <2>7. QED
    BY <2>5, <2>6
<1>6. QED
  BY <1>2, <1>4, <1>5

\* Whatever the dictionary does.
LEMMA DictSteps ==
  ASSUME DictInv, Dict!Next
  PROVE  DictInv'
<1>1. dead = "no"
  BY DEF Dict!Next
<1>2. ASSUME NEW zero \in FreshMemory, Dict!dict_init(zero)
      PROVE  DictInv'
  <2>1. file' \in Seq(Words) /\ Dict!Sorted(file') /\ Len(file') \in Nat
    BY <1>2, FilesAre DEF Dict!dict_init
  <2>2. zero \in BOOLEAN
    BY PartsAssumption DEF Dict!DictionaryAssumption
  <2>3. Filled(frames', file', 0)
    <3>1. PICK f : f = file'
      OBVIOUS
    <3>2. Filled(<<Dict!create_frame(zero)>>, f, 0)
      BY <2>1, <2>2, <3>1, FirstFills
    <3>3. QED
      BY <1>2, <3>1, <3>2 DEF Dict!dict_init
  <2>4. /\ handle = "null" /\ line = 0 /\ answer = 0 /\ handle' = "building"
        /\ UNCHANGED <<dictClient, garbage, line, answer, params, dead>>
    BY <1>2 DEF Dict!dict_init, DictInv
  <2>5. line' \in 0 .. Len(file')
    BY <2>1, <2>4
  <2>6. Dict!Sorted(file)'
    BY <2>1 DEF Dict!Sorted
  <2>7. QED
    BY <1>1, <2>1, <2>3, <2>4, <2>5, <2>6 DEF DictInv
<1>3. ASSUME NEW zero \in FreshMemory, Dict!ReadLine(zero)
      PROVE  DictInv'
  <2>1. PICK f, n, m, fs : f = file /\ n = line /\ m = n + 1 /\ fs = frames
    OBVIOUS
  <2>2. /\ handle = "building" /\ n < Len(f) /\ line' = m /\ frames' = Dict!add_word_to_frames(fs, f[m], zero)
        /\ UNCHANGED <<dictClient, garbage, file, handle, answer, params, dead>>
    BY <1>3, <2>1 DEF Dict!ReadLine
  <2>3. f \in Seq(Words) /\ Dict!Sorted(f) /\ n \in Nat /\ m \in 1 .. Len(f) /\ Filled(fs, f, n)
    <3>1. f \in Seq(Words) /\ n \in 0 .. Len(f)
      BY <2>1 DEF DictInv
    <3>2. Dict!Sorted(f) /\ Filled(fs, f, n)
      BY <2>1, <2>2 DEF DictInv
    <3>3. Len(f) \in Nat
      BY <3>1
    <3>4. n \in Nat /\ m \in 1 .. Len(f)
      BY <2>1, <2>2, <3>1, <3>3
    <3>5. QED
      BY <3>1, <3>2, <3>4
  <2>4. zero \in BOOLEAN
    BY PartsAssumption DEF Dict!DictionaryAssumption
  <2>5. Filled(Dict!add_word_to_frames(fs, f[m], zero), f, m)
    BY <2>1, <2>3, <2>4, AddFills
  <2>6. Filled(frames', file', line')
    BY <2>1, <2>2, <2>5
  <2>7. line' \in 0 .. Len(file')
    BY <2>1, <2>2, <2>3
  <2>8. Dict!Sorted(file)'
    BY <2>2 DEF Dict!Sorted, DictInv
  <2>9. QED
    BY <1>1, <2>2, <2>6, <2>7, <2>8 DEF DictInv
<1>4. CASE Dict!EndOfFile
  <2>1. Dict!Sorted(file)'
    BY <1>4 DEF Dict!EndOfFile, Dict!Sorted, DictInv
  <2>2. QED
    BY <1>1, <1>4, <2>1 DEF Dict!EndOfFile, DictInv
<1>5. ASSUME NEW p \in Dict!Params, NEW r \in 0 .. Dict!Cardinality(Words) - 1, Dict!dict_get_random_word(p, r)
      PROVE  DictInv'
  <2>1. r \in Nat
    <3>1. IsFiniteSet(Words)
      BY PartsAssumption, Counts DEF Dict!DictionaryAssumption
    <3>2. Dict!Cardinality(Words) \in Nat
      BY <3>1, Counts, FS_CardinalityType
    <3>3. QED
      BY <3>2
  <2>2. QED
    BY <1>1, <1>5, <2>1, DrawingKeeps
<1>6. QED
  BY <1>2, <1>3, <1>4, <1>5 DEF Dict!Next

\* Nothing else of the parts touches the dictionary.
LEMMA DictStays ==
  ASSUME DictInv, UNCHANGED dict
  PROVE  DictInv'
<1>1. UNCHANGED <<dictClient, garbage, file, line, frames, handle, answer, params, dead>>
  BY DEF dict
<1>2. Dict!Sorted(file)'
  BY <1>1 DEF Dict!Sorted, DictInv
<1>3. QED
  BY <1>1, <1>2 DEF DictInv

\* A dictionary that is read to its end, with a zero behind its last word.
LEMMA IsWhole ==
  ASSUME DictInv, handle = "dict", Dict!Ended
  PROVE  Whole(frames, file)
<1>1. PICK fs, f : fs = frames /\ f = file
  OBVIOUS
<1>2. Filled(fs, f, Len(f))
  BY <1>1 DEF DictInv
<1>3. Parted(fs, Dict!Front(fs), Len(fs))
  BY <1>2, FrontOfFrames DEF Filled
<1>4. Dict!Last(fs).zero = fs[Len(fs)].zero
  BY <1>3 DEF Parted
<1>5. fs[Len(fs)].zero
  BY <1>1, <1>4 DEF Dict!Ended
<1>6. \A i \in 1 .. Len(fs) : fs[i].zero
  BY <1>2, <1>5 DEF Filled
<1>7. QED
  BY <1>1, <1>2, <1>6 DEF Whole

\* What a script learns of words is what the file says: for any words with any lengths,
\* frequencies and metadata, any file and any frame size that has room for each of them.
THEOREM DictionaryIsRight == PartsSpec => []DictionaryAnswers
<1>1. PartsInit => DictInv
  <2> SUFFICES ASSUME Dict!Init PROVE DictInv
    BY DEF PartsInit
  <2>1. file \in Seq(Words) /\ Len(file) = 0 /\ DOMAIN file = {}
    BY DEF Dict!Init
  <2>2. Dict!Sorted(file)
    BY <2>1 DEF Dict!Sorted
  <2>3. line \in 0 .. Len(file)
    BY <2>1 DEF Dict!Init
  <2>4. params.include_weird_or_vulgar = FALSE
    BY DEF Dict!Init, Dict!get_default_params
  <2>5. QED
    BY <2>1, <2>2, <2>3, <2>4 DEF Dict!Init, DictInv
<1>2. DictInv /\ [PartsNext]_<<part, client, lua, ui, draw, dict>> => DictInv'
  <2> SUFFICES ASSUME DictInv, [PartsNext]_<<part, client, lua, ui, draw, dict>> PROVE DictInv'
    OBVIOUS
  <2>1. Dict!Next \/ UNCHANGED dict
    BY DEF PartsNext, Lua_Next, Ui_Next, Draw_Next, Dict_Next
  <2>2. QED
    BY <2>1, DictSteps, DictStays
<1>3. DictInv => DictionaryAnswers
  <2> SUFFICES ASSUME DictInv PROVE DictionaryAnswers
    OBVIOUS
  <2>1. PICK fs, f, p : fs = frames /\ f = file /\ p = params
    OBVIOUS
  <2>2. f \in Seq(Words) /\ garbage \in Words /\ p.include_weird_or_vulgar = FALSE
    BY <2>1 DEF DictInv
  <2>3. handle = "dict" /\ Dict!Ended => Whole(fs, f)
    BY <2>1, IsWhole
  <2>4. Dict!FoundUnlessInLastFrame
    <3> SUFFICES ASSUME handle = "dict", Dict!Ended, NEW w \in Words
                 PROVE  Dict!dict_is_valid_word(frames, w) <=>
                          \E i \in 1 .. Len(frames) :
                            /\ w \in Dict!ToSet(frames[i].words) /\ w \in Dict!ToSet(file)
                            /\ i < Len(frames) \/ w = Dict!first_word(frames[i])
      BY DEF Dict!FoundUnlessInLastFrame
    <3>1. Dict!dict_is_valid_word(fs, w) <=>
            \E i \in 1 .. Len(fs) :
              /\ w \in Dict!ToSet(fs[i].words) /\ w \in Dict!ToSet(f)
              /\ i < Len(fs) \/ w = Dict!first_word(fs[i])
      BY <2>2, <2>3, FoundInDict
    <3>2. QED
      BY <2>1, <3>1
  <2>5. \A w \in Words : Dict!Wanted(w) <=> w \in Dict!ToSet(f) /\ Dict!word_matches_params(p, w)
    BY <2>1, <2>2 DEF Dict!Wanted, Dict!word_matches_params
  <2>6. handle = "dict" /\ Dict!Ended =>
          {Dict!Entry(fs, spot) : spot \in Dict!matching(fs, p)} = {w \in Words : Dict!Wanted(w)}
    <3> SUFFICES ASSUME handle = "dict", Dict!Ended
                 PROVE  {Dict!Entry(fs, spot) : spot \in Dict!matching(fs, p)} = {w \in Words : Dict!Wanted(w)}
      OBVIOUS
    <3>1. Whole(fs, f)
      BY <2>3
    <3>2. Drawn(garbage, fs, p) = Fitting(f, p)
      BY <2>2, <3>1, MatchingAreWanted
    <3>3. Fitting(f, p) = {w \in Words : Dict!Wanted(w)}
      BY <2>5 DEF Fitting
    <3>4. QED
      BY <3>2, <3>3, DrawnIs
  <2>7. {Dict!Entry(fs, spot) : spot \in Dict!matching(fs, p)} = Drawn(garbage, fs, p)
    BY DrawnIs
  <2>8. Dict!RandomWordFits
    <3>1. ASSUME handle = "dict", Dict!Ended, answer # 0, dead = "no"
          PROVE  /\ Dict!Wanted(answer)
                 /\ {w \in Words : Dict!Wanted(w)} = {Dict!Entry(fs, spot) : spot \in Dict!matching(fs, p)}
      <4>1. answer \in Drawn(garbage, fs, p)
        BY <2>1, <3>1 DEF DictInv
      <4>2. answer \in {w \in Words : Dict!Wanted(w)}
        BY <2>6, <2>7, <3>1, <4>1
      <4>3. QED
        BY <2>6, <3>1, <4>2
    <3>2. ASSUME dead = "modulo zero", Dict!Ended, NEW w \in Words
          PROVE  ~Dict!Wanted(w)
      <4>1. handle = "dict" /\ Drawn(garbage, fs, p) = {}
        BY <2>1, <3>2 DEF DictInv
      <4>2. {v \in Words : Dict!Wanted(v)} = {}
        BY <2>6, <2>7, <3>2, <4>1
      <4>3. QED
        BY <4>2
    <3>3. dead = "assert" => dictClient = "c" /\ handle = "null"
      BY DEF DictInv
    <3>4. QED
      BY <2>1, <3>1, <3>2, <3>3 DEF Dict!RandomWordFits
  <2>9. QED
    BY <2>4, <2>8 DEF DictionaryAnswers, Dict!DictionaryAnswers
<1>4. QED
  BY <1>1, <1>2, <1>3, PTL DEF PartsSpec

=============================================================================
