-------------------------------- MODULE HostUi --------------------------------
(***************************************************************************)
(* What a game puts on its host besides the drawing: popups, buttons,      *)
(* options, timers and events, as the script asks for them (lua_api.c) and *)
(* the browser (emscripten_api.c and its page), the desktop (wx_main.cpp,  *)
(* wx_game_popup.cpp) and Android (alex_games_android_jni.cpp) show them,  *)
(* and what is left of it when another game begins.                        *)
(***************************************************************************)
EXTENDS Integers, Sequences, FiniteSetsExt, SequencesExt

CONSTANTS Clients,    \* subset of {"desktop", "browser", "android"}
          Infos,      \* the popups a script may ask for
          EvtIds,     \* the events a script may ask for
          MaxGames, MaxWindows, MaxThings \* bounds: games, popups, and buttons,
                                          \* options and timers together

\* The characters of a text: "n" for those that mean something behind a backslash,
\* "letter" for those that mean nothing there, "control" for a tab, a carriage return
\* and every other character below the space but the newline.
Characters == {"n", "letter", "quote", "newline", "backslash", "control"}

\* The texts of an item: its message, what is on its button, or a dropdown's label
\* and the options behind it.
AnyItem == [type : {"msg", "btn", "dropdown"}, texts : Seq(Seq(Characters)), id : Int]

-----------------------------------------------------------------------------
\* The JSON in which a popup gets to the page.

\* Mutant: a newline is not escaped.
write_json_str_Raw(text) ==
  FlattenSeq([i \in DOMAIN text |->
    IF text[i] = "quote" THEN <<"backslash", "quote">> ELSE <<text[i]>>])

\* Escapes quotes and newlines, and nothing else.
Escaped(c) ==
  CASE c = "quote"   -> <<"backslash", "quote">>
    [] c = "newline" -> <<"backslash", "n">>
    [] OTHER         -> <<c>>
write_json_str(text) == FlattenSeq([i \in DOMAIN text |-> Escaped(text[i])])

\* JSON.parse of a string, one character at a time.  It refuses a control character
\* wherever it stands, the newline among them, and a backslash before what means
\* nothing there; what comes behind a bare quote is taken to be no JSON.
JsonChar(done, c) ==
  CASE ~done.ok ->
         done
    [] done.ok /\ done.escaped /\ c = "n" ->
         [done EXCEPT !.text = Append(@, "newline"), !.escaped = FALSE]
    [] done.ok /\ done.escaped /\ c \in {"quote", "backslash"} ->
         [done EXCEPT !.text = Append(@, c), !.escaped = FALSE]
    [] done.ok /\ ~done.escaped /\ c = "backslash" ->
         [done EXCEPT !.escaped = TRUE]
    [] done.ok /\ ~done.escaped /\ c \in {"n", "letter"} ->
         [done EXCEPT !.text = Append(@, c)]
    [] OTHER ->
         [done EXCEPT !.ok = FALSE]
JsonParse(written) ==
  LET done[i \in 0 .. Len(written)] ==
        IF i = 0 THEN [ok |-> TRUE, text |-> <<>>, escaped |-> FALSE]
        ELSE JsonChar(done[i - 1], written[i])
      end == done[Len(written)]
  IN [ok |-> end.ok /\ ~end.escaped, text |-> end.text]

\* popup_info_to_json_str, and the popup that comes out of it.
Parsed(text) == JsonParse(write_json_str(text)).text
ParsedItems(info) ==
  [i \in DOMAIN info.items |->
     [info.items[i] EXCEPT !.texts = [k \in DOMAIN @ |-> Parsed(@[k])]]]
TextsOf(info) == {info.title} \cup UNION {ToSet(info.items[i].texts) : i \in DOMAIN info.items}
JsonFails(info) == \E t \in TextsOf(info) : ~JsonParse(write_json_str(t)).ok

\* The texts of a popup fit the fields of struct popup_info, and its JSON the buffer of
\* js_show_popup, of whose end write_str takes no notice: around each text there are
\* fewer than 64 characters.
JsonRoom == 10 * 1024
JsonLength(texts) == FoldSeq(LAMBDA t, n : n + Len(write_json_str(t)) + 64, 0, texts)
Fits(info) ==
  FoldSeq(LAMBDA item, n : n + JsonLength(item.texts), JsonLength(<<info.title>>), info.items)
    <= JsonRoom

-----------------------------------------------------------------------------
\* What the constants must satisfy.
HostUiAssumption ==
  /\ Clients \subseteq {"desktop", "browser", "android"}
  /\ {MaxGames, MaxWindows, MaxThings} \subseteq Nat
  /\ Infos \subseteq [id : STRING, title : Seq(Characters), items : Seq(AnyItem)]
  /\ \A info \in Infos : Fits(info)

VARIABLES client,
          L,       \* the game that hears the user; 0 is the null pointer
          made,    \* games loaded so far
          gone,    \* games whose state was closed
          windows, \* the popups made so far
          g_popup, \* the popup the host knows of; 0 if none
          buttons, options, timers, \* the game each is of, in order of creation
          events,  \* the game that enabled each event; 0 if none
          threw,   \* the popup whose text left lua_api_busy set, if any
          heard,   \* what the user's last press brought, and to whom
          died

vars == <<client, L, made, gone, windows, g_popup, buttons, options, timers,
          events, threw, heard, died>>

Nothing == [kind |-> "nothing", game |-> 0, of |-> 0, id |-> 0, state |-> <<>>]

Init ==
  /\ client \in Clients
  /\ L = 0 /\ made = 0 /\ gone = {}
  /\ windows = <<>> /\ g_popup = 0
  /\ buttons = <<>> /\ options = <<>> /\ timers = <<>>
  /\ events = [e \in EvtIds |-> 0]
  /\ threw = <<>> /\ heard = Nothing /\ died = FALSE

-----------------------------------------------------------------------------
\* Popups.  A window remembers the popup it was asked for, for the properties.
Window(kind, info, title, items, chosen) ==
  [kind |-> kind, game |-> IF kind = "select" THEN 0 ELSE L, id |-> info.id, asked |-> info,
   title |-> title, items |-> items, chosen |-> chosen, visible |-> TRUE]
Hide(ws, w) == IF w = 0 THEN ws ELSE [ws EXCEPT ![w].visible = FALSE]

\* The first item of a type, if there is one.
First(items, type) ==
  LET is == {i \in DOMAIN items : items[i].type = type}
  IN IF is = {} THEN <<>> ELSE <<items[Min(is)]>>

\* What each host makes of the texts: the page shows them as parsed; the desktop hands
\* its toolkit all of them, Android the title, the first message and the first button.
ShownTitle(info) == IF client = "browser" THEN Parsed(info.title) ELSE info.title
ShownItems(info) ==
  CASE client = "browser" -> ParsedItems(info)
    [] client = "desktop" -> info.items
    [] OTHER -> First(info.items, "msg") \o First(info.items, "btn")

CanAsk == L # 0 /\ L \notin gone /\ threw = <<>>

\* lua_show_popup.  Each host shows one popup of the script at a time.  On the
\* page a text that JSON.parse refuses throws through the script's call, which
\* never leaves LUA_API_ENTER.
show_popup(info) ==
  /\ CanAsk /\ Len(windows) < MaxWindows
  /\ IF client = "browser" /\ JsonFails(info)
     THEN threw' = <<info>> /\ UNCHANGED <<windows, g_popup>>
     ELSE /\ windows' = Append(Hide(windows, g_popup),
                               Window("script", info, ShownTitle(info), ShownItems(info),
                                      [i \in DOMAIN info.items |-> 0]))
          /\ g_popup' = Len(windows) + 1
          /\ UNCHANGED threw
  /\ heard' = Nothing
  /\ UNCHANGED <<client, L, made, gone, buttons, options, timers, events, died>>

\* Mutant: forgets the popup, and leaves it on the screen.
hide_popup_Forgets == windows' = windows /\ g_popup' = 0

hide_popup == windows' = Hide(windows, g_popup) /\ g_popup' = 0

\* For a script of Android hide_popup does nothing.
lua_hide_popup ==
  /\ CanAsk /\ g_popup # 0 /\ client # "android"
  /\ hide_popup
  /\ heard' = Nothing
  /\ UNCHANGED <<client, L, made, gone, buttons, options, timers, events, threw, died>>

\* The user picks option o of a dropdown, or closes a window of the toolkit: the
\* program is told of neither.
Choose(w, i, o) ==
  /\ windows[w].visible /\ windows[w].items[i].type = "dropdown"
  /\ o \in 0 .. Len(windows[w].items[i].texts) - 2
  /\ windows' = [windows EXCEPT ![w].chosen[i] = o]
  /\ heard' = Nothing
  /\ UNCHANGED <<client, L, made, gone, g_popup, buttons, options, timers, events, threw, died>>
Dismiss(w) ==
  /\ client # "browser" /\ windows[w].visible
  /\ windows' = Hide(windows, w)
  /\ heard' = Nothing
  /\ UNCHANGED <<client, L, made, gone, g_popup, buttons, options, timers, events, threw, died>>

Dropdowns(win) == {i \in DOMAIN win.items : win.items[i].type = "dropdown"}

\* Mutant: only the first dropdown is reported.
get_state_First(win) ==
  [i \in {j \in Dropdowns(win) : \A k \in Dropdowns(win) : j <= k} |->
     [id |-> win.items[i].id, selected |-> win.chosen[i]]]

\* What the dropdowns of a popup show, by the place of each: scripts look them up by
\* their ids.
get_state(win) ==
  [i \in Dropdowns(win) |-> [id |-> win.items[i].id, selected |-> win.chosen[i]]]

\* The button at place i: the script hears the popup's id, the button's, and the
\* state.  Android says 0 and no state.  The desktop's window keeps its game, the
\* others ask for the current one.
OnButton(w, i) ==
  LET win == windows[w]
  IN /\ win.visible /\ win.kind = "script" /\ win.items[i].type = "btn"
     /\ L \notin gone /\ threw = <<>>
     /\ heard' = [kind |-> "popup", game |-> IF client = "desktop" THEN win.game ELSE L,
                  of |-> win.id,
                  id |-> IF client = "android" THEN 0 ELSE win.items[i].id,
                  state |-> IF client = "android" THEN <<>> ELSE get_state(win)]
     /\ windows' = IF client = "android" THEN Hide(windows, w) ELSE windows
     /\ UNCHANGED <<client, L, made, gone, g_popup, buttons, options, timers, events, threw, died>>

-----------------------------------------------------------------------------
\* Buttons, options, timers and events.
Room == Len(buttons) + Len(options) + Len(timers) < MaxThings

create_btn ==
  /\ CanAsk /\ Room
  /\ buttons' = IF client = "android" THEN buttons ELSE Append(buttons, L)
  /\ heard' = Nothing
  /\ UNCHANGED <<client, L, made, gone, windows, g_popup, options, timers, events, threw, died>>

\* Only the page shows options.
add_game_option ==
  /\ CanAsk /\ Room
  /\ options' = IF client = "browser" THEN Append(options, L) ELSE options
  /\ heard' = Nothing
  /\ UNCHANGED <<client, L, made, gone, windows, g_popup, buttons, timers, events, threw, died>>

\* A period above 0 adds a timer; 0 ends all of them on the page only.
update_timer_ms(period) ==
  /\ CanAsk /\ (period > 0 => Room)
  /\ timers' = CASE period > 0          -> Append(timers, L)
                 [] client = "browser"  -> <<>>
                 [] OTHER               -> timers
  /\ heard' = Nothing
  /\ UNCHANGED <<client, L, made, gone, windows, g_popup, buttons, options, events, threw, died>>
delete_timer(h) ==
  /\ CanAsk
  /\ timers' = RemoveAt(timers, h)
  /\ heard' = Nothing
  /\ UNCHANGED <<client, L, made, gone, windows, g_popup, buttons, options, events, threw, died>>

\* Of the desktop's events it knows the keys and the mouse; nothing there disables
\* one.  On Android nothing is done for either.
Knows(e) == \/ client = "browser"
            \/ client = "desktop" /\ e \in {"key", "mouse_move", "mouse_updown"}
enable_evt(e) ==
  /\ CanAsk
  /\ events' = IF Knows(e) THEN [events EXCEPT ![e] = L] ELSE events
  /\ heard' = Nothing
  /\ UNCHANGED <<client, L, made, gone, windows, g_popup, buttons, options, timers, threw, died>>
disable_evt(e) ==
  /\ CanAsk /\ client = "browser"
  /\ events' = [events EXCEPT ![e] = 0]
  /\ heard' = Nothing
  /\ UNCHANGED <<client, L, made, gone, windows, g_popup, buttons, options, timers, threw, died>>

\* A button or an option tells the current game, whosever it is.
handle_click(things, kind, i) ==
  /\ L # 0 /\ L \notin gone /\ threw = <<>>
  /\ heard' = [kind |-> kind, game |-> L, of |-> things[i], id |-> i, state |-> <<>>]
  /\ UNCHANGED <<client, L, made, gone, windows, g_popup, buttons, options, timers, events, threw, died>>

-----------------------------------------------------------------------------
\* Another game.

\* init_game_options walks over the live list of children while it removes them,
\* and so passes over every second one.
init_game_options == [i \in 1 .. Len(options) \div 2 |-> options[2 * i]]

\* Mutant: the buttons stay.
destroy_all_Buttons ==
  buttons' = buttons /\ timers' = <<>> /\ events' = [e \in EvtIds |-> 0]

\* The page's destroy_all; the desktop's and Android's are not implemented.
destroy_all ==
  buttons' = <<>> /\ timers' = <<>> /\ events' = [e \in EvtIds |-> 0]

\* game_init of the page: destroy_lua_game hides the popup, closes what the game
\* asked for and its state; then alex_init_game, which clears lua_api_busy.  If it
\* fails, init_game_api throws and the page keeps the closed game.
game_init(loads) ==
  /\ client = "browser" /\ L \notin gone /\ made < MaxGames
  /\ made' = made + 1
  /\ L' = IF loads THEN made + 1 ELSE L
  /\ threw' = <<>> /\ heard' = Nothing
  /\ IF L # 0
     THEN hide_popup /\ destroy_all /\ options' = init_game_options /\ gone' = gone \cup {L}
     ELSE UNCHANGED <<windows, g_popup, buttons, timers, events, options, gone>>
  /\ UNCHANGED <<client, died>>

\* The desktop and Android only call alex_init_game: nothing of the old game is
\* destroyed, except that Android's screen of a game takes its popup along.
StartGame(loads) ==
  /\ made < MaxGames
  /\ made' = made + 1
  /\ L' = IF loads THEN made + 1 ELSE 0
  /\ threw' = <<>> /\ heard' = Nothing
  /\ UNCHANGED <<client, gone, buttons, options, timers, events>>
jniInit(loads) ==
  client = "android" /\ StartGame(loads) /\ hide_popup /\ UNCHANGED died

\* The desktop's list of games: a popup, whatever popup is there.
GameSelect ==
  /\ client = "desktop" /\ Len(windows) < MaxWindows
  /\ windows' = Append(windows, Window("select", [id |-> "games", title |-> <<>>, items |-> <<>>],
                                     <<>>, <<>>, <<>>))
  /\ g_popup' = Len(windows) + 1
  /\ heard' = Nothing
  /\ UNCHANGED <<client, L, made, gone, buttons, options, timers, events, threw, died>>

\* A game is picked: whatever popup the host knows of is destroyed, and without
\* one the call goes through the null pointer.
game_selection_handle_popup_btn_clicked(w, loads) ==
  /\ windows[w].visible /\ windows[w].kind = "select"
  /\ IF g_popup = 0
     THEN died' = TRUE /\ heard' = Nothing
          /\ UNCHANGED <<client, L, made, gone, windows, g_popup, buttons, options, timers, events, threw>>
     ELSE hide_popup /\ StartGame(loads) /\ UNCHANGED died

Asks ==
  \/ \E info \in Infos : show_popup(info)
  \/ lua_hide_popup \/ create_btn \/ add_game_option
  \/ \E period \in {0, 1} : update_timer_ms(period)
  \/ \E h \in DOMAIN timers : delete_timer(h)
  \/ \E e \in EvtIds : enable_evt(e) \/ disable_evt(e)

User ==
  \/ \E w \in DOMAIN windows : \E i \in DOMAIN windows[w].items :
       OnButton(w, i) \/ \E o \in Nat \cap 0 .. 2 : Choose(w, i, o)
  \/ \E w \in DOMAIN windows : Dismiss(w)
  \/ \E i \in DOMAIN buttons : handle_click(buttons, "button", i)
  \/ \E i \in DOMAIN options : handle_click(options, "option", i)
  \/ GameSelect
  \/ \E loads \in BOOLEAN :
       \/ game_init(loads) \/ jniInit(loads)
       \/ \E w \in DOMAIN windows : game_selection_handle_popup_btn_clicked(w, loads)

Next == ~died /\ (Asks \/ User)
Spec == Init /\ [][Next]_vars

-----------------------------------------------------------------------------
Visible == {w \in DOMAIN windows : windows[w].visible}

\* One of a popup's texts has a character that write_json_str should escape and does
\* not.
Awkward(info) == \E t \in TextsOf(info) : {"backslash", "control"} \cap ToSet(t) # {}

\* What the last popup of a script shows is what the script asked for, word for word,
\* its title, messages, buttons, labels and options: the desktop's toolkit is always
\* given the texts as they are; Android's is given the title, the first message and
\* the first button; on the page it is so unless one of the texts has a backslash or a
\* control character other than the newline, and nothing but these can freeze it.
PopupsShowWhatWasAsked ==
  /\ \A i \in DOMAIN threw : client = "browser" /\ Awkward(threw[i])
  /\ \A w \in Visible : LET win == windows[w] IN
       win.kind = "script" /\ (client = "browser" => ~Awkward(win.asked)) =>
         /\ win.title = win.asked.title
         /\ IF client = "android"
            THEN \A i \in DOMAIN win.items : win.items[i] \in ToSet(win.asked.items)
            ELSE win.items = win.asked.items

\* Whoever hears of a popup's button is the game that showed it, and hears the id
\* the script gave the button and what every dropdown shows, however the games were
\* changed meanwhile.
AnswersReachTheAsker ==
  heard.kind = "popup" =>
    \E w \in DOMAIN windows :
      LET win == windows[w] IN
      /\ win.kind = "script" /\ heard.game = win.game /\ heard.of = win.asked.id
      /\ client # "android" =>
           /\ \E i \in DOMAIN win.asked.items :
                win.asked.items[i].type = "btn" /\ win.asked.items[i].id = heard.id
           /\ \A i \in DOMAIN win.asked.items : win.asked.items[i].type = "dropdown" =>
                \E k \in DOMAIN heard.state :
                  heard.state[k].id = win.asked.items[i].id /\ heard.state[k].selected = win.chosen[i]

\* On the page nothing but options outlives its game: no button, timer, event or
\* popup on it belongs to another than the one that plays.
PageBelongsToGame ==
  client = "browser" /\ L \notin gone =>
    /\ \A s \in {buttons, timers} : \A i \in DOMAIN s : s[i] = L
    /\ \A e \in EvtIds : events[e] \in {0, L}
    /\ \A w \in Visible : windows[w].game = L

\* The desktop's list of games ends the program only when it was opened twice.
OneSelectionIsSafe ==
  died => \E v, w \in DOMAIN windows : v # w /\ windows[v].kind = "select" /\ windows[w].kind = "select"

\* game_api.h on destroy_all: "The intention here is that game init could be called
\* again, and there wouldn't be anything lingering from the previous game."
NothingLingers == \A i \in DOMAIN options : options[i] = L
=============================================================================
