--------------------------- MODULE HistoryBrowser ---------------------------
(***************************************************************************)
(* The history browser (src/cpp_libs/history_browse_ui): a list of saved   *)
(* sessions, a window that pages through the states of one, and a window   *)
(* that deletes the oldest.  With it the small libraries that turn touches *)
(* and mouse events into presses and scrolling (touch_press_handler,       *)
(* touch_scroll_handler, mouse_scroll_handler, button_helper) and the      *)
(* callbacks a preview runs with (game_api_helper).                        *)
(*                                                                         *)
(* Coordinates are the code's pixels.  The database is here only the set   *)
(* of sessions that still have states; SavedStateDb models it.             *)
(***************************************************************************)
EXTENDS Integers, Sequences, FiniteSets, FiniteSetsExt

CONSTANTS Stores,       \* bound: what may be saved on the device
          MaxMoves,     \* bound: the last move of a session
          MaxPreviews,  \* 10 in the code
          Spots,        \* the places <<y, x>> where the user presses
          MaxTouches,   \* bound: fingers put on the screen, each with a new id
          MaxSteps,     \* bound: steps of the mouse
          Pointers,     \* subset of {"touch", "mouse"}
          WheelSteps    \* how far the wheel turns

\* What the constants must satisfy.
HistoryBrowserAssumption ==
  /\ \A db \in Stores : \A s \in DOMAIN db : db[s].last \in 0 .. MaxMoves
  /\ MaxMoves \in Nat /\ MaxPreviews \in Nat
  /\ MaxTouches \in Nat /\ MaxSteps \in Nat
  /\ \A p \in Spots : p[1] \in Nat /\ p[2] \in Nat
  /\ Pointers \subseteq {"touch", "mouse"} /\ WheelSteps \subseteq Int

VARIABLES saved,    \* the sessions with states: their last move, date and game
          head,     \* get_new_session_id
          list,     \* history_preview_entries
          drawn,    \* what each extra canvas shows: <<session, move>>
          canvas,   \* the active canvas
          window,   \* "select", "move" or "delete"; "game" when a game is loaded
          chosen,   \* session_id_selected and move_id_selected
          y_pos,    \* how far the list is scrolled
          press,    \* the TouchPressHandler of each window
          scroll,   \* the TouchScrollHandler
          mouse,    \* the MouseScrollHandler
          pointer,  \* what the user has
          down,     \* the fingers on the screen
          lost,     \* the touches that the system took over
          missed,   \* the fingers lifted while another window than the list was shown
          touches,  \* fingers put down so far
          pressed   \* where this press was, and where its finger was put down

vars == <<saved, head, list, drawn, canvas, window, chosen, y_pos, press, scroll,
          mouse, pointer, down, lost, missed, touches, pressed>>

\* The canvases: the page's, one for each preview, and one for a state.
Page == 0
MovePreview == MaxPreviews + 1
Windows == {"select", "move", "delete"}
Nobody == 0
Session(s) == saved[s]
Saved == DOMAIN saved

-----------------------------------------------------------------------------
(* Touches, the mouse and buttons *)

far == 20
Away(a, b) == IF a > b THEN a - b ELSE b - a

\* A handler that waits for no finger.
NoTouch == [id |-> Nobody, at |-> <<0, 0>>]

\* Mutant: the finger's end is forgotten unless it is a press.
touch_press_Keeps(h, evt, id, p) ==
  IF h.id = Nobody THEN IF evt = "touchstart" THEN [id |-> id, at |-> p] ELSE h
  ELSE IF h.id # id THEN h
  ELSE IF evt = "touchend" /\ Away(p[1], h.at[1]) < far /\ Away(p[2], h.at[2]) < far THEN NoTouch
  ELSE h

\* TouchPressHandler: what it holds after an event of one finger.
touch_press(h, evt, id, p) ==
  IF h.id = Nobody THEN IF evt = "touchstart" THEN [id |-> id, at |-> p] ELSE h
  ELSE IF h.id # id THEN h
  ELSE IF \/ evt \in {"touchcancel", "touchend"}
          \/ evt = "touchmove" /\ Away(p[1], h.at[1]) > far /\ Away(p[2], h.at[2]) > far
       THEN NoTouch ELSE h

is_press(h, evt, id, p) ==
  /\ h.id = id /\ evt = "touchend"
  /\ Away(p[1], h.at[1]) < far /\ Away(p[2], h.at[2]) < far

\* TouchScrollHandler: what it holds after the event, and how far the list moves.
touch_scroll(h, evt, id, p) ==
  IF h.id = Nobody THEN IF evt = "touchstart" THEN [id |-> id, at |-> p] ELSE h
  ELSE IF h.id # id THEN h
  ELSE IF evt = "touchmove" THEN [h EXCEPT !.at = p]
  ELSE IF evt \in {"touchend", "touchcancel"} THEN NoTouch ELSE h
touch_scroll_diff(h, evt, id, p) ==
  IF h.id = id /\ evt = "touchmove" THEN p[1] - h.at[1] ELSE 0

\* MouseScrollHandler.  A mouse that left the canvas and comes back with its
\* button up has let go.
NoMouse == [down |-> FALSE, left |-> FALSE, y |-> 0]
mouse_back(h, y, button) ==
  IF ~h.left THEN h
  ELSE IF button THEN [h EXCEPT !.left = FALSE, !.y = y]
  ELSE [h EXCEPT !.down = FALSE, !.left = FALSE]
mouse_move(h, y, button) ==
  LET b == mouse_back(h, y, button) IN IF b.down THEN [b EXCEPT !.y = y] ELSE b
mouse_diff(h, y, button) ==
  LET b == mouse_back(h, y, button) IN IF b.down THEN y - b.y ELSE 0
mouse_evt(h, evt, y) ==
  CASE evt = "down"  -> [down |-> TRUE, left |-> FALSE, y |-> y]
    [] evt = "up"    -> [h EXCEPT !.down = FALSE]
    [] evt = "leave" -> [h EXCEPT !.left = TRUE]

\* ButtonInfo::fromSize, and the first button that holds the point.
fromSize(y, x, ysize, xsize, id) == [y |-> y .. y + ysize, x |-> x .. x + xsize, id |-> id]
button_pressed(buttons, p) ==
  LET hit == {i \in 1 .. Len(buttons) : p[1] \in buttons[i].y /\ p[2] \in buttons[i].x}
  IN IF hit = {} THEN "none" ELSE buttons[Min(hit)].id

-----------------------------------------------------------------------------
(* The layout *)

CANVAS_HEIGHT == 480
CANVAS_WIDTH  == 480
session_preview_size == 200
spacing == 15
padding == 5
text_size == 18
date_text_size == 14
info_size == CANVAS_HEIGHT \div 8
button_size_y == info_size - 4 * padding
move_preview_size == CANVAS_HEIGHT - (info_size + 3 * padding + text_size + date_text_size)
move_preview_y_start == button_size_y + 2 * padding
info_btn_y_start == move_preview_y_start + move_preview_size + padding
session_select_button_y_size == session_preview_size + 2 * padding

move_select_buttons ==
  LET w == (CANVAS_WIDTH - 2 * padding) \div 6
  IN << fromSize(info_btn_y_start, 5, button_size_y, w, "first"),
        fromSize(info_btn_y_start, 10 + w, button_size_y, w, "prev"),
        fromSize(info_btn_y_start, CANVAS_WIDTH - 15 - 2 * w, button_size_y, w, "next"),
        fromSize(info_btn_y_start, CANVAS_WIDTH - 10 - w, button_size_y, w, "last"),
        fromSize(padding, padding, button_size_y, w, "back") >>
delete_info_buttons ==
  << fromSize(5, 5, button_size_y, CANVAS_WIDTH - 10, "delete tail"),
     fromSize(10 + button_size_y, 5, button_size_y, CANVAS_WIDTH - 10, "counts") >>

clip(lo, v, hi) == IF v <= lo THEN lo ELSE IF v >= hi THEN hi ELSE v
max_y_pos(l) == clip(0, Len(l) * (session_preview_size + spacing) - CANVAS_HEIGHT, 100000)

\* Where SessionSelectState::update draws the i-th entry.
EntryTop(i) == padding + (i - 1) * (session_preview_size + spacing) + y_pos

-----------------------------------------------------------------------------
(* Previews *)

\* create_default_callbacks does nothing; a preview gets the page's callbacks for
\* these only.
PassedOn == {"draw_graphic", "draw_line", "draw_text", "draw_rect", "draw_triangle",
             "draw_circle", "draw_clear", "draw_refresh", "set_status_err",
             "get_user_colour_pref", "get_game_id"}
create_preview_draw_callbacks(c) == IF c \in PassedOn THEN "page" ELSE "nothing"

get_last_move_id(s) == IF s \in Saved THEN Session(s).last ELSE 0
read_state(s, m) == s \in Saved /\ m \in 0 .. Session(s).last

\* init_game runs the whole game on a state: it draws on the active canvas, and
\* many games save the state they begin with.
init_game(s, m) ==
  saved' = IF create_preview_draw_callbacks("save_state") = "page"
           THEN [saved EXCEPT ![s].last = IF @ < MaxMoves THEN @ + 1 ELSE @] ELSE saved

\* The sessions that generate_state_previews looks at, newest first, until one
\* has no state.
Examined ==
  LET upTo == {i \in 0 .. MaxPreviews - 1 : \A j \in 0 .. i : head - 1 - j \in Saved}
  IN [i \in 1 .. Cardinality(upTo) |-> head - i]

\* Those whose game this build has, sorted by date; std::sort leaves equal dates in
\* any order.
Previews ==
  LET entries == {[session |-> Examined[i], canvas |-> i] :
                    i \in {j \in 1 .. Len(Examined) : Session(Examined[j]).known}}
  IN  {l \in [1 .. Cardinality(entries) -> entries] :
         \A i, j \in DOMAIN l : i < j =>
           l[i] # l[j] /\ Session(l[i].session).date >= Session(l[j].session).date}

\* The last state of every session looked at is drawn on a canvas of its own.
generate_state_previews ==
  /\ list' \in Previews
  /\ drawn' = [c \in 1 .. Len(Examined) \cup {MovePreview} |->
                 IF c = MovePreview THEN <<0, 0>>
                 ELSE <<Examined[c], get_last_move_id(Examined[c])>>]
  /\ canvas' = Page

NoPress == [at |-> <<0, 0>>, from |-> <<0, 0>>]

Init ==
  /\ saved \in Stores /\ head = Cardinality(Saved) + (IF Saved = {} THEN 0 ELSE Min(Saved))
  /\ list = <<>> /\ drawn = [c \in {MovePreview} |-> <<0, 0>>] /\ canvas = Page
  /\ window = "closed" /\ chosen = <<0, 0>> /\ y_pos = 0
  /\ press = [w \in Windows |-> NoTouch] /\ scroll = NoTouch /\ mouse = NoMouse
  /\ pointer \in Pointers /\ down = {} /\ lost = {} /\ missed = {} /\ touches = 0
  /\ pressed = NoPress

\* The page opens the history browser.
init_lib ==
  /\ window = "closed" /\ window' = "select"
  /\ generate_state_previews
  /\ UNCHANGED <<saved, head, chosen, y_pos, press, scroll, mouse, pointer, down, lost, missed, touches, pressed>>

-----------------------------------------------------------------------------
(* What a press does *)

\* MoveSelectState::update draws the state on a canvas of its own and gives the
\* page's canvas back, unless there is no state.
MoveUpdate(c) ==
  IF read_state(c[1], c[2])
  THEN /\ drawn' = [drawn EXCEPT ![MovePreview] = c] /\ init_game(c[1], c[2])
       /\ canvas' = Page
  ELSE canvas' = MovePreview /\ UNCHANGED <<drawn, saved>>

\* Mutant: the move drawn is the one chosen before the button.
update_Before(w, c) ==
  IF w = "move" THEN MoveUpdate(<<c[1], chosen[2]>>) ELSE UNCHANGED <<drawn, canvas, saved>>

\* update: only the window with the states changes what is on a canvas.
update(w, c) ==
  IF w = "move" THEN MoveUpdate(c) ELSE UNCHANGED <<drawn, canvas, saved>>

\* Mutant: the list is taken not to be scrolled.
item_selected_Unscrolled(p) == p[1] \div (session_select_button_y_size + padding) + 1
item_selected(p) == (p[1] - y_pos) \div (session_select_button_y_size + padding) + 1

SelectPressed(p) ==
  /\ window = "select"
  /\ IF item_selected(p) > Len(list)
     THEN UNCHANGED <<chosen, window>>
     ELSE LET s == list[item_selected(p)].session
          IN chosen' = <<s, get_last_move_id(s)>> /\ window' = "move"
  /\ update(window', chosen')

move_select_btn_clicked(id) ==
  LET last == get_last_move_id(chosen[1])
      m == chosen[2]
  IN CASE id = "first" -> 0
       [] id = "prev"  -> IF m > 0 THEN m - 1 ELSE m
       [] id = "next"  -> IF m < last THEN m + 1 ELSE m
       [] id = "last"  -> last
       [] OTHER        -> m

InPreview(p) == p[1] \in move_preview_y_start .. move_preview_y_start + move_preview_size

\* The button, and then the preview: it loads the state, and the browser's own
\* state is deleted.  If the state cannot be read the browser stays.
MovePressed(p) ==
  LET id == button_pressed(move_select_buttons, p)
  IN /\ window = "move"
     /\ chosen' = <<chosen[1], move_select_btn_clicked(id)>>
     /\ IF InPreview(p)
        THEN /\ window' = IF read_state(chosen'[1], chosen'[2]) THEN "game" ELSE window
             /\ UNCHANGED <<drawn, canvas, saved>>
        ELSE /\ window' = IF id = "back" THEN "select" ELSE window
             /\ update(window', chosen')

\* delete_session of the tail; nothing leads back from this window.
DeletePressed(p) ==
  /\ window = "delete"
  /\ saved' = IF button_pressed(delete_info_buttons, p) = "delete tail" /\ Saved # {}
              THEN [s \in Saved \ {Min(Saved)} |-> saved[s]] ELSE saved
  /\ UNCHANGED <<drawn, canvas, chosen, window>>

handle_user_pressed(p, from) ==
  /\ SelectPressed(p) \/ MovePressed(p) \/ DeletePressed(p)
  /\ pressed' = [at |-> p, from |-> from]

NotPressed == pressed' = NoPress /\ UNCHANGED <<saved, drawn, canvas, chosen, window>>

-----------------------------------------------------------------------------
(* Events *)

Scrolled(diff) == clip(-max_y_pos(list), y_pos + diff, 0)

\* handle_touch_evt of the window that is shown.
handle_touch_evt(evt, id, p) ==
  /\ window \in Windows
  /\ press' = [press EXCEPT ![window] = touch_press(@, evt, id, p)]
  /\ IF window = "select"
     THEN /\ scroll' = touch_scroll(scroll, evt, id, p)
          /\ y_pos' = Scrolled(touch_scroll_diff(scroll, evt, id, p))
     ELSE UNCHANGED <<scroll, y_pos>>
  /\ UNCHANGED <<list, head, mouse, pointer>>

Touch(p) ==
  /\ pointer = "touch" /\ touches < MaxTouches
  /\ touches' = touches + 1 /\ down' = down \cup {touches'}
  /\ handle_touch_evt("touchstart", touches', p) /\ NotPressed
  /\ UNCHANGED <<lost, missed>>
MoveFinger(f, p) ==
  /\ pointer = "touch" /\ f \in down /\ handle_touch_evt("touchmove", f, p) /\ NotPressed
  /\ UNCHANGED <<down, lost, missed, touches>>
\* The press is where the list is once it is scrolled.
Lift(f, p) ==
  /\ pointer = "touch" /\ f \in down /\ down' = down \ {f}
  /\ handle_touch_evt("touchend", f, p)
  /\ IF is_press(press[window], "touchend", f, p)
     THEN handle_user_pressed(p, press[window].at) ELSE NotPressed
  /\ missed' = IF window = "select" THEN missed ELSE missed \cup {f}
  /\ UNCHANGED <<lost, touches>>
\* The page does not pass touchcancel on (alexgames.js).
SystemTakesTouch(f) ==
  /\ pointer = "touch" /\ f \in down /\ down' = down \ {f} /\ lost' = lost \cup {f}
  /\ UNCHANGED <<saved, head, list, drawn, canvas, window, chosen, y_pos, press, scroll,
                 mouse, pointer, missed, touches, pressed>>

\* The mouse.  While it is outside of the canvas its button may go down or up, and
\* the first event when it is back is a move.
MouseSteps == touches < MaxSteps /\ touches' = touches + 1
held == down # {}
handle_mousemove(p) ==
  /\ pointer = "mouse" /\ window \in Windows /\ MouseSteps
  /\ IF window = "select"
     THEN /\ mouse' = mouse_move(mouse, p[1], held)
          /\ y_pos' = Scrolled(mouse_diff(mouse, p[1], held))
     ELSE UNCHANGED <<mouse, y_pos>>
  /\ NotPressed
  /\ UNCHANGED <<head, list, press, scroll, pointer, down, lost, missed>>
handle_mouse_evt(evt, p) ==
  /\ pointer = "mouse" /\ window \in Windows /\ MouseSteps /\ ~mouse.left
  /\ evt = "up" => held
  /\ down' = CASE evt = "down" -> {1} [] evt = "up" -> {} [] OTHER -> down
  /\ mouse' = IF window = "select" THEN mouse_evt(mouse, evt, p[1]) ELSE mouse
  /\ NotPressed
  /\ UNCHANGED <<head, list, y_pos, press, scroll, pointer, lost, missed>>
ButtonOutside ==
  /\ pointer = "mouse" /\ mouse.left /\ MouseSteps
  /\ down' = {1} \ down
  /\ UNCHANGED <<saved, head, list, drawn, canvas, window, chosen, y_pos, press, scroll,
                 mouse, pointer, lost, missed, pressed>>
handle_wheel_changed(dy) ==
  /\ pointer = "mouse" /\ window \in Windows /\ MouseSteps
  /\ y_pos' = IF window = "select" THEN Scrolled(-dy) ELSE y_pos
  /\ NotPressed
  /\ UNCHANGED <<head, list, press, scroll, mouse, pointer, down, lost, missed>>
\* The page sends a click after every release, dragged or not.
handle_user_clicked(p) ==
  /\ pointer = "mouse" /\ window \in Windows /\ MouseSteps /\ ~mouse.left /\ ~held
  /\ handle_user_pressed(p, p)
  /\ UNCHANGED <<head, list, y_pos, press, scroll, mouse, pointer, down, lost, missed>>

\* The option "Delete sessions".
handle_game_option_evt ==
  /\ window \in {"select", "move"} /\ window' = "delete"
  /\ UNCHANGED <<saved, head, list, drawn, canvas, chosen, y_pos, press, scroll, mouse,
                 pointer, down, lost, missed, touches, pressed>>

\* Another page deletes the oldest session (localStorage is shared).
OtherPageDeletes ==
  /\ window \in {"select", "move"} /\ Saved # {}
  /\ saved' = [s \in Saved \ {Min(Saved)} |-> saved[s]]
  /\ UNCHANGED <<head, list, drawn, canvas, window, chosen, y_pos, press, scroll, mouse,
                 pointer, down, lost, missed, touches, pressed>>

Next ==
  \/ init_lib
  \/ \E p \in Spots : Touch(p) \/ handle_user_clicked(p)
  \/ \E f \in 1 .. MaxTouches : SystemTakesTouch(f) \/ \E p \in Spots : MoveFinger(f, p) \/ Lift(f, p)
  \/ \E p \in Spots : handle_mousemove(p)
  \/ ButtonOutside
  \/ \E evt \in {"down", "up", "leave"}, p \in Spots : handle_mouse_evt(evt, p)
  \/ \E dy \in WheelSteps : handle_wheel_changed(dy)
  \/ handle_game_option_evt \/ OtherPageDeletes

Spec == Init /\ [][Next]_vars

-----------------------------------------------------------------------------
\* Wherever the list is scrolled, a press inside an entry opens the session whose
\* last state the entry's canvas shows, and a finger presses only where it was put
\* down, give or take 20 pixels along both axes.
PressOpensWhatIsShown ==
  [][window = "select" /\ window' = "move" =>
       /\ \A i \in 1 .. Len(list) :
            pressed'.at[1] \in EntryTop(i)' .. EntryTop(i)' + session_select_button_y_size - 1 =>
              chosen'[1] = list[i].session /\ drawn[list[i].canvas][1] = chosen'[1]
       /\ \A k \in {1, 2} : Away(pressed'.at[k], pressed'.from[k]) < far]_vars

\* What the browser draws lands on the page, unless a session it lists was deleted
\* by another page; then the canvas of the preview stays active.
DrawsOnPage ==
  window \in Windows /\ canvas # Page =>
    \E i \in 1 .. Len(list) : list[i].session \notin Saved

\* The state that the game gets is the one the preview shows, and it was there.
LoadsWhatIsShown == window = "game" => drawn[MovePreview] = chosen

\* Each canvas of the browser shows what it is there for, through every window it
\* opens and every game it draws.
CanvasesAreRight == DrawsOnPage /\ LoadsWhatIsShown

\* The window that is shown waits for a finger to press only while it is on the
\* screen, so that the next touch counts, unless the system took the touch over.
\* The list is scrolled by a finger on the screen too, or waits for one whose end it
\* was not told: taken over, or lifted while another window was shown.  And it
\* follows the mouse only while its button is held, wherever it was let go.
FollowsWhatIsHeld ==
  window \in Windows =>
    /\ press[window].id \in down \cup lost \cup {Nobody}
    /\ window = "select" => /\ scroll.id \in down \cup lost \cup missed \cup {Nobody}
                            /\ mouse.down /\ ~mouse.left => held
=============================================================================
