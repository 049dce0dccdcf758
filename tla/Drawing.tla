------------------------------- MODULE Drawing --------------------------------
(***************************************************************************)
(* A script's drawing: what it asks for (lua_api.c), what each client      *)
(* makes of it (emscripten_api.c, wx_main.cpp, AlexGamesCanvas.java) and   *)
(* when it gets on the screen.  The page draws at once; the desktop keeps  *)
(* a queue of Drawables that every paint event replays; Android hands the  *)
(* calls to a queue of its own, shown by draw_refresh.                     *)
(*                                                                         *)
(* A number of a script is given in halves, so that 3 stands for 1.5.  On  *)
(* the screen a place is in half pixels, that of a text being its baseline *)
(* and its beginning, middle or end, as it is aligned; the size of a text  *)
(* is in thirds of a pixel, of which a point has four.                     *)
(***************************************************************************)
EXTENDS Integers, Sequences, SequencesExt

CONSTANTS Clients,  \* subset of {"desktop", "browser", "android"}
          Calls,    \* what a script may draw
          MaxDrawn  \* bound: calls since the last draw_clear

\* What the desktop's toolkit measures of a text, in pixels: its bytes, how wide it is,
\* how high its font is, from the top to the baseline and in all, and how wide a
\* character of the font is on average.
Measures == [bytes : Nat, width : Nat, height : Nat, ascent : Nat, average : Nat]

\* The calls of a kind: the coordinates and sizes each of them gives, how a graphic is
\* turned or a text aligned, a colour of three or six digits, and the measures of a text,
\* which is one line.
CallsOf(kind, places, sizes, looks) ==
  [kind : {kind}, at : [1 .. places -> Int], dim : [1 .. sizes -> Nat], look : looks,
   colour : [length : {3, 6}, digit : 0 .. 15], measured : Measures]

\* What the constants must satisfy.
DrawingAssumption ==
  /\ Clients \subseteq {"desktop", "browser", "android"} /\ MaxDrawn \in Nat
  /\ Calls \subseteq CallsOf("graphic", 2, 2, {"plain", "turned", "flipped"})
                 \cup CallsOf("line", 4, 1, {"plain"})
                 \cup CallsOf("text", 2, 1, {"left", "centre", "right"})
                 \cup CallsOf("rect", 4, 1, {"plain"})
                 \cup CallsOf("triangle", 6, 1, {"plain"})
                 \cup CallsOf("circle", 2, 2, {"plain"})
  /\ \A c \in Calls : c.kind = "line" => c.dim[1] >= 2  \* a line is a pixel wide or more

VARIABLES client,
          asked,  \* the calls since the last draw_clear, for the properties
          drawable_queue,
          screen, \* the shapes that can be seen
          phase,  \* "idle", or whose handler runs: "event", "message" or "update"
          dirty   \* the toolkit owes the window a paint event

vars == <<client, asked, drawable_queue, screen, phase, dirty>>

Init ==
  /\ client \in Clients
  /\ asked = <<>> /\ drawable_queue = <<>> /\ screen = <<>>
  /\ phase = "idle" /\ dirty = TRUE

-----------------------------------------------------------------------------
\* lua_get_int_or_float and the int it is passed on as, which drops the half (the
\* float between is exact up to 2^24, and nobody draws so far out); lua_tointeger,
\* which is 0 for what is no whole number.
lua_get_int_or_float(v) == IF v >= 0 THEN v \div 2 ELSE -((-v) \div 2)
lua_tointeger(v) == IF v % 2 = 0 THEN v \div 2 ELSE 0
Ints(vs) == [i \in DOMAIN vs |-> lua_get_int_or_float(vs[i])]

\* The numbers of a call become ints, the size of a text by the stricter conversion.
lua_draw_graphic(c) == [c EXCEPT !.at = Ints(@), !.dim = Ints(@)]
lua_draw_line(c) == [c EXCEPT !.at = Ints(@), !.dim = Ints(@)]
lua_draw_shape(c) == [c EXCEPT !.at = Ints(@), !.dim = Ints(@)]
lua_draw_text(c) == [c EXCEPT !.at = Ints(@), !.dim = <<lua_tointeger(@[1])>>]

Carried(c) == CASE c.kind = "graphic" -> lua_draw_graphic(c)
                [] c.kind = "line"    -> lua_draw_line(c)
                [] c.kind = "text"    -> lua_draw_text(c)
                [] OTHER              -> lua_draw_shape(c)

Double(vs) == [i \in DOMAIN vs |-> 2 * vs[i]]
Channel(colour) == 17 * colour.digit

\* The page's shapes: a graphic lies around its point, at half pixels if need be.
PageShape(c) ==
  [kind   |-> c.kind,
   at     |-> IF c.kind = "graphic" THEN <<2 * c.at[1] - c.dim[2], 2 * c.at[2] - c.dim[1]>>
              ELSE Double(c.at),
   dim    |-> IF c.kind = "circle" /\ c.dim[2] = 0 THEN <<c.dim[1], 1>>
              ELSE IF c.kind = "text" THEN <<4 * c.dim[1]>> ELSE c.dim,
   look   |-> c.look,
   colour |-> Channel(c.colour)]

\* colour_str_to_wxColour: a digit alone counts 16, two of them make a byte.
colour_str_to_wxColour(colour) ==
  IF colour.length = 3 THEN 16 * colour.digit ELSE 16 * colour.digit + colour.digit

\* Mutant: takes its arguments in the order they are declared in.
DrawGraphicDrawable_InOrder(width, height) == [height |-> height, width |-> width]

\* The constructor declares (height, width) and is called with (width, height);
\* draw passes (height, width) to an operation that takes (width, height).
DrawGraphicDrawable(height, width) == [height |-> height, width |-> width]
wx_draw_graphic(c) ==
  LET d == DrawGraphicDrawable(c.dim[1], c.dim[2])
      w == d.height
      h == d.width
  IN [c EXCEPT !.at = <<2 * (c.at[1] - h \div 2), 2 * (c.at[2] - w \div 2)>>, !.dim = <<w, h>>,
               !.look = "plain"]

\* The box of a text, which is as large as the text, ends at the given height.  A
\* centred one begins half as many average characters to the left as it has bytes; one
\* aligned to the right begins where one aligned to the left does.
wx_draw_text(c) ==
  LET t    == c.measured
      y    == c.at[1] - t.height
      left == IF c.look = "centre" THEN c.at[2] - (t.bytes * t.average) \div 2 ELSE c.at[2]
  IN [c EXCEPT !.at = <<2 * (y + t.ascent),
                        IF c.look = "centre" THEN 2 * left + t.width ELSE 2 * left>>,
               !.dim = <<4 * @[1]>>, !.look = IF @ = "centre" THEN @ ELSE "left"]

\* A circle's outline has no width of its own.
wx_draw_circle(c) == [c EXCEPT !.at = Double(@), !.dim = <<@[1], 1>>]
wx_draw_rect(c) ==
  LET height == c.at[3] - c.at[1]
      width  == c.at[4] - c.at[2]
  IN [c EXCEPT !.at = Double(<<c.at[1], c.at[2], c.at[1] + height, c.at[2] + width>>)]
wx_draw_line(c) == [c EXCEPT !.at = Double(@)]
wx_draw_triangle(c) == [c EXCEPT !.at = Double(@)]

DesktopShape(c) ==
  [CASE c.kind = "graphic" -> wx_draw_graphic(c)
     [] c.kind = "text"    -> wx_draw_text(c)
     [] c.kind = "circle"  -> wx_draw_circle(c)
     [] c.kind = "rect"    -> wx_draw_rect(c)
     [] c.kind = "line"    -> wx_draw_line(c)
     [] OTHER              -> wx_draw_triangle(c)
   EXCEPT !.colour = colour_str_to_wxColour(@)]

\* Android's canvas: a graphic lies around its point in whole pixels, neither turned nor
\* flipped; a line is as thin as can be, a circle has no outline, a text's size is taken
\* for pixels; colours are as on the desktop.  A triangle does not get there.
AndroidShape(c) ==
  [kind   |-> c.kind,
   at     |-> IF c.kind = "graphic"
              THEN <<2 * (c.at[1] - c.dim[2] \div 2), 2 * (c.at[2] - c.dim[1] \div 2)>>
              ELSE Double(c.at),
   dim    |-> CASE c.kind = "line"   -> <<1>>
                [] c.kind = "circle" -> <<c.dim[1], 0>>
                [] c.kind = "text"   -> <<3 * c.dim[1]>>
                [] OTHER             -> c.dim,
   look   |-> IF c.kind = "graphic" THEN "plain" ELSE c.look,
   colour |-> colour_str_to_wxColour(c.colour)]
AndroidDraws(c) == c.kind # "triangle"

Shape(c) == IF client = "desktop" THEN DesktopShape(Carried(c))
            ELSE IF client = "android" THEN AndroidShape(Carried(c)) ELSE PageShape(Carried(c))
Shapes(cs) == [i \in DOMAIN cs |-> Shape(cs[i])]

-----------------------------------------------------------------------------
\* A handler of the script begins: for an event of the user or the timer, or for a
\* message of another device.
HandlerBegins(why) ==
  /\ phase = "idle" /\ why \in {"event", "message"}
  /\ phase' = why
  /\ UNCHANGED <<client, asked, drawable_queue, screen, dirty>>

\* One drawing call of the script.
Draw(c) ==
  /\ phase # "idle" /\ Len(asked) < MaxDrawn
  /\ asked' = Append(asked, c)
  /\ IF client = "browser"
     THEN screen' = Append(screen, Shape(c)) /\ UNCHANGED drawable_queue
     ELSE /\ drawable_queue' = IF client = "android" /\ ~AndroidDraws(c) THEN drawable_queue
                               ELSE Append(drawable_queue, c)
          /\ UNCHANGED screen
  /\ UNCHANGED <<client, phase, dirty>>

draw_clear == drawable_queue' = <<>>

lua_draw_clear ==
  /\ phase # "idle"
  /\ asked' = <<>> /\ draw_clear
  /\ screen' = IF client = "browser" THEN <<>> ELSE screen
  /\ UNCHANGED <<client, phase, dirty>>

\* Only Android's does anything.
lua_draw_refresh ==
  /\ phase # "idle" /\ client = "android"
  /\ screen' = Shapes(drawable_queue)
  /\ UNCHANGED <<client, asked, drawable_queue, phase, dirty>>

\* The desktop paints after every event, and not after a message.
HandlerEnds ==
  /\ phase \in {"event", "message"}
  /\ phase' = IF client = "desktop" /\ phase = "event" THEN "update" ELSE "idle"
  /\ UNCHANGED <<client, asked, drawable_queue, screen, dirty>>

\* A paint event begins with the script's update.
PaintBegins ==
  /\ client = "desktop" /\ phase = "idle" /\ dirty
  /\ phase' = "update"
  /\ UNCHANGED <<client, asked, drawable_queue, screen, dirty>>

\* Mutant: painting asks for no further paint.
Refreshes_Never(cs) == FALSE

\* Painting a line or a rectangle calls Refresh.
Refreshes(cs) == \E i \in DOMAIN cs : cs[i].kind \in {"line", "rect"}

\* The rest of OnPaint replays the queue.
OnPaint ==
  /\ phase = "update"
  /\ screen' = Shapes(drawable_queue)
  /\ dirty' = Refreshes(drawable_queue)
  /\ phase' = "idle"
  /\ UNCHANGED <<client, asked, drawable_queue>>

Next ==
  \/ \E why \in {"event", "message"} : HandlerBegins(why)
  \/ \E c \in Calls : Draw(c)
  \/ lua_draw_clear \/ lua_draw_refresh \/ HandlerEnds \/ PaintBegins \/ OnPaint

\* Handlers end, and between them the toolkit's loop finds the time for the paint
\* events it owes.
Fairness == WF_vars(HandlerEnds) /\ SF_vars(PaintBegins) /\ WF_vars(OnPaint)
Spec == Init /\ [][Next]_vars /\ Fairness

-----------------------------------------------------------------------------
Near(a, b) == a - b \in {-1, 0, 1}

\* Shape s of the call d is where the page's shape p is, to half a pixel.  A text of the
\* desktop stands higher, with its lower edge where the page has its baseline, and one
\* that is centred is off by half of what it is wider than its bytes are average
\* characters.
SamePlace(s, p, d) ==
  IF d.kind = "text" /\ client = "desktop"
  THEN LET t == d.measured
       IN  /\ s.at[1] + 2 * (t.height - t.ascent) = p.at[1]
           /\ Near(s.at[2] - p.at[2], IF d.look = "centre" THEN t.width - t.bytes * t.average ELSE 0)
  ELSE \A i \in DOMAIN p.at : Near(s.at[i], p.at[i])

\* It is as large, but for outlines, and for Android's lines and its texts, which are
\* three quarters as large.
SameSize(s, p, d) ==
  /\ d.kind \in {"graphic", "rect", "triangle"} => s.dim = p.dim
  /\ d.kind = "circle" => s.dim[1] = p.dim[1]
  /\ d.kind = "line" => s.dim = p.dim \/ client = "android"
  /\ d.kind = "text" => IF client = "android" THEN 4 * s.dim[1] = 3 * p.dim[1] ELSE s.dim = p.dim

\* It looks the same, but that only the page turns and flips graphics and that a text
\* which the page ends at its place begins there on the desktop; and it has the same
\* colour, unless that has three digits, which only the page doubles.
SameLook(s, p, d) ==
  /\ \/ s.look = p.look
     \/ d.kind = "graphic" /\ client # "browser"
     \/ p.look = "right" /\ s.look = "left" /\ client = "desktop"
  /\ s.colour = p.colour \/ (d.colour.length = 3 /\ client # "browser")

SamePicture(s, d) ==
  LET p == PageShape(d)
  IN  s.kind = p.kind /\ SamePlace(s, p, d) /\ SameSize(s, p, d) /\ SameLook(s, p, d)

\* What a client keeps are the calls that Android draws, in the order of the script.
KeptInOrder(kept, calls) ==
  \E place \in [DOMAIN kept -> DOMAIN calls] :
    /\ \A i \in DOMAIN kept : kept[i] = calls[place[i]]
    /\ \A i, j \in DOMAIN kept : i < j => place[i] < place[j]
    /\ \A j \in DOMAIN calls : AndroidDraws(calls[j]) <=> \E i \in DOMAIN kept : place[i] = j

\* What a client keeps of a script's calls are the calls since the last draw_clear, in
\* the order of the script (Android leaves out triangles), and it puts each where the
\* page would, to half a pixel, and as large, turned and coloured as the page would,
\* except for what SamePlace, SameSize and SameLook name: above all, the desktop's texts
\* stand higher and, unless they are aligned to the left, not in the same column.
ScreenShowsTheCalls ==
  /\ client = "browser" => screen = Shapes(asked)
  /\ client = "desktop" => drawable_queue = asked
  /\ client = "android" => KeptInOrder(drawable_queue, asked)
  /\ \A i \in DOMAIN asked :
       client # "android" \/ AndroidDraws(asked[i]) =>
         SamePicture(Shape(asked[i]), Carried(asked[i]))

Stale == client = "desktop" /\ screen # Shapes(drawable_queue)
HasLineOrRect == \E i \in DOMAIN screen : screen[i].kind \in {"line", "rect"}

\* The desktop does not paint after a message.  What a message draws is shown all
\* the same, because painting a board's lines and rectangles asks for the next paint;
\* without one on the screen it waits for the user.
MessagesAreShown == (Stale /\ HasLineOrRect) ~> ~Stale
=============================================================================
