------------------------------- MODULE MCHostUi -------------------------------
(* ClientParts for TLC: LuaApi with the window's thread and one of the network;    *)
(* HostUi with five popups: buttons, two dropdowns, texts with a quote, a newline, *)
(* a backslash and a control character; Drawing with one call of each kind and two *)
(* texts (odd sizes and halves among them); Dictionary with five words.            *)
EXTENDS ClientParts, TLC

CONSTANTS MainThread, NetThread

MCThreads == {MainThread, NetThread}

Item(type, id, texts) == [type |-> type, id |-> id, texts |-> texts]
Popup(id, title, items) == [id |-> id, title |-> title, items |-> items]
MCInfos ==
  {Popup("A", <<"n", "quote">>,
         <<Item("msg", 0, <<<<"quote", "newline", "letter">>>>),
           Item("btn", 1, <<<<"n">>>>), Item("btn", 0, <<<<"quote">>>>)>>),
   Popup("B", <<"letter">>,
         <<Item("dropdown", 7, <<<<"n">>, <<"quote">>, <<"letter">>>>),
           Item("dropdown", 8, <<<<"n">>, <<"n">>, <<"newline">>>>),
           Item("btn", 3, <<<<"newline">>>>)>>),
   Popup("C", <<"n">>,
         <<Item("msg", 0, <<<<"backslash", "n">>>>), Item("btn", 0, <<<<"backslash", "quote">>>>)>>),
   Popup("D", <<"letter">>, <<Item("btn", 0, <<<<"backslash", "n">>>>)>>),
   Popup("E", <<"n", "control">>, <<Item("msg", 0, <<<<"letter">>>>)>>)}

DrawCall(kind, place, dim, look, length) ==
  [kind |-> kind, at |-> place, dim |-> dim, look |-> look,
   colour |-> [length |-> length, digit |-> 15],
   measured |-> [bytes |-> 5, width |-> 41, height |-> 19, ascent |-> 15, average |-> 9]]
MCCalls ==
  {DrawCall("graphic", <<20, 31>>, <<6, 10>>, "turned", 6),
   DrawCall("line", <<2, 4, 6, 9>>, <<3>>, "plain", 3),
   DrawCall("text", <<8, 10>>, <<25>>, "right", 6),
   DrawCall("text", <<81, 100>>, <<24>>, "centre", 3),
   DrawCall("rect", <<2, 4, 12, 17>>, <<2>>, "plain", 6),
   DrawCall("triangle", <<2, 2, 2, 8, 8, 2>>, <<2>>, "plain", 6),
   DrawCall("circle", <<10, 10>>, <<6, 4>>, "plain", 3)}

\* Words of one to three letters, of which two or three fill a frame; the third is
\* a weird one.
MCWords    == 1 .. 5
MCWordLen  == [w \in MCWords |-> 1 + (w % 3)]
MCWordFreq == [w \in MCWords |-> 1 + (w % 2)]
MCWordMeta == [w \in MCWords |-> IF w = 3 THEN 1 ELSE 0]

\* A part that does not move begins in one way only.
MCInit ==
  /\ PartsInit
  /\ part = "dict" => client = "desktop"
  /\ part # "dict" => garbage = 1 /\ dictClient = "c"
MCSpec ==
  MCInit /\ [][PartsNext]_<<part, client, lua, ui, draw, dict>> /\ Draw!Fairness

=============================================================================
