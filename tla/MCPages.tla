------------------------------ MODULE MCPages -------------------------------
(***************************************************************************)
(* A small instance of each of the five parts of the app in Pages.         *)
(***************************************************************************)
EXTENDS Pages

MCProviders == {"anthropic", "ollama", "custom"}

MCCurated == [p \in Providers |-> IF p = "anthropic" THEN {"opus"} ELSE {}]

Connection(provider, model) == [provider |-> provider, model |-> model, workspace |-> "", key |-> "k1"]

MCFirstConnections == {Connection("anthropic", "opus"), Connection("ollama", "llama")}

MCSuggestions == <<"s1", "s2">>

Text(body, place, size, head) == [body |-> body, place |-> place, size |-> size, head |-> head, cut |-> FALSE]

Note(name, text, flag, fav) == [name |-> name, text |-> text, flag |-> flag, fav |-> fav]

(* A library of two prompts, one of which was edited; a folder with a changed note of each, and a note. *)
MCLibrary == <<[name |-> "mail", text |-> Text("old", "var", "edge", None), stamp |-> 0],
               [name |-> "memo", text |-> Text("old", "none", "fits", None), stamp |-> 1]>>

MCParsed ==
  [s \in {"folder", "note", "empty"} |->
     [original \in BOOLEAN |->
        CASE s = "empty" -> <<>>
          [] s = "note" -> <<Note("plan", Text("new", "raw", "fits", IF original THEN "plan" ELSE None), FALSE, TRUE)>>
          [] OTHER -> <<Note("mail", Text("new", "raw", "edge", None), FALSE, FALSE),
                        Note("memo", Text("new", "none", "long", "memo"), original, FALSE)>>]]

MCHeadings == UNION {[1..n -> {<<"ref">>, <<"Ref">>, <<"ref", "2">>, <<"ref", "2", "2">>, <<"ref", "3">>}] : n \in 1..4}

MCKinds ==
  {"h1", "h2", "h3", "text", "blank", "callout", "quote", "aside", "/aside", "%%", "meta", "key", "fence", "info", "long fence"}

MCCells == {<<>>, <<"a">>, <<",">>, <<"q">>, <<"n">>, <<"a", "q">>, <<"q", "n">>}

MCFiles == [kind : {"page", "csv", "all"}, folder : {<<>>, <<"d">>, <<"d", "e">>}, stem : {"d"}]

=============================================================================
