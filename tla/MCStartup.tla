----------------------------- MODULE MCStartup -----------------------------
(* The lists of devices: all strings of a letter and a space up to a length   *)
(* of 9, so up to five words, for which the array of two places doubles twice; *)
(* and lists of up to four entries, well-formed and not, three of which fill   *)
(* the registry.  The device at "a" sends 2 variables, at "b" 21, which        *)
(* matchMessage() refuses, and at "c" 127, which the read buffer does not      *)
(* hold; "d" has a speed main() does not know.                                 *)
EXTENDS Startup

MCLetter == {"a", "b", "c", "d", ":", "2", "21", "99", "127"}
MCSpace == {" "}
MCPath == {"a", "b", "c", "d"}
MCCount == [c \in {"2", "21", "99", "127"} |->
              CASE c = "2" -> 2 [] c = "21" -> 21 [] c = "99" -> 99 [] c = "127" -> 127]
MCDevice == [p \in {<<"a">>, <<"b">>, <<"c">>, <<"d">>} |->
               [vars  |-> CASE p[1] \in {"a", "d"} -> 2 [] p[1] = "b" -> 21
                            [] p[1] = "c" -> 127,
                speed |-> IF p[1] = "d" THEN 250000 ELSE 9600]]
MCBauds == {9600, 250000}

Entries == {<<"a", ":", "2">>, <<"b", ":", "21">>, <<"c", ":", "127">>,
            <<"d", ":", "2">>, <<"a", ":", "99">>, <<"a">>, <<"a", ":">>,
            <<":", "2">>, <<"a", ":", ":", "2">>, <<"a", ":", "2", ":", "21">>,
            <<":", "a", ":", "2">>, <<"a", ":", "2", "a", ":", "2">>}

Lists ==
  LET One   == Entries
      Two   == {e \o <<" ">> \o f : e, f \in One}
      Again == <<"a", ":", "2", " ">>
  IN  One \cup Two \cup {e \o <<" ">> : e \in One} \cup {<<" ">> \o e : e \in One}
        \cup {Again \o l : l \in Two}
        \cup {Again \o Again \o Again \o e : e \in One}

MCStrings == UNION {[1 .. n -> {"a", " "}] : n \in 0 .. 9} \cup Lists

=============================================================================
