----------------------------- MODULE MCHallChat -----------------------------
(***************************************************************************)
(* Instances of HallChat for TLC.  The runes: three ASCII letters ("com"   *)
(* is a top level domain), capital letters that fold to them, a digit, a   *)
(* Chinese letter that is also a numeral, and the hint "qq".               *)
(***************************************************************************)
EXTENDS HallChat

CONSTANTS v1, a1, c1, c2, c3, n1, n2, m1, m2

TheLetters == {"a", "v", "com"}
TheDigits == {"1"}
TheOtherLetters == {"yi", "qq", "dian"}
TheFolds == [r \in {"A", "V"} |-> IF r = "A" THEN "a" ELSE "v"]
TheBuiltin == [c \in {"ad", "porn", "gambling"} |->
                 CASE c = "ad" -> {<<"v", "a", "v">>}
                   [] c = "porn" -> {<<"V">>}
                   [] OTHER -> {<<"qq", "1">>}]
TheDomains == {<<"a", ".", "com">>}

\* words that are parts and suffixes of others, or differ in form only
CustomLists == {<<>>, << <<"a">> >>, << <<"yi", "a">>, <<"a">> >>,
                << <<"qq", "yi", "v">>, <<"yi">> >>,
                << <<"A", " ", "v">>, <<"a", "v">>, <<" ", "yi">> >>}
AllowLists == {<<>>, << <<"a", "v", "yi">>, <<"1">> >>}

TheInputs ==
    [enabled : {TRUE}, mode : {"mask"},
     categories : {{}, {"ad", "porn"}, AllCategories},
     custom : CustomLists, allow : AllowLists,
     domains : {<<>>, << <<"A", ".", "com", ".">> >>}]
      \cup [enabled : BOOLEAN, mode : {"whole", "block"}, categories : {AllCategories},
            custom : CustomLists, allow : {<<>>, << <<" ">> >>}, domains : {<< <<"a">> >>, <<>>}]

TheTexts ==
    UNION {[1..n -> {"a", "V", "yi", " "}] : n \in 0..3}
      \cup {<<"a", ".", "com">>, <<"a", " ", ".", "com", "/", "v">>, <<"v", ".", "a", ".", "com">>,
            <<"a", "dian", "com">>, <<"a", "@", "v", ".", "com">>, <<"://", "v", "a">>,
            <<"@", "a", "v">>, <<"qq", " ", "1", "1">>, <<"1", " ", " ", "1", "yi">>,
            <<"1", ".", "1", " ", " ", " ", "1">>, <<"a", "v", "a", "yi", "a">>,
            <<"a", "qq", "yi">>, <<"qq", "yi", "a">>, <<"qq", " ", "yi", "V">>}

Open == [enabled |-> TRUE, mode |-> "mask", categories |-> {}, custom |-> <<>>,
         allow |-> <<>>, domains |-> <<>>]
Strict == [Open EXCEPT !.custom = << <<"a">> >>]
TheChoices == {Open, Strict}

\* two connections of a visitor, on both nodes, and one of an agent
TheWho == [c \in Conns |-> IF c = c2 THEN a1 ELSE v1]
TwoNodes == [c \in Conns |-> IF c = c1 THEN n1 ELSE n2]
OneNode == [c \in Conns |-> n1]
TheWords == [m \in {m1, m2} |-> <<"yi", "a">>]

=============================================================================
