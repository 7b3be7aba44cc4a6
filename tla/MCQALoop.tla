------------------------------ MODULE MCQALoop ------------------------------
(***************************************************************************)
(* A small instance of QALoop for TLC: two root concepts, one new label,   *)
(* and the answers an expert can give about them.                          *)
(***************************************************************************)
EXTENDS QALoop

Says(source, relation, target) ==
    [source |-> source, relation |-> relation, target |-> target]

\* Each relation is listed as often as times says.
Listing(entities, relations, times) ==
    [entities |-> entities, relations |-> relations, times |-> times,
     confidence |-> 90, is_ambiguous |-> FALSE]

Menu == "menu"
Burger == "burger"
Pickle == "pickle"

MCTopics == {Menu, Burger}
MCLabels == {Menu, Burger, Pickle}

\* All of S with the same confidence, or number of times.  (Chosen from a set
\* with one member, so that TLC tabulates it once; as a constructor it is
\* computed at every use.)
Stated(S, confidence) == CHOOSE f \in [S -> {confidence}] : TRUE

\* Each relation is listed once.
Extraction(entities, relations) ==
    Listing(entities, relations, Stated(DOMAIN relations, 1))

MCAnswers == {
    \* two entities, a relation both ways, and one to a concept that may not exist
    Extraction(Stated({Menu, Burger}, 90),
               Stated({Says(Menu, "includes", Burger), Says(Burger, "part_of", Menu),
                       Says(Menu, "includes", Pickle)}, 90)),
    \* a new concept that is only mentioned
    Extraction(Stated({Pickle}, 60), Stated({}, 0)),
    \* its relation, inferred and listed twice; the entities are not listed
    Listing(Stated({}, 0), Stated({Says(Burger, "includes", Pickle)}, 30),
            Stated({Says(Burger, "includes", Pickle)}, 2)),
    \* the same relation, and its ways back confirmed
    Extraction([Stated({Burger, Pickle}, 90) EXCEPT ![Burger] = 80],
               [Stated({Says(Burger, "includes", Pickle), Says(Pickle, "part_of", Burger),
                        Says(Pickle, "part_of", Menu)}, 90)
                   EXCEPT ![Says(Burger, "includes", Pickle)] = 60]),
    \* an answer that contradicts itself, and the others if they came first
    Extraction(Stated({Burger, Pickle}, 50),
               [Stated({Says(Burger, "includes", Pickle), Says(Burger, "excludes", Pickle)}, 90)
                   EXCEPT ![Says(Burger, "excludes", Pickle)] = 40]),
    \* one that says nothing usable
    [entities |-> Stated({}, 0), relations |-> Stated({}, 0), times |-> Stated({}, 0),
     confidence |-> 30, is_ambiguous |-> FALSE]
  }

\* Bound over all edges on the upserts that found their edge.
FewRepetitions == MapThenSumSet(LAMBDA r : edges[r].version - 1, DOMAIN edges) <= 2
=============================================================================
