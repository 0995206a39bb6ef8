-------------------------- MODULE MCDomainMatching --------------------------
(***************************************************************************)
(* Model checking of DomainMatching: four labels, one of which ends and    *)
(* one of which begins with another, names and rules of up to three.       *)
(***************************************************************************)
EXTENDS DomainMatching

MCChar  == {"a", "b", "A", ".", " "}
MCLower == [c \in {"A"} |-> "a"]
MCLabel == {<<"a">>, <<"b">>, <<"a", "b">>, <<"b", "a">>}

\* Two domains of two labels, like those of the code, and one under the first.
MCApplications == <<[labels |-> <<<<"b">>, <<"a">>>>, app |-> "GOOGLE"],
                    [labels |-> <<<<"a", "b">>, <<"b">>>>, app |-> "ZOOM"],
                    [labels |-> <<<<"a">>, <<"b">>, <<"a">>>>, app |-> "YOUTUBE"]>>
MCDomainRules == [k \in DOMAIN MCApplications |->
                    [domain |-> Text(MCApplications[k].labels),
                     app    |-> MCApplications[k].app]]
=============================================================================
