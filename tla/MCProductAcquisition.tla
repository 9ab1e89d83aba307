------------------------ MODULE MCProductAcquisition ------------------------
(* Sites of two categories for TLC: one whose pages lead to their ends, one  *)
(* with a page without a readable next, one with a page that names itself as *)
(* next, and a Magento site with a category of more pages than are read.     *)
EXTENDS ProductAcquisition

Page(links, more, control, ended) ==
    [found |-> <<<<>>, links>>, more |-> more, control |-> control, ended |-> ended,
     graphql |-> FALSE]

Data(links, more) ==
    [found |-> <<links>>, more |-> more, control |-> more, ended |-> FALSE, graphql |-> TRUE]

Site(entry, p, q, r) == [entry |-> entry, contents |-> [x \in Pages |->
    CASE x = "p1" -> p [] x = "p2" -> q [] x = "p3" -> r]]

Told == Site(<<"p1", "p3">>,
    Page(<<"a", "b", "c">>, "p2", "p2", FALSE), Page(<<"d">>, NoPage, NoPage, TRUE),
    Page(<<"b", "d">>, NoPage, NoPage, TRUE))

Hidden == Site(<<"p2", "p1">>,
    Page(<<"a", "b">>, NoPage, NoPage, TRUE), Page(<<"c">>, "p3", NoPage, FALSE),
    Page(<<"d">>, NoPage, NoPage, TRUE))

Back == Site(<<"p3", "p1">>,
    Page(<<"a", "b">>, "p2", "p1", TRUE), Page(<<"c", "d", "c">>, NoPage, NoPage, TRUE),
    Page(<<>>, NoPage, NoPage, FALSE))

Magento == Site(<<"p2", "p1">>,
    Data(<<"a">>, "p2"), Data(<<"b", "c">>, "p3"), Data(<<"d">>, NoPage))

FourSites == {Told, Hidden, Back, Magento}

Answer(products, next, end) == [products |-> products, next |-> next, end |-> end]

AnyAnswer ==
    {Answer(<<>>, NoPage, FALSE), Answer(<<"d">>, NoPage, FALSE),
     Answer(<<>>, "p3", FALSE), Answer(<<"d">>, NoPage, TRUE)}
=============================================================================
