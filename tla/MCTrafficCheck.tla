--------------------------- MODULE MCTrafficCheck ---------------------------
(* An instance of TrafficCheck for TLC: small sites whose stylesheets       *)
(* import each other, one deeper than the crawl goes.                       *)
EXTENDS TrafficCheck

SitePaths == {"/", "/privacy.html", "/a.css", "/b.css", "/c.css"}

Html(refs) == [kind |-> "html", refs |-> refs, remote |-> FALSE]
Css(refs)  == [kind |-> "css", refs |-> refs, remote |-> FALSE]

\* "/" pulls in a.css, twice; a.css imports itself and b.css, b.css a.css.
Plain == [p \in SitePaths |-> CASE p = "/" -> Html(<<"/a.css", "/a.css">>)
                                [] p = "/privacy.html" -> Html(<<>>)
                                [] p = "/a.css" -> Css(<<"/a.css", "/b.css">>)
                                [] p = "/b.css" -> Css(<<"/a.css">>)
                                [] OTHER -> Css(<<>>)]

\* b.css imports a fifth path; b.css names another origin; nothing that is
\* linked is a stylesheet; a page is missing.
SmallSites ==
  {[Plain EXCEPT !["/b.css"].refs = <<"/c.css">>], [Plain EXCEPT !["/b.css"].remote = TRUE],
   [Plain EXCEPT !["/a.css"].kind = "other"],
   [Plain EXCEPT !["/privacy.html"].kind = "other"]}
=============================================================================
