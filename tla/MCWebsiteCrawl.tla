--------------------------- MODULE MCWebsiteCrawl ---------------------------
(* Instances of WebsiteCrawl for TLC: four pages that link to each other.  The *)
(* seed links to itself first, as the navigation of a real site does, and a    *)
(* limit of three cuts its links, and those of its last page, short; the       *)
(* frontier may also be exhausted before the limit is reached.                 *)
EXTENDS WebsiteCrawl, TLC

CONSTANTS u1, u2, u3, u4

SiteLinks ==
    (u1 :> <<u1, u2, u3>>) @@ (u2 :> <<u3, u1>>) @@ (u3 :> <<u4, u2>>) @@ (u4 :> <<>>)
=============================================================================
