----------------------------- MODULE MCAuthorLink -----------------------------
(* TLC instance of AuthorLink: a work with a Goodreads key and one without;  *)
(* two Goodreads pages, which can contradict each other, one that the name   *)
(* guard agrees with and one that it rejects; and a page at OpenLibrary for  *)
(* the name search to find.                                                  *)
EXTENDS AuthorLink, TLC

CONSTANTS k1, b1, rgr, sgr, rol

MCProvider == (k1 :> "gr") @@ (rgr :> "gr") @@ (sgr :> "gr") @@ (rol :> "ol")
MCGuard == (rgr :> {"agree"}) @@ (sgr :> {"reject"}) @@ (rol :> {})
=============================================================================
