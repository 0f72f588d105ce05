------------------------------ MODULE CoverRank ------------------------------
(***************************************************************************)
(* Which of two cover images is better: the provider rank tables           *)
(* (livrarr-enrichment/src/cover_rank.rs) and the comparator the cover     *)
(* write gate asks (cover_resolution.rs).  A cover, as far as the          *)
(* comparator sees it, is its provider and its pixel dimensions.           *)
(***************************************************************************)
EXTENDS Naturals

Provider == {"goodreads", "hardcover", "googlebooks", "readarr",
             "openlibrary", "audnexus", "audible"}

\* A source the comparator does not know: no source, a placeholder, an upload.
OtherSource == {"none", "add", "user_upload"}

Model == {"EbookEnglish", "EbookForeign", "Audiobook"}

\* The rank lists, lower is better; the audiobook list has no Readarr.
rank_table(model) ==
    CASE model = "EbookEnglish" ->
           [goodreads |-> 0, hardcover |-> 1, googlebooks |-> 2, readarr |-> 3,
            openlibrary |-> 4, audnexus |-> 5, audible |-> 6]
      [] model = "EbookForeign" ->
           [googlebooks |-> 0, goodreads |-> 1, hardcover |-> 2, readarr |-> 3,
            openlibrary |-> 4, audnexus |-> 5, audible |-> 6]
      [] model = "Audiobook" ->
           [audible |-> 0, audnexus |-> 1, hardcover |-> 2, goodreads |-> 3,
            openlibrary |-> 4, googlebooks |-> 5]

for_media(audio, foreign) ==
    IF audio THEN "Audiobook"
             ELSE IF foreign THEN "EbookForeign" ELSE "EbookEnglish"

\* A provider absent from the list ranks after the whole list.
rank_index(provider, model) ==
    IF provider \in DOMAIN rank_table(model)
    THEN rank_table(model)[provider]
    ELSE IF model = "Audiobook" THEN 6 ELSE 7

\* usize::MAX of the comparator: worse than every listed provider.
UnknownRank == 99

priority_of(source, model) ==
    IF source \in Provider THEN rank_index(source, model) ELSE UnknownRank

is_good_enough(w, h) == w >= 400 /\ h >= 600

\* May the cover `new` replace the cover `cur`?
should_upgrade_same_tier(cur, new, model) ==
    LET curGood == is_good_enough(cur.w, cur.h)
        newGood == is_good_enough(new.w, new.h)
        better  == priority_of(new.source, model) < priority_of(cur.source, model)
    IN  \/ newGood /\ ~curGood
        \/ newGood /\ curGood /\ better
        \/ /\ ~newGood /\ ~curGood
           /\ IF new.w * new.h # cur.w * cur.h
              THEN new.w * new.h > cur.w * cur.h
              ELSE better
=============================================================================
