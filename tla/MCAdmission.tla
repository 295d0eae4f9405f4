---------------------------- MODULE MCAdmission -----------------------------
(***************************************************************************)
(* Admission on small instances, with a handful of answers of YouTube.     *)
(***************************************************************************)
EXTENDS Admission, TLC

Reached == [reply |-> "ok", len |-> <<1, 3, 1, 1, 14>>, value |-> TRUE]

APage(seconds, formats) ==
    [reply |-> "ok", flagged |-> FALSE, rated |-> FALSE, familySafe |-> TRUE,
     ageStatus |-> FALSE, ageReason |-> FALSE, gateReason |-> 0,
     title |-> TRUE, lengthSeconds |-> seconds, formats |-> formats]

AnItem(match, minutes) ==
    [title |-> TRUE, rated |-> FALSE, iso |-> [match |-> match, h |-> 0, m |-> minutes, s |-> 0]]

Both(page, items) ==
    [visitor |-> Reached, page |-> page, list |-> [reply |-> "ok", items |-> items],
     deadline |-> "none"]

\* A video of just ten minutes by the scrape; by the formats of the scrape (600.4 s,
\* after one that does not say); only by the Data API; too long; gated, which only the
\* Data API says; a live stream (no length anywhere, "P0D"); too slow an answer.
MCAnswer ==
    {Both(APage(600, <<>>), <<>>),
     Both(APage(0, <<0, 600400>>), <<>>),
     Both(APage(-1, <<>>), <<AnItem(TRUE, 10)>>),
     Both(APage(601, <<>>), <<AnItem(TRUE, 10)>>),
     Both([APage(600, <<>>) EXCEPT !.title = FALSE], <<[AnItem(TRUE, 10) EXCEPT !.rated = TRUE]>>),
     Both(APage(0, <<999, 600000>>), <<AnItem(FALSE, 0)>>),
     [Both(APage(600, <<>>), <<AnItem(TRUE, 10)>>) EXCEPT !.deadline = "scrape"]}

\* The videos there can be.
MCItem == [id : Video, by : User, dur : 1..MaxSeconds]

=============================================================================
