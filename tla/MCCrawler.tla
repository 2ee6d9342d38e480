------------------------------ MODULE MCCrawler ------------------------------
(* Instances of Crawler for TLC. *)
EXTENDS Crawler

Settings(on, m, i, d) ==
    [enabled |-> on, mode |-> m, source |-> on, interval |-> i, days |-> d]

\* Scheduled with an interval of its own and on a day that does not exist, and a
\* mode that does not exist with an interval below zero.
OddForms == {Settings(TRUE, 3, 2, {1, 9}), Settings(TRUE, 7, -1, {})}

\* Full sync, scheduled on every day of a week of one day, and a crawler that is
\* off and without a source url.
LiveForms == {Settings(TRUE, 1, 0, {}), Settings(TRUE, 3, 0, {1}), Settings(FALSE, 2, 0, {})}

AllFields  == {"enabled", "mode", "source", "interval", "days"}
WholeForm  == {AllFields}
WholeOrOn  == {AllFields, {"enabled"}}
=============================================================================
