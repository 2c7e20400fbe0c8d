----------------------------- MODULE MCNewsFeed -----------------------------
\* TLC instance of NewsFeed: the order of the sources is a sequence.
EXTENDS NewsFeed

CONSTANTS s1, s2
TwoSources == <<s1, s2>>
=============================================================================
