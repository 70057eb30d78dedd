------------------------- MODULE MCFavoriteNotices -------------------------
EXTENDS FavoriteNotices, TLC

\* No operator picks one of the requests.
Interchangeable == Permutations(Requests)
=============================================================================
