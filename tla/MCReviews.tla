----------------------------- MODULE MCReviews -----------------------------
EXTENDS Reviews, TLC

\* Posts, comments, users and requests are interchangeable: no operator picks one of them.
Interchangeable ==
    Permutations(Users) \cup Permutations(Posts) \cup Permutations(Comments) \cup Permutations(Requests)
=============================================================================
