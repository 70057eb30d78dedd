------------------------------ MODULE Reviews ------------------------------
(***************************************************************************)
(* Reviews of programmes: posts with tags (internal/service/post.go),      *)
(* likes and comments with the counters kept in the row of the post        *)
(* (internal/service/post_interaction.go), and the table of programmes the *)
(* posts refer to, which two jobs rewrite at 05:00                         *)
(* (internal/job/scheduler.go).                                            *)
(*                                                                         *)
(* A request is handled by a goroutine; every statement sent to MySQL is   *)
(* one atomic step.  Creating and editing a post are transactions: they    *)
(* read a snapshot (REPEATABLE READ, MySQL's default) in their first       *)
(* statement and write in the others, which row locks make one step.       *)
(* Likes, comments and their counters are separate statements outside any  *)
(* transaction.                                                            *)
(***************************************************************************)
EXTENDS Naturals, FiniteSets

CONSTANTS
    Users, Posts, Comments,   \* ids the tables may ever hand out
    Tags, Stations, Titles,
    Casts,                    \* radio_programs.cast; a review writes NoCast
    NoCast,
    Requests,                 \* requests handled at the same time
    None,                     \* nobody and nothing
    MaxTags,                  \* maxPostTagCount
    MaxRows,                  \* bound on the ids of radio_programs
    MayFail,                  \* whether statements fail and the process crashes
    MaxLikes                  \* bound: a post with this many likes counted gets no more

ASSUME ReviewsAssumption ==
    /\ None \notin Users \cup Posts \cup Comments \cup Stations \cup Titles
    /\ NoCast \in Casts
    /\ MaxTags \in Nat
    /\ MaxRows \in Nat
    /\ MaxLikes \in Nat
    /\ MayFail \in BOOLEAN
    /\ IsFiniteSet(Users) /\ IsFiniteSet(Requests)
    /\ IsFiniteSet(Comments) /\ IsFiniteSet(Tags)

VARIABLES
    posts,      \* the rows of posts, each with the tags post_post_tag gives it
    likes,      \* post_likes
    comments,   \* post_comments
    programs,   \* radio_programs
    lastRow,    \* the last id radio_programs handed out
    request,    \* the requests under way: where they stand and what they hold
    drifted,    \* history: counters for which something happened that loses count
    lastEdit,   \* history: the tags of the last edit of a post
    mixed       \* history: posts whose last edit had been overtaken by another

tables == <<posts, likes, comments>>
guide == <<programs, lastRow>>
history == <<drifted, lastEdit, mixed>>
vars == <<tables, guide, request, history>>

Life == {"unused", "live", "deleted"}
Counters == {"likes", "comments"}

Post == [state : Life, user : Users \cup {None}, station : Stations \cup {None},
         title : Titles \cup {None}, program : 0..MaxRows, tags : SUBSET Tags,
         likes_count : Nat, comments_count : Nat]
Comment == [state : Life, post : Posts \cup {None}, user : Users \cup {None}]
Program == [id : 1..MaxRows, station : Stations, title : Titles, cast : Casts]

\* Statements of a transaction, statements that come before any effect, and the
\* counter updates owed for a row already written or deleted.
InTransaction == {"create", "edit"}
BeforeEffect == {"delete", "like", "find_post", "erase"}
Moving == [likes |-> {"count_like", "uncount_like"}, comments |-> {"count_comment", "uncount_comment"}]
Owing == Moving.likes \cup Moving.comments

Request == [pc : {"idle"} \cup InTransaction \cup BeforeEffect \cup Owing,
            user : Users \cup {None}, post : Posts \cup {None}, comment : Comments \cup {None},
            station : Stations \cup {None}, title : Titles \cup {None}, row : 0..MaxRows,
            tags : SUBSET Tags, seen : SUBSET Tags, stale : BOOLEAN]

TypeOK ==
    /\ posts \in [Posts -> Post]
    /\ likes \subseteq Posts \X Users
    /\ comments \in [Comments -> Comment]
    /\ programs \subseteq Program
    /\ lastRow \in 0..MaxRows
    /\ request \in [Requests -> Request]
    /\ drifted \subseteq Posts \X Counters
    /\ lastEdit \in [Posts -> SUBSET Tags]
    /\ mixed \subseteq Posts

NoPost == [state |-> "unused", user |-> None, station |-> None, title |-> None, program |-> 0,
           tags |-> {}, likes_count |-> 0, comments_count |-> 0]
NoComment == [state |-> "unused", post |-> None, user |-> None]
Idle == [pc |-> "idle", user |-> None, post |-> None, comment |-> None, station |-> None,
         title |-> None, row |-> 0, tags |-> {}, seen |-> {}, stale |-> FALSE]

Init ==
    /\ posts = [p \in Posts |-> NoPost]
    /\ likes = {}
    /\ comments = [c \in Comments |-> NoComment]
    /\ programs = {}
    /\ lastRow = 0
    /\ request = [r \in Requests |-> Idle]
    /\ drifted = {}
    /\ lastEdit = [p \in Posts |-> {}]
    /\ mixed = {}

-----------------------------------------------------------------------------
(* Helpers *)

Live(p) == p \in Posts /\ posts[p].state = "live"

At(r, pc) == request[r].pc = pc

\* The handler returns, with an answer or an error.
Return(r) == request' = [request EXCEPT ![r] = Idle]

Goto(r, pc) == request' = [request EXCEPT ![r].pc = pc]

\* The counter a request still has to move.
Owed(r) == {d \in Posts \X Counters :
               d[1] = request[r].post /\ Live(d[1]) /\ request[r].pc \in Moving[d[2]]}

\* validatePostInput
ValidTags(tags) == Cardinality(tags) <= MaxTags

Keyed(row, station, title, cast) ==
    row.station = station /\ row.title = title /\ row.cast = cast

RowsOf(station, title) == {row \in programs : row.station = station /\ row.title = title}

\* INSERT ... ON DUPLICATE KEY UPDATE on the key (station_id, title, cast): the id of the
\* row that has the key afterwards.  A row that had it keeps all that is modelled, its cast
\* being part of the key; UpsertTx then asks for its id by an empty start if MySQL names none,
\* and a transaction that finds nothing so fails, as any may.
Upsert(station, title, cast) ==
    IF \E row \in programs : Keyed(row, station, title, cast)
    THEN UNCHANGED guide
    ELSE /\ lastRow < MaxRows
         /\ lastRow' = lastRow + 1
         /\ programs' = programs \cup
               {[id |-> lastRow + 1, station |-> station, title |-> title, cast |-> cast]}

-----------------------------------------------------------------------------
(* Posts and their tags *)

\* POST /review/{id}: begin, and look the programme up in the snapshot (0: none).
CreateReview(r, u, station, title, tags) ==
    /\ At(r, "idle")
    /\ ValidTags(tags)
    /\ \E p \in Posts : posts[p].state = "unused"
    /\ \E row \in IF RowsOf(station, title) = {} THEN {0}
                  ELSE {x.id : x \in RowsOf(station, title)} :
          request' = [request EXCEPT ![r] =
              [Idle EXCEPT !.pc = "create", !.user = u, !.station = station, !.title = title,
                           !.tags = tags, !.row = row]]
    /\ UNCHANGED <<tables, guide, history>>

\* The rest of createPostInTx up to COMMIT: the programme if there was none, the post, its tags.
createPostInTx(r) ==
    /\ At(r, "create")
    /\ LET q == request[r]
       IN  /\ IF q.row = 0 THEN Upsert(q.station, q.title, NoCast) ELSE UNCHANGED guide
           /\ \E p \in Posts, row \in IF q.row # 0 THEN {q.row} ELSE
                                     {x.id : x \in {y \in programs' : Keyed(y, q.station, q.title, NoCast)}} :
                /\ posts[p].state = "unused"
                /\ posts' = [posts EXCEPT ![p] =
                       [state |-> "live", user |-> q.user, station |-> q.station, title |-> q.title,
                        program |-> row, tags |-> q.tags, likes_count |-> 0, comments_count |-> 0]]
                /\ lastEdit' = [lastEdit EXCEPT ![p] = q.tags]
    /\ Return(r)
    /\ UNCHANGED <<likes, comments, drifted, mixed>>

\* POST /my/edit/{id}: begin, read the post and, in the same snapshot, its tags.
Update(r, u, p, tags) ==
    /\ At(r, "idle")
    /\ ValidTags(tags)
    /\ Live(p)
    /\ posts[p].user = u
    /\ request' = [request EXCEPT ![r] =
           [Idle EXCEPT !.pc = "edit", !.user = u, !.post = p, !.tags = tags,
                        !.row = posts[p].program, !.seen = posts[p].tags]]
    /\ UNCHANGED <<tables, guide, history>>

\* Mutant of Retagged: the old tags are not detached.
RetaggedWithoutDetach(q, tags) == tags \cup q.tags

\* Detach the tags of the snapshot, attach the new ones.
Retagged(q, tags) == (tags \ q.seen) \cup q.tags

\* The rest of updatePostInTx up to COMMIT.  The row is written back from the copy, without its
\* counters.  A post deleted meanwhile is matched by no statement, and INSERT IGNORE drops the tags.
updatePostInTx(r) ==
    /\ At(r, "edit")
    /\ LET q == request[r]
           p == q.post
       IN  IF Live(p)
           THEN /\ posts' = [posts EXCEPT ![p].program = q.row,
                                          ![p].tags = Retagged(q, @)]
                /\ lastEdit' = [lastEdit EXCEPT ![p] = q.tags]
                /\ mixed' = IF q.stale THEN mixed \cup {p} ELSE mixed \ {p}
                /\ request' = [s \in Requests |->
                       IF s = r THEN Idle ELSE
                       [request[s] EXCEPT !.stale = @ \/ (At(s, "edit") /\ request[s].post = p)]]
           ELSE Return(r) /\ UNCHANGED <<posts, lastEdit, mixed>>
    /\ UNCHANGED <<likes, comments, guide, drifted>>

\* POST /my: read the post and compare its author.
Destroy(r, u, p) ==
    /\ At(r, "idle")
    /\ Live(p)
    /\ posts[p].user = u
    /\ request' = [request EXCEPT ![r] = [Idle EXCEPT !.pc = "delete", !.user = u, !.post = p]]
    /\ UNCHANGED <<tables, guide, history>>

\* DELETE FROM posts; the foreign keys take its likes, comments and tags along.
DeletePost(r) ==
    /\ At(r, "delete")
    /\ LET p == request[r].post
       IN  /\ posts' = [posts EXCEPT ![p] = [NoPost EXCEPT !.state = "deleted"]]
           /\ likes' = {l \in likes : l[1] # p}
           /\ comments' = [c \in Comments |->
                  IF comments[c].post = p THEN [NoComment EXCEPT !.state = "deleted"] ELSE comments[c]]
           /\ drifted' = {d \in drifted : d[1] # p}
           /\ lastEdit' = [lastEdit EXCEPT ![p] = {}]
           /\ mixed' = mixed \ {p}
    /\ Return(r)
    /\ UNCHANGED guide

-----------------------------------------------------------------------------
(* Likes *)

\* Like: SELECT COUNT(*); a like there already is an error.  The pages name posts that exist or
\* did, and nothing here asks which.
Like(r, u, p) ==
    /\ At(r, "idle")
    /\ posts[p].state # "unused" /\ posts[p].likes_count < MaxLikes
    /\ <<p, u>> \notin likes
    /\ request' = [request EXCEPT ![r] = [Idle EXCEPT !.pc = "like", !.user = u, !.post = p]]
    /\ UNCHANGED <<tables, guide, history>>

\* Mutant of InsertLike: INSERT IGNORE, and the like is counted all the same.
InsertLikeIgnoring(r) ==
    /\ At(r, "like")
    /\ likes' = likes \cup {l \in {<<request[r].post, request[r].user>>} : Live(l[1])}
    /\ Goto(r, "count_like")
    /\ UNCHANGED <<posts, comments, guide, history>>

\* INSERT INTO post_likes: the unique key and the foreign key may refuse it.
InsertLike(r) ==
    /\ At(r, "like")
    /\ LET l == <<request[r].post, request[r].user>>
       IN  IF l \notin likes /\ Live(l[1])
           THEN likes' = likes \cup {l} /\ Goto(r, "count_like")
           ELSE Return(r) /\ UNCHANGED likes
    /\ UNCHANGED <<posts, comments, guide, history>>

\* Unlike: DELETE FROM post_likes; how many rows it removed is not asked.
Unlike(r, u, p) ==
    /\ At(r, "idle")
    /\ posts[p].state # "unused"
    /\ likes' = likes \ {<<p, u>>}
    /\ drifted' = IF <<p, u>> \in likes \/ ~Live(p) THEN drifted ELSE drifted \cup {<<p, "likes">>}
    /\ request' = [request EXCEPT ![r] = [Idle EXCEPT !.pc = "uncount_like", !.user = u, !.post = p]]
    /\ UNCHANGED <<posts, comments, guide, lastEdit, mixed>>

-----------------------------------------------------------------------------
(* Comments *)

\* AddComment: INSERT INTO post_comments; the foreign key refuses it for a deleted post.
AddComment(r, u, p, c) ==
    /\ At(r, "idle")
    /\ Live(p)
    /\ comments[c].state = "unused"
    /\ comments' = [comments EXCEPT ![c] = [state |-> "live", post |-> p, user |-> u]]
    /\ request' = [request EXCEPT ![r] = [Idle EXCEPT !.pc = "count_comment", !.user = u, !.post = p]]
    /\ UNCHANGED <<posts, likes, guide, history>>

\* Mutant of DeleteComment: the author is not compared.
DeleteAnyComment(r, u, c) ==
    /\ At(r, "idle")
    /\ comments[c].state = "live"
    /\ request' = [request EXCEPT ![r] = [Idle EXCEPT !.pc = "find_post", !.user = u, !.comment = c]]
    /\ UNCHANGED <<tables, guide, history>>

\* DeleteComment: read the comment and compare its author.
DeleteComment(r, u, c) ==
    /\ At(r, "idle")
    /\ comments[c].state = "live"
    /\ comments[c].user = u
    /\ request' = [request EXCEPT ![r] = [Idle EXCEPT !.pc = "find_post", !.user = u, !.comment = c]]
    /\ UNCHANGED <<tables, guide, history>>

\* SELECT post_id; an error when the comment is gone.
FindPostOfComment(r) ==
    /\ At(r, "find_post")
    /\ LET c == comments[request[r].comment]
       IN  IF c.state = "live"
           THEN request' = [request EXCEPT ![r].pc = "erase", ![r].post = c.post]
           ELSE Return(r)
    /\ UNCHANGED <<tables, guide, history>>

\* DELETE FROM post_comments; how many rows it removed is not asked.
EraseComment(r) ==
    /\ At(r, "erase")
    /\ LET c == request[r].comment
       IN  /\ comments' = [comments EXCEPT ![c] = [NoComment EXCEPT !.state = "deleted"]]
           /\ drifted' = IF comments[c].state = "live" \/ ~Live(request[r].post) THEN drifted
                         ELSE drifted \cup {<<request[r].post, "comments">>}
    /\ Goto(r, "uncount_comment")
    /\ UNCHANGED <<posts, likes, guide, lastEdit, mixed>>

-----------------------------------------------------------------------------
(* The counters: an UPDATE of their own, no row of a deleted post being matched *)

CountLike(r) ==
    /\ At(r, "count_like")
    /\ LET p == request[r].post
       IN  posts' = IF Live(p) THEN [posts EXCEPT ![p].likes_count = @ + 1] ELSE posts
    /\ Return(r)
    /\ UNCHANGED <<likes, comments, guide, history>>

CountComment(r) ==
    /\ At(r, "count_comment")
    /\ LET p == request[r].post
       IN  posts' = IF Live(p) THEN [posts EXCEPT ![p].comments_count = @ + 1] ELSE posts
    /\ Return(r)
    /\ UNCHANGED <<likes, comments, guide, history>>

\* Mutant of Decremented: a signed column without GREATEST.
DecrementedBelowZero(n) == n - 1

\* The column is unsigned: at zero the UPDATE fails or is clamped, and nothing changes.
Decremented(n) == IF n = 0 THEN 0 ELSE n - 1

UncountLike(r) ==
    /\ At(r, "uncount_like")
    /\ LET p == request[r].post
       IN  IF Live(p)
           THEN /\ posts' = [posts EXCEPT ![p].likes_count = Decremented(@)]
                /\ drifted' = IF posts[p].likes_count = 0
                              THEN drifted \cup {<<p, "likes">>} ELSE drifted
           ELSE UNCHANGED <<posts, drifted>>
    /\ Return(r)
    /\ UNCHANGED <<likes, comments, guide, lastEdit, mixed>>

UncountComment(r) ==
    /\ At(r, "uncount_comment")
    /\ LET p == request[r].post
       IN  IF Live(p)
           THEN /\ posts' = [posts EXCEPT ![p].comments_count = Decremented(@)]
                /\ drifted' = IF posts[p].comments_count = 0
                              THEN drifted \cup {<<p, "comments">>} ELSE drifted
           ELSE UNCHANGED <<posts, drifted>>
    /\ Return(r)
    /\ UNCHANGED <<likes, comments, guide, lastEdit, mixed>>

-----------------------------------------------------------------------------
(* Errors, crashes, the jobs of 05:00 *)

\* A statement fails, or the time limit of the request runs out: a transaction is rolled back,
\* a counter that was still to be moved is not.
Fail(r) ==
    /\ MayFail
    /\ ~At(r, "idle")
    /\ Return(r)
    /\ drifted' = drifted \cup Owed(r)
    /\ UNCHANGED <<tables, guide, lastEdit, mixed>>

CrashRestart ==
    /\ MayFail
    /\ request' = [r \in Requests |-> Idle]
    /\ drifted' = drifted \cup UNION {Owed(r) : r \in Requests}
    /\ UNCHANGED <<tables, guide, lastEdit, mixed>>

\* One row of insertRadioPrograms; which rows it gets to depends on what Radiko answers.
upsertRadioProgram(station, title, cast) ==
    /\ Upsert(station, title, cast)
    /\ UNCHANGED <<tables, request, history>>

\* Mutant of deleteDuplicateRecords: every row of a repeated title goes.
DeleteRepeatedTitles ==
    /\ programs' = {row \in programs :
                       \A other \in programs : other.title = row.title => row.id = other.id}
    /\ UNCHANGED <<tables, lastRow, request, history>>

\* Of the rows of one title the one with the smallest id stays, whatever the station.
deleteDuplicateRecords ==
    /\ programs' = {row \in programs :
                       \A other \in programs : other.title = row.title => row.id <= other.id}
    /\ UNCHANGED <<tables, lastRow, request, history>>

HandleRequest(r) ==
    \/ \E u \in Users, station \in Stations, title \in Titles, tags \in SUBSET Tags :
          CreateReview(r, u, station, title, tags)
    \/ createPostInTx(r)
    \/ \E u \in Users, p \in Posts, tags \in SUBSET Tags : Update(r, u, p, tags)
    \/ updatePostInTx(r)
    \/ \E u \in Users, p \in Posts :
          Destroy(r, u, p) \/ Like(r, u, p) \/ Unlike(r, u, p)
    \/ DeletePost(r)
    \/ InsertLike(r)
    \/ \E u \in Users, c \in Comments :
          DeleteComment(r, u, c) \/ \E p \in Posts : AddComment(r, u, p, c)
    \/ FindPostOfComment(r)
    \/ EraseComment(r)
    \/ CountLike(r)
    \/ UncountLike(r)
    \/ CountComment(r)
    \/ UncountComment(r)
    \/ Fail(r)

Next ==
    \/ \E r \in Requests : HandleRequest(r)
    \/ CrashRestart
    \/ \E station \in Stations, title \in Titles, cast \in Casts :
          upsertRadioProgram(station, title, cast)
    \/ deleteDuplicateRecords

Spec == Init /\ [][Next]_vars
-----------------------------------------------------------------------------
(* Properties *)

LikesOf(p) == {l \in likes : l[1] = p}
CommentsOf(p) == {c \in Comments : comments[c].state = "live" /\ comments[c].post = p}
Owers(p, pc) == {r \in Requests : At(r, pc) /\ request[r].post = p}

\* A counter differs from its rows by exactly the updates still owed (post_like.go and
\* post_comment.go write the row first and count it next), whatever requests interleave, edits of
\* the post among them; unless an unlike found no like, a comment was deleted twice, a request
\* died between its two statements, or a decrement overtook its increment at zero.
CountersTrue ==
    \A p \in Posts : posts[p].state = "live" =>
        /\ <<p, "likes">> \notin drifted =>
              posts[p].likes_count + Cardinality(Owers(p, "count_like"))
                = Cardinality(LikesOf(p)) + Cardinality(Owers(p, "uncount_like"))
        /\ <<p, "comments">> \notin drifted =>
              posts[p].comments_count + Cardinality(Owers(p, "count_comment"))
                = Cardinality(CommentsOf(p)) + Cardinality(Owers(p, "uncount_comment"))

\* The tags of a post are those of its last edit, and no more than the limit, unless that edit had
\* read the post before another edit committed (updatePostInTx detaches the tags it read); an
\* edit that nothing overtook mends the post.
TagsAreTheLastEdit ==
    \A p \in Posts : posts[p].state = "live" /\ p \notin mixed =>
        /\ posts[p].tags = lastEdit[p]
        /\ Cardinality(posts[p].tags) <= MaxTags

\* The jobs of 05:00, in any order and around any review being written, leave every reviewed title
\* a row in radio_programs, and an id never comes to mean another programme: a post's program_id
\* names its own station and title, or nothing.
ProgrammeOfPost ==
    \A p \in Posts : posts[p].state = "live" =>
        /\ \E row \in programs : row.title = posts[p].title
        /\ \A row \in programs : row.id = posts[p].program =>
              row.station = posts[p].station /\ row.title = posts[p].title

\* The request that takes this step.
Acting(r) == request'[r] # request[r]

\* A comment disappears by a request of its author or with its post, and a post changes its tags
\* or disappears by a request of its author, although the author is compared in an
\* earlier statement than the one that writes (mypage.go Destroy, DeleteComment, updatePostInTx).
OnlyAuthorsChange ==
    [][/\ \A p \in Posts : posts[p].state = "live" =>
            (posts'[p].tags = posts[p].tags /\ posts'[p].state = "live")
            \/ \E r \in Requests : Acting(r) /\ request[r].user = posts[p].user
       /\ \A c \in Comments : comments[c].state = "live" =>
            \/ comments'[c] = comments[c]
            \/ posts'[comments[c].post].state = "deleted"
            \/ \E r \in Requests : Acting(r) /\ request[r].user = comments[c].user]_vars

\* likes_count is the number of likes once nobody is liking or unliking the post.
LikesCountIsLikes ==
    \A p \in Posts :
        posts[p].state = "live" /\ Owers(p, "count_like") = {} /\ Owers(p, "uncount_like") = {}
        => posts[p].likes_count = Cardinality(LikesOf(p))
=============================================================================
