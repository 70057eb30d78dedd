--------------------------- MODULE ReviewsProofs ---------------------------
(***************************************************************************)
(* Theorems about Reviews, for all users, posts, comments, tags, requests  *)
(* and bounds.                                                             *)
(***************************************************************************)
EXTENDS Reviews, FiniteSetTheorems, NaturalsInduction, WellFoundedInduction, TLAPS

\* What the place of a request says about what it holds: a request under way has a user, one
\* that works on a post or a comment names one that was there, and a comment about to be erased, if it is still
\* there, belongs to the post the request found.
RequestSound(q, table) ==
    /\ q.pc # "idle" => q.user \in Users
    /\ q.pc = "create" => q.station \in Stations /\ q.title \in Titles
    /\ q.pc \notin {"idle", "create", "find_post"} => q.post \in Posts
    /\ q.pc \in {"find_post", "erase"} => q.comment \in Comments /\ table[q.comment].state # "unused"
    /\ q.pc = "erase" /\ table[q.comment].state = "live" => table[q.comment].post = q.post

RequestsSound == \A r \in Requests : RequestSound(request[r], comments)

CommentsSound == \A c \in Comments : comments[c].state = "live" => comments[c].post \in Posts

Sound == TypeOK /\ RequestsSound /\ CommentsSound

-----------------------------------------------------------------------------

\* The types hold in the initial states.
LEMMA InitSound == Init => Sound
  BY ReviewsAssumption DEF Init, Sound, TypeOK, RequestsSound, RequestSound, CommentsSound, Idle, NoPost, NoComment,
     Post, Comment, Request, Life, InTransaction, BeforeEffect, Owing

\* A request between two calls is a request.
LEMMA IdleType == Idle \in Request /\ Idle.pc = "idle"
  BY ReviewsAssumption DEF Idle, Request

\* A step that gives one request a sound record, and leaves the comments alone, is sound for all.
LEMMA RequestStep ==
  ASSUME Sound, NEW r \in Requests, NEW q \in Request,
         request' = [request EXCEPT ![r] = q], RequestSound(q, comments'), UNCHANGED comments
  PROVE  request' \in [Requests -> Request] /\ RequestsSound' /\ CommentsSound'
<1>1. request' \in [Requests -> Request]
  BY DEF Sound, TypeOK
<1>2. ASSUME NEW s \in Requests PROVE RequestSound(request'[s], comments')
  <2>1. CASE s = r
    BY <2>1 DEF Sound, TypeOK
  <2>2. CASE s # r
    <3>1. request'[s] = request[s]
      BY <2>2 DEF Sound, TypeOK
    <3>2. RequestSound(request[s], comments)
      BY DEF Sound, RequestsSound
    <3> QED
      BY <3>1, <3>2 DEF RequestSound
  <2> QED
    BY <2>1, <2>2
<1>3. CommentsSound'
  BY DEF Sound, CommentsSound
<1> QED
  BY <1>1, <1>2, <1>3 DEF RequestsSound

\* A request that returns leaves requests and comments sound.
LEMMA ReturnStep ==
  ASSUME Sound, NEW r \in Requests, Return(r), UNCHANGED comments
  PROVE  request' \in [Requests -> Request] /\ RequestsSound' /\ CommentsSound'
<1>1. RequestSound(Idle, comments')
  BY IdleType DEF RequestSound
<1> QED
  BY <1>1, RequestStep, IdleType DEF Return

\* What a request owes are counters of posts.
LEMMA OwedType ==
  ASSUME TypeOK, NEW r \in Requests
  PROVE  Owed(r) \subseteq Posts \X Counters
  BY DEF Owed

\* Types, requests and comments fit together after every step.
LEMMA SoundStep == Sound /\ [Next]_vars => Sound'
<1> SUFFICES ASSUME Sound, [Next]_vars PROVE Sound'
  OBVIOUS
<1> USE ReviewsAssumption
<1>u. CASE UNCHANGED vars
  BY <1>u DEF vars, tables, guide, history, Sound, TypeOK, RequestsSound, RequestSound, CommentsSound
<1>1. ASSUME NEW r \in Requests, NEW u \in Users, NEW station \in Stations, NEW title \in Titles,
             NEW tags \in SUBSET Tags, CreateReview(r, u, station, title, tags)
      PROVE  Sound'
  <2>1. PICK row \in 0..MaxRows : request' = [request EXCEPT ![r] =
              [Idle EXCEPT !.pc = "create", !.user = u, !.station = station, !.title = title,
                           !.tags = tags, !.row = row]]
    <3>1. \A x \in RowsOf(station, title) : x.id \in 0..MaxRows
      BY DEF RowsOf, Sound, TypeOK, Program
    <3>2. 0 \in 0..MaxRows
      OBVIOUS
    <3> QED
      BY <1>1, <3>1, <3>2 DEF CreateReview
  <2> DEFINE q == [Idle EXCEPT !.pc = "create", !.user = u, !.station = station, !.title = title,
                           !.tags = tags, !.row = row]
  <2>2. q \in Request
    BY DEF Idle, Request, InTransaction
  <2>3. RequestSound(q, comments')
    BY DEF Idle, RequestSound
  <2>4. UNCHANGED <<tables, guide, history>>
    BY <1>1 DEF CreateReview
  <2> QED
    BY <2>1, <2>2, <2>3, <2>4, RequestStep DEF tables, guide, history, Sound, TypeOK, CommentsSound
<1>2. ASSUME NEW r \in Requests, createPostInTx(r) PROVE Sound'
  <2>1. programs' \subseteq Program /\ lastRow' \in 0..MaxRows
    BY <1>2 DEF createPostInTx, Upsert, guide, Sound, TypeOK, Program, RequestsSound, RequestSound, At
  <2>2. PICK p \in Posts, row \in 0..MaxRows :
           /\ posts' = [posts EXCEPT ![p] =
                  [state |-> "live", user |-> request[r].user, station |-> request[r].station,
                   title |-> request[r].title, program |-> row, tags |-> request[r].tags,
                   likes_count |-> 0, comments_count |-> 0]]
           /\ lastEdit' = [lastEdit EXCEPT ![p] = request[r].tags]
    <3>1. request[r].row \in 0..MaxRows /\ \A x \in programs' : x.id \in 0..MaxRows
      BY <2>1 DEF Sound, TypeOK, Program, Request
    <3> DEFINE ids == IF request[r].row # 0 THEN {request[r].row} ELSE
              {x.id : x \in {y \in programs' :
                  Keyed(y, request[r].station, request[r].title, NoCast)}}
    <3>2. ids \subseteq 0..MaxRows
      BY <3>1
    <3>3. \E p \in Posts, row \in ids :
           /\ posts' = [posts EXCEPT ![p] =
                  [state |-> "live", user |-> request[r].user, station |-> request[r].station,
                   title |-> request[r].title, program |-> row, tags |-> request[r].tags,
                   likes_count |-> 0, comments_count |-> 0]]
           /\ lastEdit' = [lastEdit EXCEPT ![p] = request[r].tags]
      BY <1>2 DEF createPostInTx
    <3> HIDE DEF ids
    <3> QED
      BY <3>2, <3>3
  <2>3. request[r] \in Request
    BY DEF Sound, TypeOK
  <2>4. posts' \in [Posts -> Post] /\ lastEdit' \in [Posts -> SUBSET Tags]
    BY <2>2, <2>3 DEF Sound, TypeOK, Post, Life, Request
  <2>5. Return(r) /\ UNCHANGED <<likes, comments, drifted, mixed>>
    BY <1>2 DEF createPostInTx
  <2>6. request' \in [Requests -> Request] /\ RequestsSound' /\ CommentsSound'
    BY <2>5, ReturnStep
  <2> QED
    BY <2>1, <2>4, <2>5, <2>6 DEF Sound, TypeOK
<1>3. ASSUME NEW r \in Requests, NEW u \in Users, NEW p \in Posts, NEW tags \in SUBSET Tags, Update(r, u, p, tags)
      PROVE  Sound'
  <2> DEFINE q == [Idle EXCEPT !.pc = "edit", !.user = u, !.post = p, !.tags = tags,
                        !.row = posts[p].program, !.seen = posts[p].tags]
  <2>1. request' = [request EXCEPT ![r] = q] /\ UNCHANGED <<tables, guide, history>>
    BY <1>3 DEF Update
  <2>2. q \in Request /\ RequestSound(q, comments')
    BY <1>3 DEF Update, Idle, Request, InTransaction, BeforeEffect, Owing, Moving,
       RequestSound, Live, Sound, TypeOK, Post
  <2> QED
    BY <2>1, <2>2, RequestStep DEF tables, guide, history, Sound, TypeOK
<1>4. ASSUME NEW r \in Requests, updatePostInTx(r) PROVE Sound'
  <2> DEFINE p == request[r].post
  <2>1. CASE Live(p)
    <3>1. p \in Posts /\ request[r] \in Request /\ posts[p] \in Post
      BY <2>1 DEF Live, Sound, TypeOK
    <3>2. posts' \in [Posts -> Post] /\ lastEdit' \in [Posts -> SUBSET Tags] /\ mixed' \subseteq Posts
      <4> DEFINE row == [posts[p] EXCEPT !.program = request[r].row,
                                         !.tags = Retagged(request[r], posts[p].tags)]
      <4>1. row \in Post
        BY <3>1 DEF Retagged, Post, Request
      <4>2. posts' = [posts EXCEPT ![p] = row]
        BY <1>4, <2>1, <3>1 DEF updatePostInTx, Sound, TypeOK
      <4>3. lastEdit' = [lastEdit EXCEPT ![p] = request[r].tags]
            /\ (mixed' = mixed \cup {p} \/ mixed' = mixed \ {p})
        BY <1>4, <2>1 DEF updatePostInTx
      <4> HIDE DEF row
      <4> QED
        BY <3>1, <4>1, <4>2, <4>3 DEF Sound, TypeOK, Request
    <3>3. request' = [s \in Requests |-> IF s = r THEN Idle ELSE
              [request[s] EXCEPT !.stale = @ \/ (At(s, "edit") /\ request[s].post = p)]]
      BY <1>4, <2>1 DEF updatePostInTx
    <3>4. UNCHANGED <<likes, comments, guide, drifted>>
      BY <1>4 DEF updatePostInTx
    <3>5. ASSUME NEW s \in Requests
          PROVE  request'[s] \in Request /\ RequestSound(request'[s], comments')
      <4>1. CASE s = r
        BY <3>3, <4>1, IdleType DEF RequestSound
      <4>2. CASE s # r
        <5> DEFINE b == request[s].stale \/ (At(s, "edit") /\ request[s].post = p)
        <5>1. request'[s] = [request[s] EXCEPT !.stale = b] /\ b \in BOOLEAN
          BY <3>3, <4>2 DEF Sound, TypeOK, Request
        <5>2. request[s] \in Request /\ RequestSound(request[s], comments)
          BY DEF Sound, TypeOK, RequestsSound
        <5> HIDE DEF b
        <5> QED
          BY <5>1, <5>2, <3>4 DEF RequestSound, Request
      <4> QED
        BY <4>1, <4>2
    <3>6. request' \in [Requests -> Request] /\ RequestsSound'
      BY <3>3, <3>5 DEF RequestsSound
    <3> QED
      BY <3>2, <3>4, <3>6 DEF guide, Sound, TypeOK, CommentsSound
  <2>2. CASE ~Live(p)
    <3>1. Return(r) /\ UNCHANGED <<posts, lastEdit, mixed, likes, comments, guide, drifted>>
      BY <1>4, <2>2 DEF updatePostInTx
    <3> QED
      BY <3>1, ReturnStep DEF guide, Sound, TypeOK
  <2> QED
    BY <2>1, <2>2
<1>5. ASSUME NEW r \in Requests, NEW u \in Users, NEW p \in Posts, Destroy(r, u, p)
      PROVE  Sound'
  <2> DEFINE q == [Idle EXCEPT !.pc = "delete", !.user = u, !.post = p]
  <2>1. request' = [request EXCEPT ![r] = q] /\ UNCHANGED <<tables, guide, history>>
    BY <1>5 DEF Destroy
  <2>2. q \in Request /\ RequestSound(q, comments')
    BY <1>5, IdleType DEF Destroy, Request, InTransaction, BeforeEffect, Owing, Moving,
       RequestSound, Live, Sound, TypeOK, Post
  <2> QED
    BY <2>1, <2>2, RequestStep DEF tables, guide, history, Sound, TypeOK
<1>6. ASSUME NEW r \in Requests, DeletePost(r) PROVE Sound'
  <2> DEFINE p == request[r].post
  <2>1. p \in Posts
    BY <1>6 DEF DeletePost, At, Sound, RequestsSound, RequestSound
  <2>2. /\ posts' = [posts EXCEPT ![p] = [NoPost EXCEPT !.state = "deleted"]]
        /\ likes' = {l \in likes : l[1] # p}
        /\ comments' = [c \in Comments |->
              IF comments[c].post = p THEN [NoComment EXCEPT !.state = "deleted"] ELSE comments[c]]
        /\ drifted' = {d \in drifted : d[1] # p}
        /\ lastEdit' = [lastEdit EXCEPT ![p] = {}]
        /\ mixed' = mixed \ {p}
        /\ Return(r) /\ UNCHANGED guide
    BY <1>6 DEF DeletePost
  <2>3. posts' \in [Posts -> Post] /\ comments' \in [Comments -> Comment]
    BY <2>1, <2>2 DEF Sound, TypeOK, Post, Comment, Life, NoPost, NoComment
  <2>4. request' \in [Requests -> Request]
    BY <2>2, IdleType DEF Return, Sound, TypeOK
  <2>5. CommentsSound'
    BY <2>2 DEF Sound, CommentsSound, NoComment
  <2>6. ASSUME NEW s \in Requests PROVE RequestSound(request'[s], comments')
    <3>1. CASE s = r
      BY <2>2, <3>1, IdleType DEF Return, RequestSound, Sound, TypeOK
    <3>2. CASE s # r
      <4>1. request'[s] = request[s] /\ RequestSound(request[s], comments)
        BY <2>2, <3>2 DEF Return, Sound, TypeOK, RequestsSound
      <4> QED
        BY <2>2, <4>1 DEF RequestSound, NoComment
    <3> QED
      BY <3>1, <3>2
  <2> QED
    BY <2>2, <2>3, <2>4, <2>5, <2>6 DEF guide, Sound, TypeOK, RequestsSound
<1>7. ASSUME NEW r \in Requests, NEW u \in Users, NEW p \in Posts, Like(r, u, p)
      PROVE  Sound'
  <2> DEFINE q == [Idle EXCEPT !.pc = "like", !.user = u, !.post = p]
  <2>1. request' = [request EXCEPT ![r] = q] /\ UNCHANGED <<tables, guide, history>>
    BY <1>7 DEF Like
  <2>2. q \in Request /\ RequestSound(q, comments')
    BY <1>7, IdleType DEF Like, Request, InTransaction, BeforeEffect, Owing, Moving,
       RequestSound, Live, Sound, TypeOK, Post
  <2> QED
    BY <2>1, <2>2, RequestStep DEF tables, guide, history, Sound, TypeOK
<1>8. ASSUME NEW r \in Requests, InsertLike(r) PROVE Sound'
  <2> DEFINE q == [request[r] EXCEPT !.pc = "count_like"]
  <2>1. request[r] \in Request /\ RequestSound(request[r], comments) /\ request[r].pc = "like"
    BY <1>8 DEF InsertLike, At, Sound, TypeOK, RequestsSound
  <2>2. q \in Request /\ RequestSound(q, comments')
    BY <2>1 DEF Request, RequestSound, Owing, Moving
  <2>3. UNCHANGED <<posts, comments, guide, history>> /\ likes' \subseteq Posts \X Users
    BY <1>8, <2>1 DEF InsertLike, RequestSound, Sound, TypeOK
  <2>4. Return(r) \/ request' = [request EXCEPT ![r] = q]
    BY <1>8 DEF InsertLike, Goto
  <2>5. request' \in [Requests -> Request] /\ RequestsSound' /\ CommentsSound'
    BY <2>2, <2>3, <2>4, ReturnStep, RequestStep
  <2> QED
    BY <2>3, <2>5 DEF guide, history, Sound, TypeOK
<1>9. ASSUME NEW r \in Requests, NEW u \in Users, NEW p \in Posts, Unlike(r, u, p) PROVE Sound'
  <2> DEFINE q == [Idle EXCEPT !.pc = "uncount_like", !.user = u, !.post = p]
  <2>1. q \in Request /\ RequestSound(q, comments')
    BY IdleType DEF Request, RequestSound, Owing, Moving
  <2>2. request' \in [Requests -> Request] /\ RequestsSound' /\ CommentsSound'
    BY <1>9, <2>1, RequestStep DEF Unlike
  <2> QED
    BY <1>9, <2>2 DEF Unlike, Counters, guide, Sound, TypeOK
<1>10. ASSUME NEW r \in Requests, NEW u \in Users, NEW p \in Posts, NEW c \in Comments, AddComment(r, u, p, c)
       PROVE  Sound'
  <2> DEFINE q == [Idle EXCEPT !.pc = "count_comment", !.user = u, !.post = p]
             new == [state |-> "live", post |-> p, user |-> u]
  <2>1. q \in Request /\ RequestSound(q, comments')
    BY IdleType DEF Request, RequestSound, Owing, Moving
  <2>2. /\ comments[c].state = "unused"
        /\ comments' = [comments EXCEPT ![c] = new]
        /\ request' = [request EXCEPT ![r] = q]
        /\ UNCHANGED <<posts, likes, guide, history>>
    BY <1>10 DEF AddComment
  <2>3. comments' \in [Comments -> Comment] /\ CommentsSound'
    BY <2>2 DEF Sound, TypeOK, CommentsSound, Comment, Life
  <2>4. request' \in [Requests -> Request]
    BY <2>1, <2>2 DEF Sound, TypeOK
  <2>5. ASSUME NEW s \in Requests PROVE RequestSound(request'[s], comments')
    <3>1. CASE s = r
      BY <2>1, <2>2, <3>1 DEF Sound, TypeOK
    <3>2. CASE s # r
      <4>1. request'[s] = request[s] /\ RequestSound(request[s], comments)
        BY <2>2, <3>2 DEF Sound, TypeOK, RequestsSound
      <4> QED
        BY <2>2, <4>1 DEF RequestSound
    <3> QED
      BY <3>1, <3>2
  <2> QED
    BY <2>2, <2>3, <2>4, <2>5 DEF guide, history, Sound, TypeOK, RequestsSound
<1>11. ASSUME NEW r \in Requests, NEW u \in Users, NEW c \in Comments, DeleteComment(r, u, c)
       PROVE  Sound'
  <2> DEFINE q == [Idle EXCEPT !.pc = "find_post", !.user = u, !.comment = c]
  <2>1. /\ request' = [request EXCEPT ![r] = q]
        /\ comments[c].state = "live"
        /\ UNCHANGED <<tables, guide, history>>
    BY <1>11 DEF DeleteComment
  <2>2. q \in Request /\ RequestSound(q, comments')
    BY <2>1, IdleType DEF Request, RequestSound, BeforeEffect, tables
  <2> QED
    BY <2>1, <2>2, RequestStep DEF tables, guide, history, Sound, TypeOK
<1>12. ASSUME NEW r \in Requests, FindPostOfComment(r) PROVE Sound'
  <2> DEFINE c == comments[request[r].comment]
             q == [request[r] EXCEPT !.pc = "erase", !.post = c.post]
  <2>1. UNCHANGED <<tables, guide, history>>
    BY <1>12 DEF FindPostOfComment
  <2>2. request[r] \in Request /\ RequestSound(request[r], comments) /\ request[r].pc = "find_post"
    BY <1>12 DEF FindPostOfComment, At, Sound, TypeOK, RequestsSound
  <2>3. CASE c.state = "live"
    <3>1. c.post \in Posts
      BY <2>2, <2>3 DEF RequestSound, Sound, CommentsSound
    <3>2. q \in Request /\ q.pc = "erase" /\ q.post = c.post
          /\ q.comment = request[r].comment /\ q.user = request[r].user
      BY <2>2, <3>1 DEF Request, BeforeEffect
    <3>3. RequestSound(q, comments')
      BY <2>1, <2>2, <2>3, <3>1, <3>2 DEF RequestSound, tables
    <3>4. request' = [request EXCEPT ![r].pc = "erase", ![r].post = c.post]
      BY <1>12, <2>3 DEF FindPostOfComment
    <3>5. request' = [request EXCEPT ![r] = q]
      BY <3>4 DEF Sound, TypeOK
    <3> HIDE DEF q
    <3> QED
      BY <2>1, <3>2, <3>3, <3>5, RequestStep DEF tables, guide, history, Sound, TypeOK
  <2>4. CASE c.state # "live"
    BY <1>12, <2>1, <2>4, ReturnStep DEF FindPostOfComment, tables, guide, history, Sound, TypeOK
  <2> QED
    BY <2>3, <2>4
<1>13. ASSUME NEW r \in Requests, EraseComment(r) PROVE Sound'
  <2> DEFINE c == request[r].comment
             q == [request[r] EXCEPT !.pc = "uncount_comment"]
             gone == [NoComment EXCEPT !.state = "deleted"]
  <2>1. request[r] \in Request /\ RequestSound(request[r], comments) /\ request[r].pc = "erase"
    BY <1>13 DEF EraseComment, At, Sound, TypeOK, RequestsSound
  <2>2. /\ comments' = [comments EXCEPT ![c] = gone]
        /\ drifted' \in {drifted, drifted \cup {<<request[r].post, "comments">>}}
        /\ request' = [request EXCEPT ![r].pc = "uncount_comment"]
        /\ UNCHANGED <<posts, likes, guide, lastEdit, mixed>>
    BY <1>13 DEF EraseComment, Goto
  <2>3. c \in Comments /\ request[r].post \in Posts
    BY <2>1 DEF RequestSound
  <2>4. gone \in Comment /\ gone.state = "deleted"
    BY DEF NoComment, Comment, Life
  <2> HIDE DEF gone
  <2>5. comments' \in [Comments -> Comment] /\ CommentsSound'
    BY <2>2, <2>3, <2>4 DEF Sound, TypeOK, CommentsSound
  <2>6. q \in Request /\ RequestSound(q, comments')
    BY <2>1 DEF Request, RequestSound, Owing, Moving
  <2>7. request' = [request EXCEPT ![r] = q]
    BY <2>2 DEF Sound, TypeOK
  <2>8. request' \in [Requests -> Request]
    BY <2>6, <2>7 DEF Sound, TypeOK
  <2>9. ASSUME NEW s \in Requests PROVE RequestSound(request'[s], comments')
    <3>1. CASE s = r
      BY <2>6, <2>7, <3>1 DEF Sound, TypeOK
    <3>2. CASE s # r
      <4>1. request'[s] = request[s] /\ RequestSound(request[s], comments)
        BY <2>7, <3>2 DEF Sound, TypeOK, RequestsSound
      <4> QED
        BY <2>2, <2>4, <4>1 DEF RequestSound, Sound, TypeOK
    <3> QED
      BY <3>1, <3>2
  <2>10. drifted' \subseteq Posts \X Counters
    BY <2>2, <2>3 DEF Sound, TypeOK, Counters
  <2> QED
    BY <2>2, <2>5, <2>8, <2>9, <2>10 DEF guide, Sound, TypeOK, RequestsSound
<1>14. ASSUME NEW r \in Requests, CountLike(r) PROVE Sound'
  <2> DEFINE p == request[r].post
  <2>1. Return(r) /\ UNCHANGED <<likes, comments, guide, history>>
    BY <1>14 DEF CountLike
  <2>2. posts' \in [Posts -> Post]
    <3>1. CASE Live(p)
      <4> DEFINE row == [posts[p] EXCEPT !.likes_count = posts[p].likes_count + 1]
      <4>1. p \in Posts /\ posts[p] \in Post
        BY <3>1 DEF Live, Sound, TypeOK
      <4>2. row \in Post
        BY <4>1 DEF Post, Decremented
      <4>3. posts' = [posts EXCEPT ![p] = row]
        BY <1>14, <3>1, <4>1 DEF CountLike, Sound, TypeOK
      <4> HIDE DEF row
      <4> QED
        BY <1>14, <3>1, <4>1, <4>2, <4>3 DEF CountLike, Counters, Sound, TypeOK, history
    <3>2. CASE ~Live(p)
      BY <1>14, <3>2 DEF CountLike, Sound, TypeOK
    <3> QED
      BY <3>1, <3>2
  <2>3. request' \in [Requests -> Request] /\ RequestsSound' /\ CommentsSound'
    BY <2>1, ReturnStep
  <2> QED
    BY <2>1, <2>2, <2>3 DEF guide, history, Sound, TypeOK
<1>15. ASSUME NEW r \in Requests, CountComment(r) PROVE Sound'
  <2> DEFINE p == request[r].post
  <2>1. Return(r) /\ UNCHANGED <<likes, comments, guide, history>>
    BY <1>15 DEF CountComment
  <2>2. posts' \in [Posts -> Post]
    <3>1. CASE Live(p)
      <4> DEFINE row == [posts[p] EXCEPT !.comments_count = posts[p].comments_count + 1]
      <4>1. p \in Posts /\ posts[p] \in Post
        BY <3>1 DEF Live, Sound, TypeOK
      <4>2. row \in Post
        BY <4>1 DEF Post, Decremented
      <4>3. posts' = [posts EXCEPT ![p] = row]
        BY <1>15, <3>1, <4>1 DEF CountComment, Sound, TypeOK
      <4> HIDE DEF row
      <4> QED
        BY <1>15, <3>1, <4>1, <4>2, <4>3 DEF CountComment, Counters, Sound, TypeOK, history
    <3>2. CASE ~Live(p)
      BY <1>15, <3>2 DEF CountComment, Sound, TypeOK
    <3> QED
      BY <3>1, <3>2
  <2>3. request' \in [Requests -> Request] /\ RequestsSound' /\ CommentsSound'
    BY <2>1, ReturnStep
  <2> QED
    BY <2>1, <2>2, <2>3 DEF guide, history, Sound, TypeOK
<1>16. ASSUME NEW r \in Requests, UncountLike(r) PROVE Sound'
  <2> DEFINE p == request[r].post
  <2>1. Return(r) /\ UNCHANGED <<likes, comments, guide, lastEdit, mixed>>
    BY <1>16 DEF UncountLike
  <2>2. posts' \in [Posts -> Post] /\ drifted' \subseteq Posts \X Counters
    <3>1. CASE Live(p)
      <4> DEFINE row == [posts[p] EXCEPT !.likes_count = Decremented(posts[p].likes_count)]
      <4>1. p \in Posts /\ posts[p] \in Post
        BY <3>1 DEF Live, Sound, TypeOK
      <4>2. row \in Post
        BY <4>1 DEF Post, Decremented
      <4>3. posts' = [posts EXCEPT ![p] = row]
        BY <1>16, <3>1, <4>1 DEF UncountLike, Sound, TypeOK
      <4> HIDE DEF row
      <4> QED
        BY <1>16, <3>1, <4>1, <4>2, <4>3 DEF UncountLike, Counters, Sound, TypeOK, history
    <3>2. CASE ~Live(p)
      BY <1>16, <3>2 DEF UncountLike, Sound, TypeOK
    <3> QED
      BY <3>1, <3>2
  <2>3. request' \in [Requests -> Request] /\ RequestsSound' /\ CommentsSound'
    BY <2>1, ReturnStep
  <2> QED
    BY <2>1, <2>2, <2>3 DEF guide, history, Sound, TypeOK
<1>17. ASSUME NEW r \in Requests, UncountComment(r) PROVE Sound'
  <2> DEFINE p == request[r].post
  <2>1. Return(r) /\ UNCHANGED <<likes, comments, guide, lastEdit, mixed>>
    BY <1>17 DEF UncountComment
  <2>2. posts' \in [Posts -> Post] /\ drifted' \subseteq Posts \X Counters
    <3>1. CASE Live(p)
      <4> DEFINE row == [posts[p] EXCEPT !.comments_count = Decremented(posts[p].comments_count)]
      <4>1. p \in Posts /\ posts[p] \in Post
        BY <3>1 DEF Live, Sound, TypeOK
      <4>2. row \in Post
        BY <4>1 DEF Post, Decremented
      <4>3. posts' = [posts EXCEPT ![p] = row]
        BY <1>17, <3>1, <4>1 DEF UncountComment, Sound, TypeOK
      <4> HIDE DEF row
      <4> QED
        BY <1>17, <3>1, <4>1, <4>2, <4>3 DEF UncountComment, Counters, Sound, TypeOK, history
    <3>2. CASE ~Live(p)
      BY <1>17, <3>2 DEF UncountComment, Sound, TypeOK
    <3> QED
      BY <3>1, <3>2
  <2>3. request' \in [Requests -> Request] /\ RequestsSound' /\ CommentsSound'
    BY <2>1, ReturnStep
  <2> QED
    BY <2>1, <2>2, <2>3 DEF guide, history, Sound, TypeOK
<1>18. ASSUME NEW r \in Requests, Fail(r) PROVE Sound'
  BY <1>18, ReturnStep, OwedType DEF Fail, tables, guide, Sound, TypeOK
<1>19. ASSUME CrashRestart PROVE Sound'
  <2>1. UNCHANGED <<tables, guide, lastEdit, mixed>> /\ request' = [r \in Requests |-> Idle]
    BY <1>19 DEF CrashRestart
  <2>2. request' \in [Requests -> Request] /\ RequestsSound'
    BY <2>1, IdleType DEF RequestsSound, RequestSound
  <2>3. drifted' \subseteq Posts \X Counters
    BY <1>19, OwedType DEF CrashRestart, Sound, TypeOK
  <2> QED
    BY <2>1, <2>2, <2>3 DEF tables, guide, Sound, TypeOK, CommentsSound
<1>20. ASSUME NEW station \in Stations, NEW title \in Titles, NEW cast \in Casts,
              upsertRadioProgram(station, title, cast)
       PROVE  Sound'
  <2>1. programs' \subseteq Program /\ lastRow' \in 0..MaxRows
    BY <1>20 DEF upsertRadioProgram, Upsert, guide, Sound, TypeOK, Program
  <2> QED
    BY <1>20, <2>1 DEF upsertRadioProgram, tables, history, Sound, TypeOK, RequestsSound, CommentsSound
<1>21. ASSUME deleteDuplicateRecords PROVE Sound'
  BY <1>21 DEF deleteDuplicateRecords, tables, history, Sound, TypeOK, RequestsSound, CommentsSound
<1> QED
  BY <1>u, <1>1, <1>2, <1>3, <1>4, <1>5, <1>6, <1>7, <1>8, <1>9, <1>10, <1>11, <1>12, <1>13, <1>14,
     <1>15, <1>16, <1>17, <1>18, <1>19, <1>20, <1>21 DEF Next, HandleRequest

\* Every variable keeps its type: no counter goes below zero, and no request of a post, a comment
\* or a user loses what it works on.
THEOREM ReviewsTypeCorrect == Spec => []TypeOK
<1>1. Sound => TypeOK
  BY DEF Sound
<1> QED
  BY InitSound, SoundStep, <1>1, PTL DEF Spec
-----------------------------------------------------------------------------
(* Authors *)

\* Rows are created once: a post or a comment that exists may go, and never changes its user.
PostsEvolve ==
    \A p \in Posts : posts[p].state # "unused" =>
        /\ posts'[p].state # "unused"
        /\ posts'[p].state = "live" => posts[p].state = "live" /\ posts'[p].user = posts[p].user

CommentsEvolve ==
    \A c \in Comments : comments[c].state # "unused" =>
        /\ comments'[c].state # "unused"
        /\ comments'[c].state = "live" => comments[c].state = "live" /\ comments'[c].user = comments[c].user

\* A request that is about to change a post or a comment belongs to its author, if it is still there.
AuthorSound(q, ps, cs) ==
    /\ q.pc \in {"edit", "delete"} =>
          ps[q.post].state # "unused" /\ (ps[q.post].state = "live" => ps[q.post].user = q.user)
    /\ q.pc \in {"find_post", "erase"} =>
          cs[q.comment].state # "unused" /\ (cs[q.comment].state = "live" => cs[q.comment].user = q.user)

AuthorsSound == \A r \in Requests : AuthorSound(request[r], posts, comments)

\* The steps that write posts or comments.
LEMMA Writers ==
  ASSUME [Next]_vars
  PROVE  \/ UNCHANGED <<posts, comments>>
         \/ \E r \in Requests :
               \/ createPostInTx(r) \/ updatePostInTx(r) \/ DeletePost(r) \/ EraseComment(r)
               \/ \E u \in Users, p \in Posts, c \in Comments : AddComment(r, u, p, c)
               \/ CountLike(r) \/ CountComment(r) \/ UncountLike(r) \/ UncountComment(r)
<1>1. ASSUME NEW r \in Requests, Fail(r) PROVE UNCHANGED <<posts, comments>>
  BY <1>1 DEF Fail, tables
<1>2. ASSUME NEW r \in Requests, NEW u \in Users, NEW p \in Posts,
             Destroy(r, u, p) \/ Like(r, u, p) \/ Unlike(r, u, p)
                \/ \E tags \in SUBSET Tags : Update(r, u, p, tags)
      PROVE  UNCHANGED <<posts, comments>>
  BY <1>2 DEF Update, Destroy, Like, Unlike, tables
<1>7. ASSUME NEW r \in Requests, NEW u \in Users, NEW c \in Comments, DeleteComment(r, u, c)
      PROVE  UNCHANGED <<posts, comments>>
  BY <1>7 DEF DeleteComment, tables
<1>3. ASSUME NEW r \in Requests, NEW u \in Users, NEW station \in Stations, NEW title \in Titles,
             NEW tags \in SUBSET Tags, CreateReview(r, u, station, title, tags)
      PROVE  UNCHANGED <<posts, comments>>
  BY <1>3 DEF CreateReview, tables
<1>4. ASSUME NEW r \in Requests, InsertLike(r) \/ FindPostOfComment(r)
      PROVE  UNCHANGED <<posts, comments>>
  BY <1>4 DEF InsertLike, FindPostOfComment, tables
<1>5. CASE CrashRestart \/ deleteDuplicateRecords \/ UNCHANGED vars
  BY <1>5 DEF CrashRestart, deleteDuplicateRecords, tables, vars
<1>6. ASSUME NEW station \in Stations, NEW title \in Titles, NEW cast \in Casts,
             upsertRadioProgram(station, title, cast)
      PROVE  UNCHANGED <<posts, comments>>
  BY <1>6 DEF upsertRadioProgram, tables
<1> QED
  BY <1>1, <1>2, <1>3, <1>4, <1>5, <1>6, <1>7 DEF Next, HandleRequest

\* A post or a comment that is there keeps its author, and none that is gone comes back.
LEMMA Evolution == Sound /\ [Next]_vars => PostsEvolve /\ CommentsEvolve
<1> SUFFICES ASSUME Sound, [Next]_vars PROVE PostsEvolve /\ CommentsEvolve
  OBVIOUS
<1>u. CASE UNCHANGED <<posts, comments>>
  BY <1>u DEF PostsEvolve, CommentsEvolve
<1>1. ASSUME NEW r \in Requests, createPostInTx(r) PROVE PostsEvolve /\ CommentsEvolve
  <2>1. PICK p \in Posts :
           /\ posts[p].state = "unused" /\ UNCHANGED comments
           /\ \E row : posts' = [posts EXCEPT ![p] =
                  [state |-> "live", user |-> request[r].user, station |-> request[r].station,
                   title |-> request[r].title, program |-> row, tags |-> request[r].tags,
                   likes_count |-> 0, comments_count |-> 0]]
    BY <1>1 DEF createPostInTx
  <2> QED
    BY <2>1 DEF PostsEvolve, CommentsEvolve, Sound, TypeOK
<1>2. ASSUME NEW r \in Requests, updatePostInTx(r) PROVE PostsEvolve /\ CommentsEvolve
  BY <1>2 DEF updatePostInTx, PostsEvolve, CommentsEvolve, Sound, TypeOK, Post
<1>3. ASSUME NEW r \in Requests, DeletePost(r) PROVE PostsEvolve /\ CommentsEvolve
  BY <1>3 DEF DeletePost, PostsEvolve, CommentsEvolve, Sound, TypeOK, NoPost, NoComment
<1>4. ASSUME NEW r \in Requests, NEW u \in Users, NEW p \in Posts, NEW c \in Comments, AddComment(r, u, p, c)
      PROVE  PostsEvolve /\ CommentsEvolve
  BY <1>4 DEF AddComment, PostsEvolve, CommentsEvolve, Sound, TypeOK
<1>5. ASSUME NEW r \in Requests, EraseComment(r) PROVE PostsEvolve /\ CommentsEvolve
  BY <1>5 DEF EraseComment, PostsEvolve, CommentsEvolve, Sound, TypeOK, NoComment
<1>6. ASSUME NEW r \in Requests, CountLike(r) \/ CountComment(r) \/ UncountLike(r) \/ UncountComment(r)
      PROVE  PostsEvolve /\ CommentsEvolve
  BY <1>6 DEF CountLike, CountComment, UncountLike, UncountComment, PostsEvolve, CommentsEvolve, Sound, TypeOK, Post
<1> QED
  BY <1>u, <1>1, <1>2, <1>3, <1>4, <1>5, <1>6, Writers

\* A request that waits is not harmed by the steps of others.
LEMMA AuthorsKept ==
  ASSUME Sound, AuthorsSound, PostsEvolve, CommentsEvolve, NEW r \in Requests
  PROVE  AuthorSound(request[r], posts', comments')
<1>1. RequestSound(request[r], comments) /\ AuthorSound(request[r], posts, comments)
  BY DEF Sound, RequestsSound, AuthorsSound
<1> QED
  BY <1>1 DEF RequestSound, AuthorSound, PostsEvolve, CommentsEvolve

\* A request that is about to write belongs to the author of what it writes.
LEMMA AuthorsStep == Sound /\ AuthorsSound /\ [Next]_vars => AuthorsSound'
<1> SUFFICES ASSUME Sound, AuthorsSound, [Next]_vars, NEW r \in Requests
             PROVE  AuthorSound(request'[r], posts', comments')
  BY DEF AuthorsSound
<1> USE DEF Sound, TypeOK
<1>1. AuthorSound(request[r], posts', comments')
  BY Evolution, AuthorsKept
<1>2. CASE request'[r].pc \notin {"edit", "delete", "find_post", "erase"}
  BY <1>2 DEF AuthorSound
<1>3. CASE /\ request'[r].pc = request[r].pc /\ request'[r].user = request[r].user
           /\ request'[r].post = request[r].post /\ request'[r].comment = request[r].comment
  BY <1>1, <1>3 DEF AuthorSound
<1>4. ASSUME NEW u \in Users, NEW p \in Posts, NEW tags \in SUBSET Tags,
             Update(r, u, p, tags) \/ Destroy(r, u, p)
      PROVE  AuthorSound(request'[r], posts', comments')
  <2>1. posts[p].state = "live" /\ posts[p].user = u /\ UNCHANGED <<posts, comments>>
    BY <1>4 DEF Update, Destroy, Live, tables
  <2>2. request'[r].pc \in {"edit", "delete"} /\ request'[r].user = u /\ request'[r].post = p
    <3>1. CASE Update(r, u, p, tags)
      BY <3>1, IdleType DEF Update, Request
    <3>2. CASE Destroy(r, u, p)
      BY <3>2, IdleType DEF Destroy, Request
    <3> QED
      BY <1>4, <3>1, <3>2
  <2> QED
    BY <2>1, <2>2 DEF AuthorSound
<1>5. ASSUME NEW u \in Users, NEW c \in Comments, DeleteComment(r, u, c)
      PROVE  AuthorSound(request'[r], posts', comments')
  <2>1. request'[r].pc = "find_post" /\ request'[r].user = u /\ request'[r].comment = c
    BY <1>5, IdleType DEF DeleteComment, Request
  <2> QED
    BY <1>5, <2>1 DEF DeleteComment, AuthorSound, tables
<1>6. ASSUME FindPostOfComment(r) PROVE AuthorSound(request'[r], posts', comments')
  <2>1. CASE Return(r)
    BY <1>2, <2>1, IdleType DEF Return
  <2>2. CASE request' = [request EXCEPT ![r].pc = "erase", ![r].post = comments[request[r].comment].post]
    <3>1. request[r].pc = "find_post" /\ UNCHANGED <<posts, comments>>
      BY <1>6 DEF FindPostOfComment, At, tables
    <3>2. /\ request'[r].pc = "erase" /\ request'[r].user = request[r].user
          /\ request'[r].comment = request[r].comment
      BY <2>2 DEF Request
    <3> QED
      BY <1>1, <3>1, <3>2 DEF AuthorSound
  <2> QED
    BY <1>6, <2>1, <2>2 DEF FindPostOfComment
<1>7. ASSUME NEW s \in Requests, updatePostInTx(s)
      PROVE  AuthorSound(request'[r], posts', comments')
  <2>1. CASE Live(request[s].post)
    BY <1>2, <1>3, <1>7, <2>1, IdleType DEF updatePostInTx, Request
  <2>2. CASE ~Live(request[s].post)
    BY <1>2, <1>3, <1>7, <2>2, IdleType DEF updatePostInTx, Return
  <2> QED
    BY <2>1, <2>2
<1>8. ASSUME NEW s \in Requests, s # r, NEW q, request' = [request EXCEPT ![s] = q]
      PROVE  AuthorSound(request'[r], posts', comments')
  BY <1>3, <1>8
<1>9. ASSUME NEW s \in Requests, Return(s) PROVE AuthorSound(request'[r], posts', comments')
  BY <1>2, <1>3, <1>9, IdleType DEF Return
<1>10. ASSUME NEW s \in Requests, HandleRequest(s)
       PROVE  AuthorSound(request'[r], posts', comments')
  <2>1. ASSUME NEW u \in Users, NEW station \in Stations, NEW title \in Titles,
               NEW tags \in SUBSET Tags, CreateReview(s, u, station, title, tags)
        PROVE  AuthorSound(request'[r], posts', comments')
    BY <1>2, <1>3, <2>1, IdleType DEF CreateReview, Request
  <2>2. ASSUME NEW u \in Users, NEW p \in Posts, NEW tags \in SUBSET Tags,
               Update(s, u, p, tags) \/ Destroy(s, u, p)
        PROVE  AuthorSound(request'[r], posts', comments')
    BY <1>4, <1>8, <2>2 DEF Update, Destroy
  <2>3. ASSUME NEW u \in Users, NEW p \in Posts, Like(s, u, p) \/ Unlike(s, u, p)
        PROVE  AuthorSound(request'[r], posts', comments')
    <3>1. CASE Like(s, u, p)
      BY <1>2, <1>3, <3>1, IdleType DEF Like, Request
    <3>2. CASE Unlike(s, u, p)
      BY <1>2, <1>3, <3>2, IdleType DEF Unlike, Request
    <3> QED
      BY <2>3, <3>1, <3>2
  <2>4. CASE InsertLike(s) \/ EraseComment(s)
    <3>1. CASE Return(s)
      BY <1>9, <3>1
    <3>2. CASE Goto(s, "count_like") \/ Goto(s, "uncount_comment")
      BY <1>2, <1>3, <3>2 DEF Goto, Request
    <3> QED
      BY <2>4, <3>1, <3>2 DEF InsertLike, EraseComment
  <2>5. ASSUME NEW u \in Users, NEW c \in Comments, DeleteComment(s, u, c)
        PROVE  AuthorSound(request'[r], posts', comments')
    BY <1>5, <1>8, <2>5 DEF DeleteComment
  <2>6. ASSUME NEW u \in Users, NEW c \in Comments, NEW p \in Posts, AddComment(s, u, p, c)
        PROVE  AuthorSound(request'[r], posts', comments')
    BY <1>2, <1>3, <2>6, IdleType DEF AddComment, Request
  <2>7. CASE FindPostOfComment(s)
    <3>1. CASE s = r
      BY <1>6, <2>7, <3>1
    <3>2. CASE s # r
      BY <1>3, <2>7, <3>2 DEF FindPostOfComment, Return
    <3> QED
      BY <3>1, <3>2
  <2>8. CASE \/ createPostInTx(s) \/ DeletePost(s) \/ CountLike(s) \/ CountComment(s)
             \/ UncountLike(s) \/ UncountComment(s) \/ Fail(s)
    BY <1>9, <2>8 DEF createPostInTx, DeletePost, CountLike, CountComment, UncountLike, UncountComment, Fail
  <2> QED
    BY <1>7, <1>10, <2>1, <2>2, <2>3, <2>4, <2>5, <2>6, <2>7, <2>8 DEF HandleRequest
<1>11. CASE CrashRestart
  BY <1>2, <1>11, IdleType DEF CrashRestart
<1>12. CASE UNCHANGED request
  BY <1>3, <1>12
<1> QED
  BY <1>10, <1>11, <1>12 DEF Next, vars, upsertRadioProgram, deleteDuplicateRecords

\* What OnlyAuthorsChange says of one step, for posts and for comments.
PostsByAuthors ==
    \A p \in Posts : posts[p].state = "live" =>
        (posts'[p].tags = posts[p].tags /\ posts'[p].state = "live")
        \/ \E r \in Requests : Acting(r) /\ request[r].user = posts[p].user

CommentsByAuthors ==
    \A c \in Comments : comments[c].state = "live" =>
        \/ comments'[c] = comments[c]
        \/ posts'[comments[c].post].state = "deleted"
        \/ \E r \in Requests : Acting(r) /\ request[r].user = comments[c].user

\* No step lets another user change or remove what an author wrote.
LEMMA OnlyAuthorsStep == Sound /\ AuthorsSound /\ [Next]_vars => PostsByAuthors /\ CommentsByAuthors
<1> SUFFICES ASSUME Sound, AuthorsSound, [Next]_vars PROVE PostsByAuthors /\ CommentsByAuthors
  OBVIOUS
<1> USE DEF Sound, TypeOK
<1>u. CASE UNCHANGED <<posts, comments>>
  BY <1>u DEF PostsByAuthors, CommentsByAuthors
<1>a. ASSUME NEW r \in Requests, Return(r), request[r].pc # "idle" PROVE Acting(r)
  BY <1>a, IdleType DEF Return, Acting
<1>1. ASSUME NEW r \in Requests, createPostInTx(r) PROVE PostsByAuthors /\ CommentsByAuthors
  <2>1. UNCHANGED comments /\ \A p \in Posts : posts[p].state = "live" => posts'[p] = posts[p]
    BY <1>1 DEF createPostInTx
  <2> QED
    BY <2>1 DEF PostsByAuthors, CommentsByAuthors
<1>2. ASSUME NEW r \in Requests, updatePostInTx(r) PROVE PostsByAuthors /\ CommentsByAuthors
  <2>1. request[r].pc = "edit" /\ UNCHANGED comments
    BY <1>2 DEF updatePostInTx, At
  <2>2. CASE ~Live(request[r].post)
    BY <1>u, <1>2, <2>1, <2>2 DEF updatePostInTx
  <2>3. CASE Live(request[r].post)
    <3> DEFINE p == request[r].post
    <3>1. p \in Posts /\ posts[p].user = request[r].user
      BY <2>1, <2>3 DEF AuthorsSound, AuthorSound, Live
    <3>2. request'[r] = Idle
      BY <1>2, <2>3 DEF updatePostInTx
    <3>3. Acting(r)
      BY <2>1, <3>2, IdleType DEF Acting
    <3>4. \A x \in Posts : x # p => posts'[x] = posts[x]
      BY <1>2, <2>3 DEF updatePostInTx
    <3> QED
      BY <2>1, <3>1, <3>3, <3>4 DEF PostsByAuthors, CommentsByAuthors
  <2> QED
    BY <2>2, <2>3
<1>3. ASSUME NEW r \in Requests, DeletePost(r) PROVE PostsByAuthors /\ CommentsByAuthors
  <2> DEFINE p == request[r].post
  <2>1. request[r].pc = "delete" /\ Acting(r)
    BY <1>a, <1>3 DEF DeletePost, At
  <2>2. p \in Posts /\ (posts[p].state = "live" => posts[p].user = request[r].user)
    BY <2>1 DEF RequestsSound, RequestSound, AuthorsSound, AuthorSound
  <2>3. posts'[p].state = "deleted" /\ \A x \in Posts : x # p => posts'[x] = posts[x]
    BY <1>3, <2>2 DEF DeletePost, NoPost
  <2>4. \A c \in Comments : comments[c].post # p => comments'[c] = comments[c]
    BY <1>3 DEF DeletePost
  <2> QED
    BY <2>1, <2>2, <2>3, <2>4 DEF PostsByAuthors, CommentsByAuthors
<1>4. ASSUME NEW r \in Requests, NEW u \in Users, NEW p \in Posts, NEW c \in Comments, AddComment(r, u, p, c)
      PROVE  PostsByAuthors /\ CommentsByAuthors
  BY <1>4 DEF AddComment, PostsByAuthors, CommentsByAuthors
<1>5. ASSUME NEW r \in Requests, EraseComment(r) PROVE PostsByAuthors /\ CommentsByAuthors
  <2> DEFINE c == request[r].comment
  <2>1. request[r].pc = "erase" /\ UNCHANGED posts
    BY <1>5 DEF EraseComment, At
  <2>2. request'[r].pc = "uncount_comment"
    BY <1>5 DEF EraseComment, Goto, Request
  <2>3. comments[c].state = "live" => comments[c].user = request[r].user
    BY <2>1 DEF AuthorsSound, AuthorSound
  <2>4. \A x \in Comments : x # c => comments'[x] = comments[x]
    BY <1>5 DEF EraseComment
  <2> QED
    BY <2>1, <2>2, <2>3, <2>4 DEF PostsByAuthors, CommentsByAuthors, Acting
<1>6. ASSUME NEW r \in Requests, CountLike(r) \/ CountComment(r) \/ UncountLike(r) \/ UncountComment(r)
      PROVE  PostsByAuthors /\ CommentsByAuthors
  <2>1. UNCHANGED comments
    BY <1>6 DEF CountLike, CountComment, UncountLike, UncountComment
  <2>2. \A p \in Posts : posts'[p].tags = posts[p].tags /\ posts'[p].state = posts[p].state
    BY <1>6 DEF CountLike, CountComment, UncountLike, UncountComment, Post
  <2> QED
    BY <2>1, <2>2 DEF PostsByAuthors, CommentsByAuthors
<1> QED
  BY <1>u, <1>1, <1>2, <1>3, <1>4, <1>5, <1>6, Writers

\* A comment disappears by a request of its author or with its post, and a post changes its tags or
\* disappears by a request of its author, however long before the write the author was compared.
THEOREM OnlyAuthors == Spec => OnlyAuthorsChange
<1>1. Init => AuthorsSound
  BY IdleType DEF Init, AuthorsSound, AuthorSound
<1>2. PostsByAuthors /\ CommentsByAuthors
      <=> /\ \A p \in Posts : posts[p].state = "live" =>
               (posts'[p].tags = posts[p].tags /\ posts'[p].state = "live")
               \/ \E r \in Requests : Acting(r) /\ request[r].user = posts[p].user
          /\ \A c \in Comments : comments[c].state = "live" =>
               \/ comments'[c] = comments[c]
               \/ posts'[comments[c].post].state = "deleted"
               \/ \E r \in Requests : Acting(r) /\ request[r].user = comments[c].user
  BY DEF PostsByAuthors, CommentsByAuthors
<1> QED
  BY InitSound, SoundStep, AuthorsStep, OnlyAuthorsStep, <1>1, <1>2, PTL DEF Spec, OnlyAuthorsChange
-----------------------------------------------------------------------------
(* Tags *)

\* A request writes no more tags than the limit, and an edit that nothing has overtaken still
\* holds the tags the post has.
EditSound(q, ps) ==
    /\ q.pc \in {"create", "edit"} => Cardinality(q.tags) <= MaxTags
    /\ q.pc = "edit" /\ ~q.stale /\ ps[q.post].state = "live" => q.seen = ps[q.post].tags

EditsSound == \A r \in Requests : EditSound(request[r], posts)

TagsSound ==
    \A p \in Posts : /\ Cardinality(lastEdit[p]) <= MaxTags
                     /\ posts[p].state = "live" /\ p \notin mixed => posts[p].tags = lastEdit[p]

Tagged == EditsSound /\ TagsSound

\* A step that neither changes tags nor begins or ends an edit.
TagsAside ==
    /\ UNCHANGED <<lastEdit, mixed>>
    /\ \A p \in Posts : posts'[p].tags = posts[p].tags /\ posts'[p].state = posts[p].state
    /\ \A r \in Requests : request'[r].pc \in {"create", "edit"} => request'[r] = request[r]

\* At first no post has tags and no edit is under way.
LEMMA TaggedInit == Init => Tagged
<1>1. Cardinality({}) = 0
  BY FS_EmptySet
<1> QED
  BY <1>1, IdleType, ReviewsAssumption DEF Init, Tagged, EditsSound, EditSound, TagsSound, NoPost

\* A step that leaves posts, tags and snapshots alone.
LEMMA AsideStep == Sound /\ Tagged /\ TagsAside => Tagged'
<1> SUFFICES ASSUME Sound, Tagged, TagsAside PROVE Tagged'
  OBVIOUS
<1>1. ASSUME NEW r \in Requests PROVE EditSound(request'[r], posts')
  <2>1. EditSound(request[r], posts) /\ RequestSound(request[r], comments)
    BY DEF Tagged, EditsSound, Sound, RequestsSound
  <2>2. CASE request'[r].pc \notin {"create", "edit"}
    BY <2>2 DEF EditSound
  <2>3. CASE request'[r] = request[r]
    BY <2>1, <2>3 DEF TagsAside, EditSound, RequestSound
  <2> QED
    BY <2>2, <2>3 DEF TagsAside
<1>2. TagsSound'
  BY DEF Tagged, TagsSound, TagsAside
<1> QED
  BY <1>1, <1>2 DEF Tagged, EditsSound

\* The tags of a post are those of its last edit, or two edits were mixed.
LEMMA TaggedStep == Sound /\ AuthorsSound /\ Tagged /\ [Next]_vars => Tagged'
<1> SUFFICES ASSUME Sound, AuthorsSound, Tagged, [Next]_vars PROVE Tagged'
  OBVIOUS
<1> USE DEF Sound, TypeOK
<1>e. \A r \in Requests : EditSound(request[r], posts) /\ RequestSound(request[r], comments)
  BY DEF Tagged, EditsSound, RequestsSound
<1>0. Cardinality({}) = 0
  BY FS_EmptySet
<1>r. ASSUME NEW s \in Requests, NEW r \in Requests, Return(s) PROVE request'[r] = Idle \/ request'[r] = request[r]
  BY <1>r DEF Return
<1>1. ASSUME NEW s \in Requests, NEW u \in Users, NEW station \in Stations, NEW title \in Titles,
             NEW tags \in SUBSET Tags, CreateReview(s, u, station, title, tags)
      PROVE  Tagged'
  <2>1. PICK row \in Nat \cup {x.id : x \in RowsOf(station, title)} : request' = [request EXCEPT ![s] =
              [Idle EXCEPT !.pc = "create", !.user = u, !.station = station, !.title = title,
                           !.tags = tags, !.row = row]]
    BY <1>1 DEF CreateReview
  <2>2. request'[s].pc = "create" /\ request'[s].tags = tags
    BY <2>1 DEF Idle
  <2>3. Cardinality(tags) <= MaxTags /\ UNCHANGED <<posts, lastEdit, mixed>>
    BY <1>1 DEF CreateReview, ValidTags, tables, history
  <2>4. \A r \in Requests : r # s => request'[r] = request[r]
    BY <2>1
  <2> QED
    BY <1>e, <2>2, <2>3, <2>4 DEF Tagged, EditsSound, EditSound, TagsSound
<1>2. ASSUME NEW s \in Requests, createPostInTx(s) PROVE Tagged'
  <2>1. PICK p \in Posts :
           /\ posts[p].state = "unused"
           /\ \E row : posts' = [posts EXCEPT ![p] =
                  [state |-> "live", user |-> request[s].user, station |-> request[s].station,
                   title |-> request[s].title, program |-> row, tags |-> request[s].tags,
                   likes_count |-> 0, comments_count |-> 0]]
           /\ lastEdit' = [lastEdit EXCEPT ![p] = request[s].tags]
    BY <1>2 DEF createPostInTx
  <2>2. Return(s) /\ request[s].pc = "create" /\ UNCHANGED mixed
    BY <1>2 DEF createPostInTx, At
  <2>3. posts'[p].tags = request[s].tags
    BY <2>1
  <2>4. TagsSound'
    BY <1>e, <2>1, <2>2, <2>3 DEF Tagged, TagsSound, EditSound
  <2>5. ASSUME NEW r \in Requests PROVE EditSound(request'[r], posts')
    <3>1. CASE request'[r] = Idle
      BY <3>1, IdleType DEF EditSound
    <3>2. CASE request'[r] = request[r]
      <4>1. request[r].pc = "edit" => posts[request[r].post].state # "unused"
        BY DEF AuthorsSound, AuthorSound
      <4> QED
        BY <1>e, <2>1, <3>2, <4>1 DEF EditSound
    <3> QED
      BY <1>r, <2>2, <3>1, <3>2
  <2> QED
    BY <2>4, <2>5 DEF Tagged, EditsSound
<1>3. ASSUME NEW s \in Requests, NEW u \in Users, NEW p \in Posts, NEW tags \in SUBSET Tags, Update(s, u, p, tags)
      PROVE  Tagged'
  <2>1. /\ request'[s].pc = "edit" /\ request'[s].post = p /\ request'[s].tags = tags
        /\ request'[s].seen = posts[p].tags
    BY <1>3 DEF Update, Idle
  <2>2. Cardinality(tags) <= MaxTags /\ UNCHANGED <<posts, lastEdit, mixed>>
    BY <1>3 DEF Update, ValidTags, tables, history
  <2>3. \A r \in Requests : r # s => request'[r] = request[r]
    BY <1>3 DEF Update
  <2> QED
    BY <1>e, <2>1, <2>2, <2>3 DEF Tagged, EditsSound, EditSound, TagsSound
<1>4. ASSUME NEW s \in Requests, updatePostInTx(s) PROVE Tagged'
  <2> DEFINE q == request[s]
             p == request[s].post
  <2>1. q.pc = "edit" /\ p \in Posts /\ Cardinality(q.tags) <= MaxTags
    BY <1>e, <1>4 DEF updatePostInTx, At, EditSound, RequestSound
  <2>2. CASE ~Live(p)
    <3>1. Return(s) /\ UNCHANGED <<posts, lastEdit, mixed>>
      BY <1>4, <2>2 DEF updatePostInTx
    <3>2. TagsAside
      BY <1>r, <3>1, IdleType DEF TagsAside
    <3> QED
      BY <3>2, AsideStep
  <2>3. CASE Live(p)
    <3>1. /\ posts'[p].tags = Retagged(q, posts[p].tags)
          /\ posts'[p].state = posts[p].state
          /\ \A x \in Posts : x # p => posts'[x] = posts[x]
      BY <1>4, <2>1, <2>3 DEF updatePostInTx, Post
    <3>2. /\ lastEdit' = [lastEdit EXCEPT ![p] = q.tags]
          /\ mixed' = IF q.stale THEN mixed \cup {p} ELSE mixed \ {p}
      BY <1>4, <2>3 DEF updatePostInTx
    <3>3. ~q.stale => posts'[p].tags = q.tags
      BY <1>e, <2>1, <2>3, <3>1 DEF EditSound, Retagged, Live
    <3>4. TagsSound'
      BY <2>1, <3>1, <3>2, <3>3 DEF Tagged, TagsSound
    <3>5. ASSUME NEW r \in Requests PROVE EditSound(request'[r], posts')
      <4>1. CASE r = s
        <5>1. request'[r] = Idle
          BY <1>4, <2>3, <4>1 DEF updatePostInTx
        <5> QED
          BY <5>1, IdleType DEF EditSound
      <4>2. CASE r # s
        <5>1. request'[r] = [request[r] EXCEPT !.stale = @ \/ (At(r, "edit") /\ request[r].post = p)]
          BY <1>4, <2>3, <4>2 DEF updatePostInTx
        <5>2. /\ request'[r].pc = request[r].pc /\ request'[r].post = request[r].post
              /\ request'[r].tags = request[r].tags /\ request'[r].seen = request[r].seen
              /\ request'[r].stale = (request[r].stale \/ (request[r].pc = "edit" /\ request[r].post = p))
          BY <5>1 DEF Request, At
        <5>3. EditSound(request[r], posts) /\ RequestSound(request[r], comments)
          BY <1>e
        <5>4. request[r].pc = "edit" /\ ~request'[r].stale => request[r].post \in Posts \ {p}
          BY <5>2, <5>3 DEF RequestSound
        <5> QED
          BY <3>1, <5>2, <5>3, <5>4 DEF EditSound
      <4> QED
        BY <4>1, <4>2
    <3> QED
      BY <3>4, <3>5 DEF Tagged, EditsSound
  <2> QED
    BY <2>2, <2>3
<1>5. ASSUME NEW s \in Requests, DeletePost(s) PROVE Tagged'
  <2> DEFINE p == request[s].post
  <2>1. p \in Posts /\ Return(s)
    BY <1>e, <1>5 DEF DeletePost, At, RequestSound
  <2>2. posts'[p].state = "deleted" /\ \A x \in Posts : x # p => posts'[x] = posts[x]
    BY <1>5, <2>1 DEF DeletePost, NoPost
  <2>3. lastEdit' = [lastEdit EXCEPT ![p] = {}] /\ mixed' = mixed \ {p}
    BY <1>5 DEF DeletePost
  <2>4. TagsSound'
    BY <1>0, <2>2, <2>3, ReviewsAssumption DEF Tagged, TagsSound
  <2>5. ASSUME NEW r \in Requests PROVE EditSound(request'[r], posts')
    <3>1. CASE request'[r] = Idle
      BY <3>1, IdleType DEF EditSound
    <3>2. CASE request'[r] = request[r]
      BY <1>e, <2>2, <3>2 DEF EditSound, RequestSound
    <3> QED
      BY <1>r, <2>1, <3>1, <3>2
  <2> QED
    BY <2>4, <2>5 DEF Tagged, EditsSound
<1>6. ASSUME NEW s \in Requests, NEW u \in Users, NEW p \in Posts, Destroy(s, u, p) \/ Like(s, u, p) \/ Unlike(s, u, p)
      PROVE  Tagged'
  <2>1. UNCHANGED <<posts, lastEdit, mixed>>
    BY <1>6 DEF Destroy, Like, Unlike, tables, history
  <2>2. request'[s].pc \notin {"create", "edit"} /\ \A r \in Requests : r # s => request'[r] = request[r]
    <3>1. CASE Destroy(s, u, p)
      BY <3>1 DEF Destroy, Idle
    <3>2. CASE Like(s, u, p)
      BY <3>2 DEF Like, Idle
    <3>3. CASE Unlike(s, u, p)
      BY <3>3 DEF Unlike, Idle
    <3> QED
      BY <1>6, <3>1, <3>2, <3>3
  <2> QED
    BY <2>1, <2>2, AsideStep DEF TagsAside
<1>7. ASSUME NEW s \in Requests, NEW u \in Users, NEW c \in Comments,
             DeleteComment(s, u, c) \/ \E p \in Posts : AddComment(s, u, p, c)
      PROVE  Tagged'
  <2>1. UNCHANGED <<posts, lastEdit, mixed>>
    BY <1>7 DEF DeleteComment, AddComment, tables, history
  <2>2. request'[s].pc \notin {"create", "edit"} /\ \A r \in Requests : r # s => request'[r] = request[r]
    <3>1. CASE DeleteComment(s, u, c)
      BY <3>1 DEF DeleteComment, Idle
    <3>2. ASSUME NEW p \in Posts, AddComment(s, u, p, c)
          PROVE  request'[s].pc \notin {"create", "edit"} /\ \A r \in Requests : r # s => request'[r] = request[r]
      BY <3>2 DEF AddComment, Idle
    <3> QED
      BY <1>7, <3>1, <3>2
  <2> QED
    BY <2>1, <2>2, AsideStep DEF TagsAside
<1>8. ASSUME NEW s \in Requests, InsertLike(s) \/ EraseComment(s) \/ FindPostOfComment(s) PROVE Tagged'
  <2>1. UNCHANGED <<posts, lastEdit, mixed>>
    BY <1>8 DEF InsertLike, EraseComment, FindPostOfComment, tables, history
  <2>2. \/ Return(s)
        \/ \E pc \in {"count_like", "uncount_comment"} : Goto(s, pc)
        \/ \E p : request' = [request EXCEPT ![s].pc = "erase", ![s].post = p]
    BY <1>8 DEF InsertLike, EraseComment, FindPostOfComment
  <2>3. \A r \in Requests : request'[r].pc \in {"create", "edit"} => request'[r] = request[r]
    BY <2>2, IdleType DEF Return, Goto, Request
  <2> QED
    BY <2>1, <2>3, AsideStep DEF TagsAside
<1>9. ASSUME NEW s \in Requests, CountLike(s) \/ CountComment(s) \/ UncountLike(s) \/ UncountComment(s)
      PROVE  Tagged'
  <2>1. Return(s) /\ UNCHANGED <<lastEdit, mixed>>
    BY <1>9 DEF CountLike, CountComment, UncountLike, UncountComment, history
  <2>2. \A p \in Posts : posts'[p].tags = posts[p].tags /\ posts'[p].state = posts[p].state
    BY <1>9 DEF CountLike, CountComment, UncountLike, UncountComment, Post
  <2> QED
    BY <1>r, <2>1, <2>2, IdleType, AsideStep DEF TagsAside
<1>10. ASSUME NEW s \in Requests, Fail(s) PROVE Tagged'
  BY <1>r, <1>10, IdleType, AsideStep DEF Fail, TagsAside, tables
<1>11. CASE CrashRestart
  BY <1>11, IdleType, AsideStep DEF CrashRestart, TagsAside, tables
<1>12. CASE UNCHANGED <<posts, request, lastEdit, mixed>>
  BY <1>12, AsideStep DEF TagsAside
<1> QED
  BY <1>1, <1>2, <1>3, <1>4, <1>5, <1>6, <1>7, <1>8, <1>9, <1>10, <1>11, <1>12
  DEF Next, HandleRequest, vars, tables, history, upsertRadioProgram, deleteDuplicateRecords

\* The tags of a post are those of its last edit, within the limit, unless that edit had read the
\* post before another edit committed.
THEOREM TagsAreLastEdit == Spec => []TagsAreTheLastEdit
<1>1. Init => AuthorsSound
  BY IdleType DEF Init, AuthorsSound, AuthorSound
<1>2. Tagged => TagsAreTheLastEdit
  BY DEF Tagged, TagsSound, TagsAreTheLastEdit
<1> QED
  BY InitSound, SoundStep, AuthorsStep, TaggedInit, TaggedStep, <1>1, <1>2, PTL DEF Spec
-----------------------------------------------------------------------------
(* The programmes of the posts *)

\* The ids of radio_programs are handed out once.
GuideSound ==
    /\ \A row \in programs : row.id <= lastRow
    /\ \A a, b \in programs : a.id = b.id => a = b

\* An id that a post of this programme may keep: it was handed out, and if it names a row still,
\* that row is the programme's; and the title has a row, of this station or another.
MayName(rows, last, id, station, title) ==
    /\ id <= last
    /\ \E row \in rows : row.title = title
    /\ \A row \in rows : row.id = id => row.station = station /\ row.title = title

\* A review being written holds an id it may keep, or none; an edit holds the id of the post.
LooksUp(q, ps, rows, last) ==
    /\ q.pc = "create" /\ q.row # 0 => MayName(rows, last, q.row, q.station, q.title)
    /\ q.pc = "edit" /\ ps[q.post].state = "live" => q.row = ps[q.post].program

Named ==
    /\ GuideSound
    /\ \A p \in Posts : posts[p].state = "live" =>
          MayName(programs, lastRow, posts[p].program, posts[p].station, posts[p].title)
    /\ \A r \in Requests : LooksUp(request[r], posts, programs, lastRow)

\* An id and a title that fit stay fitting when a programme is added.
LEMMA UpsertKeeps ==
  ASSUME Sound, GuideSound, NEW station \in Stations, NEW title \in Titles, NEW cast \in Casts,
         Upsert(station, title, cast)
  PROVE  /\ GuideSound'
         /\ \A id \in Nat : \A s, x : MayName(programs, lastRow, id, s, x)
                => MayName(programs', lastRow', id, s, x)
         /\ \E row \in programs' : Keyed(row, station, title, cast)
         /\ \A row \in programs' : Keyed(row, station, title, cast) =>
                MayName(programs', lastRow', row.id, station, title)
<1>0. lastRow \in Nat /\ \A row \in programs : row.id \in Nat
  BY ReviewsAssumption DEF Sound, TypeOK, Program
<1>1. CASE UNCHANGED guide /\ \E row \in programs : Keyed(row, station, title, cast)
  BY <1>0, <1>1 DEF guide, GuideSound, MayName, Keyed
<1>2. CASE /\ lastRow' = lastRow + 1
           /\ programs' = programs \cup
                 {[id |-> lastRow + 1, station |-> station, title |-> title, cast |-> cast]}
  <2> DEFINE new == [id |-> lastRow + 1, station |-> station, title |-> title, cast |-> cast]
  <2>1. new.id = lastRow + 1 /\ Keyed(new, station, title, cast)
    BY DEF Keyed
  <2>2. programs' = programs \cup {new}
    BY <1>2
  <2> HIDE DEF new
  <2>3. GuideSound'
    BY <1>0, <1>2, <2>1, <2>2 DEF GuideSound
  <2> QED
    BY <1>0, <1>2, <2>1, <2>2, <2>3 DEF GuideSound, MayName, Keyed
<1> QED
  BY <1>1, <1>2 DEF Upsert

\* The job that removes duplicates leaves every title a row.
LEMMA DuplicatesKeep ==
  ASSUME Sound, GuideSound, deleteDuplicateRecords
  PROVE  /\ GuideSound'
         /\ \A id \in Nat : \A s, x : MayName(programs, lastRow, id, s, x)
                => MayName(programs', lastRow', id, s, x)
<1>0. programs' \subseteq programs /\ lastRow' = lastRow
  BY DEF deleteDuplicateRecords
<1>1. ASSUME NEW row \in programs PROVE \E other \in programs' : other.title = row.title
  <2> DEFINE ids == {n \in Nat : \E other \in programs : other.title = row.title /\ other.id = n}
  <2>1. row.id \in ids /\ ids \subseteq Nat /\ \A other \in programs : other.id \in Nat
    BY DEF Sound, TypeOK, Program
  <2>2. PICK n \in ids : \A m \in ids : ~(m < n)
    <3> HIDE DEF ids
    <3>1. PICK n \in ids : \A m \in ids : ~(<<m, n>> \in OpToRel(<, Nat))
      BY <2>1, NatLessThanWellFounded, WFMin
    <3> QED
      BY <2>1, <3>1 DEF OpToRel
  <2>3. PICK least \in programs : least.title = row.title /\ least.id = n
    OBVIOUS
  <2>4. \A other \in programs : other.title = least.title => least.id <= other.id
    BY <2>1, <2>2, <2>3
  <2> QED
    BY <2>3, <2>4 DEF deleteDuplicateRecords
<1> QED
  BY <1>0, <1>1 DEF GuideSound, MayName

\* What keeps a row in the guide keeps the posts and requests that name it, when neither is new.
LEMMA NamedKept ==
  ASSUME Sound, Named, GuideSound',
         \A id \in Nat : \A s, x : MayName(programs, lastRow, id, s, x) => MayName(programs', lastRow', id, s, x),
         \A p \in Posts : posts'[p].state = "live" =>
            /\ posts[p].state = "live" /\ posts'[p].program = posts[p].program
            /\ posts'[p].station = posts[p].station /\ posts'[p].title = posts[p].title,
         \A r \in Requests : request'[r].pc \in {"create", "edit"} =>
            /\ request'[r].pc = request[r].pc /\ request'[r].post = request[r].post
            /\ request'[r].row = request[r].row /\ request'[r].station = request[r].station
            /\ request'[r].title = request[r].title
  PROVE  Named'
<1>0. /\ \A p \in Posts : posts[p].program \in Nat
      /\ \A r \in Requests : request[r].row \in Nat
  BY ReviewsAssumption DEF Sound, TypeOK, Post, Request
<1>1. ASSUME NEW p \in Posts, posts'[p].state = "live"
      PROVE  MayName(programs', lastRow', posts'[p].program, posts'[p].station, posts'[p].title)
  BY <1>0, <1>1 DEF Named
<1>2. ASSUME NEW r \in Requests PROVE LooksUp(request'[r], posts', programs', lastRow')
  <2>1. LooksUp(request[r], posts, programs, lastRow) /\ RequestSound(request[r], comments)
    BY DEF Named, Sound, RequestsSound
  <2>2. CASE request'[r].pc = "create"
    BY <1>0, <2>1, <2>2 DEF LooksUp
  <2>3. CASE request'[r].pc = "edit"
    <3>1. request[r].post \in Posts
      BY <2>1, <2>3 DEF RequestSound
    <3> QED
      BY <2>1, <2>3, <3>1 DEF LooksUp
  <2> QED
    BY <2>2, <2>3 DEF LooksUp
<1> QED
  BY <1>1, <1>2 DEF Named

\* Every step keeps posts and programmes together.
LEMMA NamedStep == Sound /\ AuthorsSound /\ Named /\ [Next]_vars => Named'
<1> SUFFICES ASSUME Sound, AuthorsSound, Named, [Next]_vars PROVE Named'
  OBVIOUS
<1>g. GuideSound /\ lastRow \in Nat /\ (\A row \in programs : row.id \in Nat \ {0})
      /\ request \in [Requests -> Request] /\ posts \in [Posts -> Post]
  BY ReviewsAssumption DEF Named, Sound, TypeOK, Program
<1>k. ASSUME UNCHANGED guide
      PROVE  GuideSound' /\ \A id \in Nat : \A s, x : MayName(programs, lastRow, id, s, x)
                                => MayName(programs', lastRow', id, s, x)
  BY <1>g, <1>k DEF guide, GuideSound
<1>r. ASSUME NEW s \in Requests, NEW r \in Requests, Return(s) PROVE request'[r] = Idle \/ request'[r] = request[r]
  BY <1>r DEF Return
<1>1. ASSUME NEW r \in Requests, NEW u \in Users, NEW station \in Stations, NEW title \in Titles,
             NEW tags \in SUBSET Tags, CreateReview(r, u, station, title, tags)
      PROVE  Named'
  <2>1. UNCHANGED <<posts, guide>>
    BY <1>1 DEF CreateReview, tables
  <2>2. PICK row \in IF RowsOf(station, title) = {} THEN {0} ELSE {x.id : x \in RowsOf(station, title)} :
          request' = [request EXCEPT ![r] =
              [Idle EXCEPT !.pc = "create", !.user = u, !.station = station, !.title = title,
                           !.tags = tags, !.row = row]]
    BY <1>1 DEF CreateReview
  <2>3. /\ request'[r].pc = "create" /\ request'[r].row = row
        /\ request'[r].station = station /\ request'[r].title = title
    BY <1>g, <2>2 DEF Idle
  <2>4. row # 0 => MayName(programs, lastRow, row, station, title)
    BY <1>g DEF RowsOf, MayName, GuideSound
  <2>5. LooksUp(request'[r], posts', programs', lastRow')
    BY <2>1, <2>3, <2>4 DEF LooksUp, guide
  <2>6. \A s \in Requests : s # r => request'[s] = request[s]
    BY <1>g, <2>2
  <2> QED
    BY <1>k, <2>1, <2>5, <2>6 DEF Named, guide
<1>2. ASSUME NEW r \in Requests, createPostInTx(r) PROVE Named'
  <2>1. PICK q \in Request : q = request[r] /\ q.pc = "create" /\ q.station \in Stations /\ q.title \in Titles
    BY <1>g, <1>2 DEF createPostInTx, At, Sound, RequestsSound, RequestSound
  <2>2. NoCast \in Casts /\ q.row \in Nat
    BY <2>1, ReviewsAssumption DEF Request
  <2>3. IF q.row = 0 THEN Upsert(q.station, q.title, NoCast) ELSE UNCHANGED guide
    BY <1>2, <2>1 DEF createPostInTx
  <2>4. GuideSound' /\ \A id \in Nat : \A s, x : MayName(programs, lastRow, id, s, x)
                            => MayName(programs', lastRow', id, s, x)
    BY <1>g, <1>k, <2>1, <2>2, <2>3, UpsertKeeps
  <2>5. PICK p \in Posts, row \in IF q.row # 0 THEN {q.row} ELSE
                                     {x.id : x \in {y \in programs' : Keyed(y, q.station, q.title, NoCast)}} :
           /\ posts[p].state = "unused"
           /\ posts' = [posts EXCEPT ![p] =
                  [state |-> "live", user |-> q.user, station |-> q.station, title |-> q.title,
                   program |-> row, tags |-> q.tags, likes_count |-> 0, comments_count |-> 0]]
    <3>1. \E p \in Posts, row \in IF q.row # 0 THEN {q.row} ELSE
                                     {x.id : x \in {y \in programs' : Keyed(y, q.station, q.title, NoCast)}} :
            /\ posts[p].state = "unused"
            /\ posts' = [posts EXCEPT ![p] =
                   [state |-> "live", user |-> q.user, station |-> q.station, title |-> q.title,
                    program |-> row, tags |-> q.tags, likes_count |-> 0, comments_count |-> 0]]
            /\ lastEdit' = [lastEdit EXCEPT ![p] = q.tags]
      BY <1>2, <2>1 DEF createPostInTx
    <3> HIDE <1>2
    <3> QED
      BY <3>1
  <2>6. MayName(programs', lastRow', row, q.station, q.title)
    <3>1. CASE q.row # 0
      <4>1. MayName(programs, lastRow, q.row, q.station, q.title)
        BY <2>1, <3>1 DEF Named, LooksUp
      <4> QED
        BY <2>2, <2>4, <2>5, <3>1, <4>1
    <3>2. CASE q.row = 0
      <4>1. \A y \in programs' : Keyed(y, q.station, q.title, NoCast) =>
                MayName(programs', lastRow', y.id, q.station, q.title)
        BY <1>g, <2>1, <2>2, <2>3, <3>2, UpsertKeeps
      <4> QED
        BY <2>5, <3>2, <4>1
    <3> QED
      BY <3>1, <3>2
  <2>7. /\ posts'[p].program = row /\ posts'[p].station = q.station /\ posts'[p].title = q.title
        /\ \A x \in Posts : x # p => posts'[x] = posts[x]
    BY <1>g, <2>5
  <2>8. ASSUME NEW x \in Posts, posts'[x].state = "live"
        PROVE  MayName(programs', lastRow', posts'[x].program, posts'[x].station, posts'[x].title)
    <3>1. CASE x = p
      BY <2>6, <2>7, <3>1
    <3>2. CASE x # p
      <4>1. posts[x].program \in Nat
        BY <1>g DEF Post
      <4> QED
        BY <2>4, <2>7, <2>8, <3>2, <4>1 DEF Named
    <3> QED
      BY <3>1, <3>2
  <2>9. ASSUME NEW s \in Requests PROVE LooksUp(request'[s], posts', programs', lastRow')
    <3>1. CASE request'[s] = Idle
      BY <3>1, IdleType DEF LooksUp
    <3>2. CASE request'[s] = request[s]
      <4>1. request[s].row \in Nat /\ LooksUp(request[s], posts, programs, lastRow)
        BY <1>g, ReviewsAssumption DEF Request, Named
      <4>2. request[s].pc = "edit" => request[s].post \in Posts \ {p}
        BY <2>5 DEF AuthorsSound, AuthorSound, Sound, RequestsSound, RequestSound
      <4> QED
        BY <2>4, <2>7, <3>2, <4>1, <4>2 DEF LooksUp
    <3> QED
      BY <1>2, <1>r, <3>1, <3>2 DEF createPostInTx
  <2> QED
    BY <2>4, <2>8, <2>9 DEF Named
<1>3. ASSUME NEW r \in Requests, NEW u \in Users, NEW p \in Posts, NEW tags \in SUBSET Tags, Update(r, u, p, tags)
      PROVE  Named'
  <2>1. UNCHANGED <<posts, guide>>
    BY <1>3 DEF Update, tables
  <2>2. request'[r].pc = "edit" /\ request'[r].post = p /\ request'[r].row = posts[p].program
    BY <1>g, <1>3 DEF Update, Idle
  <2>3. LooksUp(request'[r], posts', programs', lastRow')
    BY <2>1, <2>2 DEF LooksUp
  <2>4. \A s \in Requests : s # r => request'[s] = request[s]
    BY <1>g, <1>3 DEF Update
  <2> QED
    BY <1>k, <2>1, <2>3, <2>4 DEF Named, guide
<1>4. ASSUME NEW r \in Requests, updatePostInTx(r) PROVE Named'
  <2>1. UNCHANGED guide
    BY <1>4 DEF updatePostInTx
  <2>2. CASE ~Live(request[r].post)
    <3>1. Return(r) /\ UNCHANGED posts
      BY <1>4, <2>2 DEF updatePostInTx
    <3> QED
      BY <1>k, <1>r, <2>1, <3>1, IdleType, NamedKept
  <2>3. CASE Live(request[r].post)
    <3>1. PICK q \in Request : q = request[r] /\ q.pc = "edit" /\ q.post \in Posts
      BY <1>g, <1>4, <2>3 DEF updatePostInTx, At, Live
    <3>2. posts[q.post].program = q.row
      BY <2>3, <3>1 DEF Named, LooksUp, Live
    <3>3. posts' = [posts EXCEPT ![q.post].program = q.row, ![q.post].tags = Retagged(q, @)]
      BY <1>4, <2>3, <3>1 DEF updatePostInTx
    <3>4. \A p \in Posts : /\ posts'[p].state = posts[p].state /\ posts'[p].program = posts[p].program
                           /\ posts'[p].station = posts[p].station /\ posts'[p].title = posts[p].title
      BY <1>g, <3>1, <3>2, <3>3 DEF Post
    <3>5. request' = [s \in Requests |-> IF s = r THEN Idle ELSE
              [request[s] EXCEPT !.stale = @ \/ (At(s, "edit") /\ request[s].post = q.post)]]
      BY <1>4, <2>3, <3>1 DEF updatePostInTx
    <3>6. ASSUME NEW s \in Requests, request'[s].pc \in {"create", "edit"}
          PROVE  /\ request'[s].pc = request[s].pc /\ request'[s].post = request[s].post
                 /\ request'[s].row = request[s].row /\ request'[s].station = request[s].station
                 /\ request'[s].title = request[s].title
      <4> DEFINE b == request[s].stale \/ (At(s, "edit") /\ request[s].post = q.post)
      <4>1. request'[s] = [request[s] EXCEPT !.stale = b]
        BY <3>5, <3>6, IdleType
      <4>2. request[s] \in Request
        BY <1>g
      <4> HIDE DEF b
      <4> QED
        BY <4>1, <4>2 DEF Request
    <3> QED
      BY <1>k, <2>1, <3>4, <3>6, NamedKept
  <2> QED
    BY <2>2, <2>3
<1>5. ASSUME NEW r \in Requests, DeletePost(r) PROVE Named'
  <2>1. Return(r) /\ UNCHANGED guide
    BY <1>5 DEF DeletePost
  <2>2. \A p \in Posts : posts'[p].state = "live" => posts'[p] = posts[p]
    BY <1>g, <1>5 DEF DeletePost, NoPost
  <2> QED
    BY <1>k, <1>r, <2>1, <2>2, IdleType, NamedKept
<1>6. ASSUME NEW r \in Requests, NEW u \in Users, NEW p \in Posts, Destroy(r, u, p) \/ Like(r, u, p) \/ Unlike(r, u, p)
      PROVE  Named'
  <2>1. UNCHANGED <<posts, guide>>
    BY <1>6 DEF Destroy, Like, Unlike, tables
  <2>2. request'[r].pc \notin {"create", "edit"} /\ \A s \in Requests : s # r => request'[s] = request[s]
    <3>1. CASE Destroy(r, u, p)
      BY <1>g, <3>1 DEF Destroy, Idle
    <3>2. CASE Like(r, u, p)
      BY <1>g, <3>2 DEF Like, Idle
    <3>3. CASE Unlike(r, u, p)
      BY <1>g, <3>3 DEF Unlike, Idle
    <3> QED
      BY <1>6, <3>1, <3>2, <3>3
  <2> QED
    BY <1>k, <2>1, <2>2, NamedKept
<1>7. ASSUME NEW r \in Requests, NEW u \in Users, NEW c \in Comments,
             DeleteComment(r, u, c) \/ \E p \in Posts : AddComment(r, u, p, c)
      PROVE  Named'
  <2>1. UNCHANGED <<posts, guide>>
    BY <1>7 DEF DeleteComment, AddComment, tables
  <2>2. request'[r].pc \notin {"create", "edit"} /\ \A s \in Requests : s # r => request'[s] = request[s]
    <3>1. CASE DeleteComment(r, u, c)
      BY <1>g, <3>1 DEF DeleteComment, Idle
    <3>2. ASSUME NEW p \in Posts, AddComment(r, u, p, c)
          PROVE  request'[r].pc \notin {"create", "edit"} /\ \A s \in Requests : s # r => request'[s] = request[s]
      BY <1>g, <3>2 DEF AddComment, Idle
    <3> QED
      BY <1>7, <3>1, <3>2
  <2> QED
    BY <1>k, <2>1, <2>2, NamedKept
<1>8. ASSUME NEW r \in Requests, InsertLike(r) \/ EraseComment(r) \/ FindPostOfComment(r) PROVE Named'
  <2>1. UNCHANGED <<posts, guide>>
    BY <1>8 DEF InsertLike, EraseComment, FindPostOfComment, tables
  <2>2. \/ Return(r)
        \/ \E pc \in {"count_like", "uncount_comment"} : Goto(r, pc)
        \/ \E p : request' = [request EXCEPT ![r].pc = "erase", ![r].post = p]
    BY <1>8 DEF InsertLike, EraseComment, FindPostOfComment
  <2>3. \A s \in Requests : request'[s].pc \in {"create", "edit"} => request'[s] = request[s]
    BY <1>g, <2>2, IdleType DEF Return, Goto, Request
  <2> QED
    BY <1>k, <2>1, <2>3, NamedKept
<1>9. ASSUME NEW r \in Requests, CountLike(r) \/ CountComment(r) \/ UncountLike(r) \/ UncountComment(r)
      PROVE  Named'
  <2>1. Return(r) /\ UNCHANGED guide
    BY <1>9 DEF CountLike, CountComment, UncountLike, UncountComment
  <2>2. \A p \in Posts : /\ posts'[p].state = posts[p].state /\ posts'[p].program = posts[p].program
                         /\ posts'[p].station = posts[p].station /\ posts'[p].title = posts[p].title
    BY <1>g, <1>9 DEF CountLike, CountComment, UncountLike, UncountComment, Post
  <2> QED
    BY <1>k, <1>r, <2>1, <2>2, IdleType, NamedKept
<1>10. ASSUME NEW r \in Requests, Fail(r) PROVE Named'
  BY <1>k, <1>r, <1>10, IdleType, NamedKept DEF Fail, tables
<1>11. CASE CrashRestart
  BY <1>k, <1>11, IdleType, NamedKept DEF CrashRestart, tables
<1>12. ASSUME NEW station \in Stations, NEW title \in Titles, NEW cast \in Casts,
              upsertRadioProgram(station, title, cast)
       PROVE  Named'
  BY <1>g, <1>12, UpsertKeeps, NamedKept DEF upsertRadioProgram, tables
<1>13. CASE deleteDuplicateRecords
  <2>1. UNCHANGED <<posts, request>>
    BY <1>13 DEF deleteDuplicateRecords, tables
  <2> QED
    BY <1>g, <1>13, <2>1, DuplicatesKeep, NamedKept
<1>14. CASE UNCHANGED vars
  BY <1>k, <1>14, NamedKept DEF vars, tables
<1> QED
  BY <1>1, <1>2, <1>3, <1>4, <1>5, <1>6, <1>7, <1>8, <1>9, <1>10, <1>11, <1>12, <1>13, <1>14
  DEF Next, HandleRequest

\* However the jobs of 05:00 and the requests interleave, every reviewed title keeps a row, and a
\* program_id names the programme it was taken for or nothing.
THEOREM ProgrammesStay == Spec => []ProgrammeOfPost
<1>1. Init => AuthorsSound /\ Named
  BY IdleType, ReviewsAssumption DEF Init, AuthorsSound, AuthorSound, Named, GuideSound, LooksUp, NoPost
<1>2. Named => ProgrammeOfPost
  BY DEF Named, MayName, ProgrammeOfPost
<1> QED
  BY InitSound, SoundStep, AuthorsStep, NamedStep, <1>1, <1>2, PTL DEF Spec
-----------------------------------------------------------------------------
(* The counters *)

\* A like and a comment belong to a post that is there, and a counter is only ever owed to a post
\* that was there.
Rooted ==
    /\ \A l \in likes : posts[l[1]].state = "live"
    /\ \A c \in Comments : comments[c].state = "live" => posts[comments[c].post].state = "live"
    /\ \A r \in Requests : request[r].pc \in Owing \cup {"erase"} => posts[request[r].post].state # "unused"
    /\ \A p \in Posts : IsFiniteSet(LikesOf(p))

\* The two counters of a post, the rows each counts, and the updates owed up and down.
Count(p, k) == IF k = "likes" THEN posts[p].likes_count ELSE posts[p].comments_count
Rows(p, k) == IF k = "likes" THEN LikesOf(p) ELSE CommentsOf(p)
Inc(k) == IF k = "likes" THEN "count_like" ELSE "count_comment"
Dec(k) == IF k = "likes" THEN "uncount_like" ELSE "uncount_comment"

Balanced(p, k) ==
    posts[p].state = "live" /\ <<p, k>> \notin drifted =>
        Count(p, k) + Cardinality(Owers(p, Inc(k))) = Cardinality(Rows(p, k)) + Cardinality(Owers(p, Dec(k)))

Balance == \A p \in Posts, k \in Counters : Balanced(p, k)

\* Whether a request is one of the owers.
Ind(q, p, pc) == IF q.pc = pc /\ q.post = p THEN 1 ELSE 0

\* The other requests stay where they are.
OthersStay(r) ==
    \A s \in Requests \ {r} : request'[s].pc = request[s].pc /\ request'[s].post = request[s].post

\* The owers change by the request that moves.
LEMMA OwersCount ==
  ASSUME NEW p, NEW pc, NEW r \in Requests, OthersStay(r)
  PROVE  /\ Cardinality(Owers(p, pc)) \in Nat /\ Cardinality(Owers(p, pc)') \in Nat
         /\ Cardinality(Owers(p, pc)') + Ind(request[r], p, pc)
              = Cardinality(Owers(p, pc)) + Ind(request'[r], p, pc)
<1> DEFINE O == Owers(p, pc)
           N == Owers(p, pc)'
           rest == {s \in Requests \ {r} : request[s].pc = pc /\ request[s].post = p}
<1>1. IsFiniteSet(rest)
  BY FS_Subset, ReviewsAssumption
<1>2. O = IF request[r].pc = pc /\ request[r].post = p THEN rest \cup {r} ELSE rest
  BY DEF Owers, At
<1>3. N = IF request'[r].pc = pc /\ request'[r].post = p THEN rest \cup {r} ELSE rest
  BY DEF Owers, At, OthersStay
<1>4. r \notin rest
  OBVIOUS
<1> HIDE DEF O, N, rest
<1>5. Cardinality(rest) \in Nat /\ Cardinality(rest \cup {r}) = Cardinality(rest) + 1
  BY <1>1, <1>4, FS_CardinalityType, FS_AddElement
<1>6. /\ Cardinality(O) \in Nat /\ Cardinality(N) \in Nat
      /\ Cardinality(O) = Cardinality(rest) + Ind(request[r], p, pc)
      /\ Cardinality(N) = Cardinality(rest) + Ind(request'[r], p, pc)
  BY <1>2, <1>3, <1>5 DEF Ind
<1>7. Ind(request[r], p, pc) \in Nat /\ Ind(request'[r], p, pc) \in Nat
  BY DEF Ind
<1> QED
  BY <1>5, <1>6, <1>7 DEF O, N

\* The rows a counter counts are finitely many.
LEMMA RowsFinite ==
  ASSUME Rooted, NEW p \in Posts, NEW k \in Counters
  PROVE  IsFiniteSet(Rows(p, k)) /\ Cardinality(Rows(p, k)) \in Nat
<1>1. IsFiniteSet(CommentsOf(p))
  BY FS_Subset, ReviewsAssumption DEF CommentsOf
<1>2. IsFiniteSet(Rows(p, k))
  BY <1>1 DEF Rows, Rooted
<1> QED
  BY <1>2, FS_CardinalityType

\* The counter, its rows and the place of the request move together.
Shift(p, k, r) ==
    Count(p, k)' + Ind(request'[r], p, Inc(k)) + Cardinality(Rows(p, k)) + Ind(request[r], p, Dec(k))
      = Count(p, k) + Ind(request[r], p, Inc(k)) + Cardinality(Rows(p, k)') + Ind(request'[r], p, Dec(k))

\* The arithmetic of it: count c, rows n, owed up u and down d, with the request's share in each.
LEMMA Arithmetic ==
  ASSUME NEW c \in Nat, NEW cc \in Nat, NEW n \in Nat, NEW nn \in Nat, NEW u \in Nat, NEW uu \in Nat,
         NEW d \in Nat, NEW dd \in Nat, NEW i \in Nat, NEW ii \in Nat, NEW j \in Nat, NEW jj \in Nat,
         uu + i = u + ii, dd + j = d + jj, c + u = n + d, cc + ii + n + j = c + i + nn + jj
  PROVE  cc + uu = nn + dd
  OBVIOUS

\* A step that moves them together keeps the balance.
LEMMA ShiftBalances ==
  ASSUME Sound, Sound', Rooted, Rooted', NEW p \in Posts, NEW k \in Counters, NEW r \in Requests, OthersStay(r),
         Balanced(p, k), posts[p].state = "live", <<p, k>> \notin drifted, Shift(p, k, r)
  PROVE  Balanced(p, k)'
<1>1. Count(p, k) \in Nat /\ Count(p, k)' \in Nat
  BY DEF Sound, TypeOK, Post, Count
<1>2. Cardinality(Rows(p, k)) \in Nat /\ Cardinality(Rows(p, k)') \in Nat
  <2>1. (IsFiniteSet(Rows(p, k)))'
    <3>1. IsFiniteSet(CommentsOf(p)')
      BY FS_Subset, ReviewsAssumption DEF CommentsOf
    <3> QED
      BY <3>1 DEF Rows, Rooted
  <2> QED
    BY <2>1, RowsFinite, FS_CardinalityType
<1>3. /\ Ind(request[r], p, Inc(k)) \in Nat /\ Ind(request'[r], p, Inc(k)) \in Nat
      /\ Ind(request[r], p, Dec(k)) \in Nat /\ Ind(request'[r], p, Dec(k)) \in Nat
  BY DEF Ind
<1>4. /\ Cardinality(Owers(p, Inc(k))) \in Nat /\ Cardinality(Owers(p, Inc(k))') \in Nat
      /\ Cardinality(Owers(p, Inc(k))') + Ind(request[r], p, Inc(k))
           = Cardinality(Owers(p, Inc(k))) + Ind(request'[r], p, Inc(k))
  BY OwersCount
<1>5. /\ Cardinality(Owers(p, Dec(k))) \in Nat /\ Cardinality(Owers(p, Dec(k))') \in Nat
      /\ Cardinality(Owers(p, Dec(k))') + Ind(request[r], p, Dec(k))
           = Cardinality(Owers(p, Dec(k))) + Ind(request'[r], p, Dec(k))
  BY OwersCount
<1>6. Count(p, k) + Cardinality(Owers(p, Inc(k))) = Cardinality(Rows(p, k)) + Cardinality(Owers(p, Dec(k)))
  BY DEF Balanced
<1>7. Count(p, k)' + Cardinality(Owers(p, Inc(k))') = Cardinality(Rows(p, k)') + Cardinality(Owers(p, Dec(k))')
  <2>1. Count(p, k)' + Ind(request'[r], p, Inc(k)) + Cardinality(Rows(p, k)) + Ind(request[r], p, Dec(k))
          = Count(p, k) + Ind(request[r], p, Inc(k)) + Cardinality(Rows(p, k)') + Ind(request'[r], p, Dec(k))
    BY DEF Shift
  <2> QED
    BY <1>1, <1>2, <1>3, <1>4, <1>5, <1>6, <2>1, Arithmetic
<1> QED
  BY <1>7 DEF Balanced

\* A step of one request that moves every counter with its rows.
LEMMA ShiftStep ==
  ASSUME Sound, Sound', Rooted, Rooted', Balance, NEW r \in Requests, OthersStay(r),
         \A p \in Posts, k \in Counters : posts'[p].state = "live" /\ <<p, k>> \notin drifted' =>
            posts[p].state = "live" /\ <<p, k>> \notin drifted /\ Shift(p, k, r)
  PROVE  Balance'
<1>1. ASSUME NEW p \in Posts, NEW k \in Counters PROVE Balanced(p, k)'
  <2>1. CASE posts'[p].state = "live" /\ <<p, k>> \notin drifted'
    BY <2>1, ShiftBalances DEF Balance
  <2>2. CASE ~(posts'[p].state = "live" /\ <<p, k>> \notin drifted')
    BY <2>2 DEF Balanced
  <2> QED
    BY <2>1, <2>2
<1> QED
  BY <1>1 DEF Balance

\* A counter and rows that stay, and a request that owes them the same before and after.
LEMMA ShiftSame ==
  ASSUME NEW p, NEW k, NEW r, Count(p, k)' = Count(p, k), Rows(p, k)' = Rows(p, k),
         Ind(request'[r], p, Inc(k)) = Ind(request[r], p, Inc(k)),
         Ind(request'[r], p, Dec(k)) = Ind(request[r], p, Dec(k))
  PROVE  Shift(p, k, r)
  BY DEF Shift

\* Rows keep their post when the step of one request sees to its own.
LEMMA RootedStep ==
  ASSUME Sound, Sound', Rooted, PostsEvolve, NEW r \in Requests, OthersStay(r),
         \A l \in likes' : posts'[l[1]].state = "live",
         \A c \in Comments : comments'[c].state = "live" => posts'[comments'[c].post].state = "live",
         request'[r].pc \in Owing \cup {"erase"} => posts'[request'[r].post].state # "unused",
         \A p \in Posts : IsFiniteSet(LikesOf(p)')
  PROVE  Rooted'
<1>1. ASSUME NEW s \in Requests, s # r, request'[s].pc \in Owing \cup {"erase"}
      PROVE  posts'[request'[s].post].state # "unused"
  <2>1. request[s].pc \in Owing \cup {"erase"} /\ request'[s].post = request[s].post
    BY <1>1 DEF OthersStay
  <2>2. request[s].post \in Posts
    BY <2>1 DEF Sound, RequestsSound, RequestSound, Owing, Moving
  <2> QED
    BY <2>1, <2>2 DEF Rooted, PostsEvolve
<1> QED
  BY <1>1 DEF Rooted

\* A step that leaves rows and counters alone and owes nothing.
LEMMA QuietStep ==
  ASSUME Sound, Sound', Rooted, Balance, NEW r \in Requests, OthersStay(r),
         UNCHANGED <<likes, comments, drifted>>,
         \A p \in Posts : /\ posts'[p].state = posts[p].state
                          /\ posts'[p].likes_count = posts[p].likes_count
                          /\ posts'[p].comments_count = posts[p].comments_count,
         request[r].pc \notin Owing, request'[r].pc \notin Owing,
         request'[r].pc = "erase" => posts[request'[r].post].state # "unused"
  PROVE  Rooted' /\ Balance'
<1>1. Rooted'
  <2>2. ASSUME NEW s \in Requests, request'[s].pc \in Owing \cup {"erase"}
        PROVE  posts'[request'[s].post].state # "unused"
    <3>1. request'[s].post \in Posts
      BY <2>2 DEF Sound, RequestsSound, RequestSound, Owing, Moving
    <3> QED
      BY <2>2, <3>1 DEF OthersStay, Rooted
  <2>3. \A l \in likes : l[1] \in Posts
    BY DEF Sound, TypeOK
  <2>4. \A c \in Comments : comments[c].state = "live" => comments[c].post \in Posts
    BY DEF Sound, CommentsSound
  <2>5. \A p \in Posts : LikesOf(p)' = LikesOf(p)
    BY DEF LikesOf
  <2> QED
    BY <2>2, <2>3, <2>4, <2>5 DEF Rooted
<1>2. \A k \in Counters : Inc(k) \in Owing /\ Dec(k) \in Owing
  BY DEF Inc, Dec, Owing, Moving, Counters
<1>3. ASSUME NEW p \in Posts, NEW k \in Counters PROVE Shift(p, k, r)
  <2>1. Count(p, k)' = Count(p, k) /\ Rows(p, k)' = Rows(p, k)
    BY DEF Count, Rows, LikesOf, CommentsOf
  <2>2. /\ Ind(request'[r], p, Inc(k)) = 0 /\ Ind(request[r], p, Inc(k)) = 0
        /\ Ind(request'[r], p, Dec(k)) = 0 /\ Ind(request[r], p, Dec(k)) = 0
    BY <1>2 DEF Ind
  <2> QED
    BY <2>1, <2>2, ShiftSame
<1> QED
  BY <1>1, <1>3, ShiftStep

\* The requests that only read, and those that write no row a counter counts.
LEMMA QuietRequests ==
  ASSUME Sound, Sound', Rooted, Balance, NEW r \in Requests,
         \/ \E u \in Users, station \in Stations, title \in Titles, tags \in SUBSET Tags :
               CreateReview(r, u, station, title, tags)
         \/ \E u \in Users, p \in Posts, tags \in SUBSET Tags : Update(r, u, p, tags)
         \/ \E u \in Users, p \in Posts : Destroy(r, u, p) \/ Like(r, u, p)
         \/ \E u \in Users, c \in Comments : DeleteComment(r, u, c)
         \/ FindPostOfComment(r) \/ updatePostInTx(r)
  PROVE  Rooted' /\ Balance'
<1>0. request \in [Requests -> Request] /\ posts \in [Posts -> Post]
  BY DEF Sound, TypeOK
<1>c. /\ {"idle", "create", "edit", "delete", "like", "find_post", "erase"} \cap Owing = {}
      /\ "create" # "erase"
  BY DEF Owing, Moving
<1>1. ASSUME UNCHANGED <<tables, drifted>>, request[r].pc \notin Owing, OthersStay(r),
             request'[r].pc \in {"idle", "create", "edit", "delete", "like", "find_post"}
      PROVE  Rooted' /\ Balance'
  BY <1>1, <1>c, QuietStep DEF tables
<1>2. ASSUME NEW u \in Users, NEW station \in Stations, NEW title \in Titles, NEW tags \in SUBSET Tags,
             CreateReview(r, u, station, title, tags)
      PROVE  Rooted' /\ Balance'
  <2>1. request'[r].pc = "create" /\ OthersStay(r)
    BY <1>0, <1>2 DEF CreateReview, Idle, OthersStay
  <2>2. request[r].pc \notin Owing /\ UNCHANGED <<tables, drifted>>
    BY <1>2, <1>c DEF CreateReview, At, history
  <2> QED
    BY <1>1, <2>1, <2>2
<1>3. ASSUME NEW u \in Users, NEW p \in Posts, NEW tags \in SUBSET Tags, Update(r, u, p, tags)
      PROVE  Rooted' /\ Balance'
  <2>1. request'[r].pc = "edit" /\ OthersStay(r)
    BY <1>0, <1>3 DEF Update, Idle, OthersStay
  <2>2. request[r].pc \notin Owing /\ UNCHANGED <<tables, drifted>>
    BY <1>3, <1>c DEF Update, At, history
  <2> QED
    BY <1>1, <2>1, <2>2
<1>4. ASSUME NEW u \in Users, NEW p \in Posts, Destroy(r, u, p)
      PROVE  Rooted' /\ Balance'
  <2>1. request'[r].pc = "delete" /\ OthersStay(r)
    BY <1>0, <1>4 DEF Destroy, Idle, OthersStay
  <2>2. request[r].pc \notin Owing /\ UNCHANGED <<tables, drifted>>
    BY <1>4, <1>c DEF Destroy, At, history
  <2> QED
    BY <1>1, <2>1, <2>2
<1>5. ASSUME NEW u \in Users, NEW p \in Posts, Like(r, u, p)
      PROVE  Rooted' /\ Balance'
  <2>1. request'[r].pc = "like" /\ OthersStay(r)
    BY <1>0, <1>5 DEF Like, Idle, OthersStay
  <2>2. request[r].pc \notin Owing /\ UNCHANGED <<tables, drifted>>
    BY <1>5, <1>c DEF Like, At, history
  <2> QED
    BY <1>1, <2>1, <2>2
<1>6. ASSUME NEW u \in Users, NEW c \in Comments, DeleteComment(r, u, c)
      PROVE  Rooted' /\ Balance'
  <2>1. request'[r].pc = "find_post" /\ OthersStay(r)
    BY <1>0, <1>6 DEF DeleteComment, Idle, OthersStay
  <2>2. request[r].pc \notin Owing /\ UNCHANGED <<tables, drifted>>
    BY <1>6, <1>c DEF DeleteComment, At, history
  <2> QED
    BY <1>1, <2>1, <2>2
<1>7. CASE FindPostOfComment(r)
  <2>1. PICK c \in Comments : c = request[r].comment
    BY <1>7 DEF FindPostOfComment, At, Sound, RequestsSound, RequestSound
  <2>2. request[r].pc \notin Owing /\ UNCHANGED <<tables, drifted>>
    BY <1>7, <1>c DEF FindPostOfComment, At, history
  <2>3. CASE comments[c].state # "live"
    <3>1. request'[r].pc = "idle" /\ OthersStay(r)
      BY <1>0, <1>7, <2>1, <2>3, IdleType DEF FindPostOfComment, Return, OthersStay
    <3> QED
      BY <1>1, <2>2, <3>1
  <2>4. CASE comments[c].state = "live"
    <3>1. request' = [request EXCEPT ![r].pc = "erase", ![r].post = comments[c].post]
      BY <1>7, <2>1, <2>4 DEF FindPostOfComment
    <3>2. request'[r].pc = "erase" /\ request'[r].post = comments[c].post /\ OthersStay(r)
      BY <1>0, <3>1 DEF Request, OthersStay
    <3>3. posts[comments[c].post].state # "unused"
      BY <2>4 DEF Rooted
    <3> QED
      BY <1>c, <2>2, <3>2, <3>3, QuietStep DEF tables
  <2> QED
    BY <2>3, <2>4
<1>8. CASE updatePostInTx(r)
  <2>1. request[r].pc \notin Owing /\ UNCHANGED <<likes, comments, drifted>>
    BY <1>8, <1>c DEF updatePostInTx, At
  <2>2. CASE ~Live(request[r].post)
    <3>1. request'[r].pc = "idle" /\ OthersStay(r) /\ UNCHANGED posts
      BY <1>0, <1>8, <2>2, IdleType DEF updatePostInTx, Return, OthersStay
    <3> QED
      BY <1>1, <2>1, <3>1 DEF tables
  <2>3. CASE Live(request[r].post)
    <3>1. PICK p \in Posts : p = request[r].post
      BY <2>3 DEF Live
    <3>2. posts' = [posts EXCEPT ![p].program = request[r].row, ![p].tags = Retagged(request[r], @)]
      BY <1>8, <2>3, <3>1 DEF updatePostInTx
    <3>3. \A x \in Posts : /\ posts'[x].state = posts[x].state
                           /\ posts'[x].likes_count = posts[x].likes_count
                           /\ posts'[x].comments_count = posts[x].comments_count
      BY <1>0, <3>2 DEF Post
    <3>4. request' = [s \in Requests |-> IF s = r THEN Idle ELSE
              [request[s] EXCEPT !.stale = @ \/ (At(s, "edit") /\ request[s].post = p)]]
      BY <1>8, <2>3, <3>1 DEF updatePostInTx
    <3>5. OthersStay(r)
      BY <1>0, <3>4 DEF OthersStay, Request
    <3>6. request'[r].pc = "idle"
      BY <3>4, IdleType
    <3> QED
      BY <1>c, <2>1, <3>3, <3>5, <3>6, QuietStep
  <2> QED
    BY <2>2, <2>3
<1> QED
  BY <1>2, <1>3, <1>4, <1>5, <1>6, <1>7, <1>8

\* Writing a like or a comment, or deleting one, moves the rows and the owers together.
LEMMA RowRequests ==
  ASSUME Sound, Sound', PostsEvolve, Rooted, Balance, NEW r \in Requests,
         \/ InsertLike(r) \/ EraseComment(r)
         \/ \E u \in Users, p \in Posts : Unlike(r, u, p) \/ \E c \in Comments : AddComment(r, u, p, c)
  PROVE  Rooted' /\ Balance'
<1>0. /\ request \in [Requests -> Request] /\ posts \in [Posts -> Post] /\ comments \in [Comments -> Comment]
      /\ likes \subseteq Posts \X Users
  BY DEF Sound, TypeOK
<1>c. /\ {"idle", "like", "erase"} \cap Owing = {}
      /\ Inc("likes") = "count_like" /\ Dec("likes") = "uncount_like"
      /\ Inc("comments") = "count_comment" /\ Dec("comments") = "uncount_comment"
      /\ \A p : Rows(p, "likes") = LikesOf(p) /\ Rows(p, "comments") = CommentsOf(p)
      /\ Counters = {"likes", "comments"}
  BY DEF Owing, Moving, Inc, Dec, Rows, Counters
<1>n. \A p \in Posts, k \in Counters : Cardinality(Rows(p, k)) \in Nat /\ IsFiniteSet(Rows(p, k))
  BY RowsFinite
<1>p. UNCHANGED posts
  BY DEF InsertLike, EraseComment, Unlike, AddComment
<1>k. \A p \in Posts, k \in Counters : Count(p, k)' = Count(p, k) /\ Count(p, k) \in Nat
  BY <1>0, <1>p DEF Count, Post
<1>l. \A l \in likes : posts[l[1]].state = "live"
  BY DEF Rooted
<1>m. \A c \in Comments : comments[c].state = "live" => posts[comments[c].post].state = "live"
  BY DEF Rooted
<1>f. \A p \in Posts : IsFiniteSet(LikesOf(p))
  BY DEF Rooted
<1>1. CASE InsertLike(r)
  <2>1. PICK p \in Posts, u \in Users : p = request[r].post /\ u = request[r].user /\ request[r].pc = "like"
    BY <1>1 DEF InsertLike, At, Sound, RequestsSound, RequestSound
  <2>2. UNCHANGED <<comments, drifted>>
    BY <1>1 DEF InsertLike, history
  <2>3. CASE <<p, u>> \in likes \/ ~Live(p)
    <3>1. Return(r) /\ UNCHANGED likes
      BY <1>1, <2>1, <2>3 DEF InsertLike
    <3>2. request'[r].pc = "idle" /\ OthersStay(r)
      BY <1>0, <3>1, IdleType DEF Return, OthersStay
    <3> QED
      BY <1>c, <1>p, <2>1, <2>2, <3>1, <3>2, QuietStep
  <2>4. CASE <<p, u>> \notin likes /\ Live(p)
    <3>1. likes' = likes \cup {<<p, u>>} /\ Goto(r, "count_like")
      BY <1>1, <2>1, <2>4 DEF InsertLike
    <3>2. request'[r].pc = "count_like" /\ request'[r].post = p /\ OthersStay(r)
      BY <1>0, <2>1, <3>1 DEF Goto, Request, OthersStay
    <3>3. \A x \in Posts : LikesOf(x)' = IF x = p THEN LikesOf(p) \cup {<<p, u>>} ELSE LikesOf(x)
      BY <3>1 DEF LikesOf
    <3>4. IsFiniteSet(LikesOf(p) \cup {<<p, u>>})
          /\ Cardinality(LikesOf(p) \cup {<<p, u>>}) = Cardinality(LikesOf(p)) + 1
      <4>1. <<p, u>> \notin LikesOf(p)
        BY <2>4 DEF LikesOf
      <4> QED
        BY <1>f, <4>1, FS_AddElement
    <3>5. Rooted'
      <4>1. \A x \in Posts : IsFiniteSet(LikesOf(x)')
        BY <1>f, <3>3, <3>4
      <4>2. \A l \in likes' : posts'[l[1]].state = "live"
        BY <1>l, <1>p, <2>4, <3>1 DEF Live
      <4>3. posts'[request'[r].post].state # "unused"
        BY <1>p, <2>4, <3>2 DEF Live
      <4> QED
        BY <1>m, <1>p, <2>2, <3>2, <4>1, <4>2, <4>3, RootedStep
    <3>6. Shift(p, "likes", r)
      <4>1. /\ Ind(request[r], p, "count_like") = 0 /\ Ind(request'[r], p, "count_like") = 1
            /\ Ind(request[r], p, "uncount_like") = 0 /\ Ind(request'[r], p, "uncount_like") = 0
        BY <2>1, <3>2 DEF Ind
      <4>2. Count(p, "likes")' = Count(p, "likes") /\ Count(p, "likes") \in Nat
        BY <1>c, <1>k
      <4>3. Rows(p, "likes")' = LikesOf(p)' /\ Cardinality(LikesOf(p)) \in Nat
        BY <1>c, <1>n DEF Rows
      <4>4. Cardinality(Rows(p, "likes")') = Cardinality(LikesOf(p)) + 1
        BY <3>3, <3>4, <4>3
      <4> QED
        BY <1>c, <4>1, <4>2, <4>3, <4>4 DEF Shift
    <3>7. ASSUME NEW x \in Posts, NEW k \in Counters, <<x, k>> # <<p, "likes">> PROVE Shift(x, k, r)
      <4>1. Rows(x, k)' = Rows(x, k)
        BY <1>c, <2>2, <3>3, <3>7 DEF Rows, CommentsOf
      <4>2. /\ Ind(request'[r], x, Inc(k)) = 0 /\ Ind(request[r], x, Inc(k)) = 0
            /\ Ind(request'[r], x, Dec(k)) = 0 /\ Ind(request[r], x, Dec(k)) = 0
        BY <1>c, <2>1, <3>2, <3>7 DEF Ind
      <4> QED
        BY <1>k, <4>1, <4>2, ShiftSame
    <3>8. Balance'
      BY <1>p, <2>2, <3>2, <3>5, <3>6, <3>7, ShiftStep
    <3> QED
      BY <3>5, <3>8
  <2> QED
    BY <2>3, <2>4
<1>2. ASSUME NEW u \in Users, NEW p \in Posts, Unlike(r, u, p) PROVE Rooted' /\ Balance'
  <2>1. /\ UNCHANGED comments /\ likes' = likes \ {<<p, u>>} /\ request[r].pc = "idle"
        /\ drifted' = IF <<p, u>> \in likes \/ ~Live(p) THEN drifted ELSE drifted \cup {<<p, "likes">>}
        /\ posts[p].state # "unused"
    BY <1>2 DEF Unlike, At
  <2>2. request'[r].pc = "uncount_like" /\ request'[r].post = p /\ OthersStay(r)
    BY <1>0, <1>2 DEF Unlike, Idle, OthersStay
  <2>3. \A x \in Posts : LikesOf(x)' = IF x = p THEN LikesOf(p) \ {<<p, u>>} ELSE LikesOf(x)
    BY <2>1 DEF LikesOf
  <2>4. IsFiniteSet(LikesOf(p) \ {<<p, u>>})
        /\ (<<p, u>> \in likes => Cardinality(LikesOf(p) \ {<<p, u>>}) = Cardinality(LikesOf(p)) - 1)
    <3>1. <<p, u>> \in likes => <<p, u>> \in LikesOf(p)
      BY DEF LikesOf
    <3> QED
      BY <1>f, <3>1, FS_RemoveElement
  <2>5. Rooted'
    <3>1. \A x \in Posts : IsFiniteSet(LikesOf(x)')
      BY <1>f, <2>3, <2>4
    <3>2. \A l \in likes' : posts'[l[1]].state = "live"
      BY <1>l, <1>p, <2>1
    <3>3. posts'[request'[r].post].state # "unused"
      BY <1>p, <2>1, <2>2
    <3> QED
      BY <1>m, <1>p, <2>1, <2>2, <3>1, <3>2, <3>3, RootedStep
  <2>6. ASSUME posts[p].state = "live", <<p, "likes">> \notin drifted' PROVE Shift(p, "likes", r)
    <3>1. /\ Ind(request[r], p, "count_like") = 0 /\ Ind(request'[r], p, "count_like") = 0
          /\ Ind(request[r], p, "uncount_like") = 0 /\ Ind(request'[r], p, "uncount_like") = 1
      BY <2>1, <2>2 DEF Ind
    <3>2. Count(p, "likes")' = Count(p, "likes") /\ Count(p, "likes") \in Nat
      BY <1>c, <1>k
    <3>3. Rows(p, "likes")' = LikesOf(p)' /\ Cardinality(LikesOf(p)) \in Nat
      BY <1>c, <1>n DEF Rows
    <3>4. Cardinality(Rows(p, "likes")') = Cardinality(LikesOf(p)) - 1
      <4>1. <<p, u>> \in likes
        BY <2>1, <2>6 DEF Live
      <4> QED
        BY <2>3, <2>4, <3>3, <4>1
    <3> QED
      BY <1>c, <3>1, <3>2, <3>3, <3>4 DEF Shift
  <2>7. ASSUME NEW x \in Posts, NEW k \in Counters, <<x, k>> # <<p, "likes">> PROVE Shift(x, k, r)
    <3>1. Rows(x, k)' = Rows(x, k)
      BY <1>c, <2>1, <2>3, <2>7 DEF Rows, CommentsOf
    <3>2. /\ Ind(request'[r], x, Inc(k)) = 0 /\ Ind(request[r], x, Inc(k)) = 0
          /\ Ind(request'[r], x, Dec(k)) = 0 /\ Ind(request[r], x, Dec(k)) = 0
      BY <1>c, <2>1, <2>2, <2>7 DEF Ind
    <3> QED
      BY <1>k, <3>1, <3>2, ShiftSame
  <2>8. Balance'
    <3>1. drifted \subseteq drifted'
      BY <2>1
    <3> QED
      BY <1>p, <2>2, <2>5, <2>6, <2>7, <3>1, ShiftStep
  <2> QED
    BY <2>5, <2>8
<1>3. ASSUME NEW u \in Users, NEW p \in Posts, NEW c \in Comments, AddComment(r, u, p, c)
      PROVE  Rooted' /\ Balance'
  <2>1. /\ UNCHANGED <<likes, drifted>> /\ comments[c].state = "unused" /\ request[r].pc = "idle" /\ Live(p)
        /\ comments' = [comments EXCEPT ![c] = [state |-> "live", post |-> p, user |-> u]]
    BY <1>3 DEF AddComment, At, history
  <2>2. request'[r].pc = "count_comment" /\ request'[r].post = p /\ OthersStay(r)
    BY <1>0, <1>3 DEF AddComment, Idle, OthersStay
  <2>3. /\ comments'[c].state = "live" /\ comments'[c].post = p
        /\ \A d \in Comments : d # c => comments'[d] = comments[d]
    BY <1>0, <2>1
  <2>4. \A x \in Posts : CommentsOf(x)' = IF x = p THEN CommentsOf(p) \cup {c} ELSE CommentsOf(x)
    BY <2>1, <2>3 DEF CommentsOf
  <2>5. \A x \in Posts : LikesOf(x)' = LikesOf(x)
    BY <2>1 DEF LikesOf
  <2>6. Cardinality(CommentsOf(p) \cup {c}) = Cardinality(CommentsOf(p)) + 1
    <3>1. c \notin CommentsOf(p) /\ IsFiniteSet(CommentsOf(p))
      BY <1>c, <1>n, <2>1 DEF CommentsOf
    <3> QED
      BY <3>1, FS_AddElement
  <2>7. Rooted'
    <3>1. \A l \in likes' : posts'[l[1]].state = "live"
      BY <1>l, <1>p, <2>1
    <3>2. \A d \in Comments : comments'[d].state = "live" => posts'[comments'[d].post].state = "live"
      BY <1>m, <1>p, <2>1, <2>3 DEF Live
    <3>3. posts'[request'[r].post].state # "unused"
      BY <1>p, <2>1, <2>2 DEF Live
    <3> QED
      BY <1>f, <2>2, <2>5, <3>1, <3>2, <3>3, RootedStep
  <2>8. Shift(p, "comments", r)
    <3>1. /\ Ind(request[r], p, "count_comment") = 0 /\ Ind(request'[r], p, "count_comment") = 1
          /\ Ind(request[r], p, "uncount_comment") = 0 /\ Ind(request'[r], p, "uncount_comment") = 0
      BY <2>1, <2>2 DEF Ind
    <3>2. Count(p, "comments")' = Count(p, "comments") /\ Count(p, "comments") \in Nat
      BY <1>c, <1>k
    <3>3. Rows(p, "comments")' = CommentsOf(p)' /\ Cardinality(CommentsOf(p)) \in Nat
      BY <1>c, <1>n DEF Rows
    <3>4. Cardinality(Rows(p, "comments")') = Cardinality(CommentsOf(p)) + 1
      BY <2>4, <2>6, <3>3
    <3> QED
      BY <1>c, <3>1, <3>2, <3>3, <3>4 DEF Shift
  <2>9. ASSUME NEW x \in Posts, NEW k \in Counters, <<x, k>> # <<p, "comments">> PROVE Shift(x, k, r)
    <3>1. Rows(x, k)' = Rows(x, k)
      BY <1>c, <2>4, <2>5, <2>9 DEF Rows
    <3>2. /\ Ind(request'[r], x, Inc(k)) = 0 /\ Ind(request[r], x, Inc(k)) = 0
          /\ Ind(request'[r], x, Dec(k)) = 0 /\ Ind(request[r], x, Dec(k)) = 0
      BY <1>c, <2>1, <2>2, <2>9 DEF Ind
    <3> QED
      BY <1>k, <3>1, <3>2, ShiftSame
  <2>q. Balance'
    BY <1>p, <2>1, <2>2, <2>7, <2>8, <2>9, ShiftStep
  <2> QED
    BY <2>7, <2>q
<1>4. CASE EraseComment(r)
  <2>1. PICK p \in Posts, c \in Comments :
           p = request[r].post /\ c = request[r].comment /\ request[r].pc = "erase"
    BY <1>4 DEF EraseComment, At, Sound, RequestsSound, RequestSound
  <2>2. /\ UNCHANGED likes /\ Goto(r, "uncount_comment")
        /\ comments' = [comments EXCEPT ![c] = [NoComment EXCEPT !.state = "deleted"]]
        /\ drifted' = IF comments[c].state = "live" \/ ~Live(p) THEN drifted
                      ELSE drifted \cup {<<p, "comments">>}
    BY <1>4, <2>1 DEF EraseComment
  <2>3. request'[r].pc = "uncount_comment" /\ request'[r].post = p /\ OthersStay(r)
    BY <1>0, <2>1, <2>2 DEF Goto, Request, OthersStay
  <2>4. /\ comments'[c].state = "deleted" /\ \A d \in Comments : d # c => comments'[d] = comments[d]
        /\ comments[c].state = "live" => comments[c].post = p
    BY <1>0, <2>1, <2>2 DEF NoComment, Sound, RequestsSound, RequestSound
  <2>5. /\ \A x \in Posts : x # p => CommentsOf(x)' = CommentsOf(x)
        /\ comments[c].state = "live" => CommentsOf(p)' = CommentsOf(p) \ {c} /\ c \in CommentsOf(p)
    BY <2>4 DEF CommentsOf
  <2>6. \A x \in Posts : LikesOf(x)' = LikesOf(x)
    BY <2>2 DEF LikesOf
  <2>7. Rooted'
    <3>1. \A l \in likes' : posts'[l[1]].state = "live"
      BY <1>l, <1>p, <2>2
    <3>2. \A d \in Comments : comments'[d].state = "live" => posts'[comments'[d].post].state = "live"
      BY <1>m, <1>p, <2>4
    <3>3. posts'[request'[r].post].state # "unused"
      BY <1>p, <2>1, <2>3 DEF Rooted
    <3> QED
      BY <1>f, <2>3, <2>6, <3>1, <3>2, <3>3, RootedStep
  <2>8. ASSUME posts[p].state = "live", <<p, "comments">> \notin drifted' PROVE Shift(p, "comments", r)
    <3>1. /\ Ind(request[r], p, "count_comment") = 0 /\ Ind(request'[r], p, "count_comment") = 0
          /\ Ind(request[r], p, "uncount_comment") = 0 /\ Ind(request'[r], p, "uncount_comment") = 1
      BY <2>1, <2>3 DEF Ind
    <3>2. Count(p, "comments")' = Count(p, "comments") /\ Count(p, "comments") \in Nat
      BY <1>c, <1>k
    <3>3. Rows(p, "comments")' = CommentsOf(p)' /\ Cardinality(CommentsOf(p)) \in Nat /\ IsFiniteSet(CommentsOf(p))
      BY <1>c, <1>n DEF Rows
    <3>4. comments[c].state = "live"
      BY <2>2, <2>8 DEF Live
    <3>5. Cardinality(Rows(p, "comments")') = Cardinality(CommentsOf(p)) - 1
      BY <2>5, <3>3, <3>4, FS_RemoveElement
    <3> QED
      BY <1>c, <3>1, <3>2, <3>3, <3>5 DEF Shift
  <2>9. ASSUME NEW x \in Posts, NEW k \in Counters, <<x, k>> # <<p, "comments">> PROVE Shift(x, k, r)
    <3>1. Rows(x, k)' = Rows(x, k)
      BY <1>c, <2>5, <2>6, <2>9 DEF Rows
    <3>2. /\ Ind(request'[r], x, Inc(k)) = 0 /\ Ind(request[r], x, Inc(k)) = 0
          /\ Ind(request'[r], x, Dec(k)) = 0 /\ Ind(request[r], x, Dec(k)) = 0
      BY <1>c, <2>1, <2>3, <2>9 DEF Ind
    <3> QED
      BY <1>k, <3>1, <3>2, ShiftSame
  <2>q. Balance'
    <3>1. drifted \subseteq drifted'
      BY <2>2
    <3> QED
      BY <1>p, <2>3, <2>7, <2>8, <2>9, <3>1, ShiftStep
  <2> QED
    BY <2>7, <2>q
<1> QED
  BY <1>1, <1>2, <1>3, <1>4

\* The updates of the counters settle what is owed.
LEMMA CountRequests ==
  ASSUME Sound, Sound', PostsEvolve, Rooted, Balance, NEW r \in Requests,
         CountLike(r) \/ CountComment(r) \/ UncountLike(r) \/ UncountComment(r)
  PROVE  Rooted' /\ Balance'
<1>0. request \in [Requests -> Request] /\ posts \in [Posts -> Post] /\ likes \subseteq Posts \X Users
  BY DEF Sound, TypeOK
<1>c. /\ Inc("likes") = "count_like" /\ Dec("likes") = "uncount_like"
      /\ Inc("comments") = "count_comment" /\ Dec("comments") = "uncount_comment"
      /\ Counters = {"likes", "comments"} /\ "idle" \notin Owing
  BY DEF Owing, Moving, Inc, Dec, Counters
<1>n. \A p \in Posts, k \in Counters : Cardinality(Rows(p, k)) \in Nat
  BY RowsFinite
<1>r. Return(r) => request'[r].pc = "idle" /\ OthersStay(r)
  BY <1>0, IdleType DEF Return, OthersStay
<1>s. ASSUME Return(r), UNCHANGED <<likes, comments>>, drifted \subseteq drifted',
             \A x \in Posts : posts'[x].state = posts[x].state,
             \A x \in Posts, k \in Counters : <<x, k>> \notin drifted' => Shift(x, k, r)
      PROVE  Rooted' /\ Balance'
  <2>1. Rooted'
    <3>1. \A x \in Posts : LikesOf(x)' = LikesOf(x)
      BY <1>s DEF LikesOf
    <3>2. \A l \in likes : l[1] \in Posts
      BY <1>0
    <3>3. \A c \in Comments : comments[c].state = "live" => comments[c].post \in Posts
      BY DEF Sound, CommentsSound
    <3> QED
      BY <1>c, <1>r, <1>s, <3>1, <3>2, <3>3, RootedStep DEF Rooted
  <2> QED
    BY <1>r, <1>s, <2>1, ShiftStep
<1>i. ASSUME Return(r), UNCHANGED <<posts, likes, comments, drifted>>,
             NEW p \in Posts, p = request[r].post, ~Live(p)
      PROVE  Rooted' /\ Balance'
  <2>1. ASSUME NEW x \in Posts, NEW k \in Counters, posts[x].state = "live" PROVE Shift(x, k, r)
    <3>1. Ind(request[r], x, Inc(k)) = 0 /\ Ind(request[r], x, Dec(k)) = 0
      BY <1>i, <2>1 DEF Ind, Live
    <3>2. Ind(request'[r], x, Inc(k)) = 0 /\ Ind(request'[r], x, Dec(k)) = 0
      BY <1>c, <1>i, <1>r DEF Ind, Inc, Dec
    <3> QED
      BY <1>i, <3>1, <3>2, ShiftSame DEF Count, Rows, LikesOf, CommentsOf
  <2>2. Rooted'
    <3>1. \A x \in Posts : LikesOf(x)' = LikesOf(x)
      BY <1>i DEF LikesOf
    <3> QED
      BY <1>c, <1>i, <1>r, <3>1, RootedStep DEF Rooted
  <2> QED
    BY <1>i, <1>r, <2>1, <2>2, ShiftStep
<1>1. CASE CountLike(r)
  <2>1. PICK p \in Posts : p = request[r].post /\ request[r].pc = "count_like"
    BY <1>1 DEF CountLike, At, Sound, RequestsSound, RequestSound
  <2>2. CASE Live(p)
    <3>1. posts' = [posts EXCEPT ![p].likes_count = posts[p].likes_count + 1]
      BY <1>1, <2>1, <2>2 DEF CountLike
    <3>2. UNCHANGED drifted
      BY <1>1, <2>1, <2>2 DEF CountLike, history
    <3>3. /\ posts'[p].likes_count = posts[p].likes_count + 1 /\ posts'[p].comments_count = posts[p].comments_count
          /\ posts'[p].state = posts[p].state /\ \A x \in Posts : x # p => posts'[x] = posts[x]
      BY <1>0, <3>1 DEF Post
    <3>4. Return(r) /\ UNCHANGED <<likes, comments>>
      BY <1>1 DEF CountLike
    <3>5. ASSUME <<p, "likes">> \notin drifted' PROVE Shift(p, "likes", r)
      <4>1. /\ Ind(request'[r], p, Inc("likes")) = 0 /\ Ind(request'[r], p, Dec("likes")) = 0
            /\ Ind(request[r], p, Inc("likes")) = 1 /\ Ind(request[r], p, Dec("likes")) = 0
        BY <1>c, <1>r, <2>1, <3>4 DEF Ind
      <4>2. Count(p, "likes") \in Nat /\ Count(p, "likes")' = Count(p, "likes") + 1
        BY <1>0, <3>2, <3>3, <3>5 DEF Count, Post, Decremented
      <4>3. Rows(p, "likes")' = Rows(p, "likes") /\ Cardinality(Rows(p, "likes")) \in Nat
        BY <1>c, <1>n, <3>4 DEF Rows, LikesOf, CommentsOf
      <4> QED
        BY <4>1, <4>2, <4>3 DEF Shift
    <3>6. ASSUME NEW x \in Posts, NEW k \in Counters, <<x, k>> # <<p, "likes">> PROVE Shift(x, k, r)
      <4>1. Count(x, k)' = Count(x, k)
        BY <1>c, <3>3, <3>6 DEF Count
      <4>2. /\ Ind(request'[r], x, Inc(k)) = 0 /\ Ind(request[r], x, Inc(k)) = 0
            /\ Ind(request'[r], x, Dec(k)) = 0 /\ Ind(request[r], x, Dec(k)) = 0
        BY <1>c, <1>r, <2>1, <3>4, <3>6 DEF Ind
      <4> QED
        BY <3>4, <4>1, <4>2, ShiftSame DEF Rows, LikesOf, CommentsOf
    <3>7. \A x \in Posts : posts'[x].state = posts[x].state
      BY <3>3
    <3> QED
      BY <1>s, <3>2, <3>4, <3>5, <3>6, <3>7
  <2>3. CASE ~Live(p)
    BY <1>1, <1>i, <2>1, <2>3 DEF CountLike, history
  <2> QED
    BY <2>2, <2>3
<1>2. CASE UncountLike(r)
  <2>1. PICK p \in Posts : p = request[r].post /\ request[r].pc = "uncount_like"
    BY <1>2 DEF UncountLike, At, Sound, RequestsSound, RequestSound
  <2>2. CASE Live(p)
    <3>1. posts' = [posts EXCEPT ![p].likes_count = Decremented(posts[p].likes_count)]
      BY <1>2, <2>1, <2>2 DEF UncountLike
    <3>2. drifted' = IF posts[p].likes_count = 0 THEN drifted \cup {<<p, "likes">>} ELSE drifted
      BY <1>2, <2>1, <2>2 DEF UncountLike, history
    <3>3. /\ posts'[p].likes_count = Decremented(posts[p].likes_count) /\ posts'[p].comments_count = posts[p].comments_count
          /\ posts'[p].state = posts[p].state /\ \A x \in Posts : x # p => posts'[x] = posts[x]
      BY <1>0, <3>1 DEF Post
    <3>4. Return(r) /\ UNCHANGED <<likes, comments>>
      BY <1>2 DEF UncountLike
    <3>5. ASSUME <<p, "likes">> \notin drifted' PROVE Shift(p, "likes", r)
      <4>1. /\ Ind(request'[r], p, Inc("likes")) = 0 /\ Ind(request'[r], p, Dec("likes")) = 0
            /\ Ind(request[r], p, Inc("likes")) = 0 /\ Ind(request[r], p, Dec("likes")) = 1
        BY <1>c, <1>r, <2>1, <3>4 DEF Ind
      <4>2. Count(p, "likes") \in Nat /\ Count(p, "likes")' \in Nat /\ Count(p, "likes")' + 1 = Count(p, "likes")
        BY <1>0, <3>2, <3>3, <3>5 DEF Count, Post, Decremented
      <4>3. Rows(p, "likes")' = Rows(p, "likes") /\ Cardinality(Rows(p, "likes")) \in Nat
        BY <1>c, <1>n, <3>4 DEF Rows, LikesOf, CommentsOf
      <4> QED
        BY <4>1, <4>2, <4>3 DEF Shift
    <3>6. ASSUME NEW x \in Posts, NEW k \in Counters, <<x, k>> # <<p, "likes">> PROVE Shift(x, k, r)
      <4>1. Count(x, k)' = Count(x, k)
        BY <1>c, <3>3, <3>6 DEF Count
      <4>2. /\ Ind(request'[r], x, Inc(k)) = 0 /\ Ind(request[r], x, Inc(k)) = 0
            /\ Ind(request'[r], x, Dec(k)) = 0 /\ Ind(request[r], x, Dec(k)) = 0
        BY <1>c, <1>r, <2>1, <3>4, <3>6 DEF Ind
      <4> QED
        BY <3>4, <4>1, <4>2, ShiftSame DEF Rows, LikesOf, CommentsOf
    <3>7. \A x \in Posts : posts'[x].state = posts[x].state
      BY <3>3
    <3> QED
      BY <1>s, <3>2, <3>4, <3>5, <3>6, <3>7
  <2>3. CASE ~Live(p)
    BY <1>2, <1>i, <2>1, <2>3 DEF UncountLike, history
  <2> QED
    BY <2>2, <2>3
<1>3. CASE CountComment(r)
  <2>1. PICK p \in Posts : p = request[r].post /\ request[r].pc = "count_comment"
    BY <1>3 DEF CountComment, At, Sound, RequestsSound, RequestSound
  <2>2. CASE Live(p)
    <3>1. posts' = [posts EXCEPT ![p].comments_count = posts[p].comments_count + 1]
      BY <1>3, <2>1, <2>2 DEF CountComment
    <3>2. UNCHANGED drifted
      BY <1>3, <2>1, <2>2 DEF CountComment, history
    <3>3. /\ posts'[p].comments_count = posts[p].comments_count + 1 /\ posts'[p].likes_count = posts[p].likes_count
          /\ posts'[p].state = posts[p].state /\ \A x \in Posts : x # p => posts'[x] = posts[x]
      BY <1>0, <3>1 DEF Post
    <3>4. Return(r) /\ UNCHANGED <<likes, comments>>
      BY <1>3 DEF CountComment
    <3>5. ASSUME <<p, "comments">> \notin drifted' PROVE Shift(p, "comments", r)
      <4>1. /\ Ind(request'[r], p, Inc("comments")) = 0 /\ Ind(request'[r], p, Dec("comments")) = 0
            /\ Ind(request[r], p, Inc("comments")) = 1 /\ Ind(request[r], p, Dec("comments")) = 0
        BY <1>c, <1>r, <2>1, <3>4 DEF Ind
      <4>2. Count(p, "comments") \in Nat /\ Count(p, "comments")' = Count(p, "comments") + 1
        BY <1>0, <3>2, <3>3, <3>5 DEF Count, Post, Decremented
      <4>3. Rows(p, "comments")' = Rows(p, "comments") /\ Cardinality(Rows(p, "comments")) \in Nat
        BY <1>c, <1>n, <3>4 DEF Rows, LikesOf, CommentsOf
      <4> QED
        BY <4>1, <4>2, <4>3 DEF Shift
    <3>6. ASSUME NEW x \in Posts, NEW k \in Counters, <<x, k>> # <<p, "comments">> PROVE Shift(x, k, r)
      <4>1. Count(x, k)' = Count(x, k)
        BY <1>c, <3>3, <3>6 DEF Count
      <4>2. /\ Ind(request'[r], x, Inc(k)) = 0 /\ Ind(request[r], x, Inc(k)) = 0
            /\ Ind(request'[r], x, Dec(k)) = 0 /\ Ind(request[r], x, Dec(k)) = 0
        BY <1>c, <1>r, <2>1, <3>4, <3>6 DEF Ind
      <4> QED
        BY <3>4, <4>1, <4>2, ShiftSame DEF Rows, LikesOf, CommentsOf
    <3>7. \A x \in Posts : posts'[x].state = posts[x].state
      BY <3>3
    <3> QED
      BY <1>s, <3>2, <3>4, <3>5, <3>6, <3>7
  <2>3. CASE ~Live(p)
    BY <1>3, <1>i, <2>1, <2>3 DEF CountComment, history
  <2> QED
    BY <2>2, <2>3
<1>4. CASE UncountComment(r)
  <2>1. PICK p \in Posts : p = request[r].post /\ request[r].pc = "uncount_comment"
    BY <1>4 DEF UncountComment, At, Sound, RequestsSound, RequestSound
  <2>2. CASE Live(p)
    <3>1. posts' = [posts EXCEPT ![p].comments_count = Decremented(posts[p].comments_count)]
      BY <1>4, <2>1, <2>2 DEF UncountComment
    <3>2. drifted' = IF posts[p].comments_count = 0 THEN drifted \cup {<<p, "comments">>} ELSE drifted
      BY <1>4, <2>1, <2>2 DEF UncountComment, history
    <3>3. /\ posts'[p].comments_count = Decremented(posts[p].comments_count) /\ posts'[p].likes_count = posts[p].likes_count
          /\ posts'[p].state = posts[p].state /\ \A x \in Posts : x # p => posts'[x] = posts[x]
      BY <1>0, <3>1 DEF Post
    <3>4. Return(r) /\ UNCHANGED <<likes, comments>>
      BY <1>4 DEF UncountComment
    <3>5. ASSUME <<p, "comments">> \notin drifted' PROVE Shift(p, "comments", r)
      <4>1. /\ Ind(request'[r], p, Inc("comments")) = 0 /\ Ind(request'[r], p, Dec("comments")) = 0
            /\ Ind(request[r], p, Inc("comments")) = 0 /\ Ind(request[r], p, Dec("comments")) = 1
        BY <1>c, <1>r, <2>1, <3>4 DEF Ind
      <4>2. Count(p, "comments") \in Nat /\ Count(p, "comments")' \in Nat /\ Count(p, "comments")' + 1 = Count(p, "comments")
        BY <1>0, <3>2, <3>3, <3>5 DEF Count, Post, Decremented
      <4>3. Rows(p, "comments")' = Rows(p, "comments") /\ Cardinality(Rows(p, "comments")) \in Nat
        BY <1>c, <1>n, <3>4 DEF Rows, LikesOf, CommentsOf
      <4> QED
        BY <4>1, <4>2, <4>3 DEF Shift
    <3>6. ASSUME NEW x \in Posts, NEW k \in Counters, <<x, k>> # <<p, "comments">> PROVE Shift(x, k, r)
      <4>1. Count(x, k)' = Count(x, k)
        BY <1>c, <3>3, <3>6 DEF Count
      <4>2. /\ Ind(request'[r], x, Inc(k)) = 0 /\ Ind(request[r], x, Inc(k)) = 0
            /\ Ind(request'[r], x, Dec(k)) = 0 /\ Ind(request[r], x, Dec(k)) = 0
        BY <1>c, <1>r, <2>1, <3>4, <3>6 DEF Ind
      <4> QED
        BY <3>4, <4>1, <4>2, ShiftSame DEF Rows, LikesOf, CommentsOf
    <3>7. \A x \in Posts : posts'[x].state = posts[x].state
      BY <3>3
    <3> QED
      BY <1>s, <3>2, <3>4, <3>5, <3>6, <3>7
  <2>3. CASE ~Live(p)
    BY <1>4, <1>i, <2>1, <2>3 DEF UncountComment, history
  <2> QED
    BY <2>2, <2>3
<1> QED
  BY <1>1, <1>2, <1>3, <1>4

\* A new post starts without rows and owers, and a deleted one leaves no balance behind.
LEMMA PostRequests ==
  ASSUME Sound, Sound', PostsEvolve, Rooted, Balance, NEW r \in Requests,
         createPostInTx(r) \/ DeletePost(r)
  PROVE  Rooted' /\ Balance'
<1>0. /\ request \in [Requests -> Request] /\ posts \in [Posts -> Post] /\ comments \in [Comments -> Comment]
      /\ likes \subseteq Posts \X Users
      /\ \A c \in Comments : comments[c].state = "live" => comments[c].post \in Posts
  BY DEF Sound, TypeOK, CommentsSound
<1>c. {"idle", "create", "delete"} \cap (Owing \cup {"erase"}) = {} /\ \A k : Inc(k) \in Owing /\ Dec(k) \in Owing
  BY DEF Owing, Moving, Inc, Dec
<1>1. Return(r) /\ request[r].pc \in {"create", "delete"}
  BY DEF createPostInTx, DeletePost, At
<1>2. request'[r].pc = "idle" /\ OthersStay(r)
  BY <1>0, <1>1, IdleType DEF Return, OthersStay
<1>3. ASSUME NEW x \in Posts, NEW k \in Counters, posts'[x] = posts[x],
             LikesOf(x)' = LikesOf(x), CommentsOf(x)' = CommentsOf(x)
      PROVE  Shift(x, k, r)
  <2>1. /\ Ind(request[r], x, Inc(k)) = 0 /\ Ind(request[r], x, Dec(k)) = 0
        /\ Ind(request'[r], x, Inc(k)) = 0 /\ Ind(request'[r], x, Dec(k)) = 0
    BY <1>1, <1>2, <1>c DEF Ind
  <2>2. Count(x, k)' = Count(x, k) /\ Rows(x, k)' = Rows(x, k)
    BY <1>3 DEF Count, Rows
  <2> QED
    BY <2>1, <2>2, ShiftSame
<1>4. CASE createPostInTx(r)
  <2>1. PICK p \in Posts :
           /\ posts[p].state = "unused"
           /\ \E row : posts' = [posts EXCEPT ![p] =
                  [state |-> "live", user |-> request[r].user, station |-> request[r].station,
                   title |-> request[r].title, program |-> row, tags |-> request[r].tags,
                   likes_count |-> 0, comments_count |-> 0]]
    BY <1>4 DEF createPostInTx
  <2>2. /\ posts'[p].state = "live" /\ posts'[p].likes_count = 0 /\ posts'[p].comments_count = 0
        /\ \A x \in Posts : x # p => posts'[x] = posts[x]
    BY <1>0, <2>1
  <2>3. UNCHANGED <<likes, comments, drifted>>
    BY <1>4 DEF createPostInTx
  <2>4. \A x \in Posts : LikesOf(x)' = LikesOf(x) /\ CommentsOf(x)' = CommentsOf(x)
    BY <2>3 DEF LikesOf, CommentsOf
  <2>5. Rooted'
    <3>1. \A l \in likes' : posts'[l[1]].state = "live"
      BY <1>0, <2>1, <2>2, <2>3 DEF Rooted
    <3>2. \A c \in Comments : comments'[c].state = "live" => posts'[comments'[c].post].state = "live"
      BY <1>0, <2>1, <2>2, <2>3 DEF Rooted
    <3>3. \A x \in Posts : IsFiniteSet(LikesOf(x)')
      BY <2>4 DEF Rooted
    <3> QED
      BY <1>2, <1>c, <3>1, <3>2, <3>3, RootedStep
  <2>6. ASSUME NEW k \in Counters PROVE Balanced(p, k)'
    <3>1. Rows(p, k)' = {}
      BY <1>0, <2>1, <2>3 DEF Rows, LikesOf, CommentsOf, Rooted
    <3>2. ASSUME NEW pc \in Owing PROVE Owers(p, pc)' = {}
      <4>1. \A s \in Requests : request[s].pc = pc => request[s].post # p
        BY <2>1 DEF Rooted
      <4> QED
        BY <1>2, <1>c, <4>1 DEF Owers, At, OthersStay
    <3>3. Count(p, k)' = 0
      BY <2>2 DEF Count
    <3>4. /\ Cardinality(Rows(p, k)') = 0 /\ Cardinality(Owers(p, Inc(k))') = 0
          /\ Cardinality(Owers(p, Dec(k))') = 0
      BY <1>c, <3>1, <3>2, FS_EmptySet
    <3> QED
      BY <3>3, <3>4 DEF Balanced
  <2>7. ASSUME NEW x \in Posts, NEW k \in Counters, x # p PROVE Balanced(x, k)'
    <3>1. CASE posts[x].state = "live" /\ <<x, k>> \notin drifted
      BY <1>2, <1>3, <2>2, <2>4, <2>5, <2>7, <3>1, ShiftBalances DEF Balance
    <3>2. CASE ~(posts[x].state = "live" /\ <<x, k>> \notin drifted)
      BY <2>2, <2>3, <2>7, <3>2 DEF Balanced
    <3> QED
      BY <3>1, <3>2
  <2> QED
    BY <2>5, <2>6, <2>7 DEF Balance
<1>5. CASE DeletePost(r)
  <2>1. PICK p \in Posts : p = request[r].post
    BY <1>5 DEF DeletePost, At, Sound, RequestsSound, RequestSound
  <2>2. /\ posts' = [posts EXCEPT ![p] = [NoPost EXCEPT !.state = "deleted"]]
        /\ likes' = {l \in likes : l[1] # p}
        /\ comments' = [c \in Comments |->
              IF comments[c].post = p THEN [NoComment EXCEPT !.state = "deleted"] ELSE comments[c]]
        /\ drifted' = {d \in drifted : d[1] # p}
    BY <1>5, <2>1 DEF DeletePost
  <2>3. posts'[p].state = "deleted" /\ \A x \in Posts : x # p => posts'[x] = posts[x]
    BY <1>0, <2>2 DEF NoPost
  <2>4. \A c \in Comments : comments'[c].state = "live" => comments'[c] = comments[c] /\ comments[c].post # p
    BY <2>2 DEF NoComment
  <2>5. \A x \in Posts : x # p => LikesOf(x)' = LikesOf(x) /\ CommentsOf(x)' = CommentsOf(x)
    <3>1. ASSUME NEW x \in Posts, x # p PROVE LikesOf(x)' = LikesOf(x)
      BY <2>2, <3>1 DEF LikesOf
    <3>2. ASSUME NEW x \in Posts, x # p PROVE CommentsOf(x)' = CommentsOf(x)
      <4>1. \A c \in Comments : comments[c].post = x => comments'[c] = comments[c]
        BY <2>2, <3>2
      <4> QED
        BY <2>4, <4>1 DEF CommentsOf
    <3> QED
      BY <3>1, <3>2
  <2>6. Rooted'
    <3>1. \A l \in likes' : posts'[l[1]].state = "live"
      BY <1>0, <2>2, <2>3 DEF Rooted
    <3>2. \A c \in Comments : comments'[c].state = "live" => posts'[comments'[c].post].state = "live"
      BY <1>0, <2>3, <2>4 DEF Rooted
    <3>3. \A x \in Posts : IsFiniteSet(LikesOf(x)')
      <4>1. LikesOf(p)' = {}
        BY <2>2 DEF LikesOf
      <4> QED
        BY <2>5, <4>1, FS_EmptySet DEF Rooted
    <3> QED
      BY <1>2, <1>c, <3>1, <3>2, <3>3, RootedStep
  <2>7. ASSUME NEW x \in Posts, NEW k \in Counters, posts'[x].state = "live", <<x, k>> \notin drifted'
        PROVE  posts[x].state = "live" /\ <<x, k>> \notin drifted /\ Shift(x, k, r)
    BY <1>3, <2>2, <2>3, <2>5, <2>7
  <2> QED
    BY <1>2, <2>6, <2>7, ShiftStep
<1> QED
  BY <1>4, <1>5

\* A request that fails, like a crash, gives its debts up as drift.
LEMMA GiveUpStep ==
  ASSUME Sound, Sound', PostsEvolve, Rooted, Balance,
         (\E r \in Requests : Fail(r)) \/ CrashRestart
  PROVE  Rooted' /\ Balance'
<1>0. request \in [Requests -> Request] /\ "idle" \notin Owing \cup {"erase"}
      /\ \A k \in Counters : Inc(k) \in Moving[k] /\ Dec(k) \in Moving[k]
  BY DEF Sound, TypeOK, Owing, Moving, Inc, Dec, Counters
<1>1. UNCHANGED tables
  BY DEF Fail, CrashRestart
<1>2. \A s \in Requests : request'[s] = request[s] \/ (request'[s].pc = "idle" /\ Owed(s) \subseteq drifted')
  <2>1. ASSUME NEW r \in Requests, Fail(r)
        PROVE  \A s \in Requests : request'[s] = request[s] \/ (request'[s].pc = "idle" /\ Owed(s) \subseteq drifted')
    BY <1>0, <2>1, IdleType DEF Fail, Return
  <2>2. CASE CrashRestart
    <3>1. \A s \in Requests : request'[s].pc = "idle"
      BY <2>2, IdleType DEF CrashRestart
    <3>2. \A s \in Requests : Owed(s) \subseteq UNION {Owed(r) : r \in Requests}
      OBVIOUS
    <3> QED
      BY <2>2, <3>1, <3>2 DEF CrashRestart
  <2> QED
    BY <2>1, <2>2
<1>3. drifted \subseteq drifted'
  BY DEF Fail, CrashRestart
<1>4. Rooted'
  <2>1. \A x \in Posts : LikesOf(x)' = LikesOf(x)
    BY <1>1 DEF tables, LikesOf
  <2> QED
    BY <1>0, <1>1, <1>2, <2>1 DEF tables, Rooted
<1>5. ASSUME NEW p \in Posts, NEW k \in Counters, posts'[p].state = "live", <<p, k>> \notin drifted'
      PROVE  Balanced(p, k)'
  <2>1. ASSUME NEW pc \in Moving[k] PROVE Owers(p, pc)' = Owers(p, pc)
    <3>1. ASSUME NEW s \in Requests, request[s].pc = pc, request[s].post = p PROVE request'[s] = request[s]
      <4>1. <<p, k>> \in Posts \X Counters /\ posts[p].state = "live"
        BY <1>1, <1>5 DEF tables
      <4>2. <<p, k>> \in Owed(s)
        BY <2>1, <3>1, <4>1 DEF Owed, Live
      <4> QED
        BY <1>2, <1>5, <4>2
    <3>2. pc # "idle"
      BY <1>0 DEF Owing, Moving, Counters
    <3> QED
      BY <1>2, <3>1, <3>2 DEF Owers, At
  <2>2. Owers(p, Inc(k))' = Owers(p, Inc(k)) /\ Owers(p, Dec(k))' = Owers(p, Dec(k))
    BY <1>0, <2>1
  <2>3. Count(p, k)' = Count(p, k) /\ Rows(p, k)' = Rows(p, k)
    BY <1>1 DEF tables, Count, Rows, LikesOf, CommentsOf
  <2>4. Balanced(p, k) /\ posts[p].state = "live" /\ <<p, k>> \notin drifted
    BY <1>1, <1>3, <1>5 DEF tables, Balance
  <2> QED
    BY <2>2, <2>3, <2>4 DEF Balanced
<1>6. \A p \in Posts, k \in Counters : Balanced(p, k)'
  BY <1>5 DEF Balanced
<1> QED
  BY <1>4, <1>6 DEF Balance

\* Every step keeps rows and counters together.
LEMMA BalanceStep == Sound /\ Rooted /\ Balance /\ [Next]_vars => (Rooted /\ Balance)'
<1> SUFFICES ASSUME Sound, Rooted, Balance, [Next]_vars PROVE Rooted' /\ Balance'
  OBVIOUS
<1>1. Sound' /\ PostsEvolve
  BY SoundStep, Evolution
<1>2. CASE UNCHANGED <<tables, request, drifted>>
  BY <1>2 DEF tables, Rooted, Balance, Balanced, Count, Rows, LikesOf, CommentsOf, Owers, At
<1>3. CASE \E r \in Requests : HandleRequest(r)
  BY <1>1, <1>3, QuietRequests, RowRequests, CountRequests, PostRequests, GiveUpStep DEF HandleRequest
<1> QED
  BY <1>1, <1>2, <1>3, GiveUpStep DEF Next, vars, history, upsertRadioProgram, deleteDuplicateRecords

\* Whatever requests interleave, fail and crash, a counter differs from its rows by exactly the
\* updates still owed, unless something happened that the code cannot count.
THEOREM CountersHold == Spec => []CountersTrue
<1>1. Init => Rooted /\ Balance
  <2> SUFFICES ASSUME Init PROVE Rooted /\ Balance
    OBVIOUS
  <2>1. /\ likes = {} /\ (\A c \in Comments : comments[c].state = "unused")
        /\ (\A r \in Requests : request[r].pc = "idle") /\ (\A p \in Posts : posts[p].state = "unused")
    BY IdleType DEF Init, NoPost, NoComment
  <2>2. \A p \in Posts : LikesOf(p) = {}
    BY <2>1 DEF LikesOf
  <2>3. Rooted
    BY <2>1, <2>2, FS_EmptySet DEF Rooted, Owing, Moving
  <2> QED
    BY <2>1, <2>3 DEF Balance, Balanced
<1>2. Balance => CountersTrue
  BY DEF Balance, Balanced, CountersTrue, Count, Rows, Inc, Dec, Counters
<1> QED
  BY InitSound, SoundStep, BalanceStep, <1>1, <1>2, PTL DEF Spec
=============================================================================
